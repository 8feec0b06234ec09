---------------------------- MODULE MCRestart_proofs ----------------------------
(***************************************************************************)
(* SwapSettles of the hot update for any number of processes and swappers, *)
(* and ProofIsSound of the reboot for any number of clients, tokens and    *)
(* mishaps.                                                                *)
(***************************************************************************)
EXTENDS MCRestart, FiniteSetTheorems, TLAPS

-----------------------------------------------------------------------------
(***************************************************************************)
(* The hot update                                                          *)
(***************************************************************************)
PC == AgentPC \cup SwapperPC \cup {"unborn", "gone"}
Swappers == {p \in Proc : Swapping(p)}

\* Processes are born in the order of their numbers, and there is one left for
\* every swapper to launch.
Numbered == \E k \in Proc : Unborn = {p \in Proc : p > k}
Reserved == Cardinality(Swappers) <= Cardinality(Unborn)
PowerOff == ~power => \A p \in Proc : ~Alive(p)

Births == TypeOK /\ Numbered /\ Reserved /\ PowerOff

\* A swapper runs V9XNEW.EXE, which is therefore locked and stays whole.  An agent runs
\* from a whole file, which only NT lets be renamed under it.
Images == \A p \in Proc :
  /\ Swapping(p) => image[p] = "new" /\ file["new"] = "v2"
  /\ pc[p] \in AgentPC => /\ image[p] \in {"agent", "old"} /\ file[image[p]] \in Program
                          /\ image[p] = "old" => nt

\* One swapper copies at a time, and only one that was cut off leaves a torn program.
Copying ==
  /\ \A p, q \in Proc : pc[p] = "copying" /\ pc[q] = "copying" => p = q
  /\ (\E p \in Proc : pc[p] = "copying") => file["agent"] = "torn"
  /\ file["agent"] = "torn" => "cut" \in history \/ \E p \in Proc : pc[p] = "copying"
  /\ file["old"] = "torn" => "cut" \in history

\* However many swappers there are: while no copy has failed, a program that is missing
\* has one that is about to put it there.
Attended ==
  "cut" \notin history /\ faults = 0 /\ file["agent"] = "none" =>
    \E p \in Proc : pc[p] \in {"wait", "copy"}

\* Swappers that were never two at a time: each has left the old program to go back to.
Alone ==
  "cut" \notin history /\ "doubled" \notin history =>
    /\ \A p, q \in Proc : Swapping(p) /\ Swapping(q) => p = q
    /\ \A p \in Proc :
         /\ pc[p] \in {"check", "unlink", "rename", "drop", "launch"} => Bootable
         /\ pc[p] \in {"wait", "copy", "restore"} => file["agent"] = "none"
         /\ pc[p] \in {"wait", "copy", "copying", "restore"} => file["old"] \in Program
    /\ (\A p \in Proc : ~Swapping(p)) => Bootable

Files == Images /\ Copying /\ Attended /\ Alone

\* There are finitely many processes, and no gap among their numbers.
LEMMA ProcFinite ==
  /\ Proc \subseteq Nat /\ 1 \in Proc /\ IsFiniteSet(Proc)
  /\ \A p \in Proc : \A k \in Nat : k >= 1 /\ k <= p => k \in Proc
<1>1. PICK n \in Proc : Proc = 1 .. n
  BY SwapAssumption
<1>2. n \in Nat /\ n >= 1
  BY <1>1
<1>3. IsFiniteSet(Proc)
  BY <1>1, <1>2, FS_Interval
<1>4. Proc \subseteq Nat /\ 1 \in Proc
  BY <1>1, <1>2
<1>5. \A p \in Proc : \A k \in Nat : k >= 1 /\ k <= p => k \in Proc
  BY <1>1, <1>2
<1> QED BY <1>3, <1>4, <1>5

\* A birth takes the least of the unborn.
LEMMA BirthOrder ==
  ASSUME Numbered, Unborn # {}
  PROVE  /\ Next1 \in Proc /\ pc[Next1] = "unborn"
         /\ \E k \in Proc : Unborn \ {Next1} = {p \in Proc : p > k}
<1>1. PICK k \in Proc : Unborn = {p \in Proc : p > k}
  BY DEF Numbered
<1>2. k + 1 \in Unborn
  <2>1. PICK p \in Proc : p > k
    BY <1>1
  <2>2. k \in Nat /\ p \in Nat
    BY ProcFinite
  <2>3. k + 1 \in Nat /\ k + 1 >= 1 /\ k + 1 <= p /\ k + 1 > k
    BY <2>1, <2>2
  <2>4. k + 1 \in Proc
    BY <2>3, ProcFinite
  <2> QED BY <1>1, <2>3, <2>4
<1>3. \A p \in Unborn : k + 1 <= p
  BY <1>1, ProcFinite
<1>4. Next1 \in Unborn /\ \A q \in Unborn : Next1 <= q
  BY <1>2, <1>3 DEF Next1
<1>5. Next1 = k + 1
  BY <1>1, <1>2, <1>3, <1>4, ProcFinite
<1>6. Unborn \ {Next1} = {p \in Proc : p > k + 1}
  <2>1. \A p \in Proc : p > k /\ p # k + 1 <=> p > k + 1
    BY ProcFinite
  <2> QED BY <1>1, <1>5, <2>1
<1>7. k + 1 \in Proc /\ pc[Next1] = "unborn"
  BY <1>2, <1>4 DEF Unborn
<1> QED BY <1>4, <1>6, <1>7 DEF Unborn

\* What the counts of Room come to as processes come and go.
LEMMA Counts ==
  /\ IsFiniteSet(Unborn) /\ IsFiniteSet(Swappers)
  /\ Cardinality(Unborn) \in Nat /\ Cardinality(Swappers) \in Nat
  /\ \A p \in Unborn : /\ Cardinality(Unborn \ {p}) = Cardinality(Unborn) - 1
                       /\ Cardinality(Unborn \ {p}) >= 0
  /\ \A p \in Swappers : Cardinality(Swappers \ {p}) = Cardinality(Swappers) - 1
  /\ \A p \in Proc : Cardinality(Swappers \cup {p}) \in 0 .. Cardinality(Swappers) + 1
  /\ Cardinality({}) = 0
<1>1. IsFiniteSet(Unborn) /\ IsFiniteSet(Swappers)
  BY ProcFinite, FS_Subset DEF Unborn, Swappers
<1>2. Cardinality(Unborn) \in Nat /\ Cardinality(Swappers) \in Nat
  BY <1>1, FS_CardinalityType
<1>3. \A p \in Unborn : /\ Cardinality(Unborn \ {p}) = Cardinality(Unborn) - 1
                        /\ Cardinality(Unborn \ {p}) >= 0
  <2> SUFFICES ASSUME NEW p \in Unborn
               PROVE  /\ Cardinality(Unborn \ {p}) = Cardinality(Unborn) - 1
                      /\ Cardinality(Unborn \ {p}) >= 0
    OBVIOUS
  <2>1. IsFiniteSet(Unborn \ {p}) /\ Cardinality(Unborn \ {p}) = Cardinality(Unborn) - 1
    BY <1>1, FS_RemoveElement
  <2> QED BY <2>1, FS_CardinalityType
<1>4. \A p \in Swappers : Cardinality(Swappers \ {p}) = Cardinality(Swappers) - 1
  BY <1>1, FS_RemoveElement
<1>5. \A p \in Proc : Cardinality(Swappers \cup {p}) \in 0 .. Cardinality(Swappers) + 1
  <2> SUFFICES ASSUME NEW p \in Proc
               PROVE  Cardinality(Swappers \cup {p}) \in 0 .. Cardinality(Swappers) + 1
    OBVIOUS
  <2>1. Cardinality(Swappers \cup {p}) =
          IF p \in Swappers THEN Cardinality(Swappers) ELSE Cardinality(Swappers) + 1
    BY <1>1, FS_AddElement
  <2> QED BY <1>2, <2>1
<1> QED BY <1>1, <1>2, <1>3, <1>4, <1>5, FS_EmptySet

\* There is a process left to be born wherever one is.
LEMMA SpareProcess ==
  ASSUME Reserved, Room \/ \E p \in Proc : Swapping(p)
  PROVE  Unborn # {}
<1>1. CASE Room
  BY <1>1, Counts, FS_EmptySet DEF Room, Swappers
<1>2. CASE \E p \in Proc : Swapping(p)
  BY <1>2, Counts, FS_EmptySet DEF Reserved, Swappers
<1> QED BY <1>1, <1>2

\* A process that goes on, or ends.
LEMMA GoesOn ==
  ASSUME Births, NEW p \in Proc, Alive(p), NEW label \in PC \ {"unborn"}, Goto(p, label),
         label \in SwapperPC => Swapping(p), UNCHANGED power
  PROVE  /\ pc' \in [Proc -> PC] /\ Numbered' /\ Reserved' /\ PowerOff'
<1> USE DEF Births, TypeOK, PC, AgentPC, SwapperPC
<1>1. pc' \in [Proc -> PC] /\ pc'[p] = label /\ \A q \in Proc \ {p} : pc'[q] = pc[q]
  BY DEF Goto
<1>2. Unborn' = Unborn
  BY <1>1 DEF Unborn, Alive
<1>3. Swappers' = Swappers \/ (p \in Swappers /\ Swappers' = Swappers \ {p})
  BY <1>1 DEF Swappers, Swapping
<1>4. Reserved'
  <2>1. Cardinality(Swappers) <= Cardinality(Unborn)
    BY DEF Reserved
  <2>2. Cardinality(Swappers') <= Cardinality(Unborn')
    BY <1>2, <1>3, <2>1, Counts
  <2> QED BY <2>2 DEF Reserved
<1>5. PowerOff'
  BY <1>1 DEF PowerOff, Alive
<1> QED BY <1>1, <1>2, <1>4, <1>5 DEF Numbered

\* A birth, of a swapper or of an agent; the parent goes on or ends.
LEMMA IsBorn ==
  ASSUME Births, Unborn # {}, NEW p \in Proc, Alive(p) \/ p = Next1,
         NEW label \in PC \ {"unborn"}, NEW first \in {"mutex", "check"},
         pc' = [pc EXCEPT ![p] = label, ![Next1] = first],
         label \in SwapperPC => Swapping(p), power'
  PROVE  /\ pc' \in [Proc -> PC] /\ Numbered' /\ PowerOff'
         /\ pc'[Next1] = first /\ (p # Next1 => pc'[p] = label)
         /\ \A q \in Proc \ {p, Next1} : pc'[q] = pc[q]
         /\ Unborn' = Unborn \ {Next1}
<1> USE DEF Births, TypeOK, PC, AgentPC, SwapperPC
<1>1. Next1 \in Proc /\ pc[Next1] = "unborn"
  BY BirthOrder
<1>2. /\ pc' \in [Proc -> PC]
      /\ pc'[Next1] = first /\ (p # Next1 => pc'[p] = label)
      /\ \A q \in Proc \ {p, Next1} : pc'[q] = pc[q]
  BY <1>1
<1>3. Unborn' = Unborn \ {Next1}
  BY <1>1, <1>2 DEF Unborn, Alive
<1>4. Numbered'
  BY <1>3, BirthOrder DEF Numbered
<1> QED BY <1>2, <1>3, <1>4 DEF PowerOff

\* A swapper ends with the birth that was kept for it.
LEMMA LaunchBirths ==
  ASSUME Births, NEW p \in Proc, Launch(p)
  PROVE  Births'
<1> USE DEF TypeOK
<1>1. Swapping(p) /\ Alive(p) /\ p \in Swappers
  BY DEF Launch, Swapping, Alive, SwapperPC, Swappers
<1>2. Unborn # {} /\ power
  BY <1>1, SpareProcess DEF Births, PowerOff, Alive
<1>3. /\ pc' = [pc EXCEPT ![p] = "gone", ![Next1] = "mutex"]
      /\ UNCHANGED <<nt, power, file, faults, history>>
      /\ file["agent"] \in Program
      /\ image' = [image EXCEPT ![Next1] = "agent"]
      /\ program' = [program EXCEPT ![Next1] = file["agent"]]
  BY DEF Launch, LaunchAgent, CanLaunch
<1>4. /\ pc' \in [Proc -> PC] /\ Numbered' /\ PowerOff'
      /\ pc'[Next1] = "mutex" /\ (p # Next1 => pc'[p] = "gone")
      /\ \A q \in Proc \ {p, Next1} : pc'[q] = pc[q]
      /\ Unborn' = Unborn \ {Next1}
  BY <1>1, <1>2, <1>3, IsBorn DEF PC, SwapperPC, AgentPC
<1>5. Next1 \in Unborn
  BY <1>2, BirthOrder DEF Births, Unborn
<1>6. p # Next1
  BY <1>1, <1>5 DEF Unborn, Alive, AgentPC, SwapperPC
<1>7. Swappers' = Swappers \ {p}
  BY <1>4, <1>5, <1>6 DEF Swappers, Swapping, SwapperPC, Unborn
<1>8. Reserved'
  <2>1. Cardinality(Swappers) <= Cardinality(Unborn)
    BY DEF Reserved, Births
  <2>2. Cardinality(Swappers') <= Cardinality(Unborn')
    BY <1>1, <1>4, <1>5, <1>7, <2>1, Counts
  <2> QED BY <2>2 DEF Reserved
<1>9. image' \in [Proc -> Name] /\ program' \in [Proc -> Program]
  BY <1>3 DEF Births, Name
<1> QED BY <1>3, <1>4, <1>8, <1>9 DEF Births, PC

\* Restart and UPDATE_REQUEST look for room first; the power that comes back finds no
\* swapper; a machine that goes down takes its processes with it.
LEMMA RestartBirths ==
  ASSUME Births, NEW p \in Proc, Restart(p)
  PROVE  Births'
<1> USE DEF TypeOK
<1>1. Alive(p) /\ ~Swapping(p) /\ pc[p] # "unborn"
  BY DEF Restart, Swapping, Alive, SwapperPC, AgentPC
<1>2. Unborn # {} /\ power
  BY <1>1, SpareProcess DEF Births, PowerOff, Alive, Restart
<1>3. /\ pc' = [pc EXCEPT ![p] = "leaving", ![Next1] = "mutex"]
      /\ UNCHANGED <<nt, power, file, faults>>
      /\ file["agent"] \in Program
      /\ image' = [image EXCEPT ![Next1] = "agent"]
      /\ program' = [program EXCEPT ![Next1] = file["agent"]]
      /\ history' \subseteq Event
  BY DEF Restart, LaunchAgent, CanLaunch, Event, Births
<1>4. /\ pc' \in [Proc -> PC] /\ Numbered' /\ PowerOff'
      /\ pc'[Next1] = "mutex" /\ (p # Next1 => pc'[p] = "leaving")
      /\ \A q \in Proc \ {p, Next1} : pc'[q] = pc[q]
      /\ Unborn' = Unborn \ {Next1}
  BY <1>1, <1>2, <1>3, IsBorn DEF PC, SwapperPC, AgentPC
<1>5. Next1 \in Unborn
  BY <1>2, BirthOrder DEF Births, Unborn
<1>6. Swappers' = Swappers
  BY <1>1, <1>4, <1>5 DEF Swappers, Swapping, SwapperPC, Unborn
<1>7. Reserved'
  <2>1. Cardinality(Swappers) <= Cardinality(Unborn) - 1
    BY Counts DEF Restart, Room, Swappers
  <2>2. Cardinality(Swappers') <= Cardinality(Unborn')
    BY <1>4, <1>5, <1>6, <2>1, Counts
  <2> QED BY <2>2 DEF Reserved
<1>8. image' \in [Proc -> Name] /\ program' \in [Proc -> Program]
  BY <1>3 DEF Births, Name
<1> QED BY <1>3, <1>4, <1>7, <1>8 DEF Births, PC

LEMMA UpdateBirths ==
  ASSUME Births, NEW p \in Proc, Update(p)
  PROVE  Births'
<1> USE DEF TypeOK
<1>1. Alive(p) /\ ~Swapping(p) /\ pc[p] # "unborn"
  BY DEF Update, Swapping, Alive, SwapperPC, AgentPC
<1>2. Unborn # {} /\ power
  BY <1>1, SpareProcess DEF Births, PowerOff, Alive, Update
<1>3. PICK label \in {"serve", "exiting", "leaving"} :
         pc' = [pc EXCEPT ![p] = label, ![Next1] = "check"]
  BY DEF Update
<1>4. /\ UNCHANGED <<nt, power, file, program, faults>>
      /\ image' = [image EXCEPT ![Next1] = "new"]
      /\ history' \subseteq Event
  BY DEF Update, Event, Births
<1>5. /\ pc' \in [Proc -> PC] /\ Numbered' /\ PowerOff'
      /\ pc'[Next1] = "check" /\ (p # Next1 => pc'[p] = label)
      /\ \A q \in Proc \ {p, Next1} : pc'[q] = pc[q]
      /\ Unborn' = Unborn \ {Next1}
  BY <1>1, <1>2, <1>3, <1>4, IsBorn DEF PC, SwapperPC, AgentPC
<1>6. Next1 \in Unborn
  BY <1>2, BirthOrder DEF Births, Unborn
<1>7. Swappers' = Swappers \cup {Next1}
  BY <1>1, <1>5, <1>6 DEF Swappers, Swapping, SwapperPC, Unborn
<1>8. Cardinality(Unborn) > 1 + Cardinality(Swappers)
  BY DEF Update, Room, Swappers
<1>9. Reserved'
  <2>1. Next1 \in Proc
    BY <1>6 DEF Unborn
  <2>2. Cardinality(Swappers') <= Cardinality(Unborn')
    BY <1>5, <1>6, <1>7, <1>8, <2>1, Counts
  <2> QED BY <2>2 DEF Reserved
<1>10. image' \in [Proc -> Name]
  BY <1>4 DEF Births, Name
<1> QED BY <1>4, <1>5, <1>9, <1>10 DEF Births, PC

LEMMA BootBirths ==
  ASSUME Births, Boot
  PROVE  Births'
<1> USE DEF TypeOK
<1>1. CASE CanLaunch
  <2>1. /\ pc' = [pc EXCEPT ![Next1] = "mutex", ![Next1] = "mutex"]
        /\ file["agent"] \in Program
        /\ image' = [image EXCEPT ![Next1] = "agent"]
        /\ program' = [program EXCEPT ![Next1] = file["agent"]]
        /\ UNCHANGED <<nt, file, faults, history>> /\ power' = TRUE
    BY <1>1 DEF Boot, LaunchAgent, CanLaunch
  <2>2. Unborn # {} /\ Next1 \in Proc
    BY BirthOrder DEF Boot, Births
  <2>3. /\ pc' \in [Proc -> PC] /\ Numbered' /\ PowerOff'
        /\ pc'[Next1] = "mutex"
        /\ \A q \in Proc \ {Next1} : pc'[q] = pc[q]
        /\ Unborn' = Unborn \ {Next1}
    BY <2>1, <2>2, IsBorn DEF PC, SwapperPC, AgentPC
  <2>4. \A q \in Proc : ~Alive(q)
    BY DEF Boot, Births, PowerOff
  <2>5. Swappers' = {}
    BY <2>2, <2>3, <2>4 DEF Swappers, Swapping, Alive, SwapperPC
  <2>6. Reserved'
    <3>1. Next1 \in Unborn
      BY <2>2, BirthOrder DEF Births, Boot, Unborn
    <3>2. Cardinality(Swappers') <= Cardinality(Unborn')
      BY <2>3, <2>5, <3>1, Counts
    <3> QED BY <3>2 DEF Reserved
  <2>7. image' \in [Proc -> Name] /\ program' \in [Proc -> Program]
    BY <2>1 DEF Births, Name
  <2> QED BY <2>1, <2>3, <2>6, <2>7 DEF Births, PC
<1>2. CASE ~CanLaunch
  <2>1. UNCHANGED <<nt, file, faults, history, pc, image, program>> /\ power' = TRUE
    BY <1>2 DEF Boot
  <2>2. Swappers' = Swappers /\ Unborn' = Unborn
    BY <2>1 DEF Swappers, Swapping, Unborn
  <2> QED BY <2>1, <2>2 DEF Births, Numbered, Reserved, PowerOff
<1> QED BY <1>1, <1>2

LEMMA CrashBirths ==
  ASSUME Births, Crash
  PROVE  Births'
<1> USE DEF TypeOK
<1>1. /\ pc' \in [Proc -> PC] /\ \A q \in Proc : ~Alive(q)' /\ ~Swapping(q)'
      /\ \A q \in Proc : pc'[q] = "unborn" <=> pc[q] = "unborn"
  BY DEF Crash, Births, Alive, Swapping, PC, AgentPC, SwapperPC
<1>2. Unborn' = Unborn /\ Swappers' = {}
  BY <1>1 DEF Unborn, Swappers
<1>3. history' \subseteq Event /\ power' = FALSE
  BY DEF Crash, Births, Event
<1>4. Reserved'
  BY <1>2, Counts, FS_EmptySet DEF Reserved
<1> QED BY <1>1, <1>2, <1>3, <1>4 DEF Births, Numbered, PowerOff, Crash, PC

\* All the other steps are one process that goes on or ends.
LEMMA BirthsStep ==
  ASSUME Births, [Next]_vars
  PROVE  Births'
<1> DEFINE Shape == /\ nt' \in BOOLEAN /\ history' \subseteq Event /\ power' = power
                    /\ file' \in [Name -> Content] /\ image' \in [Proc -> Name]
                    /\ program' \in [Proc -> Program] /\ faults' \in 0 .. CopyFaults
<1>1. ASSUME NEW p \in Proc, NEW label \in PC \ {"unborn"}, Alive(p), Goto(p, label),
             label \in SwapperPC => Swapping(p), Shape
      PROVE  Births'
  BY <1>1, GoesOn DEF Births, TypeOK, PC
<1> HIDE DEF Shape
<1>2. ASSUME NEW p \in Proc, TakeMutex(p) PROVE Births'
  <2> DEFINE label == "cleanup"
  <2>1. Alive(p) /\ label \in PC \ {"unborn"} /\ (label \in SwapperPC => Swapping(p))
    BY <1>2 DEF TakeMutex, Alive, Swapping, PC, AgentPC, SwapperPC
  <2>2. Goto(p, label)
    BY <1>2 DEF TakeMutex
  <2>3. Shape
    BY <1>2 DEF TakeMutex, Shape, Births, TypeOK
  <2> HIDE DEF label
  <2> QED BY <1>1, <2>1, <2>2, <2>3
<1>3. ASSUME NEW p \in Proc, GiveUpMutex(p) PROVE Births'
  <2> DEFINE label == "gone"
  <2>1. Alive(p) /\ label \in PC \ {"unborn"} /\ (label \in SwapperPC => Swapping(p))
    BY <1>3 DEF GiveUpMutex, Alive, Swapping, PC, AgentPC, SwapperPC
  <2>2. Goto(p, label)
    BY <1>3 DEF GiveUpMutex
  <2>3. Shape
    BY <1>3 DEF GiveUpMutex, Shape, Births, TypeOK
  <2> HIDE DEF label
  <2> QED BY <1>1, <2>1, <2>2, <2>3
<1>4. ASSUME NEW p \in Proc, Cleanup(p) PROVE Births'
  <2> DEFINE label == "serve"
  <2>1. Alive(p) /\ label \in PC \ {"unborn"} /\ (label \in SwapperPC => Swapping(p))
    BY <1>4 DEF Cleanup, Alive, Swapping, PC, AgentPC, SwapperPC
  <2>2. Goto(p, label)
    BY <1>4 DEF Cleanup
  <2>3. Shape
    BY <1>4 DEF Cleanup, Shape, Births, TypeOK, Delete, Name, Content
  <2> HIDE DEF label
  <2> QED BY <1>1, <2>1, <2>2, <2>3
<1>5. ASSUME NEW p \in Proc, ExitProcess(p) PROVE Births'
  <2> DEFINE label == "gone"
  <2>1. Alive(p) /\ label \in PC \ {"unborn"} /\ (label \in SwapperPC => Swapping(p))
    BY <1>5 DEF ExitProcess, Alive, Swapping, PC, AgentPC, SwapperPC
  <2>2. Goto(p, label)
    BY <1>5 DEF ExitProcess
  <2>3. Shape
    BY <1>5 DEF ExitProcess, Shape, Births, TypeOK
  <2> HIDE DEF label
  <2> QED BY <1>1, <2>1, <2>2, <2>3
<1>6. ASSUME NEW p \in Proc, Check(p) PROVE Births'
  <2> DEFINE label == IF file["agent"] = "none" THEN AgentGone ELSE "unlink"
  <2>1. Alive(p) /\ label \in PC \ {"unborn"} /\ (label \in SwapperPC => Swapping(p))
    BY <1>6 DEF Check, Alive, Swapping, PC, AgentPC, SwapperPC, AgentGone
  <2>2. Goto(p, label)
    BY <1>6 DEF Check, AgentGone
  <2>3. Shape
    BY <1>6 DEF Check, Shape, Births, TypeOK
  <2> HIDE DEF label
  <2> QED BY <1>1, <2>1, <2>2, <2>3
<1>7. ASSUME NEW p \in Proc, Unlink(p) PROVE Births'
  <2> DEFINE label == "rename"
  <2>1. Alive(p) /\ label \in PC \ {"unborn"} /\ (label \in SwapperPC => Swapping(p))
    BY <1>7 DEF Unlink, Alive, Swapping, PC, AgentPC, SwapperPC
  <2>2. Goto(p, label)
    BY <1>7 DEF Unlink
  <2>3. Shape
    BY <1>7 DEF Unlink, Shape, Births, TypeOK, Delete, Name, Content
  <2> HIDE DEF label
  <2> QED BY <1>1, <2>1, <2>2, <2>3
<1>8. ASSUME NEW p \in Proc, Rename(p) PROVE Births'
  <2> DEFINE label == AgentGone
  <2>1. Alive(p) /\ label \in PC \ {"unborn"} /\ (label \in SwapperPC => Swapping(p))
    BY <1>8 DEF Rename, Alive, Swapping, PC, AgentPC, SwapperPC, AgentGone
  <2>2. Goto(p, label)
    BY <1>8 DEF Rename
  <2>3. Shape
    BY <1>8 DEF Rename, Shape, Births, TypeOK, Move, Name, Content
  <2> HIDE DEF label
  <2> QED BY <1>1, <2>1, <2>2, <2>3
<1>9. ASSUME NEW p \in Proc, RenameFails(p) PROVE Births'
  <2> DEFINE label == "check"
  <2>1. Alive(p) /\ label \in PC \ {"unborn"} /\ (label \in SwapperPC => Swapping(p))
    BY <1>9 DEF RenameFails, Alive, Swapping, PC, AgentPC, SwapperPC
  <2>2. Goto(p, label)
    BY <1>9 DEF RenameFails
  <2>3. Shape
    BY <1>9 DEF RenameFails, Shape, Births, TypeOK
  <2> HIDE DEF label
  <2> QED BY <1>1, <2>1, <2>2, <2>3
<1>10. ASSUME NEW p \in Proc, RenameExpires(p) PROVE Births'
  <2> DEFINE label == "gone"
  <2>1. Alive(p) /\ label \in PC \ {"unborn"} /\ (label \in SwapperPC => Swapping(p))
    BY <1>10 DEF RenameExpires, Alive, Swapping, PC, AgentPC, SwapperPC
  <2>2. Goto(p, label)
    BY <1>10 DEF RenameExpires
  <2>3. Shape
    BY <1>10 DEF RenameExpires, Shape, Births, TypeOK
  <2> HIDE DEF label
  <2> QED BY <1>1, <2>1, <2>2, <2>3
<1>11. ASSUME NEW p \in Proc, MutexGone(p) PROVE Births'
  <2> DEFINE label == "copy"
  <2>1. Alive(p) /\ label \in PC \ {"unborn"} /\ (label \in SwapperPC => Swapping(p))
    BY <1>11 DEF MutexGone, Alive, Swapping, PC, AgentPC, SwapperPC
  <2>2. Goto(p, label)
    BY <1>11 DEF MutexGone
  <2>3. Shape
    BY <1>11 DEF MutexGone, Shape, Births, TypeOK
  <2> HIDE DEF label
  <2> QED BY <1>1, <2>1, <2>2, <2>3
<1>12. ASSUME NEW p \in Proc, WaitExpires(p) PROVE Births'
  <2> DEFINE label == "gone"
  <2>1. Alive(p) /\ label \in PC \ {"unborn"} /\ (label \in SwapperPC => Swapping(p))
    BY <1>12 DEF WaitExpires, Alive, Swapping, PC, AgentPC, SwapperPC
  <2>2. Goto(p, label)
    BY <1>12 DEF WaitExpires
  <2>3. Shape
    BY <1>12 DEF WaitExpires, Shape, Births, TypeOK, Move, Name, Content
  <2> HIDE DEF label
  <2> QED BY <1>1, <2>1, <2>2, <2>3
<1>13. ASSUME NEW p \in Proc, Copy(p) PROVE Births'
  <2> DEFINE label == "copying"
  <2>1. Alive(p) /\ label \in PC \ {"unborn"} /\ (label \in SwapperPC => Swapping(p))
    BY <1>13 DEF Copy, Alive, Swapping, PC, AgentPC, SwapperPC
  <2>2. Goto(p, label)
    BY <1>13 DEF Copy
  <2>3. Shape
    BY <1>13 DEF Copy, Shape, Births, TypeOK, Name, Content
  <2> HIDE DEF label
  <2> QED BY <1>1, <2>1, <2>2, <2>3
<1>14. ASSUME NEW p \in Proc, CopyDone(p) PROVE Births'
  <2> DEFINE label == "drop"
  <2>1. Alive(p) /\ label \in PC \ {"unborn"} /\ (label \in SwapperPC => Swapping(p))
    BY <1>14 DEF CopyDone, Alive, Swapping, PC, AgentPC, SwapperPC
  <2>2. Goto(p, label)
    BY <1>14 DEF CopyDone
  <2>3. Shape
    BY <1>14 DEF CopyDone, Shape, Births, TypeOK, Name, Content
  <2> HIDE DEF label
  <2> QED BY <1>1, <2>1, <2>2, <2>3
<1>15. ASSUME NEW p \in Proc, CopyFails(p) PROVE Births'
  <2> DEFINE label == "restore"
  <2>1. Alive(p) /\ label \in PC \ {"unborn"} /\ (label \in SwapperPC => Swapping(p))
    BY <1>15 DEF CopyFails, Alive, Swapping, PC, AgentPC, SwapperPC
  <2>2. Goto(p, label)
    BY <1>15 DEF CopyFails
  <2>3. Shape
    BY <1>15, SwapAssumption DEF CopyFails, Shape, Births, TypeOK, Name, Content
  <2> HIDE DEF label
  <2> QED BY <1>1, <2>1, <2>2, <2>3
<1>16. ASSUME NEW p \in Proc, Restore(p) PROVE Births'
  <2> DEFINE label == "gone"
  <2>1. Alive(p) /\ label \in PC \ {"unborn"} /\ (label \in SwapperPC => Swapping(p))
    BY <1>16 DEF Restore, Alive, Swapping, PC, AgentPC, SwapperPC
  <2>2. Goto(p, label)
    BY <1>16 DEF Restore
  <2>3. Shape
    BY <1>16 DEF Restore, Shape, Births, TypeOK, Move, Name, Content
  <2> HIDE DEF label
  <2> QED BY <1>1, <2>1, <2>2, <2>3
<1>17. ASSUME NEW p \in Proc, Drop(p) PROVE Births'
  <2> DEFINE label == "launch"
  <2>1. Alive(p) /\ label \in PC \ {"unborn"} /\ (label \in SwapperPC => Swapping(p))
    BY <1>17 DEF Drop, Alive, Swapping, PC, AgentPC, SwapperPC
  <2>2. Goto(p, label)
    BY <1>17 DEF Drop
  <2>3. Shape
    BY <1>17 DEF Drop, Shape, Births, TypeOK, Delete, Name, Content
  <2> HIDE DEF label
  <2> QED BY <1>1, <2>1, <2>2, <2>3
<1>18. ASSUME NEW p \in Proc, LaunchFails(p) PROVE Births'
  <2> DEFINE label == "gone"
  <2>1. Alive(p) /\ label \in PC \ {"unborn"} /\ (label \in SwapperPC => Swapping(p))
    BY <1>18 DEF LaunchFails, Alive, Swapping, PC, AgentPC, SwapperPC
  <2>2. Goto(p, label)
    BY <1>18 DEF LaunchFails
  <2>3. Shape
    BY <1>18 DEF LaunchFails, Shape, Births, TypeOK
  <2> HIDE DEF label
  <2> QED BY <1>1, <2>1, <2>2, <2>3
<1>19. ASSUME NEW p \in Proc, Stage(p) PROVE Births'
  <2>1. UNCHANGED <<nt, power, pc, image, program, faults, history>> /\ file' \in [Name -> Content]
    BY <1>19 DEF Stage, Births, TypeOK, Name, Content
  <2>2. Unborn' = Unborn /\ Swappers' = Swappers
    BY <2>1 DEF Unborn, Swappers, Swapping
  <2> QED BY <2>1, <2>2 DEF Births, TypeOK, Numbered, Reserved, PowerOff, Alive
<1>20. CASE UNCHANGED vars
  <2>1. Unborn' = Unborn /\ Swappers' = Swappers
    BY <1>20 DEF Unborn, Swappers, Swapping, vars
  <2> QED BY <1>20, <2>1 DEF Births, TypeOK, Numbered, Reserved, PowerOff, Alive, vars
<1> QED
  BY <1>2, <1>3, <1>4, <1>5, <1>6, <1>7, <1>8, <1>9, <1>10, <1>11, <1>12, <1>13, <1>14, <1>15,
     <1>16, <1>17, <1>18, <1>19, <1>20,
     LaunchBirths, RestartBirths, UpdateBirths, BootBirths, CrashBirths
     DEF Next, AgentRuns, SwapperRuns

\* What is said of the files and images, through every step but a birth.
LEMMA FilesKept ==
  ASSUME Births, Files, NEW p \in Proc, AgentRuns(p) \/ SwapperRuns(p) \/ Stage(p), ~Launch(p)
  PROVE  Files'
<1> USE DEF AgentPC, SwapperPC, Program, Goto, Swapping, Bootable
<1>0. /\ nt \in BOOLEAN /\ history \subseteq Event /\ file \in [Name -> Content]
      /\ pc \in [Proc -> PC] /\ image \in [Proc -> Name] /\ faults \in Nat
      /\ \A n \in Name : file[n] \in Content
      /\ \A n \in {"agent", "old", "new"} : n \in Name
  BY SwapAssumption DEF Births, TypeOK, PC, Name
<1>1. ASSUME TakeMutex(p) PROVE Files'
  <2>1. Images'
    BY <1>0, <1>1 DEF TakeMutex, Files, Images, PC
  <2>2. Copying'
    BY <1>0, <1>1 DEF TakeMutex, Files, Images, Copying, PC
  <2>3. Attended'
    BY <1>0, <1>1 DEF TakeMutex, Files, Images, Copying, Attended, PC
  <2>4. Alone'
    BY <1>0, <1>1 DEF TakeMutex, Files, Images, Copying, Alone, PC
  <2> QED BY <2>1, <2>2, <2>3, <2>4 DEF Files
<1>2. ASSUME GiveUpMutex(p) PROVE Files'
  <2>1. Images'
    BY <1>0, <1>2 DEF GiveUpMutex, Files, Images, PC
  <2>2. Copying'
    BY <1>0, <1>2 DEF GiveUpMutex, Files, Images, Copying, PC
  <2>3. Attended'
    BY <1>0, <1>2 DEF GiveUpMutex, Files, Images, Copying, Attended, PC
  <2>4. Alone'
    BY <1>0, <1>2 DEF GiveUpMutex, Files, Images, Copying, Alone, PC
  <2> QED BY <2>1, <2>2, <2>3, <2>4 DEF Files
<1>3. ASSUME Cleanup(p) PROVE Files'
  <2>1. Images'
    BY <1>0, <1>3 DEF Cleanup, Files, Images, PC, Delete, Locked, Written, Mapped, Alive
  <2>2. Copying'
    BY <1>0, <1>3
       DEF Cleanup, Files, Images, Copying, PC, Delete, Locked, Written, Mapped, Alive
  <2>3. Attended'
    BY <1>0, <1>3
       DEF Cleanup, Files, Images, Copying, Attended, PC, Delete, Locked, Written, Mapped, Alive
  <2>4. Alone'
    BY <1>0, <1>3
       DEF Cleanup, Files, Images, Copying, Alone, PC, Delete, Locked, Written, Mapped, Alive
  <2> QED BY <2>1, <2>2, <2>3, <2>4 DEF Files
<1>4. ASSUME ExitProcess(p) PROVE Files'
  <2>1. Images'
    BY <1>0, <1>4 DEF ExitProcess, Files, Images, PC
  <2>2. Copying'
    BY <1>0, <1>4 DEF ExitProcess, Files, Images, Copying, PC
  <2>3. Attended'
    BY <1>0, <1>4 DEF ExitProcess, Files, Images, Copying, Attended, PC
  <2>4. Alone'
    BY <1>0, <1>4 DEF ExitProcess, Files, Images, Copying, Alone, PC
  <2> QED BY <2>1, <2>2, <2>3, <2>4 DEF Files
<1>5. ASSUME Check(p) PROVE Files'
  <2>1. Images'
    BY <1>0, <1>5 DEF Check, Files, Images, PC, AgentGone
  <2>2. Copying'
    BY <1>0, <1>5 DEF Check, Files, Images, Copying, PC, AgentGone
  <2>3. Attended'
    BY <1>0, <1>5 DEF Check, Files, Images, Copying, Attended, PC, AgentGone
  <2>4. Alone'
    BY <1>0, <1>5 DEF Check, Files, Images, Copying, Alone, PC, AgentGone
  <2> QED BY <2>1, <2>2, <2>3, <2>4 DEF Files
<1>6. ASSUME Unlink(p) PROVE Files'
  <2>1. Images'
    BY <1>0, <1>6 DEF Unlink, Files, Images, PC, Delete, Locked, Written, Mapped, Alive
  <2>2. Copying'
    BY <1>0, <1>6 DEF Unlink, Files, Images, Copying, PC, Delete, Locked, Written, Mapped, Alive
  <2>3. Attended'
    BY <1>0, <1>6
       DEF Unlink, Files, Images, Copying, Attended, PC, Delete, Locked, Written, Mapped, Alive
  <2>4. Alone'
    BY <1>0, <1>6
       DEF Unlink, Files, Images, Copying, Alone, PC, Delete, Locked, Written, Mapped, Alive
  <2> QED BY <2>1, <2>2, <2>3, <2>4 DEF Files
<1>7. ASSUME Rename(p) PROVE Files'
  <2>1. Images'
    BY <1>0, <1>7
       DEF Rename, Files, Images, PC, AgentGone, Move, CanMove, Written, Mapped, Alive
  <2>2. Copying'
    BY <1>0, <1>7
       DEF Rename, Files, Images, Copying, PC, AgentGone, Move, CanMove, Written, Mapped, Alive
  <2>3. Attended'
    BY <1>0, <1>7
       DEF Rename, Files, Images, Copying, Attended, PC, AgentGone, Move, CanMove, Written,
           Mapped, Alive
  <2>4. Alone'
    BY <1>0, <1>7
       DEF Rename, Files, Images, Copying, Alone, PC, AgentGone, Move, CanMove, Written,
           Mapped, Alive
  <2> QED BY <2>1, <2>2, <2>3, <2>4 DEF Files
<1>8. ASSUME RenameFails(p) PROVE Files'
  <2>1. Images'
    BY <1>0, <1>8 DEF RenameFails, Files, Images, PC, CanMove, Written, Mapped, Alive
  <2>2. Copying'
    BY <1>0, <1>8 DEF RenameFails, Files, Images, Copying, PC, CanMove, Written, Mapped, Alive
  <2>3. Attended'
    BY <1>0, <1>8
       DEF RenameFails, Files, Images, Copying, Attended, PC, CanMove, Written, Mapped, Alive
  <2>4. Alone'
    BY <1>0, <1>8
       DEF RenameFails, Files, Images, Copying, Alone, PC, CanMove, Written, Mapped, Alive
  <2> QED BY <2>1, <2>2, <2>3, <2>4 DEF Files
<1>9. ASSUME RenameExpires(p) PROVE Files'
  <2>1. Images'
    BY <1>0, <1>9
       DEF RenameExpires, Files, Images, PC, CanMove, AgentStays, Written, Mapped, Alive
  <2>2. Copying'
    BY <1>0, <1>9
       DEF RenameExpires, Files, Images, Copying, PC, CanMove, AgentStays, Written, Mapped,
           Alive
  <2>3. Attended'
    BY <1>0, <1>9
       DEF RenameExpires, Files, Images, Copying, Attended, PC, CanMove, AgentStays, Written,
           Mapped, Alive
  <2>4. Alone'
    BY <1>0, <1>9
       DEF RenameExpires, Files, Images, Copying, Alone, PC, CanMove, AgentStays, Written,
           Mapped, Alive
  <2> QED BY <2>1, <2>2, <2>3, <2>4 DEF Files
<1>10. ASSUME MutexGone(p) PROVE Files'
  <2>1. Images'
    BY <1>0, <1>10 DEF MutexGone, Files, Images, PC
  <2>2. Copying'
    BY <1>0, <1>10 DEF MutexGone, Files, Images, Copying, PC
  <2>3. Attended'
    BY <1>0, <1>10 DEF MutexGone, Files, Images, Copying, Attended, PC
  <2>4. Alone'
    BY <1>0, <1>10 DEF MutexGone, Files, Images, Copying, Alone, PC
  <2> QED BY <2>1, <2>2, <2>3, <2>4 DEF Files
<1>11. ASSUME WaitExpires(p) PROVE Files'
  <2>1. Images'
    BY <1>0, <1>11 DEF WaitExpires, Files, Images, PC, Move, CanMove, Written, Mapped, Alive
  <2>2. Copying'
    BY <1>0, <1>11
       DEF WaitExpires, Files, Images, Copying, PC, Move, CanMove, Written, Mapped, Alive
  <2>3. Attended'
    BY <1>0, <1>11
       DEF WaitExpires, Files, Images, Copying, Attended, PC, Move, CanMove, Written, Mapped,
           Alive
  <2>4. Alone'
    BY <1>0, <1>11
       DEF WaitExpires, Files, Images, Copying, Alone, PC, Move, CanMove, Written, Mapped, Alive
  <2> QED BY <2>1, <2>2, <2>3, <2>4 DEF Files
<1>12. ASSUME Copy(p) PROVE Files'
  <2>1. Images'
    BY <1>0, <1>12 DEF Copy, Files, Images, PC, CanCopy, Locked, Written, Mapped, Alive
  <2>2. Copying'
    BY <1>0, <1>12 DEF Copy, Files, Images, Copying, PC, CanCopy, Locked, Written, Mapped, Alive
  <2>3. Attended'
    BY <1>0, <1>12
       DEF Copy, Files, Images, Copying, Attended, PC, CanCopy, Locked, Written, Mapped, Alive
  <2>4. Alone'
    BY <1>0, <1>12
       DEF Copy, Files, Images, Copying, Alone, PC, CanCopy, Locked, Written, Mapped, Alive
  <2> QED BY <2>1, <2>2, <2>3, <2>4 DEF Files
<1>13. ASSUME CopyDone(p) PROVE Files'
  <2>1. Images'
    BY <1>0, <1>13 DEF CopyDone, Files, Images, PC
  <2>2. Copying'
    BY <1>0, <1>13 DEF CopyDone, Files, Images, Copying, PC
  <2>3. Attended'
    BY <1>0, <1>13 DEF CopyDone, Files, Images, Copying, Attended, PC
  <2>4. Alone'
    BY <1>0, <1>13 DEF CopyDone, Files, Images, Copying, Alone, PC
  <2> QED BY <2>1, <2>2, <2>3, <2>4 DEF Files
<1>14. ASSUME CopyFails(p) PROVE Files'
  <2>1. Images'
    BY <1>0, <1>14
       DEF CopyFails, Files, Images, Copying, PC, CanCopy, Locked, Written, Mapped, Alive
  <2>2. Copying'
    BY <1>0, <1>14
       DEF CopyFails, Files, Images, Copying, PC, CanCopy, Locked, Written, Mapped, Alive
  <2>3. Attended'
    BY <1>0, <1>14
       DEF CopyFails, Files, Images, Copying, Attended, PC, CanCopy, Locked, Written, Mapped,
           Alive
  <2>4. Alone'
    BY <1>0, <1>14
       DEF CopyFails, Files, Images, Copying, Alone, PC, CanCopy, Locked, Written, Mapped, Alive
  <2> QED BY <2>1, <2>2, <2>3, <2>4 DEF Files
<1>15. ASSUME Restore(p) PROVE Files'
  <2>1. Images'
    BY <1>0, <1>15 DEF Restore, Files, Images, PC, Move, CanMove, Written, Mapped, Alive
  <2>2. Copying'
    BY <1>0, <1>15
       DEF Restore, Files, Images, Copying, PC, Move, CanMove, Written, Mapped, Alive
  <2>3. Attended'
    BY <1>0, <1>15
       DEF Restore, Files, Images, Copying, Attended, PC, Move, CanMove, Written, Mapped, Alive
  <2>4. Alone'
    BY <1>0, <1>15
       DEF Restore, Files, Images, Copying, Alone, PC, Move, CanMove, Written, Mapped, Alive
  <2> QED BY <2>1, <2>2, <2>3, <2>4 DEF Files
<1>16. ASSUME Drop(p) PROVE Files'
  <2>1. Images'
    BY <1>0, <1>16 DEF Drop, Files, Images, PC, Delete, Locked, Written, Mapped, Alive
  <2>2. Copying'
    BY <1>0, <1>16 DEF Drop, Files, Images, Copying, PC, Delete, Locked, Written, Mapped, Alive
  <2>3. Attended'
    BY <1>0, <1>16
       DEF Drop, Files, Images, Copying, Attended, PC, Delete, Locked, Written, Mapped, Alive
  <2>4. Alone'
    BY <1>0, <1>16
       DEF Drop, Files, Images, Copying, Alone, PC, Delete, Locked, Written, Mapped, Alive
  <2> QED BY <2>1, <2>2, <2>3, <2>4 DEF Files
<1>17. ASSUME LaunchFails(p) PROVE Files'
  <2>1. Images'
    BY <1>0, <1>17 DEF LaunchFails, Files, Images, PC, CanLaunch
  <2>2. Copying'
    BY <1>0, <1>17 DEF LaunchFails, Files, Images, Copying, PC, CanLaunch
  <2>3. Attended'
    BY <1>0, <1>17 DEF LaunchFails, Files, Images, Copying, Attended, PC, CanLaunch
  <2>4. Alone'
    BY <1>0, <1>17 DEF LaunchFails, Files, Images, Copying, Alone, PC, CanLaunch
  <2> QED BY <2>1, <2>2, <2>3, <2>4 DEF Files
<1>18. ASSUME Stage(p) PROVE Files'
  <2>1. Images'
    BY <1>0, <1>18 DEF Stage, Files, Images, PC
  <2>2. Copying'
    BY <1>0, <1>18 DEF Stage, Files, Images, Copying, PC
  <2>3. Attended'
    BY <1>0, <1>18 DEF Stage, Files, Images, Copying, Attended, PC
  <2>4. Alone'
    BY <1>0, <1>18 DEF Stage, Files, Images, Copying, Alone, PC
  <2> QED BY <2>1, <2>2, <2>3, <2>4 DEF Files
<1> QED
  BY <1>1, <1>2, <1>3, <1>4, <1>5, <1>6, <1>7, <1>8, <1>9, <1>10, <1>11, <1>12, <1>13, <1>14,
     <1>15, <1>16, <1>17, <1>18
     DEF AgentRuns, SwapperRuns

\* The process that is born next is not one that is alive.
LEMMA Newborn ==
  ASSUME Births, NEW p \in Proc, Alive(p), Unborn # {}
  PROVE  /\ Next1 \in Proc /\ Next1 # p /\ pc[Next1] = "unborn"
         /\ DOMAIN pc = Proc /\ DOMAIN image = Proc
<1>1. Next1 \in Proc /\ pc[Next1] = "unborn"
  BY BirthOrder DEF Births
<1>2. DOMAIN pc = Proc /\ DOMAIN image = Proc
  BY DEF Births, TypeOK
<1>3. Next1 # p
  BY <1>1 DEF Alive, AgentPC, SwapperPC
<1> QED BY <1>1, <1>2, <1>3

LEMMA FilesStep ==
  ASSUME Births, Files, [Next]_vars
  PROVE  Files'
<1> USE DEF AgentPC, SwapperPC, Program, Swapping, Bootable
<1>0. /\ nt \in BOOLEAN /\ history \subseteq Event /\ file \in [Name -> Content]
      /\ pc \in [Proc -> PC] /\ image \in [Proc -> Name] /\ faults \in Nat
      /\ \A n \in {"agent", "old", "new"} : n \in Name
  BY SwapAssumption DEF Births, TypeOK, PC, Name
<1>1. ASSUME NEW p \in Proc, Launch(p) PROVE Files'
  <2>1. pc[p] = "launch" /\ Alive(p) /\ Unborn # {}
    BY <1>1, SpareProcess DEF Launch, Alive, Births
  <2>2. /\ pc' = [pc EXCEPT ![p] = "gone", ![Next1] = "mutex"] /\ file["agent"] \in Program
        /\ image' = [image EXCEPT ![Next1] = "agent"] /\ UNCHANGED <<nt, file, faults, history>>
    BY <1>1 DEF Launch, LaunchAgent, CanLaunch
  <2>3. PICK b \in Proc :
          /\ b # p /\ pc[b] = "unborn" /\ pc'[p] = "gone" /\ pc'[b] = "mutex"
          /\ \A q \in Proc \ {p, b} : pc'[q] = pc[q]
          /\ image'[b] = "agent" /\ \A q \in Proc \ {b} : image'[q] = image[q]
    <3>1. /\ Next1 \in Proc /\ Next1 # p /\ pc[Next1] = "unborn"
          /\ DOMAIN pc = Proc /\ DOMAIN image = Proc
      BY <2>1, Newborn, Zenon
    <3> QED BY ONLY <2>2, <3>1
  <2>4. Images'
    BY <1>0, <2>2, <2>3 DEF Files, Images
  <2>5. Copying'
    BY <1>0, <2>1, <2>2, <2>3 DEF Files, Copying
  <2>6. Attended'
    BY <1>0, <2>1, <2>2, <2>3 DEF Files, Attended
  <2>7. Alone'
    BY <1>0, <2>1, <2>2, <2>3 DEF Files, Alone
  <2> QED BY <2>4, <2>5, <2>6, <2>7 DEF Files
<1>2. ASSUME NEW p \in Proc, Restart(p) PROVE Files'
  <2>1. pc[p] \in {"serve", "exiting"} /\ Alive(p) /\ Unborn # {}
    BY <1>2, SpareProcess DEF Restart, Alive, Births
  <2>2. /\ pc' = [pc EXCEPT ![p] = "leaving", ![Next1] = "mutex"] /\ file["agent"] \in Program
        /\ image' = [image EXCEPT ![Next1] = "agent"] /\ UNCHANGED <<nt, file, faults>>
        /\ \A e \in {"cut", "doubled"} : e \in history' <=> e \in history
    BY <1>2 DEF Restart, LaunchAgent, CanLaunch
  <2>3. PICK b \in Proc :
          /\ b # p /\ pc[b] = "unborn" /\ pc'[p] = "leaving" /\ pc'[b] = "mutex"
          /\ \A q \in Proc \ {p, b} : pc'[q] = pc[q]
          /\ image'[b] = "agent" /\ \A q \in Proc \ {b} : image'[q] = image[q]
    <3>1. /\ Next1 \in Proc /\ Next1 # p /\ pc[Next1] = "unborn"
          /\ DOMAIN pc = Proc /\ DOMAIN image = Proc
      BY <2>1, Newborn, Zenon
    <3> QED BY ONLY <2>2, <3>1
  <2>4. Images'
    BY <1>0, <2>1, <2>2, <2>3 DEF Files, Images
  <2>5. Copying'
    BY <1>0, <2>1, <2>2, <2>3 DEF Files, Copying
  <2>6. Attended'
    BY <1>0, <2>1, <2>2, <2>3 DEF Files, Attended
  <2>7. Alone'
    BY <1>0, <2>1, <2>2, <2>3 DEF Files, Alone
  <2> QED BY <2>4, <2>5, <2>6, <2>7 DEF Files
<1>3. ASSUME NEW p \in Proc, Update(p) PROVE Files'
  <2>1. pc[p] \in {"serve", "exiting", "leaving"} /\ Alive(p) /\ Unborn # {} /\ file["new"] = "v2"
    BY <1>3, SpareProcess DEF Update, Alive, Births
  <2>2. PICK label \in {"serve", "exiting", "leaving"} :
          /\ pc' = [pc EXCEPT ![p] = label, ![Next1] = "check"]
          /\ image' = [image EXCEPT ![Next1] = "new"] /\ UNCHANGED <<nt, file, faults>>
          /\ "cut" \in history' <=> "cut" \in history
          /\ "doubled" \in history' <=> "doubled" \in history \/ \E q \in Proc : Swapping(q)
    BY <1>3 DEF Update
  <2>3. PICK b \in Proc :
          /\ b # p /\ pc[b] = "unborn" /\ pc'[p] = label /\ pc'[b] = "check"
          /\ \A q \in Proc \ {p, b} : pc'[q] = pc[q]
          /\ image'[b] = "new" /\ \A q \in Proc \ {b} : image'[q] = image[q]
    <3>1. Next1 \in Proc /\ pc[Next1] = "unborn" /\ Next1 # p
      BY <2>1, BirthOrder DEF Births
    <3>2. /\ pc'[Next1] = "check" /\ pc'[p] = label /\ \A q \in Proc \ {p, Next1} : pc'[q] = pc[q]
      BY <1>0, <2>2, <3>1
    <3>3. image'[Next1] = "new" /\ \A q \in Proc \ {Next1} : image'[q] = image[q]
      BY <1>0, <2>2, <3>1
    <3> QED BY <3>1, <3>2, <3>3
  <2>4. Images'
    BY <1>0, <2>1, <2>2, <2>3 DEF Files, Images
  <2>5. Copying'
    BY <1>0, <2>1, <2>2, <2>3 DEF Files, Copying
  <2>6. Attended'
    BY <1>0, <2>1, <2>2, <2>3 DEF Files, Attended
  <2>7. Alone'
    BY <1>0, <2>1, <2>2, <2>3 DEF Files, Alone
  <2> QED BY <2>4, <2>5, <2>6, <2>7 DEF Files
<1>4. ASSUME Crash PROVE Files'
  <2>1. /\ \A p \in Proc : pc'[p] \notin AgentPC \cup SwapperPC
        /\ UNCHANGED <<file, faults>>
        /\ "doubled" \in history' <=> "doubled" \in history
        /\ "cut" \in history' <=>
             \/ "cut" \in history
             \/ \E p \in Proc : pc[p] \in {"wait", "copy", "copying", "restore"}
    BY <1>0, <1>4 DEF Crash, Alive
  <2>2. Images' /\ Copying'
    BY <2>1 DEF Files, Images, Copying
  <2>3. Attended'
    BY <2>1 DEF Files, Attended
  <2>4. Alone'
    <3>1. ASSUME "cut" \notin history', "doubled" \notin history' PROVE Bootable
      <4>1. \A p \in Proc : pc[p] \notin {"wait", "copy", "copying", "restore"}
        BY <2>1, <3>1
      <4>2. CASE \E p \in Proc : Swapping(p)
        BY <2>1, <3>1, <4>1, <4>2 DEF Files, Alone
      <4>3. CASE \A p \in Proc : ~Swapping(p)
        BY <2>1, <3>1, <4>3 DEF Files, Alone
      <4> QED BY <4>2, <4>3
    <3> QED BY <2>1, <3>1 DEF Alone
  <2> QED BY <2>2, <2>3, <2>4 DEF Files
<1>5. ASSUME Boot PROVE Files'
  <2>1. UNCHANGED <<nt, file, faults, history>>
    BY <1>5 DEF Boot
  <2>2. CASE CanLaunch
    <3>1. Next1 \in Proc /\ pc[Next1] = "unborn" /\ file["agent"] \in Program
      BY <1>5, <2>2, BirthOrder DEF Boot, Births, CanLaunch
    <3>2. /\ pc'[Next1] = "mutex" /\ \A q \in Proc \ {Next1} : pc'[q] = pc[q]
          /\ image'[Next1] = "agent" /\ \A q \in Proc \ {Next1} : image'[q] = image[q]
      BY <1>0, <1>5, <2>2, <3>1 DEF Boot, LaunchAgent
    <3>3. Images'
      BY <2>1, <3>1, <3>2 DEF Files, Images
    <3>4. Copying' /\ Attended'
      BY <2>1, <3>1, <3>2 DEF Files, Copying, Attended
    <3>5. Alone'
      BY <2>1, <3>1, <3>2 DEF Files, Alone
    <3> QED BY <3>3, <3>4, <3>5 DEF Files
  <2>3. CASE ~CanLaunch
    BY <1>5, <2>1, <2>3 DEF Boot, Files, Images, Copying, Attended, Alone
  <2> QED BY <2>2, <2>3
<1>6. CASE UNCHANGED vars
  BY <1>6 DEF vars, Files, Images, Copying, Attended, Alone
<1> QED
  BY <1>1, <1>2, <1>3, <1>4, <1>5, <1>6, FilesKept DEF Next, AgentRuns, SwapperRuns

LEMMA SwapStarts ==
  ASSUME Init
  PROVE  Births /\ Files
<1>1. TypeOK
  BY SwapAssumption DEF Init, TypeOK, Name, Content, Program, Event, AgentPC, SwapperPC
<1>2. Unborn = {p \in Proc : p > 1}
  <2>1. \A p \in Proc : p # 1 <=> p > 1
    BY SwapAssumption
  <2>2. Unborn = {p \in Proc : p # 1}
    BY DEF Init, Unborn
  <2> QED BY <2>1, <2>2
<1>3. Numbered
  BY <1>2, ProcFinite DEF Numbered
<1>4. Swappers = {}
  BY DEF Init, Swappers, Swapping, SwapperPC
<1>5. Reserved /\ PowerOff
  BY <1>4, Counts DEF Reserved, PowerOff, Init
<1>6. Files
  BY DEF Init, Files, Images, Copying, Attended, Alone, AgentPC, SwapperPC, Swapping, Bootable,
         Program, Name
<1> QED BY <1>1, <1>3, <1>5, <1>6 DEF Births

LEMMA Settles ==
  ASSUME Births, Files
  PROVE  SwapSettles
BY DEF Births, TypeOK, Files, Copying, Attended, Alone, SwapSettles, Bootable, Program, Content,
       Name, Swapping, SwapperPC

\* Whenever no swapper is running, the Run entry names a whole program, whatever the
\* number of updates, restarts and failures: but for a machine that went down between a
\* rename and the end of the copy, and for a copy that failed among several swappers.
THEOREM SwapSafe == RestartSpec => []SwapSettles
<1>1. RestartInit => Births /\ Files
  BY SwapStarts DEF RestartInit
<1>2. Births /\ Files /\ [RestartNext]_<<vars, reboot, part>> => (Births /\ Files)'
  BY BirthsStep, FilesStep DEF RestartNext
<1> QED BY <1>1, <1>2, Settles, PTL DEF RestartSpec

-----------------------------------------------------------------------------
(***************************************************************************)
(* The reboot with proof                                                   *)
(***************************************************************************)
Pending == {"check", "persist", "write", "publish", "accept"}
Back(c) == past[c] \cap {"down", "restart"} # {}

\* What the counter tells a client.  While its request is being handled the agent is
\* the one it said hello to; the token is stored, and what happened before then
\* forgotten, in that time only.  Later either nothing has ended that agent, or it is
\* remembered.
ProofInv ==
  /\ past \in [Client -> SUBSET {"down", "restart", "failed", "overwritten", "uncounted"}]
  /\ handler \in [Client -> Pending \cup {"none", "leave"}]
  /\ client \in [Client -> {"idle", "sent", "refused", "accepted", "lost", "proved", "expired"}]
  /\ old_boot \in [Client -> Nat] /\ boot \in Nat /\ counter \in Nat
  /\ \A c \in Client :
       /\ handler[c] \in Pending => client[c] = "sent"
       /\ client[c] = "sent" => agent_up /\ boot = old_boot[c]
       /\ client[c] = "accepted" => (agent_up /\ boot = old_boot[c]) \/ Back(c)
       /\ client[c] = "proved" => Back(c)

LEMMA ProofInit == Reboot!Init => ProofInv
BY DEF Reboot!Init, ProofInv, Pending

\* Every agent that ends is remembered for every client, whatever ends it.
LEMMA EndIsRemembered ==
  ASSUME ProofInv, Reboot!AgentEnds,
         NEW what \in {"down", "restart"}, Reboot!Remember(Client, what),
         UNCHANGED <<Reboot!memory, counter, old_boot>>
  PROVE  ProofInv'
<1>1. \A c \in Client : what \in past'[c]
  BY DEF Reboot!Remember, ProofInv
<1>2. past' \in [Client -> SUBSET {"down", "restart", "failed", "overwritten", "uncounted"}]
  BY DEF Reboot!Remember, ProofInv
<1>3. \A c \in Client : Back(c)'
  BY <1>1 DEF Back
<1>4. /\ handler' = [c \in Client |-> "none"]
      /\ client' \in [Client -> {"idle", "refused", "accepted", "lost", "proved", "expired"}]
  BY DEF Reboot!AgentEnds, ProofInv
<1> QED BY <1>2, <1>3, <1>4 DEF ProofInv, Pending, Reboot!memory

\* A step of one client's request while the agent runs, which stores no token.
LEMMA RequestMoves ==
  ASSUME ProofInv, NEW c \in Client,
         agent_up, UNCHANGED <<agent_up, boot, counter>>,
         NEW h \in Pending \cup {"none", "leave"}, Reboot!Goto(c, h),
         NEW s \in {"sent", "refused", "accepted", "lost"}, Reboot!Becomes(c, s),
         past' \in [Client -> SUBSET {"down", "restart", "failed", "overwritten", "uncounted"}],
         old_boot' \in [Client -> Nat],
         \A d \in Client : d # c => past[d] \subseteq past'[d] /\ old_boot'[d] = old_boot[d],
         h \in Pending => s = "sent",
         s \in {"sent", "accepted"} => boot = old_boot'[c]
  PROVE  ProofInv'
<1>1. /\ handler' \in [Client -> Pending \cup {"none", "leave"}]
      /\ client' \in [Client -> {"idle", "sent", "refused", "accepted", "lost", "proved", "expired"}]
  BY DEF ProofInv, Reboot!Goto, Reboot!Becomes
<1>2. ASSUME NEW d \in Client
      PROVE  /\ handler'[d] \in Pending => client'[d] = "sent"
             /\ client'[d] = "sent" => agent_up' /\ boot' = old_boot'[d]
             /\ client'[d] = "accepted" => (agent_up' /\ boot' = old_boot'[d]) \/ Back(d)'
             /\ client'[d] = "proved" => Back(d)'
  <2>1. CASE d = c
    BY <2>1 DEF ProofInv, Reboot!Goto, Reboot!Becomes
  <2>2. CASE d # c
    <3>1. handler'[d] = handler[d] /\ client'[d] = client[d] /\ old_boot'[d] = old_boot[d]
      BY <2>2 DEF ProofInv, Reboot!Goto, Reboot!Becomes
    <3>2. Back(d) => Back(d)'
      BY <2>2 DEF Back
    <3> QED BY <3>1, <3>2 DEF ProofInv
  <2> QED BY <2>1, <2>2
<1> QED BY <1>1, <1>2 DEF ProofInv

LEMMA ProofStep == ProofInv /\ [Reboot!Next]_reboot => ProofInv'
<1> SUFFICES ASSUME ProofInv, [Reboot!Next]_reboot PROVE ProofInv'
  OBVIOUS
<1> USE DEF Reboot!memory, Reboot!disk, Reboot!asked, Reboot!At
<1>1. ASSUME NEW c \in Client, Reboot!Request(c) PROVE ProofInv'
  <2>1. /\ old_boot' \in [Client -> Nat] /\ boot = old_boot'[c]
        /\ \A d \in Client : d # c => old_boot'[d] = old_boot[d]
    BY <1>1 DEF Reboot!Request, ProofInv
  <2> QED BY <1>1, <2>1, RequestMoves DEF Reboot!Request, Pending, ProofInv
<1>2. ASSUME NEW c \in Client, Reboot!Handles(c) PROVE ProofInv'
  <2>1. CASE \/ Reboot!Refused(c) \/ Reboot!Check(c) \/ Reboot!Truncate(c)
             \/ Reboot!Write(c) \/ Reboot!Publish(c) \/ Reboot!Accept(c)
    <3>1. handler[c] \in Pending
      BY <2>1
         DEF Reboot!Refused, Reboot!Check, Reboot!Truncate, Reboot!Write, Reboot!Publish,
             Reboot!Accept, Pending
    <3>2. client[c] = "sent" /\ agent_up /\ boot = old_boot[c]
      BY <3>1 DEF ProofInv
    <3>3. /\ past' \in [Client -> SUBSET {"down", "restart", "failed", "overwritten", "uncounted"}]
          /\ \A d \in Client : d # c => past[d] \subseteq past'[d]
      <4>1. CASE Reboot!Refused(c) \/ Reboot!Check(c) \/ Reboot!Publish(c)
        BY <4>1 DEF Reboot!Refused, Reboot!Check, Reboot!Publish, ProofInv
      <4>2. CASE Reboot!Truncate(c)
        BY <4>2 DEF Reboot!Truncate, Reboot!Remember, ProofInv
      <4>3. CASE Reboot!Write(c)
        BY <4>3 DEF Reboot!Write, ProofInv
      <4>4. CASE Reboot!Accept(c)
        BY <4>4 DEF Reboot!Accept, ProofInv
      <4> QED BY <2>1, <4>1, <4>2, <4>3, <4>4
    <3>4. client' = client => Reboot!Becomes(c, "sent")
      BY <3>2 DEF Reboot!Becomes, ProofInv
    <3>5. UNCHANGED <<agent_up, boot, counter, old_boot>>
      BY <2>1
         DEF Reboot!Refused, Reboot!Check, Reboot!Truncate, Reboot!Write, Reboot!Publish,
             Reboot!Accept
    <3>6. CASE Reboot!Refused(c)
      BY <3>2, <3>3, <3>5, <3>6, RequestMoves
         DEF Reboot!Refused, Reboot!Refuse, ProofInv, Pending
    <3>7. CASE Reboot!Check(c)
      <4>1. PICK h \in {"accept", "persist"} : Reboot!Goto(c, h)
        BY <3>7 DEF Reboot!Check
      <4> QED BY <3>2, <3>3, <3>4, <3>5, <3>7, <4>1, RequestMoves DEF Reboot!Check, ProofInv,
          Pending
    <3>8. CASE Reboot!Truncate(c)
      BY <3>2, <3>3, <3>4, <3>5, <3>8, RequestMoves DEF Reboot!Truncate, ProofInv, Pending
    <3>9. CASE Reboot!Write(c)
      BY <3>2, <3>3, <3>4, <3>5, <3>9, RequestMoves DEF Reboot!Write, ProofInv, Pending
    <3>10. CASE Reboot!Publish(c)
      BY <3>2, <3>3, <3>4, <3>5, <3>10, RequestMoves DEF Reboot!Publish, ProofInv, Pending
    <3>11. CASE Reboot!Accept(c)
      <4>1. PICK h \in {"leave", "none"}, s \in {"accepted", "lost"} :
              Reboot!Goto(c, h) /\ Reboot!Becomes(c, s)
        BY <3>11 DEF Reboot!Accept
      <4> QED BY <3>2, <3>3, <3>5, <4>1, RequestMoves DEF ProofInv, Pending
    <3> QED BY <2>1, <3>6, <3>7, <3>8, <3>9, <3>10, <3>11
  <2>2. CASE Reboot!Leave(c)
    BY <2>2, EndIsRemembered DEF Reboot!Leave, Reboot!GoesDown
  <2>3. CASE Reboot!LeaveForUpdate(c)
    BY <2>3, EndIsRemembered DEF Reboot!LeaveForUpdate
  <2> QED BY <1>2, <2>1, <2>2, <2>3 DEF Reboot!Handles
<1>3. ASSUME NEW c \in Client, Reboot!Poll(c) \/ Reboot!Deadline(c) PROVE ProofInv'
  <2>1. /\ client[c] = "accepted" /\ UNCHANGED <<agent_up, boot, counter, old_boot, past, handler>>
        /\ client' \in {[client EXCEPT ![c] = "proved"], [client EXCEPT ![c] = "expired"]}
        /\ client' = [client EXCEPT ![c] = "proved"] => boot # old_boot[c]
    BY <1>3 DEF Reboot!Poll, Reboot!Deadline, Reboot!Becomes, Reboot!Proof, ProofInv
  <2>2. client'[c] = "proved" => Back(c)
    BY <2>1 DEF ProofInv
  <2>3. \A d \in Client : d # c => client'[d] = client[d]
    BY <2>1 DEF ProofInv
  <2>4. /\ client' \in [Client -> {"idle", "sent", "refused", "accepted", "lost", "proved", "expired"}]
        /\ client'[c] \in {"proved", "expired"} /\ handler[c] \notin Pending
    BY <2>1 DEF ProofInv
  <2>5. \A d \in Client : Back(d)' = Back(d)
    BY <2>1 DEF Back
  <2> QED BY <2>1, <2>2, <2>3, <2>4, <2>5 DEF ProofInv
<1>4. ASSUME NEW c \in Client, Reboot!WriteFails(c) PROVE ProofInv'
  BY <1>4, RequestMoves DEF Reboot!WriteFails, Reboot!Refuse, ProofInv, Pending
<1>5. ASSUME NEW c \in Client, Reboot!LeaveFails(c) PROVE ProofInv'
  <2>1. /\ handler' = [handler EXCEPT ![c] = "none"]
        /\ UNCHANGED <<agent_up, boot, counter, old_boot, client>>
    BY <1>5 DEF Reboot!LeaveFails, Reboot!Goto
  <2>2. /\ past' \in [Client -> SUBSET {"down", "restart", "failed", "overwritten", "uncounted"}]
        /\ \A d \in Client : Back(d) => Back(d)'
    BY <1>5 DEF Reboot!LeaveFails, Reboot!Remember, ProofInv, Back
  <2> QED BY <2>1, <2>2 DEF ProofInv, Pending
<1>6. CASE Reboot!MachineStarts
  BY <1>6 DEF Reboot!MachineStarts, ProofInv, Back
<1>7. CASE Reboot!AgentStarts
  <2>1. /\ ~agent_up /\ agent_up' /\ UNCHANGED <<handler, client, old_boot>>
        /\ boot' \in Nat /\ counter' \in Nat
    BY <1>7 DEF Reboot!AgentStarts, Reboot!Counts, ProofInv
  <2>2. /\ past' \in [Client -> SUBSET {"down", "restart", "failed", "overwritten", "uncounted"}]
        /\ \A d \in Client : Back(d) => Back(d)'
    BY <1>7 DEF Reboot!AgentStarts, Reboot!Counts, Reboot!Remember, ProofInv, Back
  <2> QED BY <2>1, <2>2 DEF ProofInv
<1>8. CASE Reboot!PowerCut
  BY <1>8, EndIsRemembered DEF Reboot!PowerCut, Reboot!GoesDown
<1>9. CASE Reboot!Restart
  BY <1>9, EndIsRemembered DEF Reboot!Restart
<1>10. CASE UNCHANGED reboot
  BY <1>10 DEF reboot, ProofInv, Back
<1> QED
  BY <1>1, <1>2, <1>3, <1>4, <1>5, <1>6, <1>7, <1>8, <1>9, <1>10 DEF Reboot!Next, Reboot!Starts

\* The counter in memory is the one on disk, and never behind what a client was told,
\* until at some start it could not be kept.
CountInv ==
  \A c \in Client :
    \/ "uncounted" \in past[c]
    \/ /\ boot = counter /\ old_boot[c] <= boot
       /\ client[c] = "proved" => old_boot[c] < boot

\* A step between two starts, which proves nothing to a client.
LEMMA CountKept ==
  ASSUME CountInv, UNCHANGED <<boot, counter>>,
         \A c \in Client : /\ "uncounted" \in past[c] => "uncounted" \in past'[c]
                           /\ old_boot'[c] \in {old_boot[c], boot}
                           /\ client'[c] = "proved" => /\ client[c] = "proved"
                                                       /\ old_boot'[c] = old_boot[c],
         boot \in Nat
  PROVE  CountInv'
BY DEF CountInv

LEMMA CountStep == ProofInv /\ CountInv /\ [Reboot!Next]_reboot => CountInv'
<1> SUFFICES ASSUME ProofInv, CountInv, [Reboot!Next]_reboot PROVE CountInv'
  OBVIOUS
<1> USE DEF Reboot!memory, Reboot!disk, Reboot!asked, Reboot!At
<1>0. boot \in Nat
  BY DEF ProofInv
<1>1. ASSUME NEW c \in Client, Reboot!Request(c) PROVE CountInv'
  BY <1>0, <1>1, CountKept DEF Reboot!Request, Reboot!Becomes, ProofInv
<1>2. ASSUME NEW c \in Client, Reboot!Handles(c) PROVE CountInv'
  <2>1. /\ UNCHANGED <<boot, counter, old_boot>>
        /\ \A d \in Client : client'[d] = "proved" => client[d] = "proved"
    BY <1>2 DEF Reboot!Handles, Reboot!Refused, Reboot!Refuse, Reboot!Check, Reboot!Truncate,
       Reboot!Write, Reboot!Publish, Reboot!Accept, Reboot!Leave, Reboot!LeaveForUpdate,
       Reboot!GoesDown, Reboot!AgentEnds, Reboot!Becomes, ProofInv
  <2>2. \A d \in Client : "uncounted" \in past[d] => "uncounted" \in past'[d]
    BY <1>2 DEF Reboot!Handles, Reboot!Refused, Reboot!Check, Reboot!Truncate, Reboot!Write,
       Reboot!Publish, Reboot!Accept, Reboot!Leave, Reboot!LeaveForUpdate, Reboot!GoesDown,
       Reboot!Remember, ProofInv
  <2> QED BY <1>0, <2>1, <2>2, CountKept
<1>3. ASSUME NEW c \in Client, Reboot!Poll(c) PROVE CountInv'
  <2>1. /\ UNCHANGED <<boot, counter, old_boot, past>> /\ boot # old_boot[c]
        /\ \A d \in Client : d # c => client'[d] = client[d]
    BY <1>3 DEF Reboot!Poll, Reboot!Proof, Reboot!Becomes, ProofInv
  <2>2. \A d \in Client : old_boot[d] \in Nat
    BY DEF ProofInv
  <2> QED BY <1>0, <2>1, <2>2 DEF CountInv
<1>4. ASSUME NEW c \in Client,
             Reboot!Deadline(c) \/ Reboot!WriteFails(c) \/ Reboot!LeaveFails(c)
      PROVE CountInv'
  <2>1. /\ UNCHANGED <<boot, counter, old_boot>>
        /\ \A d \in Client : client'[d] = "proved" => client[d] = "proved"
        /\ \A d \in Client : "uncounted" \in past[d] => "uncounted" \in past'[d]
    BY <1>4 DEF Reboot!Deadline, Reboot!WriteFails, Reboot!LeaveFails, Reboot!Refuse,
       Reboot!Becomes, Reboot!Remember, ProofInv
  <2> QED BY <1>0, <2>1, CountKept
<1>5. CASE Reboot!PowerCut \/ Reboot!Restart \/ Reboot!MachineStarts
  <2>1. /\ UNCHANGED <<boot, counter, old_boot>>
        /\ \A d \in Client : client'[d] = "proved" => client[d] = "proved"
        /\ \A d \in Client : "uncounted" \in past[d] => "uncounted" \in past'[d]
    BY <1>5 DEF Reboot!PowerCut, Reboot!Restart, Reboot!MachineStarts, Reboot!GoesDown,
       Reboot!AgentEnds, Reboot!Remember, ProofInv
  <2> QED BY <1>0, <2>1, CountKept
<1>6. CASE Reboot!AgentStarts
  <2>1. UNCHANGED <<client, old_boot>> /\ counter \in Nat
    BY <1>6 DEF Reboot!AgentStarts, ProofInv
  <2>2. \/ counter' = counter + 1 /\ boot' = counter' /\ past' = past
        \/ \A c \in Client : "uncounted" \in past'[c]
    BY <1>6 DEF Reboot!AgentStarts, Reboot!Counts, Reboot!Remember, ProofInv
  <2>3. \A c \in Client : old_boot[c] \in Nat
    BY DEF ProofInv
  <2> QED BY <1>0, <2>1, <2>2, <2>3 DEF CountInv
<1>7. CASE UNCHANGED reboot
  BY <1>0, <1>7, CountKept DEF reboot
<1> QED
  BY <1>1, <1>2, <1>3, <1>4, <1>5, <1>6, <1>7 DEF Reboot!Next, Reboot!Starts

\* What wait_for_reboot and wait_for_update of the clients take for proof: a client is
\* told so only after the machine went down, or the agent it spoke to was restarted,
\* later than its own token was stored; and the counter it sees has grown since its
\* request, unless BOOT.DAT could not be kept.
THEOREM ProofSound == RestartSpec => []ProofIsSound
<1>1. RestartInit => ProofInv /\ CountInv
  <2>1. Reboot!Init => CountInv
    BY DEF Reboot!Init, CountInv
  <2> QED BY <2>1, ProofInit DEF RestartInit
<1>2. ProofInv /\ CountInv /\ [RestartNext]_<<vars, reboot, part>> => (ProofInv /\ CountInv)'
  <2> SUFFICES ASSUME ProofInv, CountInv, [RestartNext]_<<vars, reboot, part>>
               PROVE  ProofInv' /\ CountInv'
    OBVIOUS
  <2>1. [Reboot!Next]_reboot
    BY DEF RestartNext
  <2> QED BY <2>1, ProofStep, CountStep
<1>3. ProofInv /\ CountInv => ProofIsSound
  BY DEF ProofInv, CountInv, ProofIsSound, Reboot!ProofIsSound, Back
<1> QED BY <1>1, <1>2, <1>3, PTL DEF RestartSpec
=============================================================================
