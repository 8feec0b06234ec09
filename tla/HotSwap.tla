------------------------------ MODULE HotSwap ------------------------------
(***************************************************************************)
(* The hot update of the agent (src/guest/update.c), with what it leans    *)
(* on: the singleton mutex and the start-up of v9x_agent_run (agent.c),    *)
(* the tray's Restart (tray.c) and the machine's Run entry.                *)
(*                                                                         *)
(* A process runs from a file that the system keeps locked meanwhile: on   *)
(* Windows 9x it can be neither renamed, overwritten nor deleted; NT lets  *)
(* it be renamed.  Several swappers can be running, one for each           *)
(* UPDATE_REQUEST that was accepted before the agent exited.  Each action  *)
(* is one call to the file system, or one check.                           *)
(***************************************************************************)
EXTENDS Naturals, FiniteSets

CONSTANTS
  Proc,        \* processes there can ever be, in order of creation: 1 .. n
  Crashes,     \* may the machine go down?
  CopyFaults   \* how many copies may fail for reasons of their own

ASSUME SwapAssumption ==
  /\ \E n \in Proc : Proc = 1 .. n
  /\ Crashes \in BOOLEAN /\ CopyFaults \in Nat

\* V9XAGNT.EXE, V9XAGNT.OLD and V9XNEW.EXE.  What a file holds is missing, part
\* of a program, the program installed at first, or the staged one.
Name    == {"agent", "old", "new"}
Content == {"none", "torn", "v1", "v2"}
Program == {"v1", "v2"}

VARIABLES
  nt,          \* Windows NT, rather than 9x
  power,       \* the machine is up
  file,        \* contents of the three files
  pc, image,   \* per process: where it is; the file it runs from, by its name now
  program,     \* per process: which agent it is
  faults,      \* copies that failed
  history      \* what has happened, for the properties alone

vars == <<nt, power, file, pc, image, program, faults, history>>

\* accepted: an update was; doubled: two swappers were running at once; clashed:
\* Restart started an agent while a swapper was there; down: the machine went
\* down; cut: after a swapper's rename and before the end of its copy.
Event == {"accepted", "doubled", "clashed", "down", "cut"}

AgentPC   == {"mutex", "cleanup", "serve", "exiting", "leaving"}
SwapperPC == {"check", "unlink", "rename", "wait", "copy", "copying", "restore", "drop",
              "launch"}

Alive(p) == pc[p] \in AgentPC \cup SwapperPC
Swapping(p) == pc[p] \in SwapperPC
Holds(p) == pc[p] \in {"cleanup", "serve", "exiting", "leaving"}    \* the agent's mutex

Init ==
  /\ nt \in BOOLEAN
  /\ power = TRUE
  /\ file = [n \in Name |-> IF n = "agent" THEN "v1" ELSE "none"]
  /\ pc = [p \in Proc |-> IF p = 1 THEN "mutex" ELSE "unborn"]
  /\ image = [p \in Proc |-> "agent"]
  /\ program = [p \in Proc |-> "v1"]
  /\ faults = 0
  /\ history = {}

-----------------------------------------------------------------------------
(***************************************************************************)
(* Processes and their files                                               *)
(***************************************************************************)
Goto(p, label) == pc' = [pc EXCEPT ![p] = label]

Mapped(n)  == \E p \in Proc : Alive(p) /\ image[p] = n
Written(n) == n = "agent" /\ \E p \in Proc : pc[p] = "copying"
Locked(n)  == Mapped(n) \/ Written(n)

\* DeleteFile, whether or not it works.
Delete(n) == file' = IF Locked(n) THEN file ELSE [file EXCEPT ![n] = "none"]

CanMove(m, n) ==
  /\ file[m] # "none" /\ file[n] = "none"
  /\ ~Written(m) /\ (nt \/ ~Mapped(m))

\* MoveFile; a process that runs from the file goes on running from it.
Move(m, n) ==
  /\ file' = [file EXCEPT ![n] = file[m], ![m] = "none"]
  /\ image' = [p \in Proc |-> IF Alive(p) /\ image[p] = m THEN n ELSE image[p]]

Unborn == {p \in Proc : pc[p] = "unborn"}
Next1  == CHOOSE p \in Unborn : \A q \in Unborn : p <= q

\* CreateProcess of V9XAGNT.EXE, by a process that then goes to a label.
CanLaunch == file["agent"] \in Program /\ ~Written("agent")

LaunchAgent(p, label) ==
  /\ CanLaunch
  /\ pc' = [pc EXCEPT ![p] = label, ![Next1] = "mutex"]
  /\ image' = [image EXCEPT ![Next1] = "agent"]
  /\ program' = [program EXCEPT ![Next1] = file["agent"]]

\* There are processes enough left for what is already under way.
Room == Cardinality(Unborn) > 1 + Cardinality({p \in Proc : Swapping(p)})

-----------------------------------------------------------------------------
(***************************************************************************)
(* The agent                                                               *)
(***************************************************************************)
TakeMutex(p) ==
  /\ pc[p] = "mutex" /\ \A q \in Proc : ~Holds(q)
  /\ Goto(p, "cleanup")
  /\ UNCHANGED <<nt, power, file, image, program, faults, history>>

\* Ten tries in five seconds: a holder that is exiting is gone by then.
GiveUpMutex(p) ==
  /\ pc[p] = "mutex" /\ \E q \in Proc : pc[q] \in {"cleanup", "serve"}
  /\ Goto(p, "gone")
  /\ UNCHANGED <<nt, power, file, image, program, faults, history>>

\* v9x_hotswap_cleanup: for two seconds, try to delete V9XNEW.EXE.
Cleanup(p) ==
  /\ pc[p] = "cleanup" /\ Goto(p, "serve")
  /\ Delete("new") \/ (file' = file /\ Locked("new"))
  /\ UNCHANGED <<nt, power, image, program, faults, history>>

\* An upload commits V9XNEW.EXE (on Windows 9x not while a swapper runs it).
Stage(p) ==
  /\ pc[p] = "serve" /\ file["new"] = "none"
  /\ file' = [file EXCEPT !["new"] = "v2"]
  /\ UNCHANGED <<nt, power, pc, image, program, faults, history>>

\* UPDATE_REQUEST: verify the staged file, start the swapper, and exit a second
\* later if UPDATE_ACCEPTED could be sent.  Other connections' requests are
\* served during that second.
Update(p) ==
  /\ pc[p] \in {"serve", "exiting", "leaving"} /\ file["new"] = "v2" /\ Room
  /\ \E sent \in BOOLEAN :
       /\ pc' = [pc EXCEPT ![p] = IF sent /\ @ = "serve" THEN "exiting" ELSE @, ![Next1] = "check"]
       /\ history' = history
            \cup (IF sent THEN {"accepted"} ELSE {})
            \cup (IF \E q \in Proc : Swapping(q) THEN {"doubled"} ELSE {})
            \cup (IF \E q \in Proc : pc[q] = "mutex" THEN {"clashed"} ELSE {})
  /\ image' = [image EXCEPT ![Next1] = "new"]
  /\ UNCHANGED <<nt, power, file, program, faults>>

\* The tray's Restart: start a fresh agent and exit; or keep serving.
Restart(p) ==
  /\ pc[p] \in {"serve", "exiting"} /\ Room
  /\ LaunchAgent(p, "leaving")
  /\ history' = history \cup IF \E q \in Proc : Swapping(q) THEN {"clashed"} ELSE {}
  /\ UNCHANGED <<nt, power, file, faults>>

ExitProcess(p) ==
  /\ pc[p] \in {"exiting", "leaving"} /\ Goto(p, "gone")
  /\ UNCHANGED <<nt, power, file, image, program, faults, history>>

-----------------------------------------------------------------------------
(***************************************************************************)
(* v9x_hotswap_run                                                         *)
(***************************************************************************)
\* What follows the rename, or an agent that is already gone.
AgentGone == IF nt THEN "wait" ELSE "copy"

Check(p) ==
  /\ pc[p] = "check"
  /\ Goto(p, IF file["agent"] = "none" THEN AgentGone ELSE "unlink")
  /\ UNCHANGED <<nt, power, file, image, program, faults, history>>

Unlink(p) ==
  /\ pc[p] = "unlink" /\ Goto(p, "rename")
  /\ Delete("old")
  /\ UNCHANGED <<nt, power, image, program, faults, history>>

Rename(p) ==
  /\ pc[p] = "rename" /\ CanMove("agent", "old")
  /\ Move("agent", "old")
  /\ Goto(p, AgentGone)
  /\ UNCHANGED <<nt, power, program, faults, history>>

RenameFails(p) ==
  /\ pc[p] = "rename" /\ ~CanMove("agent", "old")
  /\ Goto(p, "check")
  /\ UNCHANGED <<nt, power, file, image, program, faults, history>>

\* Two minutes are up: only an agent that is not about to exit lasts so long.
AgentStays == \E q \in Proc : pc[q] \in {"mutex", "cleanup", "serve"}

RenameExpires(p) ==
  /\ pc[p] = "rename" /\ ~CanMove("agent", "old") /\ AgentStays
  /\ Goto(p, "gone")
  /\ UNCHANGED <<nt, power, file, image, program, faults, history>>

\* NT: wait for the mutex to go...
MutexGone(p) ==
  /\ pc[p] = "wait" /\ \A q \in Proc : ~Holds(q)
  /\ Goto(p, "copy")
  /\ UNCHANGED <<nt, power, file, image, program, faults, history>>

\* ... for two minutes, then put the program back.
WaitExpires(p) ==
  /\ pc[p] = "wait" /\ \E q \in Proc : pc[q] \in {"cleanup", "serve"}
  /\ Goto(p, "gone")
  /\ IF CanMove("old", "agent") THEN Move("old", "agent") ELSE UNCHANGED <<file, image>>
  /\ UNCHANGED <<nt, power, program, faults, history>>

\* CopyFile of V9XNEW.EXE to V9XAGNT.EXE, which it creates or truncates...
CanCopy == file["new"] \in Program /\ ~Locked("agent")

Copy(p) ==
  /\ pc[p] = "copy" /\ CanCopy
  /\ file' = [file EXCEPT !["agent"] = "torn"]
  /\ Goto(p, "copying")
  /\ UNCHANGED <<nt, power, image, program, faults, history>>

CopyDoneFromOld(p) ==     \* a mutant: copies the wrong file
  /\ pc[p] = "copying"
  /\ file' = [file EXCEPT !["agent"] = IF file["old"] = "none" THEN "v1" ELSE file["old"]]
  /\ Goto(p, "drop")
  /\ UNCHANGED <<nt, power, image, program, faults, history>>

CopyDone(p) ==
  /\ pc[p] = "copying"
  /\ file' = [file EXCEPT !["agent"] = file["new"]]
  /\ Goto(p, "drop")
  /\ UNCHANGED <<nt, power, image, program, faults, history>>

CopyFailsHalfway(p) ==     \* a mutant: a failed copy goes on as if it had worked
  /\ pc[p] \in {"copy", "copying"}
  /\ faults' = faults + 1 /\ file' = file
  /\ Goto(p, "drop")
  /\ UNCHANGED <<nt, power, image, program, history>>

\* ... or which fails, and leaves nothing of its own behind.
CopyFails(p) ==
  /\ \/ pc[p] = "copy" /\ ~CanCopy /\ UNCHANGED <<file, faults>>
     \/ /\ pc[p] = "copying" /\ faults < CopyFaults
        /\ faults' = faults + 1 /\ file' = [file EXCEPT !["agent"] = "none"]
  /\ Goto(p, "restore")
  /\ UNCHANGED <<nt, power, image, program, history>>

RestoreForgotten(p) ==     \* a mutant: leaves the old program as V9XAGNT.OLD
  /\ pc[p] = "restore" /\ Goto(p, "gone")
  /\ UNCHANGED <<nt, power, file, image, program, faults, history>>

\* The old program goes back under its name; nothing is launched.
Restore(p) ==
  /\ pc[p] = "restore" /\ Goto(p, "gone")
  /\ IF CanMove("old", "agent") THEN Move("old", "agent") ELSE UNCHANGED <<file, image>>
  /\ UNCHANGED <<nt, power, program, faults, history>>

\* Delete V9XAGNT.OLD; then the screenshot helper and the Run entry, whose
\* failures are only logged.
Drop(p) ==
  /\ pc[p] = "drop" /\ Goto(p, "launch")
  /\ Delete("old")
  /\ UNCHANGED <<nt, power, image, program, faults, history>>

LaunchForgotten(p) ==     \* a mutant: leaves the new program to the next boot
  /\ pc[p] = "launch" /\ Goto(p, "gone")
  /\ UNCHANGED <<nt, power, file, image, program, faults, history>>

Launch(p) ==
  /\ pc[p] = "launch"
  /\ LaunchAgent(p, "gone")
  /\ UNCHANGED <<nt, power, file, faults, history>>

LaunchFails(p) ==
  /\ pc[p] = "launch" /\ ~CanLaunch
  /\ Goto(p, "gone")
  /\ UNCHANGED <<nt, power, file, image, program, faults, history>>

-----------------------------------------------------------------------------
\* The machine goes down; when it comes up the Run entry starts V9XAGNT.EXE.
Crash ==
  /\ Crashes /\ power /\ power' = FALSE
  /\ pc' = [p \in Proc |-> IF Alive(p) THEN "gone" ELSE pc[p]]
  /\ history' = history \cup {"down"} \cup
       IF \E p \in Proc : pc[p] \in {"wait", "copy", "copying", "restore"} THEN {"cut"} ELSE {}
  /\ UNCHANGED <<nt, file, image, program, faults>>

Boot ==
  /\ ~power /\ power' = TRUE /\ Unborn # {}
  /\ IF CanLaunch THEN LaunchAgent(Next1, "mutex") ELSE UNCHANGED <<pc, image, program>>
  /\ UNCHANGED <<nt, file, faults, history>>

AgentRuns(p) == TakeMutex(p) \/ GiveUpMutex(p) \/ Cleanup(p) \/ ExitProcess(p)

SwapperRuns(p) ==
  \/ Check(p) \/ Unlink(p) \/ Rename(p) \/ RenameFails(p) \/ RenameExpires(p)
  \/ MutexGone(p) \/ WaitExpires(p) \/ Copy(p) \/ CopyDone(p) \/ CopyFails(p)
  \/ Restore(p) \/ Drop(p) \/ Launch(p) \/ LaunchFails(p)

Next ==
  \/ \E p \in Proc : AgentRuns(p) \/ SwapperRuns(p)
  \/ \E p \in Proc : Stage(p) \/ Update(p) \/ Restart(p)
  \/ Crash \/ Boot

(***************************************************************************)
(* Every process keeps running, and a swapper that keeps failing to rename *)
(* the program of an agent that stays runs out of its two minutes.         *)
(***************************************************************************)
Fairness ==
  \A p \in Proc :
    /\ WF_vars(AgentRuns(p) \/ SwapperRuns(p))
    /\ SF_vars(Rename(p) \/ RenameExpires(p))

Spec == Init /\ [][Next]_vars
FairSpec == Spec /\ Fairness

-----------------------------------------------------------------------------
(***************************************************************************)
(* Properties                                                              *)
(***************************************************************************)
TypeOK ==
  /\ nt \in BOOLEAN /\ power \in BOOLEAN
  /\ history \subseteq Event
  /\ file \in [Name -> Content]
  /\ pc \in [Proc -> AgentPC \cup SwapperPC \cup {"unborn", "gone"}]
  /\ image \in [Proc -> Name]
  /\ program \in [Proc -> Program]
  /\ faults \in 0 .. CopyFaults

Bootable == file["agent"] \in Program

\* Whenever no swapper is running, the Run entry names a whole program: however
\* many swappers ran at once; if none did, even when a copy failed; and even if
\* the machine went down, but for the time from the rename to the end of the copy.
SwapSettles ==
  /\ \A p \in Proc : ~Swapping(p)
  /\ "cut" \notin history
  /\ ~("doubled" \in history /\ faults > 0)
  => Bootable

\* When an agent exits for an update or a restart, one serves again in the end,
\* unless a copy failed: the swapper then restores the program and stops.
AgentReturns ==
  (\E p \in Proc : pc[p] \in {"exiting", "leaving"}) ~>
    (\E p \in Proc : pc[p] = "serve") \/ faults > 0 \/ ~power

\* An accepted update is in the end what serves and what the Run entry starts,
\* again unless a copy failed, and if no Restart came between the two agents.
UpdateTakes ==
  "accepted" \in history ~>
    \/ Bootable /\ \E p \in Proc : pc[p] = "serve" /\ program[p] = "v2"
    \/ faults > 0 \/ {"clashed", "down"} \cap history # {}

\* The header of update.c, and docs/protocol.md of UPDATE_REQUEST: "an
\* interrupted swap still recovers on the next reboot".
InterruptedSwapRecovers == ~power => Bootable
=============================================================================
