-------------------------- MODULE ExecPool_proofs ---------------------------
(***************************************************************************)
(* Proofs about ExecPool, for any number of connections, pool slots and    *)
(* jobs.                                                                   *)
(***************************************************************************)
EXTENDS ExecPool, TLAPS

\* The pool has a first slot, and a next one below the last.
LEMMA SlotRange ==
  /\ 1 \in Slot
  /\ \A i \in Slot : i < PoolSize => i + 1 \in Slot
  BY PoolAssumption DEF Slot

\* TypeOK alone is not inductive: a connection that has created a worker, and
\* not answered for it yet, must still know which worker that is.
Pending == {"accept", "resume", "resumeGone", "reject"}

TypeInv ==
  /\ TypeOK
  /\ \A c \in Conn : pc[c] \in Pending => handle[c] \in Worker

\* The initial states are well typed.
LEMMA InitType == Init => TypeInv
<1>1. (CHOOSE r \in RequestId : TRUE) \in RequestId
  BY PoolAssumption
<1> QED
  BY <1>1, SlotRange DEF Init, TypeInv, TypeOK, Pending, ConnPC, WorkPC

\* What terminating the thread of a handle does: one worker at most is killed.
LEMMA KilledOne ==
  ASSUME wpc \in [Worker -> WorkPC], NEW w
  PROVE  /\ Killed(w) \in [Worker -> WorkPC]
         /\ \A v \in Worker : Killed(w)[v] = wpc[v] \/ (v = w /\ Killed(w)[v] = "killed")
         /\ w \notin Worker => Killed(w) = wpc
         /\ w \in Worker /\ wpc[w] \notin {"done", "killed"}
              => Killed(w) = [wpc EXCEPT ![w] = "killed"]
  BY DEF Killed, Exited, WorkPC

\* Sending keeps the types of the history.
LEMMA DeliverType ==
  ASSUME TypeInv, NEW w \in Worker, NEW c, NEW k \in FrameKind, Deliver(w, c, k)
  PROVE  /\ frames' \in [Worker -> Seq(FrameKind)]
         /\ stray' \subseteq Worker
         /\ client' \in [Worker -> Conn \cup {NoConn}]
  BY DEF TypeInv, TypeOK, Deliver

\* A connection thread keeps the types: it never leaves the pool's slots, and a
\* handle it will use is that of a worker.
LEMMA ConnType ==
  ASSUME TypeInv, NEW c \in Conn, ConnStep(c)
  PROVE  TypeInv'
<1> USE SlotRange DEF TypeInv, Pending
<1>18. /\ pc \in [Conn -> ConnPC] /\ at \in [Conn -> Slot]
       /\ handle \in [Conn -> Worker \cup {NoWorker}]
  BY DEF TypeOK
<1>1. CASE Acquire(c)
  <2>1. at' \in [Conn -> Slot]
    BY <1>18, <1>1 DEF Acquire, Reply
  <2>2. pc' \in [Conn -> ConnPC]
    BY <1>18, <1>1 DEF Acquire, Reply, ConnPC, Goto
  <2>3. \A d \in Conn : pc'[d] \in Pending => handle[d] \in Worker
    BY <1>18, <1>1 DEF Acquire, Reply, Goto
  <2>4. active' \in [Slot -> BOOLEAN]
    BY <1>1 DEF Acquire, TypeOK
  <2> QED
    BY <1>1, <2>1, <2>2, <2>3, <2>4 DEF Acquire, TypeOK, workVars, hist
<1>2. CASE Fill(c)
  <2>1. at' \in [Conn -> Slot]
    BY <1>18, <1>2 DEF Fill, Reply
  <2>2. pc' \in [Conn -> ConnPC]
    BY <1>18, <1>2 DEF Fill, Reply, ConnPC, Goto
  <2>3. \A d \in Conn : pc'[d] \in Pending => handle[d] \in Worker
    BY <1>18, <1>2 DEF Fill, Reply, Goto
  <2>4. active' \in [Slot -> BOOLEAN]
    BY <1>2 DEF Fill, TypeOK
  <2>5. /\ owner' \in [Slot -> Conn \cup {NoConn}] /\ requestId' \in [Slot -> RequestId]
        /\ thread' \in [Slot -> Worker \cup {NoWorker}]
    BY <1>2 DEF Fill, TypeOK
  <2> QED
    BY <1>2, <2>1, <2>2, <2>3, <2>4, <2>5 DEF Fill, TypeOK, workVars, hist
<1>3. CASE \E w \in Worker : WorkerCreated(c, w)
  BY <1>3 DEF WorkerCreated, TypeOK, ConnPC, WorkPC, Goto, WGoto
<1>16. CASE CreateFails(c)
  BY <1>16 DEF CreateFails, TypeOK, ConnPC, Goto, Reply, workVars, hist
<1>4. CASE SendAccepted(c)
  <2> USE <1>4 DEF SendAccepted, TypeOK, ConnPC, FrameKind, Goto, slotVars, workVars
  <2>1. CASE Deliver(handle[c], c, "accepted")
    BY <2>1, DeliverType
  <2>2. CASE UNCHANGED hist
    BY <2>2 DEF hist
  <2> QED
    BY <2>1, <2>2
<1>5. CASE Resumed(c)
  <2>1. thread[wslot[handle[c]]] \in Worker
    BY <1>5 DEF Resumed, TypeOK
  <2> QED
    BY <1>5, <2>1 DEF Resumed, TypeOK, ConnPC, WorkPC, Goto, slotVars, hist
<1>17. CASE ResumeFails(c)
  <2>1. handle[c] \in Worker /\ wslot[handle[c]] \in Slot
    BY <1>17 DEF ResumeFails, TypeOK
  <2>2. /\ wpc' \in [Worker -> WorkPC] /\ active' \in [Slot -> BOOLEAN]
        /\ thread' \in [Slot -> Worker \cup {NoWorker}]
    BY <1>17, <2>1, KilledOne DEF ResumeFails, TypeOK
  <2>3. /\ pc' \in [Conn -> ConnPC] /\ at' \in [Conn -> Slot]
        /\ handle' \in [Conn -> Worker \cup {NoWorker}]
    BY <1>17, <1>18 DEF ResumeFails, ConnPC, Goto
  <2>4. \A d \in Conn : pc'[d] \in Pending => handle'[d] \in Worker
    BY <1>17, <1>18, <2>1 DEF ResumeFails, Goto
  <2> QED
    BY <1>17, <2>2, <2>3, <2>4 DEF ResumeFails, TypeOK, hist
<1>6. CASE Reject(c)
  <2> USE <1>6 DEF Reject, TypeOK, ConnPC, FrameKind, Goto, slotVars, workVars
  <2>1. CASE Deliver(handle[c], c, "error")
    BY <2>1, DeliverType
  <2>2. CASE UNCHANGED hist
    BY <2>2 DEF hist
  <2> QED
    BY <2>1, <2>2
<1>7. CASE LookUp(c)
  <2>1. at' \in [Conn -> Slot]
    BY <1>18, <1>7 DEF LookUp, Cancelled, Reply
  <2>2. pc' \in [Conn -> ConnPC]
    BY <1>18, <1>7 DEF LookUp, Cancelled, Reply, ConnPC, Goto
  <2>3. \A d \in Conn : pc'[d] \in Pending => handle[d] \in Worker
    BY <1>18, <1>7 DEF LookUp, Cancelled, Reply, Goto
  <2> QED
    BY <1>7, <2>1, <2>2, <2>3 DEF LookUp, TypeOK, slotVars, workVars, hist
<1>8. CASE SetCancel(c)
  <2>1. at' \in [Conn -> Slot]
    BY <1>18, <1>8 DEF SetCancel, Cancelled, Reply
  <2>2. pc' \in [Conn -> ConnPC]
    BY <1>18, <1>8 DEF SetCancel, Cancelled, Reply, ConnPC, Goto
  <2>3. \A d \in Conn : pc'[d] \in Pending => handle[d] \in Worker
    BY <1>18, <1>8 DEF SetCancel, Cancelled, Reply, Goto
  <2> QED
    BY <1>8, <2>1, <2>2, <2>3 DEF SetCancel, TypeOK, workVars, hist
<1>9. CASE Scan(c)
  <2>1. at' \in [Conn -> Slot]
    BY <1>18, <1>9 DEF Scan, NextSlot
  <2>2. pc' \in [Conn -> ConnPC]
    BY <1>18, <1>9 DEF Scan, NextSlot, ConnPC, Goto
  <2>3. \A d \in Conn : pc'[d] \in Pending => handle[d] \in Worker
    BY <1>18, <1>9 DEF Scan, NextSlot, Goto
  <2> QED
    BY <1>9, <2>1, <2>2, <2>3 DEF Scan, TypeOK, slotVars, workVars, hist
<1>19. CASE CheckActive(c)
  BY <1>19 DEF CheckActive, TypeOK, ConnPC, Goto, slotVars, workVars, hist
<1>10. CASE Disconnect(c)
  BY <1>10 DEF Disconnect, TypeOK, ConnPC, Goto, workVars, hist
<1>20. CASE Await(c)
  <2>1. handle' \in [Conn -> Worker \cup {NoWorker}] /\ pc' \in [Conn -> ConnPC]
    <3>1. thread[at[c]] \in Worker \cup {NoWorker}
      BY DEF TypeOK
    <3>2. "wait" \in ConnPC /\ "close" \in ConnPC
      BY DEF ConnPC
    <3> QED BY <1>18, <1>20, <3>1, <3>2 DEF Await, Goto
  <2>2. \A d \in Conn : pc'[d] \in Pending => handle'[d] \in Worker
    <3>1. pc'[c] \in {"wait", "close"} /\ \A d \in Conn \ {c} : pc'[d] = pc[d]
      BY <1>18, <1>20 DEF Await, Goto
    <3>2. \A d \in Conn \ {c} : handle'[d] = handle[d]
      BY <1>18, <1>20 DEF Await
    <3> QED BY <3>1, <3>2
  <2> QED
    BY <1>20, <2>1, <2>2 DEF Await, TypeOK, slotVars, workVars, hist
<1>11. CASE Wait(c)
  BY <1>11 DEF Wait, TypeOK, ConnPC, Goto, slotVars, workVars, hist
<1>12. CASE WaitTimesOut(c)
  BY <1>12 DEF WaitTimesOut, TypeOK, ConnPC, Goto, slotVars, workVars, hist
<1>13. CASE Terminate(c)
  <2>1. Killed(thread[at[c]]) \in [Worker -> WorkPC]
    BY KilledOne DEF TypeOK
  <2> QED
    BY <1>13, <2>1 DEF Terminate, TypeOK, ConnPC, Goto, hist
<1>14. CASE Close(c)
  <2>1. at' \in [Conn -> Slot]
    BY <1>18, <1>14 DEF Close, NextSlot
  <2>2. pc' \in [Conn -> ConnPC]
    BY <1>18, <1>14 DEF Close, NextSlot, ConnPC, Goto
  <2>3. \A d \in Conn : pc'[d] \in Pending => handle'[d] \in Worker
    BY <1>18, <1>14 DEF Close, NextSlot, Goto
  <2>4. /\ handle' \in [Conn -> Worker \cup {NoWorker}]
        /\ thread' \in [Slot -> Worker \cup {NoWorker}]
    BY <1>14 DEF Close, TypeOK
  <2> QED
    BY <1>14, <2>1, <2>2, <2>3, <2>4 DEF Close, TypeOK, workVars, hist
<1>15. CASE Release(c)
  BY <1>15 DEF Release, TypeOK, ConnPC, Goto, slotVars, workVars
<1> QED
  BY <1>1, <1>2, <1>3, <1>4, <1>5, <1>6, <1>7, <1>8, <1>9, <1>10, <1>11, <1>12,
     <1>13, <1>14, <1>15, <1>16, <1>17, <1>19, <1>20 DEF ConnStep

\* What clients and the idle timeout do keeps the types.
LEMMA ClientType ==
  ASSUME TypeInv, NEW c \in Conn, Client(c) \/ EndService(c)
  PROVE  TypeInv'
<1> USE SlotRange DEF TypeInv, Pending
<1>1. CASE Claim(c)
  BY <1>1 DEF Claim, TypeOK, ConnPC, Goto, slotVars, workVars, hist
<1>2. CASE ClientGone(c)
  BY <1>2 DEF ClientGone, TypeOK, slotVars, workVars, hist
<1>3. CASE ExecRequest(c)
  BY <1>3 DEF ExecRequest, TypeOK, ConnPC, Goto, slotVars, workVars, hist
<1>4. CASE CancelRequest(c)
  BY <1>4 DEF CancelRequest, TypeOK, ConnPC, Goto, slotVars, workVars, hist
<1>5. CASE EndService(c)
  BY <1>5 DEF EndService, TypeOK, ConnPC, Goto, slotVars, workVars, hist
<1> QED
  BY <1>1, <1>2, <1>3, <1>4, <1>5 DEF Client

\* A worker keeps the types.
LEMMA WorkerType ==
  ASSUME TypeInv, NEW w \in Worker, WorkerStep(w)
  PROVE  TypeInv'
<1> USE SlotRange DEF TypeInv, Pending
<1>1. CASE WStart(w)
  BY <1>1 DEF WStart, TypeOK, WorkPC, WGoto, slotVars, connVars, hist
<1>2. CASE WOutput(w)
  <2>1. CASE UNCHANGED hist
    BY <1>2, <2>1 DEF WOutput, TypeOK, connVars, workVars, hist
  <2>2. CASE Deliver(w, owner[wslot[w]], "output") /\ cancel' = cancel
    BY <1>2, <2>2, DeliverType DEF WOutput, TypeOK, FrameKind, connVars, workVars
  <2> QED
    BY <1>2, <2>1, <2>2 DEF WOutput
<1>3. CASE WLeaveLoop(w)
  BY <1>3 DEF WLeaveLoop, TypeOK, WorkPC, WGoto, slotVars, connVars, hist
<1>4. CASE WComplete(w)
  <2> USE <1>4 DEF WComplete, TypeOK, WorkPC, FrameKind, WGoto, slotVars, connVars
  <2>1. CASE Deliver(w, owner[wslot[w]], "complete")
    BY <2>1, DeliverType
  <2>2. CASE UNCHANGED hist
    BY <2>2 DEF hist
  <2> QED
    BY <2>1, <2>2
<1>5. CASE WFree(w)
  BY <1>5 DEF WFree, TypeOK, WorkPC, WGoto, connVars, hist
<1> QED
  BY <1>1, <1>2, <1>3, <1>4, <1>5 DEF WorkerStep

\* Every reachable state of the pool is well typed; in particular a teardown
\* never looks past the last pool slot.
THEOREM TypeCorrect == Spec => []TypeOK
<1>1. TypeInv /\ [Next]_vars => TypeInv'
  <2> SUFFICES ASSUME TypeInv, [Next]_vars PROVE TypeInv'
    OBVIOUS
  <2>1. CASE UNCHANGED vars
    BY <2>1 DEF TypeInv, TypeOK, vars, slotVars, connVars, workVars, hist
  <2> QED
    BY <2>1, ConnType, ClientType, WorkerType DEF Next
<1>2. TypeInv => TypeOK
  BY DEF TypeInv
<1> QED
  BY InitType, <1>1, <1>2, PTL DEF Spec

-----------------------------------------------------------------------------
(***************************************************************************)
(* Exclusive use of the pool, while no wait of a disconnect is in vain.    *)
(* The invariant adds to SlotExclusive what makes it inductive: which      *)
(* connection threads hold a worker's handle, and that a worker somebody   *)
(* has yet to resume is suspended, in a slot that names it or none.        *)
(***************************************************************************)
\* SlotExclusive, with the users of a slot told apart.
ExclusiveAt(s) ==
  /\ active[s] <=> (\E c \in Conn : Preparing(c, s))
                     \/ (\E w \in Worker : Working(w, s))
  /\ \A c, d \in Conn : Preparing(c, s) /\ Preparing(d, s) => c = d
  /\ \A v, w \in Worker : Working(v, s) /\ Working(w, s) => v = w
  /\ \A c \in Conn, w \in Worker : ~(Preparing(c, s) /\ Working(w, s))

Exclusive == \A s \in Slot : ExclusiveAt(s)

HoldsHandle == Pending \cup {"lookup", "setCancel", "wait", "close"}

HandleInv ==
  \A c \in Conn :
    /\ pc[c] # "expired"
    /\ pc[c] \notin HoldsHandle => handle[c] = NoWorker
    /\ pc[c] \in {"accept", "resume", "resumeGone"} => wpc[handle[c]] = "suspended"
    /\ pc[c] \in {"lookup", "setCancel"} /\ handle[c] # NoWorker
         => wpc[handle[c]] = "suspended"

\* The worker that c has created and not resumed yet.
SetsUp(c) == pc[c] \in Pending \cup {"lookup", "setCancel"} /\ handle[c] # NoWorker

\* A teardown of an earlier owner may have closed its handle, but no other is
\* in its place: the thread that v9x_execution_resume finds.
NamesOwn ==
  \A c \in Conn : SetsUp(c) /\ pc[c] # "reject"
                     => thread[wslot[handle[c]]] \in {handle[c], NoWorker}

PoolInv == TypeInv /\ HandleInv /\ NamesOwn /\ Exclusive

\* The disjointness that the proof carries along says what SlotExclusive says.
LEMMA ExclusiveMeans == Exclusive => SlotExclusive
<1> SUFFICES ASSUME Exclusive, NEW s \in Slot
             PROVE  /\ active[s] <=> Users(s) # {}
                    /\ \A u, v \in Users(s) : u = v
  BY DEF SlotExclusive
<1>1. ASSUME active[s] PROVE Users(s) # {}
  <2>1. CASE \E c \in Conn : Preparing(c, s)
    BY <2>1 DEF Users
  <2>2. CASE \E w \in Worker : Working(w, s)
    BY <2>2 DEF Users
  <2> QED
    BY <1>1, <2>1, <2>2 DEF Exclusive, ExclusiveAt
<1>2. ASSUME NEW u \in Users(s) PROVE active[s]
  BY <1>2 DEF Users, Exclusive, ExclusiveAt
<1>3. ASSUME NEW u \in Users(s), NEW v \in Users(s) PROVE u = v
  <2>1. \/ u \in Conn /\ Preparing(u, s)
        \/ u \in Worker /\ Working(u, s)
    BY <1>3 DEF Users
  <2>2. \/ v \in Conn /\ Preparing(v, s)
        \/ v \in Worker /\ Working(v, s)
    BY <1>3 DEF Users
  <2> QED
    BY <2>1, <2>2 DEF Exclusive, ExclusiveAt
<1> QED
  BY <1>1, <1>2, <1>3 DEF Exclusive, ExclusiveAt

\* A step that changes no user of any slot and no active flag.
LEMMA SameUsers ==
  ASSUME Exclusive, active' = active,
         \A c \in Conn, s \in Slot : Preparing(c, s)' <=> Preparing(c, s),
         \A w \in Worker, s \in Slot : Working(w, s)' <=> Working(w, s)
  PROVE  Exclusive'
  BY DEF Exclusive, ExclusiveAt

\* A step by which connection c takes slot s, which nobody uses.
LEMMA ConnEnters ==
  ASSUME Exclusive, active \in [Slot -> BOOLEAN], NEW c \in Conn, NEW s \in Slot, ~active[s],
         active' = [active EXCEPT ![s] = TRUE],
         \A d \in Conn, t \in Slot :
           Preparing(d, t)' <=> Preparing(d, t) \/ (d = c /\ t = s),
         \A w \in Worker, t \in Slot : Working(w, t)' <=> Working(w, t)
  PROVE  Exclusive'
<1> SUFFICES ASSUME NEW t \in Slot PROVE ExclusiveAt(t)'
  BY DEF Exclusive
<1>1. CASE t = s
  BY <1>1 DEF Exclusive, ExclusiveAt
<1>2. CASE t # s
  <2>1. /\ active'[t] = active[t]
        /\ \A d \in Conn : Preparing(d, t)' <=> Preparing(d, t)
        /\ \A v \in Worker : Working(v, t)' <=> Working(v, t)
    BY <1>2
  <2> QED
    BY <2>1 DEF Exclusive, ExclusiveAt
<1> QED
  BY <1>1, <1>2

\* A step by which the only user of slot s, connection c, gives it up.
LEMMA ConnLeaves ==
  ASSUME Exclusive, active \in [Slot -> BOOLEAN], NEW c \in Conn, NEW s \in Slot, Preparing(c, s),
         active' = [active EXCEPT ![s] = FALSE],
         \A d \in Conn, t \in Slot : Preparing(d, t)' <=> d # c /\ Preparing(d, t),
         \A t \in Slot : Preparing(c, t) => t = s,
         \A w \in Worker, t \in Slot : Working(w, t)' <=> Working(w, t)
  PROVE  Exclusive'
<1> SUFFICES ASSUME NEW t \in Slot PROVE ExclusiveAt(t)'
  BY DEF Exclusive
<1>1. CASE t = s
  BY <1>1 DEF Exclusive, ExclusiveAt
<1>2. CASE t # s
  <2>1. /\ active'[t] = active[t]
        /\ \A d \in Conn : Preparing(d, t)' <=> Preparing(d, t)
        /\ \A v \in Worker : Working(v, t)' <=> Working(v, t)
    BY <1>2
  <2> QED
    BY <2>1 DEF Exclusive, ExclusiveAt
<1> QED
  BY <1>1, <1>2

\* A step by which worker w takes slot s over from connection c.
LEMMA HandOver ==
  ASSUME Exclusive, NEW c \in Conn, NEW w \in Worker, NEW s \in Slot,
         \A t \in Slot : Preparing(c, t) <=> t = s,
         \A t \in Slot : ~Working(w, t),
         active' = active,
         \A d \in Conn, t \in Slot : Preparing(d, t)' <=> d # c /\ Preparing(d, t),
         \A v \in Worker, t \in Slot :
           Working(v, t)' <=> Working(v, t) \/ (v = w /\ t = s)
  PROVE  Exclusive'
<1> SUFFICES ASSUME NEW t \in Slot PROVE ExclusiveAt(t)'
  BY DEF Exclusive
<1>1. CASE t = s
  BY <1>1 DEF Exclusive, ExclusiveAt
<1>2. CASE t # s
  BY <1>2 DEF Exclusive, ExclusiveAt
<1> QED
  BY <1>1, <1>2

\* A step by which the only user of slot s, worker w, frees it.
LEMMA WorkerLeaves ==
  ASSUME Exclusive, active \in [Slot -> BOOLEAN], NEW w \in Worker, NEW s \in Slot,
         \A t \in Slot : Working(w, t) <=> t = s,
         active' = [active EXCEPT ![s] = FALSE],
         \A d \in Conn, t \in Slot : Preparing(d, t)' <=> Preparing(d, t),
         \A v \in Worker, t \in Slot : Working(v, t)' <=> v # w /\ Working(v, t)
  PROVE  Exclusive'
<1> SUFFICES ASSUME NEW t \in Slot PROVE ExclusiveAt(t)'
  BY DEF Exclusive
<1>1. CASE t = s
  BY <1>1 DEF Exclusive, ExclusiveAt
<1>2. CASE t # s
  <2>1. /\ active'[t] = active[t]
        /\ \A d \in Conn : Preparing(d, t)' <=> Preparing(d, t)
        /\ \A v \in Worker : Working(v, t)' <=> Working(v, t)
    BY <1>2
  <2> QED
    BY <2>1 DEF Exclusive, ExclusiveAt
<1> QED
  BY <1>1, <1>2

\* A step of a connection thread that leaves the workers alone, and keeps its
\* thread inside, or outside, the slot it prepares.
LEMMA ConnMoves ==
  ASSUME PoolInv, NEW c \in Conn,
         UNCHANGED <<active, wpc, wslot>>,
         \A d \in Conn : d # c => pc'[d] = pc[d] /\ at'[d] = at[d] /\ handle'[d] = handle[d],
         \A s \in Slot : Preparing(c, s)' <=> Preparing(c, s)
  PROVE  Exclusive'
<1>1. ASSUME NEW d \in Conn, NEW s \in Slot
      PROVE  Preparing(d, s)' <=> Preparing(d, s)
  <2>1. CASE d = c
    BY <2>1 DEF Preparing
  <2>2. CASE d # c
    BY <2>2 DEF Preparing
  <2> QED
    BY <2>1, <2>2
<1>2. \A w \in Worker, s \in Slot : Working(w, s)' <=> Working(w, s)
  BY DEF Working
<1> QED
  BY <1>1, <1>2, SameUsers DEF PoolInv

\* At first no slot is active and nobody uses one.
LEMMA PoolInit == Init => PoolInv
<1>1. Init => HandleInv /\ NamesOwn /\ Exclusive
  BY DEF Init, HandleInv, HoldsHandle, NamesOwn, SetsUp, Pending, Exclusive, ExclusiveAt,
              Preparing, Working, Running
<1> QED
  BY <1>1, InitType DEF PoolInv

\* A connection thread keeps every slot's user unique: EXEC, CANCEL and teardown.
LEMMA ConnKeeps ==
  ASSUME PoolInv, ~WaitExpires, NEW c \in Conn, ConnStep(c)
  PROVE  HandleInv' /\ Exclusive'
<1> USE DEF PoolInv, TypeInv, TypeOK, HoldsHandle, Pending, Goto
<1>1. CASE Acquire(c)
  <2>1. CASE active[at[c]]
    <3>1. HandleInv'
      BY <1>1, <2>1 DEF Acquire, Reply, HandleInv, workVars
    <3>2. \A s \in Slot : Preparing(c, s)' <=> Preparing(c, s)
      BY <1>1, <2>1 DEF Acquire, Reply, Preparing, workVars
    <3> QED
      BY <1>1, <2>1, <3>1, <3>2, ConnMoves DEF Acquire, Reply, workVars
  <2>2. CASE ~active[at[c]]
    <3>1. HandleInv'
      BY <1>1, <2>2 DEF Acquire, HandleInv, workVars
    <3>2. \A d \in Conn, s \in Slot :
            Preparing(d, s)' <=> Preparing(d, s) \/ (d = c /\ s = at[c])
      BY <1>1, <2>2 DEF Acquire, Preparing, workVars
    <3>3. \A w \in Worker, s \in Slot : Working(w, s)' <=> Working(w, s)
      BY <1>1 DEF Acquire, Working, workVars
    <3>4. active' = [active EXCEPT ![at[c]] = TRUE]
      BY <1>1, <2>2 DEF Acquire
    <3>5. c \in Conn /\ at[c] \in Slot /\ active \in [Slot -> BOOLEAN] /\ Exclusive
      OBVIOUS
    <3> HIDE DEF TypeOK, TypeInv, PoolInv
    <3>6. Exclusive'
      BY ONLY <2>2, <3>2, <3>3, <3>4, <3>5, ConnEnters
    <3> QED
      BY <3>1, <3>6
  <2> QED
    BY <2>1, <2>2
<1>2. CASE Fill(c)
  <2>1. HandleInv'
    <3>1. pc'[c] \in {"create", "idle", "scan"} /\ \A d \in Conn \ {c} : pc'[d] = pc[d]
      BY <1>2 DEF Fill, Reply
    <3>2. UNCHANGED <<handle, wpc>> /\ pc[c] = "fill"
      BY <1>2 DEF Fill, workVars
    <3> QED BY <3>1, <3>2 DEF HandleInv
  <2>2. CASE Goto(c, "create") /\ UNCHANGED <<active, at>>
    <3>1. \A s \in Slot : Preparing(c, s)' <=> Preparing(c, s)
      BY <1>2, <2>2 DEF Fill, Preparing, workVars
    <3> QED
      BY <1>2, <2>1, <2>2, <3>1, ConnMoves DEF Fill, workVars
  <2>3. CASE Reply(c) /\ active' = [active EXCEPT ![at[c]] = FALSE]
    <3>1. \A s \in Slot : Preparing(c, s) <=> s = at[c]
      BY <1>2 DEF Fill, Preparing
    <3>2. \A d \in Conn, s \in Slot : Preparing(d, s)' <=> d # c /\ Preparing(d, s)
      BY <1>2, <2>3 DEF Fill, Reply, Preparing, workVars
    <3>3. \A w \in Worker, s \in Slot : Working(w, s)' <=> Working(w, s)
      BY <1>2 DEF Fill, Working, workVars
    <3> QED
      BY <2>1, <2>3, <3>1, <3>2, <3>3, ConnLeaves
  <2> QED
    BY <1>2, <2>2, <2>3 DEF Fill
<1>3. CASE CreateFails(c)
  <2>1. HandleInv'
    BY <1>3 DEF CreateFails, Reply, HandleInv, workVars
  <2>2. \A s \in Slot : Preparing(c, s) <=> s = at[c]
    BY <1>3 DEF CreateFails, Preparing
  <2>3. \A d \in Conn, s \in Slot : Preparing(d, s)' <=> d # c /\ Preparing(d, s)
    BY <1>3 DEF CreateFails, Reply, Preparing, workVars
  <2>4. \A w \in Worker, s \in Slot : Working(w, s)' <=> Working(w, s)
    BY <1>3 DEF CreateFails, Working, workVars
  <2> QED
    BY <1>3, <2>1, <2>2, <2>3, <2>4, ConnLeaves DEF CreateFails
<1>4. CASE \E w \in Worker : WorkerCreated(c, w)
  <2> PICK w \in Worker : WorkerCreated(c, w)
    BY <1>4
  <2>1. HandleInv'
    BY DEF WorkerCreated, WGoto, HandleInv
  <2>2. ASSUME NEW d \in Conn, NEW s \in Slot
        PROVE  Preparing(d, s)' <=> Preparing(d, s)
    <3>1. CASE d = c
      BY <3>1, PoolAssumption DEF WorkerCreated, Preparing
    <3>2. CASE d # c
      <4>1. pc[d] \in {"accept", "resume", "resumeGone", "lookup", "setCancel"}
              /\ handle[d] # NoWorker => handle[d] # w
        BY DEF WorkerCreated, HandleInv
      <4>2. handle'[d] = handle[d] /\ pc'[d] = pc[d] /\ at'[d] = at[d]
        BY <3>2 DEF WorkerCreated
      <4>3. handle[d] # w => wslot'[handle[d]] = wslot[handle[d]]
        BY DEF WorkerCreated
      <4> QED
        BY <4>1, <4>2, <4>3 DEF Preparing
    <3> QED
      BY <3>1, <3>2
  <2>3. \A v \in Worker, s \in Slot : Working(v, s)' <=> Working(v, s)
    BY DEF WorkerCreated, WGoto, Working, Running
  <2> QED
    BY <2>1, <2>2, <2>3, SameUsers DEF WorkerCreated
<1>5. CASE SendAccepted(c)
  <2>1. HandleInv'
    BY <1>5 DEF SendAccepted, HandleInv, workVars
  <2>2. \A s \in Slot : Preparing(c, s)' <=> Preparing(c, s)
    BY <1>5, PoolAssumption DEF SendAccepted, Preparing, workVars
  <2> QED
    BY <1>5, <2>1, <2>2, ConnMoves DEF SendAccepted, slotVars, workVars
<1>6. CASE LookUp(c)
  <2>1. HandleInv'
    BY <1>6 DEF LookUp, Cancelled, Reply, HandleInv, workVars
  <2>2. \A s \in Slot : Preparing(c, s)' <=> Preparing(c, s)
    BY <1>6 DEF LookUp, Cancelled, Reply, Preparing, workVars
  <2> QED
    BY <1>6, <2>1, <2>2, ConnMoves DEF LookUp, Cancelled, Reply, slotVars, workVars
<1>7. CASE SetCancel(c)
  <2>1. HandleInv'
    BY <1>7 DEF SetCancel, Cancelled, Reply, HandleInv, workVars
  <2>2. \A s \in Slot : Preparing(c, s)' <=> Preparing(c, s)
    BY <1>7 DEF SetCancel, Cancelled, Reply, Preparing, workVars
  <2> QED
    BY <1>7, <2>1, <2>2, ConnMoves DEF SetCancel, Cancelled, Reply, workVars
<1>8. CASE Reject(c)
  <2>1. HandleInv'
    BY <1>8 DEF Reject, HandleInv, workVars
  <2>2. \A s \in Slot : Preparing(c, s)' <=> Preparing(c, s)
    BY <1>8 DEF Reject, Preparing, workVars
  <2> QED
    BY <1>8, <2>1, <2>2, ConnMoves DEF Reject, slotVars, workVars
<1>9. CASE \/ Scan(c) \/ CheckActive(c) \/ Disconnect(c) \/ Await(c)
           \/ Wait(c) \/ Close(c) \/ Release(c)
  <2> USE DEF Scan, CheckActive, Disconnect, Await, Wait, Close, Release, NextSlot,
              slotVars, workVars
  <2>1. HandleInv'
    BY <1>9 DEF HandleInv
  <2>2. \A s \in Slot : Preparing(c, s)' <=> Preparing(c, s)
    BY <1>9 DEF Preparing
  <2> QED
    BY <1>9, <2>1, <2>2, ConnMoves
<1>11. CASE Resumed(c) \/ ResumeFails(c)
  <2> DEFINE w == handle[c]
             s == wslot[w]
  <2>1. w \in Worker /\ s \in Slot /\ wpc[w] = "suspended"
    BY <1>11 DEF Resumed, ResumeFails, HandleInv
  <2>2. \A t \in Slot : Preparing(c, t) <=> t = s
    BY <1>11, <2>1, PoolAssumption DEF Resumed, ResumeFails, Preparing
  <2>3. \A d \in Conn : d # c /\ handle[d] = w
          => pc[d] \notin {"accept", "resume", "resumeGone", "lookup", "setCancel"}
    BY <2>1, <2>2, PoolAssumption DEF Exclusive, ExclusiveAt, Preparing
  <2>8. thread[s] \in {w, NoWorker}
    BY <1>11, <2>1, PoolAssumption DEF Resumed, ResumeFails, NamesOwn, SetsUp
  <2>9. /\ Resumed(c) => wpc' = [wpc EXCEPT ![w] = "start"]
        /\ ResumeFails(c) => wpc' = wpc \/ wpc' = [wpc EXCEPT ![w] = "killed"]
    <3>1. Resumed(c) => thread[s] = w
      BY <2>8 DEF Resumed
    <3>2. Killed(thread[s]) = wpc \/ Killed(thread[s]) = [wpc EXCEPT ![w] = "killed"]
      <4>1. CASE thread[s] = w
        BY <2>1, <4>1, KilledOne
      <4>2. CASE thread[s] = NoWorker
        BY <4>2, KilledOne, PoolAssumption
      <4> QED BY <2>8, <4>1, <4>2
    <3>3. ResumeFails(c) => wpc' = Killed(thread[s])
      BY DEF ResumeFails
    <3> QED BY <2>1, <3>1, <3>2, <3>3 DEF Resumed
  <2>4. HandleInv'
    <3>1. /\ \A d \in Conn : d # c => pc'[d] = pc[d] /\ handle'[d] = handle[d]
          /\ pc'[c] \in {"idle", "scan", "reject"}
          /\ pc'[c] # "reject" => handle'[c] = NoWorker
      BY <1>11 DEF Resumed, ResumeFails
    <3>2. \A v \in Worker : v # w => wpc'[v] = wpc[v]
      BY <1>11, <2>9
    <3>3. ASSUME NEW d \in Conn, d # c,
                 pc[d] \in {"accept", "resume", "resumeGone", "lookup", "setCancel"},
                 handle[d] # NoWorker
          PROVE  wpc'[handle[d]] = "suspended"
      <4>1. handle[d] \in Worker /\ handle[d] # w
        BY <2>3, <3>3
      <4> QED BY <3>2, <3>3, <4>1 DEF HandleInv
    <3> QED BY <3>1, <3>3, PoolAssumption DEF HandleInv
  <2>5. ASSUME NEW d \in Conn, NEW t \in Slot
        PROVE  Preparing(d, t)' <=> d # c /\ Preparing(d, t)
    <3>1. CASE d = c
      BY <1>11, <2>1, <3>1 DEF Resumed, ResumeFails, Preparing
    <3>2. CASE d # c
      BY <1>11, <3>2 DEF Resumed, ResumeFails, Preparing
    <3> QED
      BY <3>1, <3>2
  <2>6. CASE Resumed(c)
    <3>0. wpc' = [wpc EXCEPT ![w] = "start"] /\ wslot' = wslot
      BY <2>6, <2>9 DEF Resumed
    <3>1. \A v \in Worker, t \in Slot : Working(v, t)' <=> Working(v, t) \/ (v = w /\ t = s)
      BY <2>1, <3>0 DEF Working, Running
    <3>2. \A t \in Slot : ~Working(w, t)
      BY <2>1 DEF Working, Running
    <3>3. active' = active
      BY <2>6 DEF Resumed, slotVars
    <3>4. Exclusive /\ c \in Conn
      OBVIOUS
    <3> HIDE DEF w, s
    <3>5. Exclusive'
      BY ONLY <2>1, <2>2, <2>5, <3>1, <3>2, <3>3, <3>4, HandOver
    <3> QED
      BY <2>4, <3>5
  <2>7. CASE ResumeFails(c)
    <3>1. \A v \in Worker, t \in Slot : Working(v, t)' <=> Working(v, t)
      BY <2>1, <2>7, <2>9 DEF ResumeFails, Working, Running
    <3> QED
      BY <2>1, <2>2, <2>4, <2>5, <2>7, <3>1, ConnLeaves DEF ResumeFails
  <2> QED
    BY <1>11, <2>6, <2>7
<1>10. CASE WaitTimesOut(c) \/ Terminate(c)
  BY <1>10 DEF WaitTimesOut, Terminate, HandleInv
<1> QED
  BY <1>1, <1>2, <1>3, <1>4, <1>5, <1>6, <1>7, <1>8, <1>9, <1>10, <1>11 DEF ConnStep

\* What clients and the idle timeout do changes no user of any slot.
LEMMA ClientKeeps ==
  ASSUME PoolInv, NEW c \in Conn, Client(c) \/ EndService(c)
  PROVE  HandleInv' /\ Exclusive'
<1> USE DEF PoolInv, TypeInv, TypeOK, HoldsHandle, Pending, Goto, slotVars, workVars
<1>1. CASE Claim(c)
  <2>1. HandleInv' /\ \A s \in Slot : Preparing(c, s)' <=> Preparing(c, s)
    BY <1>1 DEF Claim, HandleInv, Preparing
  <2> QED
    BY <1>1, <2>1, ConnMoves DEF Claim
<1>2. CASE ClientGone(c)
  <2>1. HandleInv' /\ \A s \in Slot : Preparing(c, s)' <=> Preparing(c, s)
    BY <1>2 DEF ClientGone, HandleInv, Preparing
  <2> QED
    BY <1>2, <2>1, ConnMoves DEF ClientGone
<1>3. CASE ExecRequest(c)
  <2>1. HandleInv' /\ \A s \in Slot : Preparing(c, s)' <=> Preparing(c, s)
    BY <1>3 DEF ExecRequest, HandleInv, Preparing
  <2> QED
    BY <1>3, <2>1, ConnMoves DEF ExecRequest
<1>4. CASE CancelRequest(c)
  <2>1. HandleInv' /\ \A s \in Slot : Preparing(c, s)' <=> Preparing(c, s)
    BY <1>4 DEF CancelRequest, HandleInv, Preparing
  <2> QED
    BY <1>4, <2>1, ConnMoves DEF CancelRequest
<1>5. CASE EndService(c)
  <2>1. HandleInv' /\ \A s \in Slot : Preparing(c, s)' <=> Preparing(c, s)
    BY <1>5 DEF EndService, HandleInv, Preparing
  <2> QED
    BY <1>5, <2>1, ConnMoves DEF EndService
<1> QED
  BY <1>1, <1>2, <1>3, <1>4, <1>5 DEF Client

\* A worker stays the only user of its slot until it frees it.
LEMMA WorkerKeeps ==
  ASSUME PoolInv, NEW w \in Worker, WorkerStep(w)
  PROVE  HandleInv' /\ Exclusive'
<1> USE DEF PoolInv, TypeInv, TypeOK, HoldsHandle, Pending, WGoto, Running, connVars
<1>1. CASE WStart(w) \/ WOutput(w) \/ WLeaveLoop(w) \/ WComplete(w)
  <2>0. /\ wpc[w] \in Running /\ wslot' = wslot /\ active' = active
        /\ UNCHANGED <<pc, at, handle>>
        /\ wpc'[w] \in Running
        /\ \A v \in Worker : v # w => wpc'[v] = wpc[v]
    <3>1. CASE WStart(w)
      BY <3>1 DEF WStart, slotVars
    <3>2. CASE WOutput(w)
      BY <3>2 DEF WOutput, workVars
    <3>3. CASE WLeaveLoop(w)
      BY <3>3 DEF WLeaveLoop, WCancelled, WTimedOut, WChildEnds, slotVars
    <3>4. CASE WComplete(w)
      BY <3>4 DEF WComplete, slotVars
    <3> QED
      BY <1>1, <3>1, <3>2, <3>3, <3>4
  <2>1. HandleInv'
    BY <2>0 DEF HandleInv
  <2>2. \A d \in Conn, s \in Slot : Preparing(d, s)' <=> Preparing(d, s)
    BY <2>0 DEF Preparing
  <2>3. \A v \in Worker, s \in Slot : Working(v, s)' <=> Working(v, s)
    BY <2>0 DEF Working
  <2> QED
    BY <2>0, <2>1, <2>2, <2>3, SameUsers
<1>2. CASE WFree(w)
  <2> USE <1>2 DEF WFree
  <2>1. HandleInv'
    BY DEF HandleInv
  <2>2. \A d \in Conn, s \in Slot : Preparing(d, s)' <=> Preparing(d, s)
    BY DEF Preparing
  <2>3. \A v \in Worker, s \in Slot : Working(v, s)' <=> v # w /\ Working(v, s)
    BY DEF Working
  <2>4. \A s \in Slot : Working(w, s) <=> s = wslot[w]
    BY DEF Working
  <2>5. active' = [active EXCEPT ![wslot[w]] = FALSE]
    OBVIOUS
  <2>6. wslot[w] \in Slot /\ active \in [Slot -> BOOLEAN] /\ Exclusive
    OBVIOUS
  <2>7. Exclusive'
    BY ONLY <2>2, <2>3, <2>4, <2>5, <2>6, WorkerLeaves
  <2> QED
    BY <2>1, <2>7
<1> QED
  BY <1>1, <1>2 DEF WorkerStep

\* Only WorkerCreated puts a handle into a slot, one that its connection prepares
\* alone; everything else that writes there takes one away.
LEMMA NamesOwnKept ==
  ASSUME PoolInv, TypeInv', Next
  PROVE  NamesOwn'
<1> USE DEF PoolInv, TypeInv, TypeOK, Goto, WGoto, slotVars, connVars, workVars
<1>1. ASSUME UNCHANGED wslot,
             \A s \in Slot : thread'[s] \in {thread[s], NoWorker},
             \A c \in Conn :
               SetsUp(c)' /\ pc'[c] # "reject"
                 => SetsUp(c) /\ pc[c] # "reject" /\ handle'[c] = handle[c]
      PROVE  NamesOwn'
  <2> SUFFICES ASSUME NEW c \in Conn, SetsUp(c)', pc'[c] # "reject"
               PROVE  thread'[wslot[handle'[c]]] \in {handle'[c], NoWorker}
    BY <1>1 DEF NamesOwn
  <2>1. handle[c] \in Worker /\ handle'[c] = handle[c] /\ wslot[handle[c]] \in Slot
    BY <1>1 DEF SetsUp
  <2>2. thread[wslot[handle[c]]] \in {handle[c], NoWorker}
    BY <1>1 DEF NamesOwn
  <2> QED BY <1>1, <2>1, <2>2
<1>2. ASSUME NEW c \in Conn,
             \/ Acquire(c) \/ Fill(c) \/ CreateFails(c) \/ SendAccepted(c) \/ Reject(c)
             \/ LookUp(c) \/ SetCancel(c)
      PROVE  NamesOwn'
  BY <1>1, <1>2 DEF Acquire, Fill, CreateFails, SendAccepted, Reject, LookUp, SetCancel,
                    Cancelled, Reply, SetsUp, Pending, HandleInv, HoldsHandle
<1>3. ASSUME NEW c \in Conn,
             \/ Resumed(c) \/ ResumeFails(c) \/ Scan(c) \/ CheckActive(c) \/ Disconnect(c)
             \/ Await(c) \/ Wait(c) \/ WaitTimesOut(c) \/ Terminate(c) \/ Close(c)
             \/ Release(c)
      PROVE  NamesOwn'
  BY <1>1, <1>3 DEF Resumed, ResumeFails, Scan, NextSlot, CheckActive, Disconnect, Await,
                    Wait, WaitTimesOut, Terminate, Close, Release, SetsUp, Pending
<1>4. ASSUME NEW c \in Conn, Client(c) \/ EndService(c) PROVE NamesOwn'
  <2>1. CASE Claim(c) \/ ClientGone(c) \/ EndService(c)
    BY <1>1, <2>1 DEF Claim, ClientGone, EndService, SetsUp, Pending
  <2>2. CASE ExecRequest(c) \/ CancelRequest(c)
    <3>1. handle[c] = NoWorker
      BY <2>2 DEF ExecRequest, CancelRequest, HandleInv, HoldsHandle, Pending
    <3>2. /\ UNCHANGED <<thread, wslot, handle>>
          /\ \A d \in Conn : d # c => pc'[d] = pc[d]
      BY <2>2 DEF ExecRequest, CancelRequest
    <3> QED BY <1>1, <3>1, <3>2 DEF SetsUp
  <2> QED BY <1>4, <2>1, <2>2 DEF Client
<1>5. ASSUME NEW v \in Worker, WorkerStep(v) PROVE NamesOwn'
  BY <1>1, <1>5 DEF WorkerStep, WStart, WOutput, WLeaveLoop, WComplete, WFree, SetsUp
<1>6. ASSUME NEW c \in Conn, NEW w \in Worker, WorkerCreated(c, w) PROVE NamesOwn'
  <2> SUFFICES ASSUME NEW d \in Conn, SetsUp(d)', pc'[d] # "reject"
               PROVE  thread'[wslot'[handle'[d]]] \in {handle'[d], NoWorker}
    BY DEF NamesOwn
  <2>1. CASE d = c
    BY <1>6, <2>1 DEF WorkerCreated
  <2>2. CASE d # c
    <3>1. /\ SetsUp(d) /\ pc[d] # "reject" /\ handle'[d] = handle[d] /\ handle[d] \in Worker
          /\ wpc[w] = "none" /\ at[c] \in Slot /\ pc[c] = "create"
          /\ thread' = [thread EXCEPT ![at[c]] = w] /\ wslot' = [wslot EXCEPT ![w] = at[c]]
      BY <1>6, <2>2 DEF WorkerCreated, SetsUp
    <3>2. wpc[handle[d]] = "suspended"
      BY <3>1 DEF HandleInv, SetsUp, Pending
    <3>3. wslot'[handle[d]] = wslot[handle[d]] /\ wslot[handle[d]] \in Slot
      BY <3>1, <3>2
    <3>4. Preparing(c, at[c]) /\ Preparing(d, wslot[handle[d]])
      BY <3>1 DEF Preparing, SetsUp, Pending
    <3>5. wslot[handle[d]] # at[c]
      BY <2>2, <3>1, <3>4 DEF Exclusive, ExclusiveAt
    <3>6. thread[wslot[handle[d]]] \in {handle[d], NoWorker}
      BY <3>1 DEF NamesOwn
    <3> QED BY <3>1, <3>3, <3>5, <3>6
  <2> QED BY <2>1, <2>2
<1> QED
  BY <1>2, <1>3, <1>4, <1>5, <1>6 DEF Next, ConnStep

\* The invariant is kept by every step.
LEMMA PoolStep ==
  ASSUME ~WaitExpires, PoolInv, [Next]_vars
  PROVE  PoolInv'
<1>1. CASE UNCHANGED vars
  <2>1. TypeInv' /\ HandleInv' /\ NamesOwn'
    BY <1>1 DEF PoolInv, TypeInv, TypeOK, HandleInv, NamesOwn, SetsUp, vars, slotVars,
                connVars, workVars, hist
  <2>2. Exclusive'
    BY <1>1, SameUsers DEF PoolInv, Preparing, Working, vars, slotVars, connVars, workVars
  <2> QED
    BY <2>1, <2>2 DEF PoolInv
<1>2. CASE Next
  <2>1. TypeInv'
    BY <1>2, ConnType, ClientType, WorkerType DEF PoolInv, Next
  <2>2. NamesOwn'
    BY <1>2, <2>1, NamesOwnKept
  <2>3. HandleInv' /\ Exclusive'
    BY <1>2, ConnKeeps, ClientKeeps, WorkerKeeps DEF Next
  <2> QED
    BY <2>1, <2>2, <2>3 DEF PoolInv
<1> QED
  BY <1>1, <1>2

\* "The exchange winner owns the slot", for any number of connections, slots
\* and jobs: as long as no teardown waits its 5 s in vain, an active pool slot
\* has exactly one user and an inactive one has none.
THEOREM SlotsExclusive ==
  ASSUME ~WaitExpires
  PROVE  Spec => []SlotExclusive
<1>1. PoolInv /\ [Next]_vars => PoolInv'
  BY PoolStep
<1>2. PoolInv => SlotExclusive
  BY ExclusiveMeans DEF PoolInv
<1> QED
  BY PoolInit, <1>1, <1>2, PTL DEF Spec
-----------------------------------------------------------------------------
(***************************************************************************)
(* What a client receives about a job.  A worker that runs has been        *)
(* announced, or its client has gone; and only the connection that set a   *)
(* worker up can still announce it or refuse it.  For that the thread that *)
(* v9x_execution_resume finds in the slot must not be another's: NamesOwn. *)
(***************************************************************************)
Stream(f) ==
  \A i \in DOMAIN f :
    /\ i = 1 <=> f[i] = "accepted"
    /\ f[i] \in {"complete", "error"} => i = Len(f)
    /\ f[i] = "error" => i = 2

\* A stream to which output can still be added.
Opened(f) == f # <<>> => f[1] = "accepted" /\ \A i \in 2 .. Len(f) : f[i] = "output"

Sends == {"start", "running", "draining", "completing"}

StreamInv(w) ==
  /\ Stream(frames[w])
  /\ wpc[w] = "none" => frames[w] = <<>> /\ client[w] = NoConn
  /\ wpc[w] \in Sends => Opened(frames[w]) /\ (frames[w] = <<>> => ~Waiting(w))

SetupInv(c) ==
  /\ pc[c] = "free" => \A w \in Worker : client[w] # c
  /\ pc[c] \notin Pending \cup {"lookup", "setCancel", "wait", "expired", "close"}
       => handle[c] = NoWorker
  /\ SetsUp(c) =>
       /\ client[handle[c]] = c /\ wpc[handle[c]] \in {"suspended", "killed"}
       /\ \/ frames[handle[c]] = <<>> /\ (pc[c] = "accept" \/ ~up[c])
          \/ frames[handle[c]] = <<"accepted">> /\ pc[c] \in {"resume", "reject"}

\* A slot in which a worker was created has an owner, a connection; and the
\* thread a slot remembers was created.
OwnersInv ==
  /\ \A c \in Conn : pc[c] = "create" => owner[at[c]] \in Conn
  /\ \A w \in Worker : wpc[w] # "none" => owner[wslot[w]] \in Conn
  /\ \A s \in Slot : thread[s] # NoWorker => wpc[thread[s]] # "none"

FramesInv ==
  /\ TypeInv /\ OwnersInv
  /\ \A w \in Worker : StreamInv(w)
  /\ \A c \in Conn : SetupInv(c)

\* The frames that may follow.
LEMMA OpenedIsStream == ASSUME NEW f \in Seq(FrameKind), Opened(f) PROVE Stream(f)
BY DEF Opened, Stream

LEMMA Follows ==
  ASSUME NEW f \in Seq(FrameKind), Opened(f), f # <<>>
  PROVE  /\ Opened(Append(f, "output"))
         /\ Stream(Append(f, "complete"))
         /\ Len(f) = 1 => Stream(Append(f, "error"))
<1>1. Len(f) \in Nat /\ Len(f) >= 1 /\ f[1] = "accepted"
  BY DEF Opened
<1>2. ASSUME NEW k \in {"output", "complete", "error"}
      PROVE  /\ Len(Append(f, k)) = Len(f) + 1 /\ DOMAIN Append(f, k) = 1 .. Len(f) + 1
             /\ \A i \in 1 .. Len(f) : Append(f, k)[i] = f[i]
             /\ Append(f, k)[Len(f) + 1] = k
  OBVIOUS
<1>3. \A i \in 2 .. Len(f) : f[i] = "output"
  BY <1>1 DEF Opened
<1>4. Opened(Append(f, "output"))
  BY <1>1, <1>2, <1>3 DEF Opened
<1>5. Stream(Append(f, "complete"))
  BY <1>1, <1>2, <1>3 DEF Stream
<1>6. Len(f) = 1 => Stream(Append(f, "error"))
  BY <1>1, <1>2 DEF Stream
<1> QED BY <1>4, <1>5, <1>6

LEMMA Announced ==
  /\ Opened(<<>>) /\ Stream(<<>>) /\ Opened(<<"accepted">>) /\ Stream(<<"accepted">>)
  /\ Append(<<>>, "accepted") = <<"accepted">> /\ <<"accepted">> # <<>>
BY DEF Opened, Stream

LEMMA FramesInit == Init => FramesInv
<1> SUFFICES ASSUME Init PROVE FramesInv
  OBVIOUS
<1>1. \A w \in Worker : StreamInv(w)
  BY Announced DEF Init, StreamInv, Sends
<1>2. \A c \in Conn : SetupInv(c)
  BY PoolAssumption DEF Init, SetupInv, SetsUp, Pending
<1>3. OwnersInv
  BY DEF Init, OwnersInv
<1> QED BY <1>1, <1>2, <1>3, InitType DEF FramesInv

\* What the other connections and workers rely on.
LEMMA OthersKeep ==
  ASSUME FramesInv, NEW c \in Conn, NEW d \in Conn, d # c,
         pc'[d] = pc[d], handle'[d] = handle[d], up'[d] = up[d],
         \A w \in Worker : client[w] = d \/ client'[w] = d =>
           client'[w] = client[w] /\ frames'[w] = frames[w],
         \A w \in Worker : wpc[w] \in {"suspended", "killed"} /\ client[w] = d
                             => wpc'[w] \in {"suspended", "killed"}
  PROVE  SetupInv(d)'
BY DEF FramesInv, SetupInv, SetsUp, TypeInv, TypeOK, Pending

\* A step of a connection that sends nothing and touches no worker.
LEMMA QuietKeeps ==
  ASSUME FramesInv, NEW c \in Conn, UNCHANGED <<wpc, hist>>,
         \A d \in Conn : d # c => pc'[d] = pc[d] /\ handle'[d] = handle[d] /\ up'[d] = up[d],
         up'[c] => up[c] \/ pc[c] = "free",
         SetupInv(c)'
  PROVE  (\A w \in Worker : StreamInv(w)') /\ \A d \in Conn : SetupInv(d)'
<1> USE DEF hist
<1>1. ASSUME NEW w \in Worker PROVE Waiting(w)' => Waiting(w)
  <2>1. client[w] \in Conn \cup {NoConn}
    BY DEF FramesInv, TypeInv, TypeOK
  <2>2. pc[c] = "free" => client[w] # c
    BY DEF FramesInv, SetupInv
  <2> QED BY <2>1, <2>2 DEF Waiting
<1>2. \A w \in Worker : StreamInv(w)'
  BY <1>1 DEF FramesInv, StreamInv
<1>3. ASSUME NEW d \in Conn, d # c PROVE SetupInv(d)'
  BY <1>3, OthersKeep
<1> QED BY <1>2, <1>3

\* Steps that send nothing and touch no worker: looking for a slot, CANCEL,
\* most of the teardown, and what clients do.
LEMMA QuietConn ==
  ASSUME FramesInv, NEW c \in Conn,
         \/ Acquire(c) \/ Fill(c) \/ CreateFails(c) \/ LookUp(c) \/ SetCancel(c)
         \/ Scan(c) \/ CheckActive(c) \/ Disconnect(c) \/ Await(c)
         \/ Wait(c) \/ WaitTimesOut(c) \/ Close(c) \/ Client(c) \/ EndService(c)
  PROVE  (\A w \in Worker : StreamInv(w)') /\ \A d \in Conn : SetupInv(d)'
<1> USE DEF FramesInv, TypeInv, TypeOK, Pending, Goto, slotVars, workVars, hist
<1>1. ASSUME UNCHANGED <<wpc, hist>>, up' = up,
             \A d \in Conn : d # c => pc'[d] = pc[d] /\ handle'[d] = handle[d],
             SetupInv(c)'
      PROVE  (\A w \in Worker : StreamInv(w)') /\ \A d \in Conn : SetupInv(d)'
  BY <1>1, QuietKeeps
<1>2. CASE Acquire(c)
  <2>1. SetupInv(c)'
    BY <1>2 DEF Acquire, Reply, SetupInv, SetsUp
  <2>2. \A d \in Conn : d # c => pc'[d] = pc[d] /\ handle'[d] = handle[d]
    BY <1>2 DEF Acquire, Reply
  <2> QED BY <1>1, <1>2, <2>1, <2>2 DEF Acquire
<1>3. CASE Fill(c)
  <2>1. SetupInv(c)'
    BY <1>3 DEF Fill, Reply, SetupInv, SetsUp
  <2>2. \A d \in Conn : d # c => pc'[d] = pc[d] /\ handle'[d] = handle[d]
    BY <1>3 DEF Fill, Reply
  <2> QED BY <1>1, <1>3, <2>1, <2>2 DEF Fill
<1>4. CASE CreateFails(c)
  <2>1. SetupInv(c)'
    BY <1>4 DEF CreateFails, Reply, SetupInv, SetsUp
  <2>2. \A d \in Conn : d # c => pc'[d] = pc[d] /\ handle'[d] = handle[d]
    BY <1>4 DEF CreateFails, Reply
  <2> QED BY <1>1, <1>4, <2>1, <2>2 DEF CreateFails
<1>5. CASE LookUp(c)
  <2>1. SetupInv(c)'
    BY <1>5 DEF LookUp, Cancelled, Reply, SetupInv, SetsUp
  <2>2. \A d \in Conn : d # c => pc'[d] = pc[d] /\ handle'[d] = handle[d]
    BY <1>5 DEF LookUp, Cancelled, Reply
  <2> QED BY <1>1, <1>5, <2>1, <2>2 DEF LookUp
<1>6. CASE SetCancel(c)
  <2>1. SetupInv(c)'
    BY <1>6 DEF SetCancel, Cancelled, Reply, SetupInv, SetsUp
  <2>2. \A d \in Conn : d # c => pc'[d] = pc[d] /\ handle'[d] = handle[d]
    BY <1>6 DEF SetCancel, Cancelled, Reply
  <2> QED BY <1>1, <1>6, <2>1, <2>2 DEF SetCancel
<1>7. CASE Scan(c)
  <2>1. SetupInv(c)'
    BY <1>7 DEF Scan, NextSlot, SetupInv, SetsUp
  <2>2. \A d \in Conn : d # c => pc'[d] = pc[d] /\ handle'[d] = handle[d]
    BY <1>7 DEF Scan, NextSlot
  <2> QED BY <1>1, <1>7, <2>1, <2>2 DEF Scan
<1>17. CASE CheckActive(c)
  BY <1>1, <1>17 DEF CheckActive, SetupInv, SetsUp
<1>8. CASE Disconnect(c)
  BY <1>1, <1>8 DEF Disconnect, SetupInv, SetsUp
<1>18. CASE Await(c)
  <2>1. SetupInv(c)'
    BY <1>18 DEF Await, SetupInv, SetsUp
  <2>2. \A d \in Conn : d # c => pc'[d] = pc[d] /\ handle'[d] = handle[d]
    BY <1>18 DEF Await
  <2> QED BY <1>1, <1>18, <2>1, <2>2 DEF Await
<1>9. CASE Wait(c)
  BY <1>1, <1>9 DEF Wait, SetupInv, SetsUp
<1>10. CASE WaitTimesOut(c)
  BY <1>1, <1>10 DEF WaitTimesOut, SetupInv, SetsUp
<1>11. CASE Close(c)
  <2>1. SetupInv(c)'
    BY <1>11 DEF Close, NextSlot, SetupInv, SetsUp
  <2>2. \A d \in Conn : d # c => pc'[d] = pc[d] /\ handle'[d] = handle[d]
    BY <1>11 DEF Close, NextSlot
  <2> QED BY <1>1, <1>11, <2>1, <2>2 DEF Close
<1>12. CASE Claim(c)
  <2>1. SetupInv(c)'
    BY <1>12 DEF Claim, SetupInv, SetsUp
  <2> QED BY <1>12, <2>1, QuietKeeps DEF Claim
<1>13. CASE ClientGone(c)
  <2>1. SetupInv(c)'
    BY <1>13 DEF ClientGone, SetupInv, SetsUp
  <2> QED BY <1>13, <2>1, QuietKeeps DEF ClientGone
<1>14. CASE ExecRequest(c)
  BY <1>1, <1>14 DEF ExecRequest, SetupInv, SetsUp
<1>15. CASE CancelRequest(c)
  BY <1>1, <1>15 DEF CancelRequest, SetupInv, SetsUp
<1>16. CASE EndService(c)
  <2>1. SetupInv(c)'
    BY <1>16 DEF EndService, SetupInv, SetsUp
  <2> QED BY <1>16, <2>1, QuietKeeps DEF EndService
<1> QED
  BY <1>2, <1>3, <1>4, <1>5, <1>6, <1>7, <1>8, <1>9, <1>10, <1>11, <1>12, <1>13,
     <1>14, <1>15, <1>16, <1>17, <1>18 DEF Client

\* Creating a worker, announcing it, resuming or refusing it.
LEMMA SetupConn ==
  ASSUME FramesInv, NamesOwn, NEW c \in Conn,
         \/ \E w \in Worker : WorkerCreated(c, w)
         \/ SendAccepted(c) \/ Resumed(c) \/ ResumeFails(c) \/ Reject(c)
  PROVE  (\A w \in Worker : StreamInv(w)') /\ \A d \in Conn : SetupInv(d)'
<1> USE PoolAssumption
        DEF FramesInv, TypeInv, TypeOK, Pending, Goto, WGoto, slotVars, workVars, hist
<1>1. CASE \E w \in Worker : WorkerCreated(c, w)
  <2> PICK w \in Worker : WorkerCreated(c, w)
    BY <1>1
  <2>1. /\ wpc[w] = "none" /\ frames[w] = <<>> /\ client[w] = NoConn /\ pc[c] = "create"
        /\ frames' = frames /\ up' = up /\ client' = [client EXCEPT ![w] = c]
        /\ wpc' = [wpc EXCEPT ![w] = "suspended"]
        /\ pc' = [pc EXCEPT ![c] = "accept"] /\ handle' = [handle EXCEPT ![c] = w]
    BY DEF WorkerCreated, StreamInv
  <2>2. SetupInv(c)'
    BY <2>1 DEF SetupInv, SetsUp
  <2>3. ASSUME NEW d \in Conn, d # c PROVE SetupInv(d)'
    BY <2>1, <2>3, OthersKeep
  <2>4. ASSUME NEW v \in Worker PROVE StreamInv(v)'
    BY <2>1, Announced DEF StreamInv, Sends, Waiting
  <2> QED BY <2>2, <2>3, <2>4
<1>2. CASE SendAccepted(c) /\ UNCHANGED hist
  <2>1. SetupInv(c)'
    <3>1. ~up[c]
      BY <1>2, Announced DEF SendAccepted, SendFails, Deliver, SetupInv, SetsUp
    <3> QED BY <1>2, <3>1 DEF SendAccepted, SetupInv, SetsUp
  <2> QED BY <1>2, <2>1, QuietKeeps DEF SendAccepted
<1>3. CASE SendAccepted(c) /\ ~UNCHANGED hist
  <2> DEFINE w == handle[c]
  <2>1. /\ w \in Worker /\ pc[c] = "accept" /\ SetsUp(c) /\ client[w] = c
        /\ wpc[w] \in {"suspended", "killed"} /\ frames[w] = <<>>
    BY <1>3 DEF SendAccepted, SetupInv, SetsUp
  <2>2. /\ frames' = [frames EXCEPT ![w] = <<"accepted">>] /\ client' = client
        /\ pc' = [pc EXCEPT ![c] = "resume"] /\ UNCHANGED <<up, handle, wpc>>
    BY <1>3, <2>1, Announced DEF SendAccepted, Deliver
  <2>3. SetupInv(c)'
    BY <2>1, <2>2 DEF SetupInv, SetsUp
  <2>4. ASSUME NEW d \in Conn, d # c PROVE SetupInv(d)'
    BY <2>1, <2>2, <2>4, OthersKeep
  <2>5. ASSUME NEW v \in Worker PROVE StreamInv(v)'
    BY <2>1, <2>2, Announced DEF StreamInv, Sends, Waiting
  <2> QED BY <2>3, <2>4, <2>5
<1>4. CASE Resumed(c) \/ ResumeFails(c)
  <2> PICK w \in Worker : w = handle[c]
    BY <1>4 DEF Resumed, ResumeFails
  <2>1. /\ SetsUp(c) /\ client[w] = c
        /\ wpc[w] \in {"suspended", "killed"}
        /\ \/ frames[w] = <<>> /\ ~up[c]
           \/ frames[w] = <<"accepted">>
    BY <1>4 DEF Resumed, ResumeFails, SetupInv, SetsUp
  <2>7. thread[wslot[w]] \in {w, NoWorker}
    BY <1>4, <2>1 DEF Resumed, ResumeFails, NamesOwn
  <2>8. ResumeFails(c) => wpc' \in {wpc, [wpc EXCEPT ![w] = "killed"]}
    <3>1. Killed(w) \in {wpc, [wpc EXCEPT ![w] = "killed"]}
      BY DEF Killed, Exited
    <3>2. Killed(NoWorker) = wpc
      BY KilledOne
    <3>3. ResumeFails(c) => wpc' = Killed(thread[wslot[w]])
      BY DEF ResumeFails
    <3> QED BY <2>7, <3>1, <3>2, <3>3
  <2>2. /\ UNCHANGED <<frames, client, up>>
        /\ wpc' \in {wpc, [wpc EXCEPT ![w] = "start"], [wpc EXCEPT ![w] = "killed"]}
    <3>1. CASE Resumed(c)
      <4>1. thread[wslot[w]] = w
        BY <2>7, <3>1 DEF Resumed
      <4> QED BY <3>1, <4>1 DEF Resumed
    <3>2. CASE ResumeFails(c)
      BY <2>8, <3>2 DEF ResumeFails
    <3> QED BY <1>4, <3>1, <3>2
  <2>3. SetupInv(c)'
    <3>1. pc'[c] \in {"idle", "scan"} => handle'[c] = NoWorker
      BY <1>4 DEF Resumed, ResumeFails
    <3>2. pc'[c] \in {"idle", "scan", "reject"}
      BY <1>4 DEF Resumed, ResumeFails
    <3>3. ASSUME pc'[c] = "reject"
          PROVE  /\ handle'[c] = w /\ wpc'[w] \in {"suspended", "killed"}
      <4>1. ResumeFails(c) /\ pc[c] = "resume"
        BY <1>4, <3>3 DEF Resumed, ResumeFails
      <4>2. handle'[c] = w
        BY <4>1 DEF ResumeFails
      <4> QED BY <2>1, <2>8, <4>1, <4>2
    <3> QED BY <2>1, <2>2, <3>1, <3>2, <3>3 DEF SetupInv, SetsUp
  <2>4. ASSUME NEW d \in Conn, d # c PROVE SetupInv(d)'
    <3>1. pc'[d] = pc[d] /\ handle'[d] = handle[d]
      BY <1>4, <2>4 DEF Resumed, ResumeFails
    <3> QED BY <2>1, <2>2, <2>4, <3>1, OthersKeep
  <2>5. StreamInv(w)'
    <3>1. wpc'[w] # "none" /\ (frames[w] = <<>> => ~Waiting(w)')
      <4>1. wpc \in [Worker -> WorkPC] /\ wpc[w] # "none"
        BY <2>1
      <4>2. wpc'[w] \in {wpc[w], "start", "killed"}
        BY ONLY <2>2, <4>1
      <4>3. client'[w] = c /\ up' = up /\ (frames[w] = <<>> => ~up[c])
        BY <2>1, <2>2, Announced
      <4> QED BY <4>1, <4>2, <4>3 DEF Waiting
    <3>2. Opened(frames[w]) /\ Stream(frames[w])
      BY <2>1, Announced
    <3> QED BY <2>2, <3>1, <3>2 DEF StreamInv
  <2>6. ASSUME NEW v \in Worker, v # w PROVE StreamInv(v)'
    BY <2>1, <2>2, <2>6 DEF StreamInv, Waiting
  <2> QED BY <2>3, <2>4, <2>5, <2>6
<1>5. CASE Reject(c) /\ UNCHANGED hist
  <2>1. SetupInv(c)'
    BY <1>5 DEF Reject, SetupInv, SetsUp
  <2> QED BY <1>5, <2>1, QuietKeeps DEF Reject
<1>6. CASE Reject(c) /\ ~UNCHANGED hist
  <2> DEFINE w == handle[c]
  <2>1. /\ w \in Worker /\ pc[c] = "reject" /\ SetsUp(c) /\ client[w] = c /\ up[c]
        /\ wpc[w] \in {"suspended", "killed"} /\ frames[w] = <<"accepted">>
    BY <1>6 DEF Reject, Deliver, SetupInv, SetsUp
  <2>2. /\ frames' = [frames EXCEPT ![w] = Append(@, "error")] /\ client' = client
        /\ UNCHANGED <<up, wpc>>
        /\ pc'[c] \in {"idle", "scan"} /\ handle'[c] = NoWorker
        /\ \A d \in Conn : d # c => pc'[d] = pc[d] /\ handle'[d] = handle[d]
    BY <1>6, <2>1 DEF Reject, Deliver
  <2>3. SetupInv(c)'
    BY <2>1, <2>2 DEF SetupInv, SetsUp
  <2>4. ASSUME NEW d \in Conn, d # c PROVE SetupInv(d)'
    <3>1. \A v \in Worker : client[v] = d \/ client'[v] = d =>
            client'[v] = client[v] /\ frames'[v] = frames[v]
      BY <2>1, <2>2, <2>4
    <3> QED BY <2>2, <2>4, <3>1, OthersKeep
  <2>6. Stream(Append(<<"accepted">>, "error"))
    <3> DEFINE f == <<"accepted">>
    <3>1. f \in Seq(FrameKind) /\ f # <<>> /\ Len(f) = 1
      BY DEF FrameKind
    <3>2. Opened(f)
      BY Announced
    <3> HIDE DEF f
    <3>3. Stream(Append(f, "error"))
      BY <3>1, <3>2, Follows
    <3> QED BY <3>3 DEF f
  <2>5. ASSUME NEW v \in Worker PROVE StreamInv(v)'
    BY <2>1, <2>2, <2>6 DEF StreamInv, Sends, Waiting
  <2> QED BY <2>3, <2>4, <2>5
<1> QED BY <1>1, <1>2, <1>3, <1>4, <1>5, <1>6

\* Terminating a worker, and giving the connection slot back.
LEMMA EndingConn ==
  ASSUME FramesInv, NEW c \in Conn, Terminate(c) \/ Release(c)
  PROVE  (\A w \in Worker : StreamInv(w)') /\ \A d \in Conn : SetupInv(d)'
<1> USE PoolAssumption
        DEF FramesInv, TypeInv, TypeOK, Pending, Goto, WGoto, slotVars, workVars, hist
<1>1. CASE Terminate(c)
  <2>1. /\ UNCHANGED <<hist, up, handle>> /\ pc' = [pc EXCEPT ![c] = "close"]
        /\ \A w \in Worker : wpc'[w] = wpc[w] \/ wpc'[w] = "killed"
    BY <1>1, KilledOne DEF Terminate
  <2>2. SetupInv(c)'
    BY <1>1, <2>1 DEF Terminate, SetupInv, SetsUp
  <2>3. ASSUME NEW d \in Conn, d # c PROVE SetupInv(d)'
    BY <2>1, <2>3, OthersKeep
  <2>4. ASSUME NEW v \in Worker PROVE StreamInv(v)'
    BY <2>1 DEF StreamInv, Sends, Waiting
  <2> QED BY <2>2, <2>3, <2>4
<1>2. CASE Release(c)
  <2>1. /\ UNCHANGED <<wpc, up, handle>> /\ pc' = [pc EXCEPT ![c] = "free"]
        /\ handle[c] = NoWorker
        /\ \A w \in Worker :
             /\ client[w] = c => client'[w] = NoConn /\ frames'[w] = <<>>
             /\ client[w] # c => client'[w] = client[w] /\ frames'[w] = frames[w]
    BY <1>2 DEF Release, SetupInv
  <2>2. SetupInv(c)'
    BY <2>1 DEF SetupInv, SetsUp
  <2>3. ASSUME NEW d \in Conn, d # c PROVE SetupInv(d)'
    BY <2>1, <2>3, OthersKeep
  <2>4. ASSUME NEW v \in Worker PROVE StreamInv(v)'
    BY <2>1, Announced DEF StreamInv, Sends, Waiting
  <2> QED BY <2>2, <2>3, <2>4
<1> QED BY <1>1, <1>2

\* A worker adds output, then one EXEC_COMPLETE, to an open stream.
LEMMA WorkerStreams ==
  ASSUME FramesInv, NEW w \in Worker, WorkerStep(w)
  PROVE  (\A v \in Worker : StreamInv(v)') /\ \A d \in Conn : SetupInv(d)'
<1> USE PoolAssumption
        DEF FramesInv, TypeInv, TypeOK, Pending, WGoto, slotVars, connVars, workVars, hist
<1>1. /\ UNCHANGED <<pc, up, handle, client>>
      /\ wpc[w] \in Running
      /\ \A v \in Worker : v # w => wpc'[v] = wpc[v] /\ frames'[v] = frames[v]
  <2>1. CASE WStart(w)
    BY <2>1 DEF WStart, Running
  <2>2. CASE WOutput(w)
    BY <2>2 DEF WOutput, Deliver, Running
  <2>3. CASE WLeaveLoop(w)
    BY <2>3 DEF WLeaveLoop, WCancelled, WTimedOut, WChildEnds, Running
  <2>4. CASE WComplete(w)
    BY <2>4 DEF WComplete, Deliver, Running
  <2>5. CASE WFree(w)
    BY <2>5 DEF WFree, Running
  <2> QED BY <2>1, <2>2, <2>3, <2>4, <2>5 DEF WorkerStep
<1>2. ASSUME NEW d \in Conn PROVE SetupInv(d)'
  <2>1. SetsUp(d) => handle[d] \in Worker /\ handle[d] # w
    BY <1>1 DEF SetupInv, SetsUp, Running
  <2> QED BY <1>1, <2>1 DEF SetupInv, SetsUp
<1>3. ASSUME NEW v \in Worker, v # w PROVE StreamInv(v)'
  BY <1>1, <1>3 DEF StreamInv, Waiting
<1>4. owner[wslot[w]] \in Conn
  BY <1>1 DEF OwnersInv, Running
<1>5. ASSUME NEW k \in FrameKind, Deliver(w, owner[wslot[w]], k), frames[w] = <<>>, wpc[w] \in Sends
      PROVE  frames' = frames
  BY <1>4, <1>5 DEF Deliver, StreamInv, Waiting
<1>6. ASSUME NEW k \in FrameKind, Deliver(w, owner[wslot[w]], k)
      PROVE  frames'[w] \in {frames[w], Append(frames[w], k)}
  BY <1>6 DEF Deliver
<1>7. StreamInv(w)'
  <2>1. CASE WStart(w) \/ WLeaveLoop(w) \/ WFree(w)
    <3>1. frames' = frames /\ wpc[w] \in {"start", "running", "freeing"}
      BY <2>1 DEF WStart, WLeaveLoop, WFree, WCancelled, WTimedOut, WChildEnds
    <3>2. wpc'[w] \in Sends \cup {"done"} /\ (wpc'[w] \in Sends => wpc[w] \in Sends)
      BY <2>1 DEF WStart, WLeaveLoop, WFree, WCancelled, WTimedOut, WChildEnds, Sends
    <3> QED BY <1>1, <3>1, <3>2 DEF StreamInv, Sends, Waiting
  <2>2. CASE WOutput(w)
    <3>1. wpc' = wpc /\ wpc[w] \in Sends /\ frames'[w] \in {frames[w], Append(frames[w], "output")}
      BY <2>2, <1>6 DEF WOutput, Sends, FrameKind
    <3>2. CASE frames'[w] = frames[w]
      BY <1>1, <3>1, <3>2 DEF StreamInv, Waiting
    <3>3. CASE frames'[w] # frames[w]
      <4>1. frames[w] # <<>> /\ frames'[w] = Append(frames[w], "output")
        BY <2>2, <3>1, <3>3, <1>5 DEF WOutput, FrameKind
      <4>2. Opened(frames'[w]) /\ frames'[w] # <<>> /\ frames'[w] \in Seq(FrameKind)
        <5>1. frames[w] \in Seq(FrameKind) /\ "output" \in FrameKind
          BY DEF FrameKind
        <5>2. Opened(frames[w])
          BY <3>1 DEF StreamInv
        <5>3. Opened(frames'[w])
          BY <4>1, <5>1, <5>2, Follows
        <5>4. ASSUME NEW f \in Seq(FrameKind), NEW k \in FrameKind
              PROVE  Append(f, k) # <<>> /\ Append(f, k) \in Seq(FrameKind)
          <6>1. Append(f, k) \in Seq(FrameKind) /\ Len(Append(f, k)) = Len(f) + 1 /\ Len(f) \in Nat
            BY ONLY f \in Seq(FrameKind), k \in FrameKind
          <6>2. Len(<<>>) = 0
            BY ONLY TRUE
          <6> QED BY ONLY <6>1, <6>2
        <5> HIDE DEF FramesInv, TypeInv, TypeOK
        <5> QED BY <4>1, <5>1, <5>3, <5>4, Zenon
      <4>3. Stream(frames'[w])
        BY <4>2, OpenedIsStream
      <4> QED BY <3>1, <4>2, <4>3 DEF StreamInv, Sends
    <3> QED BY <3>2, <3>3
  <2>3. CASE WComplete(w)
    <3>1. wpc'[w] = "freeing" /\ wpc[w] \in Sends
          /\ frames'[w] \in {frames[w], Append(frames[w], "complete")}
      BY <2>3, <1>6 DEF WComplete, Sends, FrameKind
    <3>2. Stream(frames'[w])
      <4>1. CASE frames'[w] = frames[w]
        BY <4>1 DEF StreamInv
      <4>2. CASE frames'[w] # frames[w]
        <5>1. frames[w] # <<>> /\ frames'[w] = Append(frames[w], "complete")
          BY <2>3, <3>1, <4>2, <1>5 DEF WComplete, FrameKind
        <5> QED BY <3>1, <5>1, Follows DEF StreamInv
      <4> QED BY <4>1, <4>2
    <3> QED BY <3>1, <3>2 DEF StreamInv, Sends
  <2> QED BY <2>1, <2>2, <2>3 DEF WorkerStep
<1> QED BY <1>2, <1>3, <1>7

\* Only a request that takes a slot over changes its owner, to a connection.
LEMMA OwnersKept == FramesInv /\ NamesOwn /\ Next => OwnersInv'
<1> SUFFICES ASSUME FramesInv, NamesOwn, Next PROVE OwnersInv'
  OBVIOUS
<1> USE DEF FramesInv, TypeInv, TypeOK, Goto, WGoto, slotVars, connVars, workVars, hist
<1>1. ASSUME UNCHANGED <<owner, wslot>>,
             \A c \in Conn : pc'[c] = "create" => pc[c] = "create" /\ at'[c] = at[c],
             \A w \in Worker : wpc'[w] # "none" <=> wpc[w] # "none",
             \A s \in Slot : thread'[s] # NoWorker => thread'[s] = thread[s]
      PROVE  OwnersInv'
  BY <1>1 DEF OwnersInv
<1>2. ASSUME NEW c \in Conn, Fill(c) PROVE OwnersInv'
  BY <1>2 DEF Fill, Reply, OwnersInv
<1>3. ASSUME NEW c \in Conn, \E w \in Worker : WorkerCreated(c, w) PROVE OwnersInv'
  BY <1>3 DEF WorkerCreated, OwnersInv
<1>4. ASSUME NEW c \in Conn,
             Acquire(c) \/ CreateFails(c) \/ SendAccepted(c) \/ Reject(c)
             \/ LookUp(c) \/ SetCancel(c) \/ Scan(c) \/ CheckActive(c) \/ Disconnect(c)
             \/ Await(c)
      PROVE  OwnersInv'
  BY <1>1, <1>4 DEF Acquire, CreateFails, SendAccepted, Reject, LookUp, SetCancel,
                    Cancelled, Reply, Scan, NextSlot, CheckActive, Disconnect, Await
<1>5. ASSUME NEW c \in Conn,
             Wait(c) \/ WaitTimesOut(c) \/ Close(c) \/ Release(c) \/ Claim(c)
             \/ ClientGone(c) \/ ExecRequest(c) \/ CancelRequest(c) \/ EndService(c)
      PROVE  OwnersInv'
  BY <1>1, <1>5 DEF Wait, WaitTimesOut, Close, NextSlot, Release, Claim, ClientGone,
                    ExecRequest, CancelRequest, EndService
<1>6. ASSUME NEW c \in Conn, Resumed(c) \/ ResumeFails(c) PROVE OwnersInv'
  <2>1. wpc[handle[c]] # "none" /\ handle[c] \in Worker
    BY <1>6, PoolAssumption DEF Resumed, ResumeFails, SetupInv, SetsUp, Pending
  <2>2. CASE Resumed(c)
    BY <1>1, <2>1, <2>2 DEF Resumed, OwnersInv
  <2>3. CASE ResumeFails(c)
    <3>1. \A w \in Worker : wpc'[w] # "none" <=> wpc[w] # "none"
      <4>1. wpc' = Killed(thread[wslot[handle[c]]]) /\ wslot[handle[c]] \in Slot
        BY <2>1, <2>3 DEF ResumeFails
      <4> QED BY <4>1, PoolAssumption DEF OwnersInv, Killed, Exited
    <3> QED BY <1>1, <2>3, <3>1 DEF ResumeFails
  <2> QED BY <1>6, <2>2, <2>3
<1>7. ASSUME NEW c \in Conn, Terminate(c) PROVE OwnersInv'
  <2>1. \A w \in Worker : wpc'[w] # "none" <=> wpc[w] # "none"
    BY <1>7, PoolAssumption DEF Terminate, OwnersInv, Killed, Exited
  <2> QED BY <1>1, <1>7, <2>1 DEF Terminate
<1>8. ASSUME NEW w \in Worker, WorkerStep(w) PROVE OwnersInv'
  BY <1>1, <1>8 DEF WorkerStep, WStart, WOutput, WLeaveLoop, WComplete, WFree,
                    WCancelled, WTimedOut, WChildEnds
<1> QED
  BY <1>2, <1>3, <1>4, <1>5, <1>6, <1>7, <1>8 DEF Next, ConnStep, Client

\* The invariant is kept by every step.
LEMMA FramesStep == FramesInv /\ NamesOwn /\ [Next]_vars => FramesInv'
<1> SUFFICES ASSUME FramesInv, NamesOwn, [Next]_vars PROVE FramesInv'
  OBVIOUS
<1>1. CASE UNCHANGED vars
  BY <1>1 DEF FramesInv, TypeInv, TypeOK, OwnersInv, StreamInv, SetupInv, SetsUp, Waiting,
              vars, slotVars, connVars, workVars, hist
<1>2. CASE Next
  <2>1. TypeInv'
    BY <1>2, ConnType, ClientType, WorkerType DEF FramesInv, Next
  <2>2. OwnersInv'
    BY <1>2, OwnersKept
  <2>3. (\A w \in Worker : StreamInv(w)') /\ \A d \in Conn : SetupInv(d)'
    <3>1. ASSUME NEW c \in Conn, ConnStep(c) \/ Client(c) \/ EndService(c)
          PROVE  (\A w \in Worker : StreamInv(w)') /\ \A d \in Conn : SetupInv(d)'
      BY <3>1, QuietConn, SetupConn, EndingConn DEF ConnStep
    <3> QED BY <1>2, <3>1, WorkerStreams DEF Next
  <2> QED BY <2>1, <2>2, <2>3 DEF FramesInv
<1> QED BY <1>1, <1>2

-----------------------------------------------------------------------------
(***************************************************************************)
(* A machine with one connection slot: what a teardown leaves behind it.   *)
(* The invariant follows the teardown through the pool: no worker of a     *)
(* slot that it has passed can still send, even if it had to be terminated.*)
(***************************************************************************)
OneConn == \A c, d \in Conn : c = d

Alive(w) == wpc[w] \in Running \cup {"suspended"}

\* The connection has a worker that it has yet to resume.
Holding(c) == \/ pc[c] \in {"accept", "resume", "resumeGone"}
              \/ pc[c] \in {"lookup", "setCancel"} /\ handle[c] # NoWorker

\* It has a slot of its own...
HasSlot(w) == active[wslot[w]] /\ thread[wslot[w]] = w /\ client[w] = owner[wslot[w]]

\* ... that no request of connection c takes and that no teardown of it has passed.
Ahead(c, w) ==
  /\ wpc[w] = "suspended" => Holding(c) /\ handle[c] = w
  /\ pc[c] \in {"fill", "create"} => wslot[w] # at[c]
  /\ pc[c] \in {"scan", "disconnect", "cancel", "await", "wait", "expired"}
       => wslot[w] >= at[c]
  /\ pc[c] = "close" => wslot[w] > at[c]
  /\ pc[c] \notin {"release", "free"}

WorkerInv(w) == Alive(w) => HasSlot(w) /\ \A c \in Conn : Ahead(c, w)

TeardownInv(c) ==
  /\ pc[c] \in {"fill", "create"} => active[at[c]]
  /\ Holding(c) => wpc[handle[c]] = "suspended"
  /\ pc[c] \in {"wait", "expired"} => handle[c] = thread[at[c]]
  /\ pc[c] = "reject" => at[c] = 1

AloneInv ==
  /\ FramesInv /\ stray = {}
  /\ \A w \in Worker : WorkerInv(w)
  /\ \A c \in Conn : TeardownInv(c)

\* At first there is no worker.
LEMMA AloneInit == Init => AloneInv
<1> SUFFICES ASSUME Init PROVE AloneInv
  OBVIOUS
<1>1. (\A w \in Worker : WorkerInv(w)) /\ \A c \in Conn : TeardownInv(c)
  BY DEF Init, WorkerInv, HasSlot, Ahead, TeardownInv, Alive, Running, Holding
<1>2. stray = {}
  BY DEF Init
<1> QED BY <1>1, <1>2, FramesInit DEF AloneInv

\* The connection's own steps.
LEMMA AloneConn ==
  ASSUME OneConn, AloneInv, NEW c \in Conn, ConnStep(c)
  PROVE  /\ stray' = {}
         /\ \A w \in Worker : WorkerInv(w)'
         /\ \A d \in Conn : TeardownInv(d)'
<1>a. /\ \A d \in Conn : d = c
      /\ \A w \in Worker : Alive(w) => HasSlot(w) /\ Ahead(c, w)
      /\ TeardownInv(c) /\ stray = {}
  BY DEF OneConn, AloneInv, WorkerInv
<1>b. /\ active \in [Slot -> BOOLEAN] /\ thread \in [Slot -> Worker \cup {NoWorker}]
      /\ owner \in [Slot -> Conn \cup {NoConn}] /\ client \in [Worker -> Conn \cup {NoConn}]
      /\ wpc \in [Worker -> WorkPC] /\ wslot \in [Worker -> Slot]
      /\ pc \in [Conn -> ConnPC] /\ at \in [Conn -> Slot] /\ NoWorker \notin Worker
      /\ handle \in [Conn -> Worker \cup {NoWorker}] /\ (pc[c] \in Pending => handle[c] \in Worker)
  BY PoolAssumption DEF AloneInv, FramesInv, TypeInv, TypeOK
<1>c. PoolSize \in Nat /\ \A s \in Slot : s \in Nat /\ 1 <= s /\ s <= PoolSize
  BY PoolAssumption DEF Slot
<1>d. /\ pc[c] = "create" => owner[at[c]] = c
      /\ pc[c] \in {"accept", "reject"} => client[handle[c]] = c
      /\ \A w \in Worker : Alive(w) => owner[wslot[w]] = c
  BY <1>a, <1>b DEF AloneInv, FramesInv, OwnersInv, SetupInv, SetsUp, Pending, Alive, Running
<1> SUFFICES /\ stray' = {} /\ TeardownInv(c)'
             /\ \A w \in Worker : Alive(w)' => HasSlot(w)' /\ Ahead(c, w)'
  BY <1>a DEF WorkerInv
<1> USE <1>a, <1>b, <1>c, <1>d
        DEF Alive, HasSlot, Ahead, TeardownInv, Running, Holding, Pending, Goto, WGoto,
            slotVars, workVars, hist
<1>1. CASE Acquire(c)
  <2> USE <1>1 DEF Acquire, Reply
  <2>1. stray' = {} /\ TeardownInv(c)'
    OBVIOUS
  <2>2. ASSUME NEW w \in Worker, Alive(w)' PROVE HasSlot(w)' /\ Ahead(c, w)'
    <3>1. Alive(w)
      BY <2>2
    <3>2. HasSlot(w)'
      BY <3>1
    <3>3. Ahead(c, w)'
      BY <3>1
    <3> QED BY <3>2, <3>3
  <2> QED BY <2>1, <2>2
<1>2. CASE Fill(c)
  <2> USE <1>2 DEF Fill, Reply
  <2>1. stray' = {} /\ TeardownInv(c)'
    OBVIOUS
  <2>2. ASSUME NEW w \in Worker, Alive(w)' PROVE HasSlot(w)' /\ Ahead(c, w)'
    <3>1. Alive(w)
      BY <2>2
    <3>2. HasSlot(w)'
      BY <3>1
    <3>3. Ahead(c, w)'
      BY <3>1
    <3> QED BY <3>2, <3>3
  <2> QED BY <2>1, <2>2
<1>3. CASE CreateFails(c)
  <2> USE <1>3 DEF CreateFails, Reply
  <2>1. stray' = {} /\ TeardownInv(c)'
    OBVIOUS
  <2>2. ASSUME NEW w \in Worker, Alive(w)' PROVE HasSlot(w)' /\ Ahead(c, w)'
    <3>1. Alive(w)
      BY <2>2
    <3>2. HasSlot(w)'
      BY <3>1
    <3>3. Ahead(c, w)'
      BY <3>1
    <3> QED BY <3>2, <3>3
  <2> QED BY <2>1, <2>2
<1>4. CASE \E w \in Worker : WorkerCreated(c, w)
  BY <1>4 DEF WorkerCreated
<1>5. CASE SendAccepted(c)
  BY <1>5 DEF SendAccepted, Deliver, SendFails
<1>e. pc[c] \in {"resume", "resumeGone"} => thread[wslot[handle[c]]] = handle[c]
  BY <1>a, <1>b DEF Holding, TeardownInv, Alive, HasSlot, Pending
<1>6. CASE Resumed(c)
  <2> USE <1>6, <1>e DEF Resumed
  <2>1. stray' = {} /\ TeardownInv(c)'
    OBVIOUS
  <2>2. ASSUME NEW w \in Worker, Alive(w)' PROVE HasSlot(w)' /\ Ahead(c, w)'
    <3>1. Alive(w)
      BY <2>2
    <3>2. HasSlot(w)'
      BY <3>1
    <3>3. Ahead(c, w)'
      BY <3>1
    <3> QED BY <3>2, <3>3
  <2> QED BY <2>1, <2>2
<1>7. CASE ResumeFails(c)
  <2> USE <1>7, <1>e DEF ResumeFails
  <2>1. stray' = {} /\ TeardownInv(c)'
    OBVIOUS
  <2>2. wpc' = Killed(handle[c])
    OBVIOUS
  <2>3. ASSUME NEW w \in Worker, Alive(w)' PROVE HasSlot(w)' /\ Ahead(c, w)'
    <3>1. Alive(w) /\ wpc'[w] = wpc[w] /\ handle[c] # w
      BY <2>2, <2>3 DEF Killed, Exited
    <3>2. wslot[w] # wslot[handle[c]]
      BY <3>1
    <3>3. HasSlot(w)'
      BY <3>1, <3>2
    <3>4. Ahead(c, w)'
      BY <3>1, <3>2
    <3> QED BY <3>3, <3>4
  <2> QED BY <2>1, <2>3
<1>8. CASE Reject(c)
  <2> USE <1>8 DEF Reject, Deliver
  <2>1. stray' = {} /\ TeardownInv(c)'
    OBVIOUS
  <2>2. ASSUME NEW w \in Worker, Alive(w)' PROVE HasSlot(w)' /\ Ahead(c, w)'
    <3>1. Alive(w)
      BY <2>2
    <3>2. HasSlot(w)'
      BY <3>1
    <3>3. Ahead(c, w)'
      BY <3>1
    <3> QED BY <3>2, <3>3
  <2> QED BY <2>1, <2>2
<1>9. CASE LookUp(c)
  <2> USE <1>9 DEF LookUp, Cancelled, Reply
  <2>1. stray' = {} /\ TeardownInv(c)'
    OBVIOUS
  <2>2. ASSUME NEW w \in Worker, Alive(w)' PROVE HasSlot(w)' /\ Ahead(c, w)'
    <3>1. Alive(w)
      BY <2>2
    <3>2. HasSlot(w)'
      BY <3>1
    <3>3. Ahead(c, w)'
      BY <3>1
    <3> QED BY <3>2, <3>3
  <2> QED BY <2>1, <2>2
<1>10. CASE SetCancel(c)
  <2> USE <1>10 DEF SetCancel, Cancelled, Reply
  <2>1. stray' = {} /\ TeardownInv(c)'
    OBVIOUS
  <2>2. ASSUME NEW w \in Worker, Alive(w)' PROVE HasSlot(w)' /\ Ahead(c, w)'
    <3>1. Alive(w)
      BY <2>2
    <3>2. HasSlot(w)'
      BY <3>1
    <3>3. Ahead(c, w)'
      BY <3>1
    <3> QED BY <3>2, <3>3
  <2> QED BY <2>1, <2>2
<1>11. CASE Scan(c)
  <2> USE <1>11 DEF Scan, NextSlot
  <2>1. stray' = {} /\ TeardownInv(c)'
    OBVIOUS
  <2>2. ASSUME NEW w \in Worker, Alive(w)' PROVE HasSlot(w)' /\ Ahead(c, w)'
    <3>1. Alive(w)
      BY <2>2
    <3>2. owner[at[c]] # c => wslot[w] # at[c]
      BY <2>2, <3>1
    <3>3. HasSlot(w)'
      BY <3>1, <3>2
    <3>4. Ahead(c, w)'
      BY <3>1, <3>2
    <3> QED BY <3>3, <3>4
  <2> QED BY <2>1, <2>2
<1>18. CASE CheckActive(c)
  <2> USE <1>18 DEF CheckActive
  <2>1. stray' = {} /\ TeardownInv(c)'
    OBVIOUS
  <2>2. ASSUME NEW w \in Worker, Alive(w)' PROVE HasSlot(w)' /\ Ahead(c, w)'
    <3>1. Alive(w)
      BY <2>2
    <3>2. HasSlot(w)'
      BY <3>1
    <3>3. Ahead(c, w)'
      BY <3>1
    <3> QED BY <3>2, <3>3
  <2> QED BY <2>1, <2>2
<1>12. CASE Disconnect(c)
  <2> USE <1>12 DEF Disconnect
  <2>1. stray' = {} /\ TeardownInv(c)'
    OBVIOUS
  <2>2. ASSUME NEW w \in Worker, Alive(w)' PROVE HasSlot(w)' /\ Ahead(c, w)'
    <3>1. Alive(w)
      BY <2>2
    <3>2. HasSlot(w)'
      BY <3>1
    <3>3. Ahead(c, w)'
      BY <3>1
    <3> QED BY <3>2, <3>3
  <2> QED BY <2>1, <2>2
<1>19. CASE Await(c)
  <2> USE <1>19 DEF Await
  <2>1. stray' = {} /\ TeardownInv(c)'
    OBVIOUS
  <2>2. ASSUME NEW w \in Worker, Alive(w)' PROVE HasSlot(w)' /\ Ahead(c, w)'
    <3>1. Alive(w)
      BY <2>2
    <3>2. HasSlot(w)'
      BY <3>1
    <3>3. Ahead(c, w)'
      BY <3>1
    <3> QED BY <3>2, <3>3
  <2> QED BY <2>1, <2>2
<1>13. CASE Wait(c)
  <2> USE <1>13 DEF Wait, Exited
  <2>1. stray' = {} /\ TeardownInv(c)'
    OBVIOUS
  <2>2. ASSUME NEW w \in Worker, Alive(w)' PROVE HasSlot(w)' /\ Ahead(c, w)'
    <3>1. Alive(w)
      BY <2>2
    <3>2. HasSlot(w)'
      BY <3>1
    <3>3. Ahead(c, w)'
      BY <3>1
    <3> QED BY <3>2, <3>3
  <2> QED BY <2>1, <2>2
<1>14. CASE WaitTimesOut(c)
  BY <1>14 DEF WaitTimesOut
<1>15. CASE Terminate(c)
  <2> USE <1>15 DEF Terminate
  <2>1. stray' = {} /\ TeardownInv(c)'
    OBVIOUS
  <2>2. wpc' = Killed(thread[at[c]])
    OBVIOUS
  <2>3. ASSUME NEW w \in Worker, Alive(w)' PROVE HasSlot(w)' /\ Ahead(c, w)'
    <3>1. Alive(w) /\ wpc'[w] = wpc[w] /\ thread[at[c]] # w
      BY <2>2, <2>3 DEF Killed, Exited
    <3>2. wslot[w] # at[c]
      BY <3>1
    <3>3. HasSlot(w)'
      BY <3>1, <3>2
    <3>4. Ahead(c, w)'
      BY <3>1, <3>2
    <3> QED BY <3>3, <3>4
  <2> QED BY <2>1, <2>3
<1>16. CASE Close(c)
  <2> USE <1>16 DEF Close, NextSlot
  <2>1. stray' = {} /\ TeardownInv(c)'
    OBVIOUS
  <2>2. ASSUME NEW w \in Worker, Alive(w)' PROVE HasSlot(w)' /\ Ahead(c, w)'
    <3>1. Alive(w)
      BY <2>2
    <3>2. HasSlot(w)'
      BY <3>1
    <3>3. Ahead(c, w)'
      BY <3>1
    <3> QED BY <3>2, <3>3
  <2> QED BY <2>1, <2>2
<1>17. CASE Release(c)
  BY <1>17 DEF Release
<1> QED
  BY <1>1, <1>2, <1>3, <1>4, <1>5, <1>6, <1>7, <1>8, <1>9, <1>10, <1>11, <1>12, <1>13, <1>14, <1>15, <1>16, <1>17,
     <1>18, <1>19 DEF ConnStep

\* What its clients and the idle timeout do.
LEMMA AloneClient ==
  ASSUME OneConn, AloneInv, NEW c \in Conn, Client(c) \/ EndService(c)
  PROVE  /\ stray' = {}
         /\ \A w \in Worker : WorkerInv(w)'
         /\ \A d \in Conn : TeardownInv(d)'
<1> USE PoolAssumption
        DEF OneConn, AloneInv, FramesInv, TypeInv, TypeOK, SetupInv, WorkerInv, HasSlot, Ahead,
            TeardownInv, Alive, Running, Holding, Pending, Slot, Goto, slotVars, workVars, hist
<1>1. CASE Claim(c)
  BY <1>1 DEF Claim
<1>2. CASE ClientGone(c)
  BY <1>2 DEF ClientGone
<1>3. CASE ExecRequest(c)
  BY <1>3 DEF ExecRequest
<1>4. CASE CancelRequest(c)
  BY <1>4 DEF CancelRequest
<1>5. CASE EndService(c)
  BY <1>5 DEF EndService
<1> QED
  BY <1>1, <1>2, <1>3, <1>4, <1>5 DEF Client

\* What a worker sends goes to the client it was made for.
LEMMA AloneWorker ==
  ASSUME OneConn, AloneInv, NEW v \in Worker, WorkerStep(v)
  PROVE  /\ stray' = {}
         /\ \A w \in Worker : WorkerInv(w)'
         /\ \A d \in Conn : TeardownInv(d)'
<1> USE PoolAssumption
        DEF OneConn, AloneInv, FramesInv, TypeInv, TypeOK, OwnersInv, WorkerInv, HasSlot, Ahead,
            TeardownInv, Alive, Running, Holding, Pending, Slot, WGoto, slotVars, connVars,
            workVars, hist
<1>1. CASE WStart(v)
  BY <1>1 DEF WStart
<1>2. CASE WOutput(v)
  BY <1>2 DEF WOutput, Deliver, SendFails
<1>3. CASE WLeaveLoop(v)
  BY <1>3 DEF WLeaveLoop, WCancelled, WTimedOut, WChildEnds
<1>4. CASE WComplete(v)
  BY <1>4 DEF WComplete, Deliver
<1>5. CASE WFree(v)
  BY <1>5 DEF WFree
<1> QED
  BY <1>1, <1>2, <1>3, <1>4, <1>5 DEF WorkerStep

\* The invariant is kept by every step; with it the slot of a worker that has yet
\* to be resumed names that worker.
LEMMA AloneStep ==
  ASSUME OneConn, AloneInv, [Next]_vars
  PROVE  AloneInv'
<1>1. NamesOwn
  <2> SUFFICES ASSUME NEW c \in Conn, SetsUp(c), pc[c] # "reject"
               PROVE  thread[wslot[handle[c]]] = handle[c]
    BY DEF NamesOwn
  <2>1. handle[c] \in Worker
    BY DEF SetsUp, AloneInv, FramesInv, TypeInv, TypeOK
  <2>2. wpc[handle[c]] = "suspended"
    BY DEF SetsUp, Pending, Holding, AloneInv, TeardownInv
  <2> QED BY <2>1, <2>2 DEF AloneInv, WorkerInv, Alive, HasSlot
<1>2. FramesInv'
  BY <1>1, FramesStep DEF AloneInv
<1>3. CASE UNCHANGED vars
  BY <1>2, <1>3 DEF AloneInv, WorkerInv, HasSlot, Ahead, TeardownInv, Alive, Holding,
                    vars, slotVars, connVars, workVars, hist
<1>4. CASE Next
  BY <1>2, <1>4, AloneConn, AloneClient, AloneWorker DEF AloneInv, Next
<1> QED BY <1>3, <1>4

\* "No worker can send into a recycled slot", for any number of pool slots and jobs, where there
\* is one connection slot: whether its workers exit in time or are terminated, none of them is
\* left when in_use is cleared.
THEOREM NothingRecycled == ASSUME OneConn PROVE Spec => []NoFrameToRecycledSlot
<1>1. AloneInv /\ [Next]_vars => AloneInv'
  BY AloneStep
<1>2. AloneInv => NoFrameToRecycledSlot
  BY DEF AloneInv, NoFrameToRecycledSlot
<1> QED
  BY AloneInit, <1>1, <1>2, PTL DEF Spec

\* What a client receives about a job, for any number of pool slots and jobs:
\* EXEC_ACCEPTED first, then output, then at most one EXEC_COMPLETE and nothing
\* after it, or EXEC_ACCEPTED and an error.  It holds for any number of
\* connections as long as no teardown waits its 5 s in vain, and for one
\* connection in any case.  (Otherwise a teardown whose wait was in vain frees the
\* slot of a job that another connection is setting up; the next request takes the
\* slot, and the first one's resume starts its worker, before its EXEC_ACCEPTED.)
THEOREM StreamsInOrder ==
  ASSUME ~WaitExpires \/ OneConn
  PROVE  Spec => []JobStream
<1>1. FramesInv => JobStream
  BY DEF FramesInv, StreamInv, Stream, JobStream
<1>2. CASE ~WaitExpires
  <2>1. PoolInv /\ FramesInv /\ [Next]_vars => PoolInv' /\ FramesInv'
    BY <1>2, PoolStep, FramesStep DEF PoolInv
  <2> QED
    BY PoolInit, FramesInit, <1>1, <2>1, PTL DEF Spec
<1>3. CASE OneConn
  <2>1. AloneInv /\ [Next]_vars => AloneInv'
    BY <1>3, AloneStep
  <2>2. AloneInv => FramesInv
    BY DEF AloneInv
  <2> QED
    BY AloneInit, <1>1, <2>1, <2>2, PTL DEF Spec
<1> QED
  BY <1>2, <1>3
=============================================================================
