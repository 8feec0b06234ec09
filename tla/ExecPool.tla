------------------------------ MODULE ExecPool ------------------------------
(***************************************************************************)
(* The agent's connection table and its machine-wide execution pool        *)
(* (src/guest/agent.c, src/guest/execute.c, and the EXEC and CANCEL        *)
(* branches of v9x_serve_client in src/guest/protocol.c).                  *)
(*                                                                         *)
(* Threads: one per claimed connection slot, one worker per accepted job.  *)
(* Nothing but the `active` flags is acquired atomically; every other      *)
(* field of a pool slot is a plain store that other threads may read at    *)
(* any time.  An action below is therefore the code between two points at  *)
(* which another thread's step can change what this thread does next: a    *)
(* check and the store that relies on it are two actions.                  *)
(*                                                                         *)
(* A job is named by its worker.  `client` remembers the connection slot   *)
(* whose client asked for it, for as long as that client has the slot.     *)
(* `frames` and `stray` are history: what that client has received about   *)
(* the job, and the jobs of which a frame went to another client.          *)
(***************************************************************************)
EXTENDS Integers, FiniteSets, Sequences

CONSTANTS
  Conn,         \* connection slots: v9x_connections[]
  PoolSize,     \* V9X_EXEC_POOL_SIZE
  Worker,       \* worker threads there can ever be (bounds the jobs)
  RequestId,    \* request ids a client uses
  MaxOutput,    \* bound on the output frames of one job
  NoConn,       \* a null owner
  NoWorker,     \* a null thread handle
  TimedJob,     \* the jobs that carry a timeout
  WaitExpires   \* may a wait of 5 s in a disconnect be in vain?

ASSUME PoolAssumption ==
  /\ PoolSize \in Nat \ {0}
  /\ MaxOutput \in Nat
  /\ Worker \subseteq Nat /\ TimedJob \subseteq Worker
  /\ RequestId # {}
  /\ NoConn \notin Conn /\ NoWorker \notin Worker /\ Conn \cap Worker = {}
  /\ WaitExpires \in BOOLEAN

Slot == 1 .. PoolSize

VARIABLES
  \* V9xExecSlot
  active, cancel, owner, requestId, thread,
  \* connection threads: program counter, which client, its socket, the pool
  \* index looked at, the request id of the EXEC or CANCEL, and the worker
  \* just created (pending_exec) or waited for
  pc, up, at, target, handle,
  \* worker threads: program counter, pool slot
  wpc, wslot,
  \* history
  client, frames, stray

slotVars == <<active, cancel, owner, requestId, thread>>
connVars == <<pc, up, at, target, handle>>
workVars == <<wpc, wslot>>
hist     == <<client, frames, stray>>
vars     == <<slotVars, connVars, workVars, hist>>

ConnPC == {"free", "idle", "acquire", "fill", "create",
           "accept", "resume", "resumeGone", "reject", "lookup", "setCancel",
           "scan", "disconnect", "cancel", "await", "wait", "expired",
           "close", "release"}
WorkPC == {"none", "suspended", "start", "running", "draining", "completing",
           "freeing", "done", "killed"}
FrameKind == {"accepted", "error", "output", "complete"}

\* A worker thread that runs, or will run once resumed.
Running == {"start", "running", "draining", "completing", "freeing"}

Init ==
  /\ active = [s \in Slot |-> FALSE]
  /\ cancel = [s \in Slot |-> FALSE]
  /\ owner = [s \in Slot |-> NoConn]
  /\ requestId = [s \in Slot |-> CHOOSE r \in RequestId : TRUE]
  /\ thread = [s \in Slot |-> NoWorker]
  /\ pc = [c \in Conn |-> "free"]
  /\ up = [c \in Conn |-> FALSE]
  /\ at = [c \in Conn |-> 1]
  /\ target = [c \in Conn |-> CHOOSE r \in RequestId : TRUE]
  /\ handle = [c \in Conn |-> NoWorker]
  /\ wpc = [w \in Worker |-> "none"]
  /\ wslot = [w \in Worker |-> 1]
  /\ client = [w \in Worker |-> NoConn]
  /\ frames = [w \in Worker |-> <<>>]
  /\ stray = {}

-----------------------------------------------------------------------------
(***************************************************************************)
(* Sending.  v9x_send_frame fails when the socket of the connection slot   *)
(* is INVALID_SOCKET, and may fail or not once the client has gone.  A     *)
(* worker addresses slot->owner, whoever is using that connection slot.    *)
(***************************************************************************)
SendWorks(c) == pc[c] # "free"
SendFails(c) == pc[c] = "free" \/ ~up[c]

\* A frame of kind k about job w leaves on connection slot c.
Deliver(w, c, k) ==
  /\ SendWorks(c)
  /\ frames' = IF up[c] /\ client[w] = c
                 THEN [frames EXCEPT ![w] = Append(@, k)] ELSE frames
  /\ client' = client
  /\ stray' = IF up[c] /\ client[w] # c THEN stray \cup {w} ELSE stray

Exited(w) == wpc[w] \in {"done", "killed"}

\* TerminateThread, which does nothing to a thread that has ended, or to none.
Killed(w) == [v \in Worker |-> IF v = w /\ ~Exited(w) THEN "killed" ELSE wpc[v]]

Goto(c, label) == pc' = [pc EXCEPT ![c] = label]
WGoto(w, label) == wpc' = [wpc EXCEPT ![w] = label]

\* A reply that says nothing about a job: v9x_serve_client goes on to the next
\* request, or returns when the reply cannot be sent.
Reply(c) ==
  /\ Goto(c, "idle") \/ (SendFails(c) /\ Goto(c, "scan"))
  /\ at' = [at EXCEPT ![c] = 1]

-----------------------------------------------------------------------------
(***************************************************************************)
(* Connections.  The accept loop and the remote-help worker both call      *)
(* v9x_start_connection, so either may win any slot that is free.          *)
(***************************************************************************)
\* v9x_claim_connection and CreateThread.  When the thread cannot be created
\* the slot is released again at once, which changes nothing here.
Claim(c) ==
  /\ pc[c] = "free"
  /\ Goto(c, "idle")
  /\ up' = [up EXCEPT ![c] = TRUE]
  /\ UNCHANGED <<slotVars, at, target, handle, workVars, hist>>

\* The client closes its socket, or vanishes: its thread finds out later.
ClientGone(c) ==
  /\ up[c]
  /\ up' = [up EXCEPT ![c] = FALSE]
  /\ UNCHANGED <<slotVars, pc, at, target, handle, workVars, hist>>

\* v9x_execution_owned: keeps an idle connection that owns a running job.
ExecutionOwned(c) == \E s \in Slot : owner[s] = c /\ active[s]

\* recv fails, or the idle timeout ends a connection that owns no job: the
\* thread leaves v9x_serve_client for v9x_execution_disconnect.
EndService(c) ==
  /\ pc[c] = "idle"
  /\ ~up[c] \/ ~ExecutionOwned(c)
  /\ Goto(c, "scan")
  /\ up' = [up EXCEPT ![c] = FALSE]
  /\ at' = [at EXCEPT ![c] = 1]
  /\ UNCHANGED <<slotVars, target, handle, workVars, hist>>

-----------------------------------------------------------------------------
(***************************************************************************)
(* EXEC_REQUEST: v9x_execution_prepare, EXEC_ACCEPTED, v9x_execution_resume*)
(***************************************************************************)
ExecRequest(c) ==
  /\ pc[c] = "idle" /\ up[c]
  /\ \E r \in RequestId : target' = [target EXCEPT ![c] = r]
  /\ Goto(c, "acquire")
  /\ at' = [at EXCEPT ![c] = 1]
  /\ UNCHANGED <<slotVars, up, handle, workVars, hist>>

\* One probe of the claim loop: v9x_flag_acquire(&exec_pool[i].active).
Acquire(c) ==
  /\ pc[c] = "acquire"
  /\ \/ /\ active[at[c]]
        /\ IF at[c] < PoolSize
             THEN at' = [at EXCEPT ![c] = @ + 1] /\ pc' = pc
             ELSE Reply(c)                                    \* BUSY
        /\ active' = active
     \/ /\ ~active[at[c]]
        /\ active' = [active EXCEPT ![at[c]] = TRUE]
        /\ Goto(c, "fill") /\ at' = at
  /\ UNCHANGED <<cancel, owner, requestId, thread, up, target,
                 handle, workVars, hist>>

\* Close the previous worker's handle, take the slot over, validate.
Fill(c) ==
  LET s == at[c] IN
  /\ pc[c] = "fill"
  /\ thread' = [thread EXCEPT ![s] = NoWorker]
  /\ owner' = [owner EXCEPT ![s] = c]
  /\ requestId' = [requestId EXCEPT ![s] = target[c]]
  /\ \/ Goto(c, "create") /\ UNCHANGED <<active, at>>
     \/ Reply(c) /\ active' = [active EXCEPT ![s] = FALSE]
  /\ UNCHANGED <<cancel, up, target, handle, workVars, hist>>

WorkerCreatedRunning(c, w) ==     \* a mutant: CreateThread without CREATE_SUSPENDED
  LET s == at[c] IN
  /\ pc[c] = "create"
  /\ wpc[w] = "none" /\ \A v \in Worker : v < w => wpc[v] # "none"
  /\ WGoto(w, "start")
  /\ cancel' = [cancel EXCEPT ![s] = FALSE]
  /\ thread' = [thread EXCEPT ![s] = w]
  /\ wslot' = [wslot EXCEPT ![w] = s]
  /\ client' = [client EXCEPT ![w] = c]
  /\ handle' = [handle EXCEPT ![c] = w]
  /\ Goto(c, "accept")
  /\ UNCHANGED <<active, owner, requestId, up, at, target, frames, stray>>

\* cancel = 0, then CreateThread(CREATE_SUSPENDED)...
WorkerCreated(c, w) ==
  LET s == at[c] IN
  /\ pc[c] = "create"
  /\ wpc[w] = "none" /\ \A v \in Worker : v < w => wpc[v] # "none"
  /\ WGoto(w, "suspended")
  /\ cancel' = [cancel EXCEPT ![s] = FALSE]
  /\ thread' = [thread EXCEPT ![s] = w]
  /\ wslot' = [wslot EXCEPT ![w] = s]
  /\ client' = [client EXCEPT ![w] = c]
  /\ handle' = [handle EXCEPT ![c] = w]
  /\ Goto(c, "accept")
  /\ UNCHANGED <<active, owner, requestId, up, at, target, frames, stray>>

\* ... which may fail.
CreateFails(c) ==
  /\ pc[c] = "create"
  /\ cancel' = [cancel EXCEPT ![at[c]] = FALSE]
  /\ active' = [active EXCEPT ![at[c]] = FALSE]
  /\ Reply(c)
  /\ UNCHANGED <<owner, requestId, thread, up, target, handle, workVars, hist>>

SendAcceptedOnly(c) ==     \* a mutant: never resumes the worker
  /\ pc[c] = "accept"
  /\ \/ Deliver(handle[c], c, "accepted") /\ Goto(c, "idle")
     \/ SendFails(c) /\ Goto(c, "scan") /\ UNCHANGED hist
  /\ handle' = [handle EXCEPT ![c] = NoWorker]
  /\ UNCHANGED <<slotVars, up, at, target, workVars>>

\* EXEC_ACCEPTED goes out while the worker is still suspended.  When it cannot
\* be sent the job is cancelled and resumed, so that its worker ends it.
SendAccepted(c) ==
  /\ pc[c] = "accept"
  /\ \/ /\ Deliver(handle[c], c, "accepted")
        /\ Goto(c, "resume") /\ at' = at
     \/ /\ SendFails(c)
        /\ Goto(c, "lookup") /\ at' = [at EXCEPT ![c] = 1]
        /\ UNCHANGED hist
  /\ UNCHANGED <<slotVars, up, target, handle, workVars>>

\* v9x_execution_resume acts on the thread that pending_exec's slot names by now.
\* ResumeThread starts it if it is suspended; of one that runs it is no error...
Resumed(c) ==
  LET w == thread[wslot[handle[c]]] IN
  /\ pc[c] \in {"resume", "resumeGone"}
  /\ w # NoWorker
  /\ wpc' = IF wpc[w] = "suspended" THEN [wpc EXCEPT ![w] = "start"] ELSE wpc
  /\ handle' = [handle EXCEPT ![c] = NoWorker]
  /\ Goto(c, IF pc[c] = "resume" THEN "idle" ELSE "scan")
  /\ at' = [at EXCEPT ![c] = 1]
  /\ UNCHANGED <<slotVars, up, target, wslot, hist>>

\* ... but it may refuse, and there may be no handle: the thread is terminated if
\* there is one, and the slot is freed.
ResumeFails(c) ==
  LET s == wslot[handle[c]] IN
  /\ pc[c] \in {"resume", "resumeGone"}
  /\ wpc' = Killed(thread[s])
  /\ thread' = [thread EXCEPT ![s] = NoWorker]
  /\ active' = [active EXCEPT ![s] = FALSE]
  /\ IF pc[c] = "resume"
       THEN Goto(c, "reject") /\ handle' = handle
       ELSE Goto(c, "scan") /\ handle' = [handle EXCEPT ![c] = NoWorker]
  /\ at' = [at EXCEPT ![c] = 1]
  /\ UNCHANGED <<cancel, owner, requestId, up, target, wslot, hist>>

\* The error frame for an accepted request whose worker did not start.
Reject(c) ==
  /\ pc[c] = "reject"
  /\ \/ Deliver(handle[c], c, "error") /\ Goto(c, "idle")
     \/ SendFails(c) /\ Goto(c, "scan") /\ UNCHANGED hist
  /\ handle' = [handle EXCEPT ![c] = NoWorker]
  /\ UNCHANGED <<slotVars, up, at, target, workVars>>

-----------------------------------------------------------------------------
(***************************************************************************)
(* CANCEL_REQUEST: v9x_execution_cancel.  The test of active, owner and    *)
(* request id and the store to cancel are separate.                        *)
(***************************************************************************)
CancelRequest(c) ==
  /\ pc[c] = "idle" /\ up[c]
  /\ \E r \in RequestId : target' = [target EXCEPT ![c] = r]
  /\ Goto(c, "lookup")
  /\ at' = [at EXCEPT ![c] = 1]
  /\ UNCHANGED <<slotVars, up, handle, workVars, hist>>

CancelMatches(c, s) == active[s] /\ owner[s] = c /\ requestId[s] = target[c]

\* v9x_execution_cancel returns: to the failed EXEC_ACCEPTED, or to answer.
Cancelled(c) ==
  IF handle[c] = NoWorker THEN Reply(c) ELSE Goto(c, "resumeGone") /\ at' = at

LookUp(c) ==
  /\ pc[c] = "lookup"
  /\ IF CancelMatches(c, at[c]) THEN Goto(c, "setCancel") /\ at' = at
     ELSE IF at[c] < PoolSize THEN pc' = pc /\ at' = [at EXCEPT ![c] = @ + 1]
     ELSE Cancelled(c)
  /\ UNCHANGED <<slotVars, up, target, handle, workVars, hist>>

SetCancel(c) ==
  /\ pc[c] = "setCancel"
  /\ cancel' = [cancel EXCEPT ![at[c]] = TRUE]
  /\ Cancelled(c)
  /\ UNCHANGED <<active, owner, requestId, thread, up, target,
                 handle, workVars, hist>>

-----------------------------------------------------------------------------
(***************************************************************************)
(* Teardown: v9x_execution_disconnect, slot by slot, then in_use = 0 last. *)
(***************************************************************************)
NextSlotOffByOne(c) ==     \* a mutant: looks at one slot too many
  IF at[c] <= PoolSize THEN at' = [at EXCEPT ![c] = @ + 1] /\ Goto(c, "scan")
                       ELSE at' = at /\ Goto(c, "release")

NextSlot(c) ==
  IF at[c] < PoolSize THEN at' = [at EXCEPT ![c] = @ + 1] /\ Goto(c, "scan")
                      ELSE at' = at /\ Goto(c, "release")

\* if (slot->owner != conn) continue;
Scan(c) ==
  /\ pc[c] = "scan"
  /\ IF owner[at[c]] = c THEN Goto(c, "disconnect") /\ at' = at ELSE NextSlot(c)
  /\ UNCHANGED <<slotVars, up, target, handle, workVars, hist>>

CheckActiveInverted(c) ==     \* a mutant: only closes the handle of a running job
  /\ pc[c] = "disconnect"
  /\ Goto(c, IF active[at[c]] THEN "close" ELSE "cancel")
  /\ UNCHANGED <<slotVars, up, at, target, handle, workVars, hist>>

\* if (v9x_flag_read(&slot->active))
CheckActive(c) ==
  /\ pc[c] = "disconnect"
  /\ Goto(c, IF active[at[c]] THEN "cancel" ELSE "close")
  /\ UNCHANGED <<slotVars, up, at, target, handle, workVars, hist>>

DisconnectWithoutWait(c) ==     \* a mutant: cancels the worker and moves on
  /\ pc[c] = "cancel"
  /\ cancel' = [cancel EXCEPT ![at[c]] = TRUE]
  /\ Goto(c, "close")
  /\ UNCHANGED <<active, owner, requestId, thread, up, at, target, handle, workVars, hist>>

\* cancel = 1, of whichever job is in the slot by now.
Disconnect(c) ==
  /\ pc[c] = "cancel"
  /\ cancel' = [cancel EXCEPT ![at[c]] = TRUE]
  /\ Goto(c, "await")
  /\ UNCHANGED <<active, owner, requestId, thread, up, at, target, handle, workVars, hist>>

\* The wait is for the thread that the slot names by now, if it names one: it may
\* be one that was started after the cancel.  (The test reads it and then the wait
\* does; a wait for none fails, so one read stands for the two.)
Await(c) ==
  LET w == thread[at[c]] IN
  /\ pc[c] = "await"
  /\ IF w # NoWorker THEN Goto(c, "wait") /\ handle' = [handle EXCEPT ![c] = w]
                     ELSE Goto(c, "close") /\ handle' = handle
  /\ UNCHANGED <<slotVars, up, at, target, workVars, hist>>

\* WaitForSingleObject(slot->thread, 5000): the worker exits, or time runs out.
Wait(c) ==
  /\ pc[c] = "wait" /\ Exited(handle[c])
  /\ Goto(c, "close")
  /\ UNCHANGED <<slotVars, up, at, target, handle, workVars, hist>>

WaitTimesOut(c) ==
  /\ WaitExpires
  /\ pc[c] = "wait" /\ ~Exited(handle[c])
  /\ Goto(c, "expired")
  /\ UNCHANGED <<slotVars, up, at, target, handle, workVars, hist>>

\* TerminateThread(slot->thread), whichever worker that is by now, and active = 0.
\* (Whoever claims the slot between the two reads neither before CreateThread, so
\* the two may as well come together, between that claim and the CreateThread.)
Terminate(c) ==
  LET s == at[c] IN
  /\ pc[c] = "expired"
  /\ wpc' = Killed(thread[s])
  /\ active' = [active EXCEPT ![s] = FALSE]
  /\ Goto(c, "close")
  /\ UNCHANGED <<cancel, owner, requestId, thread, up, at, target,
                 handle, wslot, hist>>

\* CloseHandle(slot->thread), whatever it is by now; on to the next slot.
Close(c) ==
  /\ pc[c] = "close"
  /\ thread' = [thread EXCEPT ![at[c]] = NoWorker]
  /\ handle' = [handle EXCEPT ![c] = NoWorker]
  /\ NextSlot(c)
  /\ UNCHANGED <<active, cancel, owner, requestId, up, target,
                 workVars, hist>>

\* v9x_files_disconnect and closesocket, then in_use = 0.
Release(c) ==
  /\ pc[c] = "release"
  /\ Goto(c, "free")
  /\ at' = [at EXCEPT ![c] = 1]
  /\ client' = [w \in Worker |-> IF client[w] = c THEN NoConn ELSE client[w]]
  /\ frames' = [w \in Worker |-> IF client[w] = c THEN <<>> ELSE frames[w]]
  /\ UNCHANGED <<slotVars, up, target, handle, workVars, stray>>

-----------------------------------------------------------------------------
(***************************************************************************)
(* v9x_execution_worker                                                    *)
(***************************************************************************)
\* CreateProcess fails, or the job is detached: straight to EXEC_COMPLETE.
WStart(w) ==
  /\ wpc[w] = "start"
  /\ WGoto(w, "running") \/ WGoto(w, "completing")
  /\ UNCHANGED <<slotVars, connVars, wslot, hist>>

Outputs(w) == Cardinality({i \in DOMAIN frames[w] : frames[w][i] = "output"})

\* v9x_send_pipe_data.  A send that fails while the child runs cancels it; one
\* that fails while the pipes are drained is ignored.
WOutput(w) ==
  LET s == wslot[w]
      c == owner[s] IN
  /\ wpc[w] \in {"running", "draining"}
  /\ \/ /\ Outputs(w) < MaxOutput
        /\ Deliver(w, c, "output") /\ cancel' = cancel
     \/ /\ SendFails(c) /\ wpc[w] = "running"
        /\ cancel' = [cancel EXCEPT ![s] = TRUE] /\ UNCHANGED hist
  /\ UNCHANGED <<active, owner, requestId, thread, connVars, workVars>>

WCancelledIfTimed(w) ==     \* a mutant: looks at cancel only with the clock
  wpc[w] = "running" /\ cancel[wslot[w]] /\ w \in TimedJob

\* The loop ends: cancel is seen, the timeout is reached, or the child exits
\* (or its shell's pipes are closed for longer than the grace period).
WCancelled(w) == wpc[w] = "running" /\ cancel[wslot[w]]
WTimedOut(w)  == wpc[w] = "running" /\ ~cancel[wslot[w]] /\ w \in TimedJob
WChildEnds(w) == wpc[w] = "running" /\ ~cancel[wslot[w]]

WLeaveLoop(w) ==
  /\ WCancelled(w) \/ WTimedOut(w) \/ WChildEnds(w)
  /\ WGoto(w, "draining")
  /\ UNCHANGED <<slotVars, connVars, wslot, hist>>

WCompleteFreesSlot(w) ==     \* a mutant: gives the slot back too early
  LET c == owner[wslot[w]] IN
  /\ wpc[w] \in {"draining", "completing"}
  /\ \/ Deliver(w, c, "complete")
     \/ SendFails(c) /\ UNCHANGED hist
  /\ WGoto(w, "freeing")
  /\ active' = [active EXCEPT ![wslot[w]] = FALSE]
  /\ UNCHANGED <<cancel, owner, requestId, thread, connVars, wslot>>

\* EXEC_COMPLETE, whether or not it can be sent.
WComplete(w) ==
  LET c == owner[wslot[w]] IN
  /\ wpc[w] \in {"draining", "completing"}
  /\ \/ Deliver(w, c, "complete")
     \/ SendFails(c) /\ UNCHANGED hist
  /\ WGoto(w, "freeing")
  /\ UNCHANGED <<slotVars, connVars, wslot>>

\* cancel = 0, active = 0; the owner and the handle stay in the slot.
WFree(w) ==
  /\ wpc[w] = "freeing"
  /\ cancel' = [cancel EXCEPT ![wslot[w]] = FALSE]
  /\ active' = [active EXCEPT ![wslot[w]] = FALSE]
  /\ WGoto(w, "done")
  /\ UNCHANGED <<owner, requestId, thread, connVars, wslot, hist>>

-----------------------------------------------------------------------------
ConnStep(c) ==
  \/ Acquire(c) \/ Fill(c) \/ CreateFails(c)
  \/ \E w \in Worker : WorkerCreated(c, w)
  \/ SendAccepted(c) \/ Resumed(c) \/ ResumeFails(c) \/ Reject(c)
  \/ LookUp(c) \/ SetCancel(c)
  \/ Scan(c) \/ CheckActive(c) \/ Disconnect(c) \/ Await(c)
  \/ Wait(c) \/ WaitTimesOut(c) \/ Terminate(c)
  \/ Close(c) \/ Release(c)

\* What clients, and the idle timeout, do.
Client(c) ==
  \/ Claim(c) \/ ClientGone(c) \/ ExecRequest(c) \/ CancelRequest(c)

WorkerStep(w) ==
  \/ WStart(w) \/ WOutput(w) \/ WLeaveLoop(w) \/ WComplete(w) \/ WFree(w)

Next ==
  \/ \E c \in Conn : ConnStep(c) \/ Client(c) \/ EndService(c)
  \/ \E w \in Worker : WorkerStep(w)

(***************************************************************************)
(* Every thread keeps running.  A connection thread that waits for a       *)
(* request leaves when its client has gone; a worker leaves its loop when  *)
(* it sees cancel or its timeout, but a child need never exit and a client *)
(* need never ask for anything.  Where no wait of 5 s may run out, it is   *)
(* assumed that none lasts for ever on a worker that nobody has cancelled; *)
(* that one on a cancelled worker ends is left to the worker.              *)
(***************************************************************************)
Fairness ==
  /\ \A c \in Conn :
       /\ WF_vars(ConnStep(c)) /\ WF_vars(~up[c] /\ EndService(c))
       /\ WaitExpires \/ []<>~(pc[c] = "wait" /\ ~cancel[at[c]])
  /\ \A w \in Worker :
       /\ WF_vars(WStart(w)) /\ WF_vars(WComplete(w)) /\ WF_vars(WFree(w))
       /\ WF_vars((WCancelled(w) \/ WTimedOut(w)) /\ WLeaveLoop(w))

Spec == Init /\ [][Next]_vars
FairSpec == Spec /\ Fairness

-----------------------------------------------------------------------------
(***************************************************************************)
(* Properties                                                              *)
(***************************************************************************)
TypeOK ==
  /\ active \in [Slot -> BOOLEAN] /\ cancel \in [Slot -> BOOLEAN]
  /\ owner \in [Slot -> Conn \cup {NoConn}]
  /\ requestId \in [Slot -> RequestId]
  /\ thread \in [Slot -> Worker \cup {NoWorker}]
  /\ pc \in [Conn -> ConnPC]
  /\ up \in [Conn -> BOOLEAN]
  /\ at \in [Conn -> Slot]
  /\ target \in [Conn -> RequestId]
  /\ handle \in [Conn -> Worker \cup {NoWorker}]
  /\ wpc \in [Worker -> WorkPC] /\ wslot \in [Worker -> Slot]
  /\ client \in [Worker -> Conn \cup {NoConn}]
  /\ frames \in [Worker -> Seq(FrameKind)]
  /\ stray \subseteq Worker

\* Connection thread c is setting up a job in slot s.
Preparing(c, s) ==
  \/ pc[c] \in {"fill", "create"} /\ at[c] = s
  \/ /\ pc[c] \in {"accept", "resume", "resumeGone", "lookup", "setCancel"}
     /\ handle[c] # NoWorker /\ wslot[handle[c]] = s

\* Worker w is working in slot s.
Working(w, s) == wpc[w] \in Running /\ wslot[w] = s

\* "The exchange winner owns the slot": whatever connections cancel, end or
\* fail meanwhile, a slot marked active has exactly one user, a request being
\* prepared or a worker, and a slot that has a user is marked active; so no
\* slot is ever shared and none is lost to the pool.
Users(s) == {c \in Conn : Preparing(c, s)} \cup {w \in Worker : Working(w, s)}

SlotExclusive ==
  \A s \in Slot :
    /\ active[s] <=> Users(s) # {}
    /\ \A u, v \in Users(s) : u = v

\* What the client that asked receives about a job is EXEC_ACCEPTED, then
\* output, then at most one EXEC_COMPLETE and nothing after it; or
\* EXEC_ACCEPTED and an error.  Creating the worker suspended is what keeps
\* its first frame behind EXEC_ACCEPTED.
JobStream ==
  \A w \in Worker :
    LET f == frames[w] IN
      \A i \in DOMAIN f :
        /\ i = 1 <=> f[i] = "accepted"
        /\ f[i] \in {"complete", "error"} => i = Len(f)
        /\ f[i] = "error" => i = 2

\* The client that asked for the job is still connected.
Waiting(w) == client[w] # NoConn /\ up[client[w]]

\* Once its connection has gone, every job of it that was accepted ends, and a
\* job with a timeout ends in any case: a slot is never held for ever by a
\* child that hangs.
JobsEnd ==
  \A w \in Worker :
    wpc[w] \in Running /\ (w \in TimedJob \/ ~Waiting(w))
      ~> Exited(w)

\* An accepted job with a timeout is answered, with EXEC_COMPLETE or an error,
\* as long as its client stays connected.
AcceptedAnswered ==
  \A w \in Worker :
    frames[w] # <<>> /\ w \in TimedJob
      ~> \/ ~Waiting(w)
         \/ frames[w] # <<>> /\ frames[w][Len(frames[w])] \in {"complete", "error"}

\* A connection whose client has gone gives its slot back.
ConnectionsEnd ==
  \A c \in Conn : pc[c] = "idle" /\ ~up[c] ~> pc[c] = "free"

\* V9xConnection: in_use "is cleared only after this connection's exec workers
\* have all exited, so no worker can send into a recycled slot".
NoFrameToRecycledSlot == stray = {}
=============================================================================
