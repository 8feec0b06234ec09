----------------------------- MODULE RemoteHelp -----------------------------
(***************************************************************************)
(* Remote help outside the data of a session: v9x_remote_thread of         *)
(* src/guest/remote.c registers the machine with the update server, checks *)
(* in, takes sessions, and forgets an identity the server does not know;   *)
(* the tray thread of src/guest/tray.c queues the owner's chat lines and   *)
(* pauses; the agent may end and start again at any step.                  *)
(*                                                                         *)
(* A call may be lost before the server acts on it or its reply afterwards.*)
(* The server is not in this repository: it is modelled from               *)
(* docs/remote-help.md and the calls of the agent.  In a session only what *)
(* concerns the identity and the check-in is kept; RelaySession has the    *)
(* data.                                                                   *)
(***************************************************************************)
EXTENDS Naturals, Sequences, FiniteSets

CONSTANTS
  MaxLines,     \* bound on the lines the owner types
  LongLine,     \* those of them that take the room of two, percent-encoded
  Room,         \* room for lines in the body of a check-in, V9X_REMOTE_BODY_MAX
  Capacity,     \* V9X_CHAT_QUEUE (4 in the code)
  MaxSessions,  \* bound on the sessions the developer opens
  MaxFaults,    \* bound on restarts of the agent and losses of the server
  RefusalIsText \* is a call of an unknown machine refused with a text reply?

ASSUME RemoteAssumption ==
  /\ MaxLines \in Nat /\ LongLine \subseteq 1 .. MaxLines /\ Room \in Nat
  /\ Capacity \in Nat \ {0} /\ MaxSessions \in Nat
  /\ MaxFaults \in Nat /\ RefusalIsText \in BOOLEAN

\* 0 is the empty machine id or secret; five values leave one that is new.
None == 0
Name == 1 .. 5
Line == 1 .. MaxLines
Identity == [machine : Name \cup {None}, secret : Name \cup {None}]
Nobody   == [machine |-> None, secret |-> None]

VARIABLES
  pc, stop,
  me,            \* remote->machine, remote->secret
  ini, flushed,  \* the same in AGENT.INI: as read back, and as it is on disk
  reply,         \* what the poll under way was answered, with the session's state
  copied,        \* sent_count of that poll
  tunnel,        \* the machine whose session the agent has open
  \* the tray thread and what it shares
  outgoing, typed, signal, wake, paused,
  \* the server
  registry, retired, session, told,
  heard, latest,   \* the lines that reached it; what the last check-in offered it
  \* bookkeeping
  owed, lost, sessions, restarts, faults

threadVars == <<pc, stop, me, ini, flushed, reply, copied, tunnel>>
trayVars   == <<outgoing, typed, signal, wake, paused, owed>>
serverVars == <<registry, retired, session, heard, latest, told>>
counters == <<sessions, restarts, faults, lost>>
vars == <<threadVars, trayVars, serverVars, counters>>

NoAnswer == [status |-> "none", session |-> "none"]

Init ==
  /\ pc = "start" /\ stop = FALSE
  /\ me = Nobody /\ ini = Nobody /\ flushed = Nobody
  /\ reply = NoAnswer /\ copied = 0 /\ tunnel = None
  /\ outgoing = <<>> /\ typed = 0 /\ signal = FALSE /\ wake = FALSE /\ paused = FALSE
  /\ registry = Nobody /\ retired = FALSE
  /\ session = [of |-> None, state |-> "none"]
  /\ heard = {} /\ latest = <<>> /\ told = FALSE
  /\ owed = {} /\ lost = {} /\ sessions = 0 /\ restarts = 0 /\ faults = 0

Goto(label) == pc' = label
InSession == tunnel # None
Registered == me.machine # None /\ me.secret # None
Known == Registered /\ me = registry       \* the server accepts this identity

\* The head of the thread's loop.
NextRound(identity, ends) ==
  IF ends THEN "stopped"
  ELSE IF None \in {identity.machine, identity.secret} THEN "register" ELSE "poll"

-----------------------------------------------------------------------------
(***************************************************************************)
(* Registration: v9x_remote_read_config, v9x_remote_register               *)
(***************************************************************************)
ReadConfig ==
  /\ pc = "start"
  /\ me' = ini
  /\ Goto(NextRound(ini, FALSE))
  /\ UNCHANGED <<stop, ini, flushed, reply, copied, tunnel, trayVars, serverVars,
                 counters>>

Fresh(used) == CHOOSE n \in Name : n \notin used

\* An install the server knows keeps its machine id; the secret is a new one.
ServerRegisters ==
  registry' = [machine |-> IF registry.machine # None THEN registry.machine
                           ELSE Fresh({me.machine, ini.machine, flushed.machine, session.of}),
               secret  |-> Fresh({registry.secret, me.secret, ini.secret, flushed.secret})]

RegisterAnswered ==
  /\ pc = "register"
  /\ ServerRegisters
  /\ me' = registry' /\ Goto("storeMachine")
  /\ UNCHANGED <<stop, ini, flushed, reply, copied, tunnel, trayVars, retired,
                 session, heard, latest, told, counters>>

\* Unreachable, refused, or the reply is lost.
RegisterFails ==
  /\ pc = "register"
  /\ ServerRegisters \/ UNCHANGED registry
  /\ me' = Nobody /\ Goto("backoff")
  /\ UNCHANGED <<stop, ini, flushed, reply, copied, tunnel, trayVars, retired,
                 session, heard, latest, told, counters>>

StoreMachine ==
  /\ pc = "storeMachine" /\ Goto("storeSecret")
  /\ ini' = [ini EXCEPT !.machine = me.machine]
  /\ UNCHANGED <<stop, me, flushed, reply, copied, tunnel, trayVars,
                 serverVars, counters>>

\* The last of the three calls flushes what Windows keeps of the file.
StoreSecret ==
  /\ pc = "storeSecret" /\ Goto("poll")
  /\ ini' = [ini EXCEPT !.secret = me.secret] /\ flushed' = ini'
  /\ UNCHANGED <<stop, me, reply, copied, tunnel, trayVars, serverVars, counters>>

\* v9x_remote_forget: nothing flushes these writes.
Forget == me' = Nobody /\ ini' = Nobody

-----------------------------------------------------------------------------
(***************************************************************************)
(* The check-in: v9x_remote_poll                                           *)
(***************************************************************************)
\* v9x_rt_append stops when the body is full, and nobody looks at what it returns:
\* the first line that does not fit is cut short, and those behind it are left out.
RoomFor(lines, n) ==
  n + Cardinality({i \in 1 .. n : lines[i] \in LongLine}) <= Room
Carried(lines) == {lines[n] : n \in {m \in DOMAIN lines : RoomFor(lines, m)}}

ServerHears ==
  IF Known /\ ~retired
    THEN /\ told' = paused
         /\ heard' = heard \cup Carried(outgoing) /\ latest' = outgoing
    ELSE UNCHANGED <<heard, latest, told>>

ServerAnswer ==
  [status  |-> IF ~Known THEN "identity" ELSE IF retired THEN "retired" ELSE "ok",
   session |-> IF Known /\ ~retired /\ session.of = me.machine THEN session.state
               ELSE "none"]

PollAnswered ==
  /\ pc = "poll"
  /\ ServerHears /\ reply' = ServerAnswer /\ copied' = Len(outgoing)
  /\ Goto("reply")
  /\ UNCHANGED <<stop, me, ini, flushed, tunnel, trayVars, registry, retired,
                 session, counters>>

PollLost ==
  /\ pc = "poll"
  /\ ServerHears \/ UNCHANGED <<heard, latest, told>>
  /\ reply' = NoAnswer /\ copied' = Len(outgoing)
  /\ Goto("reply")
  /\ UNCHANGED <<stop, me, ini, flushed, tunnel, trayVars, registry, retired,
                 session, counters>>

\* No reply, or one that is no use: wait and try again.
ReplyNone ==
  /\ pc = "reply" /\ reply.status = "none"
  /\ Goto(IF InSession THEN "round" ELSE "backoff")
  /\ reply' = NoAnswer /\ copied' = 0
  /\ UNCHANGED <<stop, me, ini, flushed, tunnel, trayVars,
                 serverVars, counters>>

ReplyIdentityKept ==     \* a mutant: the refused identity is used again
  /\ pc = "reply" /\ reply.status = "identity"
  /\ Goto(IF InSession THEN "round" ELSE "backoff")
  /\ reply' = NoAnswer /\ copied' = 0
  /\ UNCHANGED <<stop, me, ini, flushed, tunnel, trayVars,
                 serverVars, counters>>

\* unknown_machine or bad_secret; within a session the thread stays in it.
ReplyIdentity ==
  /\ pc = "reply" /\ reply.status = "identity"
  /\ Forget
  /\ Goto(IF InSession THEN "round" ELSE "register")
  /\ reply' = NoAnswer /\ copied' = 0
  /\ UNCHANGED <<stop, flushed, tunnel, trayVars, serverVars,
                 counters>>

ReplyRetired ==
  /\ pc = "reply" /\ reply.status = "retired"
  /\ stop' = TRUE /\ Goto(IF InSession THEN "end" ELSE "stopped")
  /\ reply' = NoAnswer /\ copied' = 0
  /\ UNCHANGED <<me, ini, flushed, tunnel, trayVars, serverVars,
                 counters>>

ReplyOkAll ==     \* a mutant: empties the queue, with what was typed meanwhile
  /\ pc = "reply" /\ reply.status = "ok"
  /\ outgoing' = <<>>
  /\ lost' = lost \cup ({outgoing[i] : i \in DOMAIN outgoing} \ heard)
  /\ Goto(IF InSession THEN (IF reply.session = "open" THEN "round" ELSE "end")
          ELSE IF reply.session = "pending" THEN "accept" ELSE "idle")
  /\ reply' = NoAnswer /\ copied' = 0
  /\ latest' = <<>>
  /\ UNCHANGED <<stop, me, ini, flushed, tunnel, typed, signal, wake, paused, owed,
                 registry, retired, session, heard, told, sessions,
                 restarts, faults>>

\* The lines that were copied leave the queue, also those the body had no room for.  A
\* pending session is taken; the heartbeat of a session that no longer stands ends it.
ReplyOk ==
  /\ pc = "reply" /\ reply.status = "ok"
  /\ outgoing' = SubSeq(outgoing, copied + 1, Len(outgoing))
  /\ lost' = lost \cup ({outgoing[i] : i \in 1 .. copied} \ heard)
  /\ Goto(IF InSession THEN (IF reply.session = "open" THEN "round" ELSE "end")
          ELSE IF reply.session = "pending" THEN "accept" ELSE "idle")
  /\ reply' = NoAnswer /\ copied' = 0
  /\ latest' = <<>>
  /\ UNCHANGED <<stop, me, ini, flushed, tunnel, typed, signal, wake, paused, owed,
                 registry, retired, session, heard, told, sessions,
                 restarts, faults>>

\* WaitForSingleObject(remote_wake): the time is over or somebody woke the thread.
IdleOver ==
  /\ pc = "idle" /\ Goto(NextRound(me, stop))
  /\ wake' = FALSE
  /\ UNCHANGED <<stop, me, ini, flushed, reply, copied, tunnel, outgoing, typed,
                 signal, paused, owed, serverVars, counters>>

\* The same wait after a failure, of 30 s to 16 min: the length, which doubles
\* each time, is left out with all other time.
BackoffOver ==
  /\ pc = "backoff" /\ Goto(NextRound(me, stop))
  /\ wake' = FALSE
  /\ UNCHANGED <<stop, me, ini, flushed, reply, copied, tunnel, outgoing, typed, signal,
                 paused, owed, serverVars, counters>>

-----------------------------------------------------------------------------
(***************************************************************************)
(* A session: v9x_remote_session                                           *)
(***************************************************************************)
\* Declined when paused or without a loopback connection; the reply to either
\* call may be lost.
Accept ==
  LET reached == Known /\ session.state = "pending" IN
  /\ pc = "accept"
  /\ \/ /\ ~paused /\ reached
        /\ session' = [session EXCEPT !.state = "open"]
        /\ \/ tunnel' = session.of /\ Goto("round")
           \/ UNCHANGED tunnel /\ Goto(NextRound(me, stop))
     \/ /\ (reached /\ session' = [session EXCEPT !.state = "closed"]) \/ UNCHANGED session
        /\ UNCHANGED tunnel /\ Goto(NextRound(me, stop))
  /\ UNCHANGED <<stop, me, ini, flushed, reply, copied, trayVars, registry,
                 retired, heard, latest, told, counters>>

InRound(label) ==
  /\ pc = "round" /\ Goto(label)
  /\ UNCHANGED <<stop, me, ini, flushed, reply, copied, tunnel, trayVars, serverVars,
                 counters>>

\* The switch is looked at first; then the server says that the session is over.
RoundClosed == InRound("end") /\ (paused \/ (Known /\ session.state # "open"))

RoundIgnores ==     \* a mutant: passes over a reply that is no record
  InRound("beat") /\ ~paused /\ ~Known /\ RefusalIsText

\* A machine that was forgotten asks without its id, and is told so in a text: as a
\* batch of records that is a bad one.
RoundRefused == InRound("end") /\ ~paused /\ ~Known /\ RefusalIsText

\* The handlers have closed the loopback, or a chunk cannot be sent in four tries.
RoundBreaks == InRound("end") /\ ~paused

\* Nothing, or records and answers; or no reply.
RoundServed == InRound("beat") /\ ~paused

\* Rounds follow each other; after 15 s there is a heartbeat.
Beat ==
  /\ pc = "beat" /\ Goto("poll")
  /\ UNCHANGED <<stop, me, ini, flushed, reply, copied, tunnel, trayVars,
                 serverVars, counters>>

End ==
  /\ pc = "end"
  /\ tunnel' = None /\ Goto(NextRound(me, stop))
  /\ (Known /\ session' = [session EXCEPT !.state = "closed"]) \/ UNCHANGED session
  /\ UNCHANGED <<stop, me, ini, flushed, reply, copied, trayVars, registry,
                 retired, heard, latest, told, counters>>

-----------------------------------------------------------------------------
(***************************************************************************)
(* The tray: v9x_chat_send, Pause and Resume.  Each changes what the thread*)
(* looks at first and sets remote_wake then.                               *)
(***************************************************************************)
SayOver ==     \* a mutant: takes one line too many
  /\ ~signal /\ typed < MaxLines
  /\ typed' = typed + 1 /\ signal' = TRUE
  /\ IF Len(outgoing) <= Capacity
       THEN outgoing' = Append(outgoing, typed') /\ owed' = owed \cup {typed'}
       ELSE UNCHANGED <<outgoing, owed>>
  /\ UNCHANGED <<wake, paused, threadVars, serverVars, counters>>

\* A line that finds the queue full is shown to the owner all the same, and lost.
Say ==
  /\ ~signal /\ typed < MaxLines
  /\ typed' = typed + 1 /\ signal' = TRUE
  /\ IF Len(outgoing) < Capacity
       THEN outgoing' = Append(outgoing, typed') /\ owed' = owed \cup {typed'}
       ELSE UNCHANGED <<outgoing, owed>>
  /\ UNCHANGED <<wake, paused, threadVars, serverVars, counters>>

TogglePause ==
  /\ ~signal
  /\ paused' = ~paused /\ signal' = TRUE
  /\ UNCHANGED <<outgoing, typed, wake, owed, threadVars, serverVars, counters>>

SignalForgotten ==     \* a mutant: never sets the event
  /\ signal /\ signal' = FALSE
  /\ UNCHANGED <<wake, outgoing, typed, paused, owed, threadVars, serverVars,
                 counters>>

Signal ==
  /\ signal /\ signal' = FALSE /\ wake' = TRUE
  /\ UNCHANGED <<outgoing, typed, paused, owed, threadVars, serverVars, counters>>

-----------------------------------------------------------------------------
(***************************************************************************)
(* The developer, the server's losses, and the agent's end                 *)
(***************************************************************************)
DeveloperOpens ==
  /\ sessions < MaxSessions /\ registry.machine # None
  /\ session' = [of |-> registry.machine, state |-> "pending"]
  /\ sessions' = sessions + 1
  /\ UNCHANGED <<threadVars, trayVars, registry, retired, heard, latest, told,
                 restarts, faults, lost>>

DeveloperCloses ==
  /\ session.state \in {"pending", "open"}
  /\ session' = [session EXCEPT !.state = "closed"]
  /\ UNCHANGED <<threadVars, trayVars, registry, retired, heard, latest, told, counters>>

\* The machine is deleted there, or retired by the developer.
ServerLoses ==
  /\ faults < MaxFaults /\ faults' = faults + 1
  /\ \/ registry.machine # None /\ registry' = Nobody /\ UNCHANGED retired
     \/ ~retired /\ retired' = TRUE /\ UNCHANGED registry
  /\ UNCHANGED <<threadVars, trayVars, session, heard, latest, told, sessions,
                 restarts, lost>>

\* Any end of the agent, to be started again.  What was not flushed may be lost.
AgentRestarts ==
  /\ faults < MaxFaults /\ faults' = faults + 1 /\ restarts' = restarts + 1
  /\ Goto("start") /\ stop' = FALSE
  /\ me' = Nobody /\ reply' = NoAnswer /\ copied' = 0 /\ tunnel' = None
  /\ \E a \in {ini.machine, flushed.machine}, b \in {ini.secret, flushed.secret} :
       ini' = [machine |-> a, secret |-> b]
  /\ flushed' = ini'
  /\ outgoing' = <<>> /\ owed' = {} /\ signal' = FALSE /\ wake' = FALSE /\ paused' = FALSE
  /\ latest' = <<>>
  /\ UNCHANGED <<typed, registry, retired, session, heard, told, sessions, lost>>

-----------------------------------------------------------------------------
Register == RegisterAnswered \/ RegisterFails \/ StoreMachine \/ StoreSecret
Poll     == PollAnswered \/ PollLost
Reply    == ReplyNone \/ ReplyIdentity \/ ReplyRetired \/ ReplyOk
Round    == RoundClosed \/ RoundRefused \/ RoundBreaks \/ RoundServed
Thread   ==
  \/ ReadConfig \/ Register \/ Poll \/ Reply \/ IdleOver \/ BackoffOver
  \/ Accept \/ Round \/ Beat \/ End
Tray     == Say \/ TogglePause \/ Signal

Next ==
  \/ Thread \/ Tray
  \/ DeveloperOpens \/ DeveloperCloses \/ ServerLoses \/ AgentRestarts

Spec == Init /\ [][Next]_vars

(***************************************************************************)
(* The thread never stops and its waits end; a call made again and again is*)
(* answered at last.  Nothing is assumed of the owner and the developer.   *)
(***************************************************************************)
Fairness ==
  /\ WF_vars(Thread) /\ WF_vars(Signal)
  /\ SF_vars(RegisterAnswered) /\ SF_vars(PollAnswered)
  /\ SF_vars(RoundClosed \/ RoundRefused)

FairSpec == Spec /\ Fairness

-----------------------------------------------------------------------------
(***************************************************************************)
(* Properties                                                              *)
(***************************************************************************)
TypeOK ==
  /\ pc \in {"start", "register", "storeMachine", "storeSecret", "poll", "reply", "idle",
             "backoff", "accept", "round", "beat", "end", "stopped"}
  /\ stop \in BOOLEAN
  /\ me \in Identity /\ ini \in Identity /\ flushed \in Identity /\ registry \in Identity
  /\ reply \in [status : {"none", "identity", "retired", "ok"},
                session : {"none", "pending", "open", "closed"}]
  /\ outgoing \in Seq(Line) /\ Len(outgoing) <= Capacity /\ copied \in 0 .. Len(outgoing)
  /\ typed \in 0 .. MaxLines /\ heard \subseteq Line /\ latest \in Seq(Line)
  /\ owed \subseteq Line /\ lost \subseteq Line
  /\ tunnel \in Name \cup {None}
  /\ session \in [of : Name \cup {None}, state : {"none", "pending", "open", "closed"}]
  /\ signal \in BOOLEAN /\ wake \in BOOLEAN /\ paused \in BOOLEAN
  /\ told \in BOOLEAN /\ retired \in BOOLEAN
  /\ sessions \in 0 .. MaxSessions /\ restarts \in Nat /\ faults \in 0 .. MaxFaults

\* The comment on chat_outgoing: it "holds the owner's lines until the next
\* check-in delivers them".  With lost calls, lost replies and lines typed while a
\* poll is under way, no line that was taken is skipped, or reordered, or dropped
\* before a check-in that offered it was answered; one is lost then only if that
\* check-in, and every earlier one, had no room for it behind the lines ahead of it.
Chat == INSTANCE ChatQueue WITH waiting <- outgoing, got <- heard, life <- restarts
ChatDelivers == Chat!Spec

\* v9x_chat_send and the tray's Pause wake the thread: it never sits out an idle
\* interval with a line to send or a switch the server has not been told of.
IdleIsCurrent ==
  pc = "idle" => wake \/ signal \/ (outgoing = <<>> /\ told = paused)

\* A line that was taken reaches the server, or a check-in without room for it, unless
\* the agent restarts or the machine is retired: whatever happens to the identity in
\* between.
ChatArrives ==
  \A line \in Line :
    line \in owed ~> line \in heard \cup lost \/ line \notin owed \/ retired

\* The comment on chat_outgoing taken at its word: "until the next check-in delivers
\* them".  It holds as long as what waits fits into the body of one check-in.
NoLineLost == lost = {}

\* Whatever the server or AGENT.INI has lost, and also when the machine is forgotten
\* in the middle of a session, the thread is registered again; a retired one stops.
Recovers ==
  /\ []<>(Known \/ pc = "stopped")
  /\ retired ~> pc = "stopped"
=============================================================================
