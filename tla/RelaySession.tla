---------------------------- MODULE RelaySession ----------------------------
(***************************************************************************)
(* A remote-help relay session, end to end: the developer's client         *)
(* (RelaySession in mcp/v9x_relay.py; scripts/V9xRelayStream.cs is the     *)
(* same), the update server (not in this repository: modelled from the     *)
(* calls both ends make and what they rely on), the agent's session loop   *)
(* (v9x_remote_session in src/guest/remote.c), and the protocol handlers   *)
(* at the other end of its loopback connection.                            *)
(*                                                                         *)
(* Every call is one HTTP request: it may be lost before the server acts   *)
(* on it, or its reply may be lost afterwards.  The path to the agent may  *)
(* also deliver any records the client ever signed, in any order           *)
(* (FaultyPath).  A record's signature covers its session and nonce, its   *)
(* sequence number and its data; as each session has a nonce of its own,   *)
(* the session stands for both.  One unit of data is one record's worth.   *)
(***************************************************************************)
EXTENDS Naturals, Sequences, SequencesExt

CONSTANTS
  Session,     \* sessions the client may open, in order: 1 .. n
  MaxUnits,    \* bound on the units written in the first session
  PostMax,     \* records per POST of the client (4 in the code)
  MaxTries,    \* attempts at one `up` POST (4 in the code)
  FaultyPath   \* may the path repeat, reorder and mix up signed records?

ASSUME RelayAssumption ==
  /\ \E n \in Session : Session = 1 .. n
  /\ MaxUnits \in Nat \ {0} /\ PostMax \in Nat \ {0} /\ MaxTries \in Nat \ {0}
  /\ FaultyPath \in BOOLEAN

Unit   == Session \X (1 .. MaxUnits)
Record == [session : Session, seq : Nat, data : Unit]
NoSession == 0

\* The bound is on the first session; a later one writes one unit, enough to
\* tell them apart, and follows a first one that was as short.
Quota(s) == IF s = 1 THEN MaxUnits ELSE 1

VARIABLES
  \* the client
  hpc, hs, pending, batch, downSeq, upAfter, numbers,
  \* the server: per session its state, the records down, the chunks up
  state, down, up,
  \* the agent's session loop
  gpc, gs, expected, upSeq, reply, drained, chunk, tries, serverClosed, paused,
  \* the protocol handlers' end of the loopback connection
  handlerGone,
  \* what was written and read at both ends (RelayTunnel); `read` is what has
  \* reached the client's inbox
  sent, fed, made, read

hostVars   == <<hpc, hs, pending, batch, downSeq, upAfter, numbers>>
serverVars == <<state, down, up>>
guestVars  == <<gpc, gs, expected, upSeq, reply, drained, chunk, tries, serverClosed>>
streams    == <<sent, fed, made, read>>
vars == <<hostVars, serverVars, guestVars, paused, handlerGone, streams>>

HostPC  == {"closed", "opening", "open", "post", "pull", "take", "closing"}
GuestPC == {"idle", "take", "accept", "round", "down", "feed", "up", "post",
            "beat", "end"}

Init ==
  /\ hpc = "closed" /\ hs = NoSession
  /\ pending = <<>> /\ batch = <<>> /\ downSeq = 1 /\ upAfter = 0 /\ numbers = <<>>
  /\ state = [s \in Session |-> "none"]
  /\ down = [s \in Session |-> <<>>] /\ up = [s \in Session |-> <<>>]
  /\ gpc = "idle" /\ gs = NoSession
  /\ expected = 1 /\ upSeq = 1 /\ reply = <<>> /\ drained = 0
  /\ chunk = <<>> /\ tries = 0 /\ serverClosed = FALSE
  /\ paused = FALSE
  /\ handlerGone = [s \in Session |-> FALSE]
  /\ sent = [s \in Session |-> <<>>] /\ fed = sent /\ made = sent /\ read = sent

-----------------------------------------------------------------------------
(***************************************************************************)
(* The server                                                              *)
(***************************************************************************)
ServerCloses(s) == state' = [state EXCEPT ![s] = "closed"]

\* Opening a session closes any earlier one of the machine.
ServerOpens(s) ==
  state' = [t \in Session |-> IF t = s THEN "pending"
                              ELSE IF state[t] = "none" THEN "none" ELSE "closed"]

\* A POST of records: they must continue the sequence exactly.
ServerTakes(s, recs) == state[s] = "open" /\ recs[1].seq = Len(down[s]) + 1

\* Replies to "down?after=n": the records above n, at least one if there is one.
HonestDown(s, after) ==
  IF Len(down[s]) <= after THEN {<<>>}
  ELSE {SubSeq(down[s], after + 1, n) : n \in after + 1 .. Len(down[s])}

\* What a faulty path may make of the records it has seen.
Seen == UNION {Range(down[s]) : s \in Session}
FaultyDown == {<<r>> : r \in Seen} \cup {<<r, q>> : r \in Seen, q \in Seen}

DownReplies(s, after) ==
  HonestDown(s, after) \cup (IF FaultyPath THEN FaultyDown ELSE {})

\* Replies to "up?after=n" as sequences of sequence numbers.
HonestUp(s, after) ==
  IF Len(up[s]) <= after THEN {<<>>} ELSE {[i \in 1 .. Len(up[s]) - after |-> after + i]}

FaultyUp(s) ==
  LET I == 1 .. Len(up[s]) IN {<<i>> : i \in I} \cup {<<i, j>> : i \in I, j \in I}

UpReplies(s, after) ==
  HonestUp(s, after) \cup (IF FaultyPath THEN FaultyUp(s) ELSE {})

-----------------------------------------------------------------------------
(***************************************************************************)
(* The client: RelaySession.  Any failed call raises, and the caller then  *)
(* closes the session.                                                     *)
(***************************************************************************)
\* __init__: open; the reply may be lost, and the session is then nobody's.
HOpen(s) ==
  /\ hpc = "closed"
  /\ state[s] = "none"
  /\ \A t \in Session : t < s => state[t] # "none" /\ Len(sent[t]) <= 1
  /\ ServerOpens(s)
  /\ \/ hpc' = "opening" /\ hs' = s
     \/ UNCHANGED <<hpc, hs>>
  /\ pending' = <<>> /\ batch' = <<>> /\ downSeq' = 1 /\ upAfter' = 0 /\ numbers' = <<>>
  /\ UNCHANGED <<down, up, guestVars, paused, handlerGone, streams>>

\* __init__: status, until the machine takes the session, refuses it, or the
\* deadline passes.  A call that fails leaves without closing the session.
HStatus ==
  /\ hpc = "opening"
  /\ \/ state[hs] = "open" /\ hpc' = "open"
     \/ state[hs] \in {"pending", "closed"} /\ hpc' = "closing"
     \/ hpc' = "closed"
  /\ UNCHANGED <<hs, pending, batch, downSeq, upAfter, numbers, serverVars, guestVars,
                 paused, handlerGone, streams>>

\* sendall
HWrite ==
  LET u == <<hs, Len(sent[hs]) + 1>> IN
  /\ hpc = "open" /\ Len(sent[hs]) < Quota(hs)
  /\ pending' = Append(pending, u)
  /\ sent' = [sent EXCEPT ![hs] = Append(@, u)]
  /\ UNCHANGED <<hpc, hs, batch, downSeq, upAfter, numbers, serverVars, guestVars,
                 paused, handlerGone, fed, made, read>>

\* recv, first half: _flush signs everything that is buffered...
HFlush ==
  /\ hpc = "open"
  /\ batch' = [i \in 1 .. Len(pending) |->
                 [session |-> hs, seq |-> downSeq + i - 1, data |-> pending[i]]]
  /\ pending' = <<>>
  /\ hpc' = IF pending = <<>> THEN "pull" ELSE "post"
  /\ UNCHANGED <<hs, downSeq, upAfter, numbers, serverVars, guestVars, paused,
                 handlerGone, streams>>

\* ... and posts it a few records at a time.
Posted == SubSeq(batch, 1, IF Len(batch) < PostMax THEN Len(batch) ELSE PostMax)

HPost ==
  LET rest == SubSeq(batch, Len(Posted) + 1, Len(batch)) IN
  /\ hpc = "post"
  /\ \/ /\ ServerTakes(hs, Posted)
        /\ down' = [down EXCEPT ![hs] = @ \o Posted]
        /\ \/ /\ batch' = rest
              /\ downSeq' = IF rest = <<>> THEN batch[Len(batch)].seq + 1 ELSE downSeq
              /\ hpc' = IF rest = <<>> THEN "pull" ELSE "post"
           \/ hpc' = "closing" /\ UNCHANGED <<batch, downSeq>>
     \/ hpc' = "closing" /\ UNCHANGED <<batch, downSeq, down>>
  /\ UNCHANGED <<hs, pending, upAfter, numbers, state, up, guestVars, paused,
                 handlerGone, streams>>

\* recv, second half: _pull until there is something to return.  A reply without
\* the next chunk leaves nothing to take.
HPull ==
  /\ hpc = "pull"
  /\ \/ \E found \in UpReplies(hs, upAfter) :
          IF upAfter + 1 \in Range(found)
          THEN numbers' = found /\ hpc' = "take"
          ELSE numbers' = <<>> /\ hpc' = IF state[hs] = "closed" THEN "closed" ELSE "pull"
     \/ hpc' = "closing" /\ numbers' = <<>>
  /\ UNCHANGED <<hs, pending, batch, downSeq, upAfter, serverVars, guestVars, paused,
                 handlerGone, streams>>

\* Chunk after chunk of the reply: one that continues the sequence is kept, any
\* other skipped; one that is cut short raises.
HTake ==
  /\ hpc = "take"
  /\ IF Head(numbers) = upAfter + 1
       THEN /\ upAfter' = Head(numbers)
            /\ read' = [read EXCEPT ![hs] = @ \o up[hs][Head(numbers)]]
       ELSE UNCHANGED <<upAfter, read>>
  /\ \/ numbers' = Tail(numbers) /\ hpc' = IF numbers' = <<>> THEN "open" ELSE "take"
     \/ numbers' = <<>> /\ hpc' = "closing"
  /\ UNCHANGED <<hs, pending, batch, downSeq, serverVars, guestVars, paused,
                 handlerGone, sent, fed, made>>

\* The client is done.
HDone ==
  /\ hpc = "open" /\ hpc' = "closing"
  /\ UNCHANGED <<hs, pending, batch, downSeq, upAfter, numbers, serverVars, guestVars,
                 paused, handlerGone, streams>>

\* _close_quietly: a lost call is ignored.
HClose ==
  /\ hpc = "closing" /\ hpc' = "closed"
  /\ ServerCloses(hs) \/ UNCHANGED state
  /\ UNCHANGED <<hs, pending, batch, downSeq, upAfter, numbers, down, up, guestVars,
                 paused, handlerGone, streams>>

-----------------------------------------------------------------------------
(***************************************************************************)
(* The agent: v9x_remote_thread hands a pending session to                 *)
(* v9x_remote_session.                                                     *)
(***************************************************************************)
InSession(s) == gs = s /\ gpc \in {"round", "down", "feed", "up", "post", "beat", "end"}

GGoto(label) == gpc' = label

GPoll(s) ==
  /\ gpc = "idle" /\ state[s] = "pending"
  /\ GGoto("take") /\ gs' = s
  /\ UNCHANGED <<expected, upSeq, reply, drained, chunk, tries, serverClosed,
                 hostVars, serverVars, paused, handlerGone, streams>>

\* Paused, or no loopback connection: decline.
GTake ==
  /\ gpc = "take"
  /\ \/ ~paused /\ GGoto("accept") /\ UNCHANGED state
     \/ GGoto("idle") /\ (ServerCloses(gs) \/ UNCHANGED state)
  /\ UNCHANGED <<gs, expected, upSeq, reply, drained, chunk, tries, serverClosed,
                 hostVars, down, up, paused, handlerGone, streams>>

GAccept ==
  /\ gpc = "accept"
  /\ \/ /\ state[gs] = "pending"
        /\ state' = [state EXCEPT ![gs] = "open"]
        /\ GGoto("round") \/ GGoto("idle")
     \/ GGoto("idle") /\ UNCHANGED state
  /\ expected' = 1 /\ upSeq' = 1 /\ drained' = 0 /\ serverClosed' = FALSE
  /\ UNCHANGED <<gs, reply, chunk, tries, hostVars, down, up, paused, handlerGone, streams>>

GRoundUnpaused ==     \* a mutant: looks at the switch only when a session starts
  /\ gpc = "round" /\ GGoto("down")
  /\ UNCHANGED <<gs, expected, upSeq, reply, drained, chunk, tries, serverClosed,
                 hostVars, serverVars, paused, handlerGone, streams>>

\* The top of the loop is where the pause switch is looked at.
GRound ==
  /\ gpc = "round"
  /\ GGoto(IF paused THEN "end" ELSE "down")
  /\ UNCHANGED <<gs, expected, upSeq, reply, drained, chunk, tries, serverClosed,
                 hostVars, serverVars, paused, handlerGone, streams>>

\* GET down: answered, closed, or lost (then the round goes on without).
GDownServed ==
  /\ gpc = "down" /\ state[gs] # "closed"
  /\ \E records \in DownReplies(gs, expected - 1) : reply' = records
  /\ GGoto("feed")
  /\ UNCHANGED <<gs, expected, upSeq, drained, chunk, tries, serverClosed,
                 hostVars, serverVars, paused, handlerGone, streams>>

GDownClosed ==
  /\ gpc = "down" /\ state[gs] = "closed"
  /\ serverClosed' = TRUE /\ GGoto("end")
  /\ UNCHANGED <<gs, expected, upSeq, reply, drained, chunk, tries,
                 hostVars, serverVars, paused, handlerGone, streams>>

GDownLost ==
  /\ gpc = "down" /\ GGoto("up")
  /\ UNCHANGED <<gs, expected, upSeq, reply, drained, chunk, tries, serverClosed,
                 hostVars, serverVars, paused, handlerGone, streams>>

GoodOtherSession(n) ==     \* a mutant: the signature does not cover the session
  \A i \in 1 .. n : reply[i].seq = expected + i - 1

\* The first n records of the reply pass: the sequence number rises
\* by exactly one, and v9x_relay_verify finds this session under the signature.
Good(n) == \A i \in 1 .. n : reply[i].seq = expected + i - 1 /\ reply[i].session = gs

\* Each good record is handed to the handlers; the first bad one ends the
\* session, and so may one that comes after the loopback has closed.
GFeed ==
  /\ gpc = "feed"
  /\ \E n \in 0 .. Len(reply) :
       /\ Good(n)
       /\ n < Len(reply) /\ Good(n + 1) => handlerGone[gs]
       /\ fed' = [fed EXCEPT ![gs] = @ \o [i \in 1 .. n |-> reply[i].data]]
       /\ expected' = expected + n
       /\ GGoto(IF n = Len(reply) THEN "up" ELSE "end")
  /\ reply' = <<>>
  /\ UNCHANGED <<gs, upSeq, drained, chunk, tries, serverClosed, hostVars,
                 serverVars, paused, handlerGone, sent, made, read>>

\* v9x_remote_drain: what the handlers have written and was not taken yet.
GDrain ==
  /\ gpc = "up"
  /\ chunk' = SubSeq(made[gs], drained + 1, Len(made[gs]))
  /\ drained' = Len(made[gs])
  /\ tries' = 0
  /\ GGoto(IF chunk' # <<>> THEN "post" ELSE IF handlerGone[gs] THEN "end" ELSE "beat")
  /\ UNCHANGED <<gs, expected, upSeq, reply, serverClosed, hostVars, serverVars,
                 paused, handlerGone, streams>>

\* POST up?seq=n: a number the server has already is acknowledged and ignored.
ServerKeeps ==
  up' = IF state[gs] = "open" /\ upSeq = Len(up[gs]) + 1
          THEN [up EXCEPT ![gs] = Append(@, chunk)] ELSE up

GUpAnswered ==
  /\ gpc = "post" /\ ServerKeeps
  /\ chunk' = <<>> /\ tries' = 0
  /\ IF state[gs] = "closed"
       THEN GGoto("end") /\ serverClosed' = TRUE /\ upSeq' = upSeq
       ELSE GGoto("beat") /\ upSeq' = upSeq + 1 /\ UNCHANGED serverClosed
  /\ UNCHANGED <<gs, expected, reply, drained, hostVars, state, down, paused,
                 handlerGone, streams>>

GUpLostForever ==     \* a mutant: tries for ever
  /\ gpc = "post"
  /\ ServerKeeps \/ UNCHANGED up
  /\ tries' = tries + 1
  /\ UNCHANGED <<gpc, chunk, gs, expected, upSeq, reply, drained, serverClosed, hostVars,
                 state, down, paused, handlerGone, streams>>

GUpLostGoesOn ==     \* a mutant: drops the chunk and stays in the session
  /\ gpc = "post"
  /\ ServerKeeps \/ UNCHANGED up
  /\ IF tries + 1 = MaxTries
       THEN GGoto("beat") /\ chunk' = <<>> /\ tries' = 0
       ELSE tries' = tries + 1 /\ UNCHANGED <<gpc, chunk>>
  /\ UNCHANGED <<gs, expected, upSeq, reply, drained, serverClosed, hostVars,
                 state, down, paused, handlerGone, streams>>

\* Lost on the way there or back: the same chunk again, four times in all.
GUpLost ==
  /\ gpc = "post"
  /\ ServerKeeps \/ UNCHANGED up
  /\ IF tries + 1 = MaxTries
       THEN GGoto("end") /\ chunk' = <<>> /\ tries' = 0
       ELSE tries' = tries + 1 /\ UNCHANGED <<gpc, chunk>>
  /\ UNCHANGED <<gs, expected, upSeq, reply, drained, serverClosed, hostVars,
                 state, down, paused, handlerGone, streams>>

\* The heartbeat poll, when it is due and answered, may say the session is over,
\* or that the machine is retired.
GBeat ==
  /\ gpc = "beat"
  /\ \/ GGoto("round") /\ UNCHANGED serverClosed
     \/ state[gs] # "open" /\ GGoto("end") /\ serverClosed' = TRUE
     \/ GGoto("end") /\ UNCHANGED serverClosed
  /\ UNCHANGED <<gs, expected, upSeq, reply, drained, chunk, tries, hostVars,
                 serverVars, paused, handlerGone, streams>>

\* closesocket(tunnel), remote_session = 0, and a close call that may be lost.
GEnd ==
  /\ gpc = "end" /\ GGoto("idle")
  /\ (~serverClosed /\ ServerCloses(gs)) \/ UNCHANGED state
  /\ UNCHANGED <<gs, expected, upSeq, reply, drained, chunk, tries, serverClosed,
                 hostVars, down, up, paused, handlerGone, streams>>

\* The tray menu's "Pause remote help" and "Resume remote help".
TogglePause ==
  /\ paused' = ~paused
  /\ UNCHANGED <<hostVars, serverVars, guestVars, handlerGone, streams>>

-----------------------------------------------------------------------------
(***************************************************************************)
(* The handlers: v9x_serve_client answers requests in order, and may end   *)
(* the connection (idle timeout, malformed request, no free slot).         *)
(***************************************************************************)
HandlerAnswers(s) ==
  /\ ~handlerGone[s] /\ Len(made[s]) < Len(fed[s])
  /\ made' = [made EXCEPT ![s] = Append(@, fed[s][Len(@) + 1])]
  /\ UNCHANGED <<hostVars, serverVars, guestVars, paused, handlerGone, sent, fed, read>>

HandlerEnds(s) ==
  /\ InSession(s) /\ ~handlerGone[s]
  /\ handlerGone' = [handlerGone EXCEPT ![s] = TRUE]
  /\ UNCHANGED <<hostVars, serverVars, guestVars, paused, streams>>

-----------------------------------------------------------------------------
Host ==
  \/ \E s \in Session : HOpen(s)
  \/ HStatus \/ HWrite \/ HFlush \/ HPost \/ HPull \/ HTake \/ HDone \/ HClose

GuestLoop ==
  \/ GRound \/ GDownServed \/ GDownClosed \/ GDownLost \/ GFeed \/ GDrain
  \/ GUpAnswered \/ GUpLost \/ GBeat \/ GEnd

Guest == (\E s \in Session : GPoll(s)) \/ GTake \/ GAccept \/ GuestLoop

Next ==
  \/ Host \/ Guest \/ TogglePause
  \/ \E s \in Session : HandlerAnswers(s) \/ HandlerEnds(s)

(***************************************************************************)
(* The agent's loop never stops: every call has a timeout.  A call it keeps*)
(* making gets through at last, and its heartbeat need not be due.  The    *)
(* handlers answer; a client that waits keeps asking.  Nothing is assumed  *)
(* of when clients open, write or give up.                                 *)
(***************************************************************************)
Fairness ==
  /\ WF_vars(GuestLoop)
  /\ SF_vars(GDownServed /\ (Len(down[gs]) >= expected => reply' # <<>>))
  /\ SF_vars(GDownClosed)
  /\ WF_vars(HPost) /\ SF_vars(HPull /\ numbers' # <<>>) /\ WF_vars(HTake)
  /\ \A s \in Session : WF_vars(HandlerAnswers(s))

Spec == Init /\ [][Next]_vars
FairSpec == Spec /\ Fairness

-----------------------------------------------------------------------------
(***************************************************************************)
(* Properties                                                              *)
(***************************************************************************)
TypeOK ==
  /\ hpc \in HostPC /\ hs \in Session \cup {NoSession}
  /\ pending \in Seq(Unit) /\ batch \in Seq(Record)
  /\ downSeq \in Nat \ {0} /\ upAfter \in Nat /\ numbers \in Seq(Nat)
  /\ state \in [Session -> {"none", "pending", "open", "closed"}]
  /\ down \in [Session -> Seq(Record)] /\ up \in [Session -> Seq(Seq(Unit))]
  /\ gpc \in GuestPC /\ gs \in Session \cup {NoSession}
  /\ expected \in Nat \ {0} /\ upSeq \in Nat \ {0} /\ reply \in Seq(Record)
  /\ drained \in Nat /\ chunk \in Seq(Unit) /\ tries \in 0 .. MaxTries - 1
  /\ serverClosed \in BOOLEAN /\ paused \in BOOLEAN
  /\ handlerGone \in [Session -> BOOLEAN]
  /\ \A f \in {sent, fed, made, read} : f \in [Session -> Seq(Unit)]

\* docs/remote-help.md: whatever is lost, retried, repeated or reordered on the
\* way, a session is a tunnel that hands over a prefix, in order, each unit once.
Tunnel == INSTANCE RelayTunnel
IsTunnel == Tunnel!Spec

\* A client that waits for an answer gets more of it, unless the session ends
\* at either side: lost calls are made again and nothing is left behind.
Waiting(s, n) ==
  hs = s /\ hpc \in {"post", "pull", "take"} /\ Len(read[s]) = n /\ n < Len(sent[s])

Answered ==
  \A s \in Session : \A n \in 0 .. MaxUnits - 1 :
    Waiting(s, n) /\ InSession(s) ~> ~Waiting(s, n) \/ ~InSession(s)

\* A session the server has closed, and one that stays paused, ends at the
\* agent: its loopback connection, and the slot it has, are given back.
SessionEnds ==
  /\ \A s \in Session : InSession(s) /\ state[s] = "closed" ~> ~InSession(s)
  /\ \A s \in Session : InSession(s) /\ paused ~> ~InSession(s) \/ ~paused

\* README.md: "Pause remote help on the icon's menu blocks all commands at once
\* (chat keeps working) until you choose Resume": nothing is fed while paused.
PauseBlocks == [][paused => fed' = fed]_vars
=============================================================================
