---------------------------- MODULE RelayTunnel ----------------------------
(***************************************************************************)
(* What a remote-help relay session promises (docs/remote-help.md): a byte *)
(* tunnel between the developer's client and the machine's protocol        *)
(* handlers.  In each session the handlers are given what the client       *)
(* wrote, in that order, each unit once and none left out; the client      *)
(* reads what the handlers wrote in the same way; and either side may stop *)
(* at any point.  Nothing of one session ever shows up in another.         *)
(***************************************************************************)
EXTENDS Naturals, Sequences

CONSTANTS Session, Unit

VARIABLES
  sent,   \* what the client wrote, per session
  fed,    \* what the handlers were given
  made,   \* what the handlers wrote
  read    \* what the client read

vars == <<sent, fed, made, read>>

Init ==
  /\ sent = [s \in Session |-> <<>>] /\ fed = sent
  /\ made = sent /\ read = sent

\* A longer prefix of `from` replaces `to`.
Advance(from, to, s) ==
  \E n \in Len(to[s]) + 1 .. Len(from[s]) : to' = [to EXCEPT ![s] = SubSeq(from[s], 1, n)]

Write(s) ==
  /\ \E u \in Unit : sent' = [sent EXCEPT ![s] = Append(@, u)]
  /\ UNCHANGED <<fed, made, read>>

Feed(s) == Advance(sent, fed, s) /\ UNCHANGED <<sent, made, read>>

\* The handlers answer requests in the order they were given them.
Answer(s) == Advance(fed, made, s) /\ UNCHANGED <<sent, fed, read>>

Read(s) == Advance(made, read, s) /\ UNCHANGED <<sent, fed, made>>

Next == \E s \in Session : Write(s) \/ Feed(s) \/ Answer(s) \/ Read(s)

Spec == Init /\ [][Next]_vars
=============================================================================
