------------------------------ MODULE ChatQueue ------------------------------
(***************************************************************************)
(* What the owner of a machine is promised of the lines typed into the     *)
(* chat window: docs/remote-help.md and the comment on chat_outgoing in    *)
(* src/guest/agent.h.  A line that is taken waits, in its place, until a    *)
(* check-in that offered it is answered; it may be offered more than once. *)
(* A check-in has room for some of the lines only, the oldest: what did not*)
(* fit into the last one before the answer is lost.                        *)
(***************************************************************************)
EXTENDS Naturals, Sequences

CONSTANTS
  Line, Capacity,
  Carried(_)   \* of the lines that wait, those that fit into one check-in

VARIABLES
  waiting,     \* the lines that wait, oldest first
  got,         \* the lines that have reached the server
  lost,        \* the lines that no longer wait and have not reached it
  latest,      \* what the last check-in offered, until it is answered
  life         \* which run of the agent this is

vars == <<waiting, got, lost, latest, life>>

Init == waiting = <<>> /\ got = {} /\ lost = {} /\ latest = <<>> /\ life = 0

Take(line) ==
  /\ Len(waiting) < Capacity
  /\ waiting' = Append(waiting, line) /\ UNCHANGED <<got, lost, latest, life>>

\* What waits is offered, reaches the server as far as there is room, and still waits.
Reach ==
  /\ waiting # <<>>
  /\ got' = got \cup Carried(waiting) /\ latest' = waiting
  /\ UNCHANGED <<waiting, lost, life>>

\* The oldest lines no longer wait: they are those that were offered last.
Done(n) ==
  /\ n <= Len(latest) /\ \A i \in 1 .. n : waiting[i] = latest[i]
  /\ waiting' = SubSeq(waiting, n + 1, Len(waiting)) /\ latest' = <<>>
  /\ lost' = lost \cup ({waiting[i] : i \in 1 .. n} \ got)
  /\ UNCHANGED <<got, life>>

\* The agent ends, and what waits is gone with it.
Restart ==
  /\ life' = life + 1
  /\ waiting' = <<>> /\ latest' = <<>> /\ UNCHANGED <<got, lost>>

Next ==
  \/ \E line \in Line : Take(line)
  \/ Reach \/ Restart
  \/ \E n \in 1 .. Len(waiting) : Done(n)

Spec == Init /\ [][Next]_vars
=============================================================================
