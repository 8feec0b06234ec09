------------------------- MODULE RelaySession_proofs -------------------------
(***************************************************************************)
(* A relay session implements the tunnel of RelayTunnel, for any number of *)
(* sessions, units, records per POST and attempts, over a path that may    *)
(* repeat, reorder and mix up signed records and chunks.                   *)
(***************************************************************************)
EXTENDS RelaySession, TLAPS

-----------------------------------------------------------------------------
(***************************************************************************)
(* The invariant                                                           *)
(***************************************************************************)
Units == Seq(Session \X Nat)

\* A unit tells which it is: these are the units of session s that follow the first n.
Follows(units, s, n) == \A i \in 1 .. Len(units) : units[i] = <<s, n + i>>

\* What was written, handed over, answered and read is a beginning of the one before.
Streams == [Session -> Units]

StreamInv ==
  /\ sent \in Streams /\ fed \in Streams /\ made \in Streams /\ read \in Streams
  /\ \A s \in Session :
       /\ Follows(sent[s], s, 0) /\ Len(sent[s]) <= MaxUnits
       /\ Follows(fed[s], s, 0)  /\ Len(fed[s]) <= Len(sent[s])
       /\ Follows(made[s], s, 0) /\ Len(made[s]) <= Len(fed[s])
       /\ Follows(read[s], s, 0) /\ Len(read[s]) <= Len(made[s])

\* The sessions: who has one, and that nothing is in one that was not taken yet.
Connected == {"opening", "open", "post", "pull", "take"}
Serving   == {"round", "down", "feed", "up", "post", "beat"}

SessionInv ==
  /\ hpc \in HostPC /\ gpc \in GuestPC
  /\ state \in [Session -> {"none", "pending", "open", "closed"}]
  /\ hpc # "closed" => hs \in Session /\ state[hs] # "none"
  /\ hpc \in {"open", "post", "pull", "take"} => state[hs] # "pending"
  /\ gpc # "idle" => gs \in Session /\ state[gs] # "none"
  /\ gpc \in Serving \cup {"end"} => state[gs] \notin {"none", "pending"}

\* On the way down: records that were signed for their unit, each once and in order at
\* the server.
Records == [session : Session, seq : Nat, data : Session \X Nat]

RecordOf(s, k) == [session |-> s, seq |-> k, data |-> <<s, k>>]

Signed(r) == r.data = <<r.session, r.seq>> /\ r.seq \in 1 .. Len(sent[r.session])

ReplySigned == reply \in Seq(Records) /\ \A i \in 1 .. Len(reply) : Signed(reply[i])

\* Those of session s that follow the first n.
InOrder(records, s, n) == \A i \in 1 .. Len(records) : records[i] = RecordOf(s, n + i)

DownInv ==
  /\ down \in [Session -> Seq(Records)]
  /\ \A s \in Session : InOrder(down[s], s, 0) /\ Len(down[s]) <= Len(sent[s])
  /\ ReplySigned
  /\ gpc \in Serving => expected = Len(fed[gs]) + 1
  /\ \A s \in Session : state[s] \in {"none", "pending"} => fed[s] = <<>>
  /\ \A s \in Session : state[s] = "none" => sent[s] = <<>>

\* What the client has written and not posted yet.
FlushInv ==
  /\ pending \in Units /\ batch \in Seq(Records) /\ downSeq \in Nat \ {0}
  /\ hpc \in {"opening", "open"} =>
       Follows(pending, hs, downSeq - 1) /\ Len(sent[hs]) = downSeq - 1 + Len(pending)
  /\ hpc \in {"pull", "take"} => pending = <<>> /\ Len(sent[hs]) = downSeq - 1
  /\ hpc = "post" =>
       /\ pending = <<>> /\ batch # <<>> /\ batch[1].seq > 0
       /\ InOrder(batch, hs, batch[1].seq - 1)
       /\ Len(sent[hs]) = batch[1].seq - 1 + Len(batch)

\* On the way up: chunks that follow each other.
End(units) == units[Len(units)][2]
Before(s, k) == IF k = 1 THEN 0 ELSE End(up[s][k - 1])
InChunks(s) == Before(s, Len(up[s]) + 1)

ChunksInv ==
  /\ up \in [Session -> Seq(Units)]
  /\ \A s \in Session : \A k \in 1 .. Len(up[s]) :
       /\ up[s][k] # <<>> /\ Follows(up[s][k], s, Before(s, k))
       /\ End(up[s][k]) <= Len(made[s])

\* Where the loop is on the way up: at the number and the unit that come next at the
\* server, or with a chunk that is there already, though it was not told so.
LoopInv ==
  /\ upSeq \in Nat /\ drained \in Nat /\ chunk \in Units
  /\ gpc \in Serving \ {"post"} => upSeq = Len(up[gs]) + 1 /\ drained = InChunks(gs)
  /\ gpc = "post" =>
       /\ chunk # <<>> /\ End(chunk) = drained /\ drained <= Len(made[gs])
       /\ \/ upSeq = Len(up[gs]) + 1 /\ Follows(chunk, gs, InChunks(gs))
          \/ upSeq = Len(up[gs]) /\ drained = InChunks(gs)

UpInv ==
  /\ ChunksInv /\ LoopInv
  /\ \A s \in Session : state[s] \in {"none", "pending"} => up[s] = <<>>

\* What the client has read ends with a chunk.
ReadInv ==
  /\ upAfter \in Nat /\ numbers \in Seq(Nat)
  /\ \A s \in Session : state[s] \in {"none", "pending"} => read[s] = <<>>
  /\ hpc \in Connected =>
       upAfter <= Len(up[hs]) /\ Len(read[hs]) = Before(hs, upAfter + 1)
  /\ hpc = "take" =>
       numbers # <<>> /\ \A i \in 1 .. Len(numbers) : numbers[i] \in 1 .. Len(up[hs])

RelayInv == StreamInv /\ SessionInv /\ DownInv /\ FlushInv /\ UpInv /\ ReadInv

-----------------------------------------------------------------------------
(***************************************************************************)
(* Sequences of units                                                      *)
(***************************************************************************)
LEMMA Numbered == Session \subseteq Nat /\ NoSession \notin Session
<1>1. PICK n \in Session : Session = 1 .. n
  BY RelayAssumption
<1> QED BY <1>1 DEF NoSession

LEMMA FollowsAppend ==
  ASSUME NEW units \in Units, NEW s \in Session, NEW n \in Nat, Follows(units, s, n)
  PROVE  LET more == Append(units, <<s, n + Len(units) + 1>>)
         IN  more \in Units /\ Follows(more, s, n) /\ Len(more) = Len(units) + 1
<1> DEFINE more == Append(units, <<s, n + Len(units) + 1>>)
<1>0. Len(units) \in Nat /\ <<s, n + Len(units) + 1>> \in Session \X Nat
  BY DEF Units
<1>1. more \in Units /\ Len(more) = Len(units) + 1
  BY <1>0 DEF Units
<1>2. ASSUME NEW i \in 1 .. Len(more) PROVE more[i] = <<s, n + i>>
  <2>1. CASE i = Len(units) + 1
    <3>1. more[Len(units) + 1] = <<s, n + Len(units) + 1>>
      BY <1>0 DEF Units
    <3>2. n + i = n + Len(units) + 1
      BY <1>0, <2>1
    <3> QED BY <2>1, <3>1, <3>2
  <2>2. CASE i # Len(units) + 1
    <3>1. i \in 1 .. Len(units) /\ more[i] = units[i]
      BY <1>0, <1>1, <2>2 DEF Units
    <3> QED BY <3>1 DEF Follows
  <2> QED BY <2>1, <2>2
<1> QED BY <1>1, <1>2 DEF Follows

LEMMA FollowsConcat ==
  ASSUME NEW a \in Units, NEW b \in Units, NEW s \in Session, NEW n \in Nat,
         Follows(a, s, n), Follows(b, s, n + Len(a))
  PROVE  a \o b \in Units /\ Follows(a \o b, s, n) /\ Len(a \o b) = Len(a) + Len(b)
<1>1. a \o b \in Units /\ Len(a \o b) = Len(a) + Len(b)
  BY DEF Units
<1>2. ASSUME NEW i \in 1 .. Len(a \o b) PROVE (a \o b)[i] = <<s, n + i>>
  <2>1. CASE i <= Len(a)
    BY <1>1, <2>1 DEF Follows, Units
  <2>2. CASE i > Len(a)
    <3>1. i - Len(a) \in 1 .. Len(b)
      <4>1. Len(a) \in Nat /\ Len(b) \in Nat /\ Len(a \o b) = Len(a) + Len(b)
        BY DEF Units
      <4> QED BY ONLY <4>1, <2>2, i \in 1 .. Len(a \o b)
    <3>4. (a \o b)[i] = b[i - Len(a)]
      BY <2>2 DEF Units
    <3>2. b[i - Len(a)] = <<s, n + Len(a) + (i - Len(a))>>
      BY <3>1 DEF Follows
    <3>3. n + Len(a) + (i - Len(a)) = n + i
      BY DEF Units
    <3> QED BY <3>2, <3>3, <3>4
  <2> QED BY <2>1, <2>2 DEF Units
<1> QED BY <1>1, <1>2 DEF Follows

LEMMA FollowsRest ==
  ASSUME NEW units \in Units, NEW s \in Session, Follows(units, s, 0),
         NEW n \in Nat, n <= Len(units)
  PROVE  LET rest == SubSeq(units, n + 1, Len(units))
         IN  rest \in Units /\ Follows(rest, s, n) /\ Len(rest) = Len(units) - n
<1> DEFINE rest == SubSeq(units, n + 1, Len(units))
<1>1. rest \in Units /\ Len(rest) = Len(units) - n
  BY DEF Units
<1>2. ASSUME NEW i \in 1 .. Len(rest) PROVE rest[i] = <<s, n + i>>
  <2>1. rest[i] = units[n + i] /\ n + i \in 1 .. Len(units)
    <3>1. Len(units) \in Nat /\ Len(rest) = Len(units) - n
      BY <1>1 DEF Units
    <3>2. n + i \in 1 .. Len(units) /\ i \in 1 .. Len(units) - n
      BY ONLY <3>1, i \in 1 .. Len(rest), n \in Nat
    <3> QED BY <3>1, <3>2 DEF Units
  <2> QED BY <2>1 DEF Follows
<1> QED BY <1>1, <1>2 DEF Follows

LEMMA EndIs ==
  ASSUME NEW units \in Units, NEW s \in Session, NEW n \in Nat,
         units # <<>>, Follows(units, s, n)
  PROVE  End(units) = n + Len(units) /\ End(units) \in Nat /\ Len(units) \in Nat \ {0}
BY DEF Follows, Units, End

\* Of two beginnings of the units of a session one begins the other.
LEMMA BeginningIs ==
  ASSUME NEW a \in Units, NEW b \in Units, NEW s \in Session,
         Follows(a, s, 0), Follows(b, s, 0), Len(b) <= Len(a)
  PROVE  b = SubSeq(a, 1, Len(b))
<1>1. Len(SubSeq(a, 1, Len(b))) = Len(b) /\ SubSeq(a, 1, Len(b)) \in Seq(Session \X Nat)
  BY DEF Units
<1>2. ASSUME NEW i \in 1 .. Len(b) PROVE b[i] = SubSeq(a, 1, Len(b))[i]
  <2>1. b[i] = <<s, 0 + i>>
    BY DEF Follows
  <2>2. i \in 1 .. Len(a) /\ SubSeq(a, 1, Len(b))[i] = a[i]
    BY DEF Units
  <2>3. a[i] = <<s, 0 + i>>
    BY <2>2 DEF Follows
  <2> QED BY <2>1, <2>2, <2>3
<1> QED BY <1>1, <1>2 DEF Units

\* A stream that has gone on is one that has advanced.
LEMMA Advances ==
  ASSUME NEW from \in Units, NEW to \in Units, NEW s \in Session, NEW next \in Units,
         Follows(from, s, 0), Follows(next, s, 0),
         Len(to) < Len(next), Len(next) <= Len(from)
  PROVE  \E n \in Len(to) + 1 .. Len(from) : next = SubSeq(from, 1, n)
<1>1. next = SubSeq(from, 1, Len(next))
  BY BeginningIs
<1>2. Len(next) \in Len(to) + 1 .. Len(from)
  BY DEF Units
<1> QED BY <1>1, <1>2

-----------------------------------------------------------------------------
(***************************************************************************)
(* The four steps that go on with a stream, each a step of the tunnel.     *)
(***************************************************************************)
LEMMA WriteStep ==
  ASSUME RelayInv, HWrite
  PROVE  /\ StreamInv' /\ Tunnel!Next
         /\ UNCHANGED <<fed, made, read>>
         /\ \A s \in Session : sent'[s] = IF s = hs THEN Append(sent[s], <<s, Len(sent[s]) + 1>>)
                                                   ELSE sent[s]
         /\ Len(sent'[hs]) = Len(sent[hs]) + 1
<1> DEFINE u == <<hs, Len(sent[hs]) + 1>>
<1> USE DEF RelayInv
<1>1. hs \in Session /\ sent[hs] \in Units /\ Len(sent[hs]) \in Nat
  <2>1. hs \in Session
    BY DEF HWrite, SessionInv
  <2>2. sent[hs] \in Units
    BY <2>1 DEF StreamInv, Streams
  <2> QED BY <2>1, <2>2 DEF Units
<1>2. sent' = [sent EXCEPT ![hs] = Append(sent[hs], u)] /\ UNCHANGED <<fed, made, read>>
  BY DEF HWrite
<1>3. Len(sent[hs]) + 1 <= MaxUnits
  BY <1>1, RelayAssumption DEF HWrite, Quota
<1>4. /\ Append(sent[hs], u) \in Units /\ Follows(Append(sent[hs], u), hs, 0)
      /\ Len(Append(sent[hs], u)) = Len(sent[hs]) + 1
  <2>1. u = <<hs, 0 + Len(sent[hs]) + 1>>
    BY <1>1
  <2> HIDE DEF u
  <2> QED BY <1>1, <2>1, FollowsAppend DEF StreamInv
<1>5. StreamInv'
  <2>1. sent' \in Streams
    BY <1>1, <1>2, <1>4 DEF StreamInv, Streams
  <2>2. ASSUME NEW s \in Session
        PROVE  Follows(sent'[s], s, 0) /\ Len(sent'[s]) <= MaxUnits /\ Len(fed[s]) <= Len(sent'[s])
    <3>1. sent[s] \in Units /\ fed[s] \in Units
      BY DEF StreamInv, Streams
    <3>2. Len(fed[s]) \in Nat /\ Len(sent[s]) \in Nat
      BY <3>1 DEF Units
    <3>3. Len(fed[s]) <= Len(sent[s])
      BY DEF StreamInv
    <3>4. CASE s = hs
      <4>1. sent'[s] = Append(sent[hs], u)
        BY <1>1, <1>2, <3>4 DEF StreamInv, Streams
      <4> HIDE DEF u
      <4> QED BY <1>3, <1>4, <3>2, <3>3, <3>4, <4>1
    <3>5. CASE s # hs
      BY <1>2, <3>5 DEF StreamInv, Streams
    <3> QED BY <3>4, <3>5
  <2> QED BY <1>2, <2>1, <2>2 DEF StreamInv, Streams, Follows
<1>6. Tunnel!Next
  <2>1. u \in Unit
    BY <1>1, <1>3, RelayAssumption DEF Unit
  <2> QED BY <1>1, <1>2, <2>1 DEF Tunnel!Next, Tunnel!Write
<1> QED BY <1>1, <1>2, <1>4, <1>5, <1>6 DEF StreamInv, Streams

LEMMA FeedStep ==
  ASSUME RelayInv, GFeed
  PROVE  /\ StreamInv' /\ [Tunnel!Next]_Tunnel!vars
         /\ UNCHANGED <<sent, made, read>> /\ \A s \in Session : s # gs => fed'[s] = fed[s]
         /\ expected' = Len(fed'[gs]) + 1
<1> USE DEF RelayInv
<1>1. gs \in Session /\ fed[gs] \in Units /\ sent[gs] \in Units /\ expected = Len(fed[gs]) + 1
  BY DEF GFeed, SessionInv, DownInv, Serving, StreamInv, Streams
<1>2. PICK n \in 0 .. Len(reply) :
        /\ Good(n)
        /\ fed' = [fed EXCEPT ![gs] = @ \o [i \in 1 .. n |-> reply[i].data]]
        /\ expected' = expected + n
  BY DEF GFeed
<1> DEFINE new == [i \in 1 .. n |-> reply[i].data]
<1>3. n \in Nat /\ n <= Len(reply)
  BY DEF DownInv, ReplySigned
<1>4. ASSUME NEW i \in 1 .. n
      PROVE  /\ reply[i].data = <<gs, Len(fed[gs]) + i>>
             /\ reply[i].seq = Len(fed[gs]) + i /\ reply[i].seq <= Len(sent[gs])
  <2>1. reply[i].seq = expected + i - 1 /\ reply[i].session = gs
    BY <1>2 DEF Good
  <2>2. reply[i].data = <<gs, reply[i].seq>> /\ reply[i].seq \in 1 .. Len(sent[gs])
    <3>1. i \in 1 .. Len(reply) /\ Len(reply) \in Nat
      BY <1>3 DEF DownInv, ReplySigned
    <3> QED BY <2>1, <3>1 DEF DownInv, ReplySigned, Signed
  <2>3. expected + i - 1 = Len(fed[gs]) + i
    BY <1>1 DEF Units
  <2> QED BY <2>1, <2>2, <2>3
<1>5. new \in Units /\ Len(new) = n /\ Follows(new, gs, 0 + Len(fed[gs]))
  <2>1. \A i \in 1 .. n : <<gs, Len(fed[gs]) + i>> \in Session \X Nat
    BY <1>1, <1>3 DEF Units
  <2>2. new \in [1 .. n -> Session \X Nat]
    BY <1>4, <2>1
  <2>3. new \in Units /\ Len(new) = n
    BY <1>3, <2>2 DEF Units
  <2>4. ASSUME NEW i \in 1 .. Len(new) PROVE new[i] = <<gs, 0 + Len(fed[gs]) + i>>
    BY <1>1, <1>4, <2>3 DEF Units
  <2> QED BY <2>3, <2>4 DEF Follows
<1> HIDE DEF new
<1>6. fed' = [fed EXCEPT ![gs] = fed[gs] \o new] /\ UNCHANGED <<sent, made, read>>
  BY <1>1, <1>2 DEF GFeed, new
<1> DEFINE next == fed[gs] \o new
<1>7. next \in Units /\ Follows(next, gs, 0) /\ Len(next) = Len(fed[gs]) + n
  <2>1. Follows(fed[gs], gs, 0)
    BY <1>1 DEF StreamInv
  <2> QED BY <1>1, <1>5, <2>1, FollowsConcat
<1>8. Len(next) <= Len(sent[gs])
  <2>1. CASE n = 0
    BY <1>1, <1>7, <2>1 DEF StreamInv, Units
  <2>2. CASE n # 0
    BY <1>3, <1>4, <1>7, <2>2
  <2> QED BY <2>1, <2>2
<1>9. fed'[gs] = next /\ \A s \in Session : s # gs => fed'[s] = fed[s]
  BY <1>1, <1>6 DEF StreamInv, Streams
<1>10. StreamInv'
  <2>1. fed' \in Streams
    BY <1>1, <1>6, <1>7 DEF StreamInv, Streams
  <2>2. ASSUME NEW s \in Session
        PROVE  /\ Follows(fed'[s], s, 0)
               /\ Len(fed'[s]) <= Len(sent[s]) /\ Len(made[s]) <= Len(fed'[s])
    <3>1. Len(made[s]) <= Len(fed[s]) /\ Len(made[s]) \in Nat /\ Len(fed[s]) \in Nat
      BY DEF StreamInv, Streams, Units
    <3>2. CASE s = gs
      <4>1. Follows(fed'[s], s, 0)
        BY <1>7, <1>9, <3>2
      <4>2. Len(fed'[s]) <= Len(sent[s]) /\ Len(fed'[s]) = Len(fed[s]) + n
        BY <1>7, <1>8, <1>9, <3>2
      <4>3. Len(made[s]) <= Len(fed[s]) + n
        BY <1>3, <3>1
      <4> QED BY <4>1, <4>2, <4>3
    <3>3. CASE s # gs
      BY <1>9, <3>3 DEF StreamInv
    <3> QED BY <3>2, <3>3
  <2>3. ASSUME NEW s \in Session
        PROVE  /\ Follows(sent'[s], s, 0) /\ Len(sent'[s]) <= MaxUnits
               /\ Follows(fed'[s], s, 0)  /\ Len(fed'[s]) <= Len(sent'[s])
               /\ Follows(made'[s], s, 0) /\ Len(made'[s]) <= Len(fed'[s])
               /\ Follows(read'[s], s, 0) /\ Len(read'[s]) <= Len(made'[s])
    BY <1>6, <2>2 DEF StreamInv
  <2>4. sent' \in Streams /\ made' \in Streams /\ read' \in Streams
    BY <1>6 DEF StreamInv
  <2> QED BY ONLY <2>1, <2>3, <2>4, Zenon DEF StreamInv, Streams, Follows
<1>11. [Tunnel!Next]_Tunnel!vars
  <2>1. CASE n = 0
    <3>1. new = <<>> /\ next = fed[gs]
      BY <1>1, <1>5, <2>1 DEF Units
    <3>2. fed' = fed
      BY <1>1, <1>6, <3>1 DEF StreamInv, Streams
    <3> QED BY <1>6, <3>2 DEF Tunnel!vars
  <2>2. CASE n # 0
    <3>1. Len(fed[gs]) < Len(next)
      BY <1>1, <1>3, <1>7, <2>2 DEF Units
    <3>2. \E m \in Len(fed[gs]) + 1 .. Len(sent[gs]) :
            next = SubSeq(sent[gs], 1, m)
      <4>1. Follows(sent[gs], gs, 0)
        BY <1>1 DEF StreamInv
      <4> HIDE DEF next
      <4> QED BY <1>1, <1>7, <1>8, <3>1, <4>1, Advances
    <3>3. Tunnel!Advance(sent, fed, gs)
      BY <1>6, <3>2 DEF Tunnel!Advance
    <3> QED BY <1>1, <1>6, <3>3 DEF Tunnel!Next, Tunnel!Feed
  <2> QED BY <2>1, <2>2
<1>12. expected' = Len(fed'[gs]) + 1
  BY <1>1, <1>2, <1>3, <1>7, <1>9 DEF Units
<1> QED BY <1>6, <1>9, <1>10, <1>11, <1>12

LEMMA AnswerStep ==
  ASSUME RelayInv, NEW s \in Session, HandlerAnswers(s)
  PROVE  /\ StreamInv' /\ Tunnel!Next /\ UNCHANGED <<sent, fed, read>>
         /\ \A t \in Session : Len(made[t]) <= Len(made'[t])
<1> USE DEF RelayInv
<1>1. /\ fed[s] \in Units /\ made[s] \in Units
      /\ Follows(fed[s], s, 0) /\ Follows(made[s], s, 0)
  BY DEF StreamInv, Streams
<1>2. Len(made[s]) \in Nat /\ Len(made[s]) + 1 \in 1 .. Len(fed[s])
  BY <1>1 DEF HandlerAnswers, Units
<1> DEFINE next == Append(made[s], fed[s][Len(made[s]) + 1])
<1>3. made' = [made EXCEPT ![s] = next] /\ UNCHANGED <<sent, fed, read>>
  BY DEF HandlerAnswers
<1>4. next \in Units /\ Follows(next, s, 0) /\ Len(next) = Len(made[s]) + 1
  <2>1. fed[s][Len(made[s]) + 1] = <<s, 0 + Len(made[s]) + 1>>
    BY <1>1, <1>2 DEF Follows
  <2> QED BY <1>1, <2>1, FollowsAppend
<1> HIDE DEF next
<1>5. made'[s] = next /\ \A t \in Session : t # s => made'[t] = made[t]
  BY <1>3 DEF StreamInv, Streams
<1>6. \A t \in Session : Len(made[t]) \in Nat /\ Len(made[t]) <= Len(made'[t])
  <2>1. \A t \in Session : Len(made[t]) \in Nat
    BY DEF StreamInv, Streams, Units
  <2>2. Len(made[s]) <= Len(made'[s])
    BY <1>2, <1>4, <1>5
  <2> QED BY <1>5, <2>1, <2>2
<1>7. StreamInv'
  <2>1. made' \in Streams
    BY <1>3, <1>4 DEF StreamInv, Streams
  <2>2. ASSUME NEW t \in Session
        PROVE  /\ Follows(made'[t], t, 0) /\ Len(made'[t]) <= Len(fed[t])
               /\ Len(read[t]) <= Len(made'[t])
    <3>1. Len(read[t]) <= Len(made[t]) /\ Len(read[t]) \in Nat /\ Len(made[t]) \in Nat
      BY DEF StreamInv, Streams, Units
    <3>2. CASE t = s
      <4>1. Follows(made'[t], t, 0) /\ Len(made'[t]) = Len(made[t]) + 1
        BY <1>4, <1>5, <3>2
      <4>2. Len(made[t]) + 1 <= Len(fed[t])
        BY <1>2, <3>2
      <4> QED BY <3>1, <4>1, <4>2
    <3>3. CASE t # s
      BY <1>5, <3>3 DEF StreamInv
    <3> QED BY <3>2, <3>3
  <2>3. ASSUME NEW t \in Session
        PROVE  /\ Follows(sent'[t], t, 0) /\ Len(sent'[t]) <= MaxUnits
               /\ Follows(fed'[t], t, 0)  /\ Len(fed'[t]) <= Len(sent'[t])
               /\ Follows(made'[t], t, 0) /\ Len(made'[t]) <= Len(fed'[t])
               /\ Follows(read'[t], t, 0) /\ Len(read'[t]) <= Len(made'[t])
    BY <1>3, <2>2 DEF StreamInv
  <2>4. sent' \in Streams /\ fed' \in Streams /\ read' \in Streams
    BY <1>3 DEF StreamInv
  <2> QED BY ONLY <2>1, <2>3, <2>4, Zenon DEF StreamInv, Streams, Follows
<1>8. Tunnel!Next
  <2>1. \E n \in Len(made[s]) + 1 .. Len(fed[s]) : next = SubSeq(fed[s], 1, n)
    <3>1. Len(made[s]) < Len(next) /\ Len(next) <= Len(fed[s])
      BY <1>2, <1>4
    <3> QED BY <1>1, <1>4, <3>1, Advances
  <2>2. Tunnel!Advance(fed, made, s)
    BY <1>3, <2>1 DEF Tunnel!Advance
  <2> QED BY <1>3, <2>2 DEF Tunnel!Next, Tunnel!Answer
<1> QED BY <1>3, <1>6, <1>7, <1>8

\* A chunk that the server has begins where the one before it ends.
LEMMA ChunkIs ==
  ASSUME ChunksInv, NEW s \in Session, NEW k \in 1 .. Len(up[s])
  PROVE  /\ up[s][k] \in Units /\ up[s][k] # <<>> /\ Len(up[s][k]) \in Nat \ {0}
         /\ Before(s, k) \in Nat /\ Follows(up[s][k], s, Before(s, k))
         /\ Before(s, k + 1) = Before(s, k) + Len(up[s][k])
         /\ End(up[s][k]) = Before(s, k + 1)
<1>1. \A j \in 1 .. Len(up[s]) : up[s][j] \in Units /\ up[s][j] # <<>>
  BY DEF ChunksInv
<1>2. \A j \in 1 .. Len(up[s]) : End(up[s][j]) \in Nat
  <2> TAKE j \in 1 .. Len(up[s])
  <2>1. up[s][j] \in Units /\ up[s][j] # <<>>
    BY <1>1
  <2>2. Len(up[s][j]) \in 1 .. Len(up[s][j])
    BY <2>1 DEF Units
  <2>3. up[s][j][Len(up[s][j])] \in Session \X Nat
    BY <2>1, <2>2 DEF Units
  <2> QED BY <2>3 DEF End
<1>3. k \in Nat \ {0} /\ (k # 1 => k - 1 \in 1 .. Len(up[s]))
  BY DEF ChunksInv
<1>4. Before(s, k) \in Nat
  BY <1>2, <1>3 DEF Before
<1>5. Follows(up[s][k], s, Before(s, k))
  BY DEF ChunksInv
<1>6. End(up[s][k]) = Before(s, k) + Len(up[s][k]) /\ Len(up[s][k]) \in Nat \ {0}
  BY <1>1, <1>4, <1>5, EndIs
<1>7. Before(s, k + 1) = End(up[s][k])
  BY <1>3 DEF Before
<1> QED BY <1>1, <1>4, <1>5, <1>6, <1>7

LEMMA TakeStep ==
  ASSUME RelayInv, HTake
  PROVE  /\ StreamInv' /\ [Tunnel!Next]_Tunnel!vars /\ UNCHANGED <<sent, fed, made>>
         /\ \A s \in Session : s # hs => read'[s] = read[s]
         /\ upAfter' \in Nat /\ upAfter' <= Len(up[hs])
         /\ Len(read'[hs]) = Before(hs, upAfter' + 1)
<1> USE DEF RelayInv
<1>1. hs \in Session /\ hpc = "take" /\ UNCHANGED <<sent, fed, made>>
  BY DEF HTake, SessionInv
<1>2. upAfter <= Len(up[hs]) /\ Len(read[hs]) = Before(hs, upAfter + 1) /\ upAfter \in Nat
  BY <1>1 DEF ReadInv, Connected
<1>3. CASE Head(numbers) # upAfter + 1
  <2>1. UNCHANGED <<read, upAfter>>
    BY <1>3 DEF HTake
  <2> QED BY <1>1, <1>2, <2>1 DEF StreamInv, Tunnel!vars
<1>4. CASE Head(numbers) = upAfter + 1
  <2>1. upAfter' = upAfter + 1 /\ upAfter + 1 \in 1 .. Len(up[hs])
    <3>1. Head(numbers) = numbers[1] /\ 1 \in 1 .. Len(numbers)
      BY <1>1 DEF ReadInv
    <3> QED BY <1>1, <1>4, <3>1 DEF HTake, ReadInv
  <2> DEFINE new  == up[hs][upAfter + 1]
             next == read[hs] \o new
  <2>2. read' = [read EXCEPT ![hs] = next]
    BY <1>4 DEF HTake
  <2>3. /\ new \in Units /\ Len(new) \in Nat \ {0} /\ Follows(new, hs, 0 + Len(read[hs]))
        /\ Before(hs, upAfter + 1 + 1) = Len(read[hs]) + Len(new)
        /\ End(new) = Len(read[hs]) + Len(new) /\ End(new) <= Len(made[hs])
    <3>1. /\ new \in Units /\ Len(new) \in Nat \ {0} /\ Before(hs, upAfter + 1) \in Nat
          /\ Follows(new, hs, Before(hs, upAfter + 1))
          /\ Before(hs, upAfter + 1 + 1) = Before(hs, upAfter + 1) + Len(new)
          /\ End(new) = Before(hs, upAfter + 1 + 1)
      BY <1>1, <2>1, ChunkIs DEF UpInv
    <3>2. End(new) <= Len(made[hs])
      BY <1>1, <2>1 DEF UpInv, ChunksInv
    <3>3. 0 + Len(read[hs]) = Before(hs, upAfter + 1)
      BY <1>2, <3>1
    <3> HIDE DEF new
    <3> QED BY <1>2, <3>1, <3>2, <3>3
  <2> HIDE DEF new
  <2>4. read[hs] \in Units /\ Follows(read[hs], hs, 0) /\ Len(read[hs]) \in Nat
    BY <1>1 DEF StreamInv, Streams, Units
  <2>5. next \in Units /\ Follows(next, hs, 0) /\ Len(next) = Len(read[hs]) + Len(new)
    BY <1>1, <2>3, <2>4, FollowsConcat
  <2> HIDE DEF next
  <2>6. read'[hs] = next /\ \A s \in Session : s # hs => read'[s] = read[s]
    BY <1>1, <2>2 DEF StreamInv, Streams
  <2>7. StreamInv'
    <3>1. read' \in Streams
      BY <1>1, <2>2, <2>5 DEF StreamInv, Streams
    <3>2. ASSUME NEW s \in Session PROVE Follows(read'[s], s, 0) /\ Len(read'[s]) <= Len(made[s])
      <4>1. CASE s = hs
        <5>1. Follows(read'[s], s, 0)
          BY <2>5, <2>6, <4>1
        <5>2. Len(read'[s]) <= Len(made[s])
          BY <2>3, <2>5, <2>6, <4>1
        <5> QED BY <5>1, <5>2
      <4>2. CASE s # hs
        BY <2>6, <4>2 DEF StreamInv
      <4> QED BY <4>1, <4>2
    <3> QED BY <1>1, <3>1, <3>2 DEF StreamInv, Streams, Follows
  <2>8. Tunnel!Next
    <3>1. \E n \in Len(read[hs]) + 1 .. Len(made[hs]) : next = SubSeq(made[hs], 1, n)
      <4>1. made[hs] \in Units /\ Follows(made[hs], hs, 0)
        BY <1>1 DEF StreamInv, Streams
      <4>2. Len(read[hs]) < Len(next) /\ Len(next) <= Len(made[hs])
        BY <2>3, <2>4, <2>5
      <4> QED BY <1>1, <2>4, <2>5, <4>1, <4>2, Advances
    <3>2. Tunnel!Advance(made, read, hs)
      BY <2>2, <3>1 DEF Tunnel!Advance
    <3> QED BY <1>1, <3>2 DEF Tunnel!Next, Tunnel!Read
  <2> QED BY <1>1, <1>2, <2>1, <2>3, <2>5, <2>6, <2>7, <2>8
<1> QED BY <1>3, <1>4

-----------------------------------------------------------------------------
(***************************************************************************)
(* Every other step leaves the streams alone.                              *)
(***************************************************************************)
Grow == \A s \in Session : Len(sent[s]) <= Len(sent'[s]) /\ Len(made[s]) <= Len(made'[s])

Quiet ==
  \/ (\E s \in Session : HOpen(s)) \/ HStatus \/ HFlush \/ HPost \/ HPull \/ HDone \/ HClose
  \/ (\E s \in Session : GPoll(s)) \/ GTake \/ GAccept \/ GRound \/ GDownServed
  \/ GDownClosed \/ GDownLost \/ GDrain \/ GUpAnswered \/ GUpLost \/ GBeat \/ GEnd
  \/ TogglePause \/ (\E s \in Session : HandlerEnds(s)) \/ UNCHANGED vars

LEMMA Steps ==
  [Next]_vars =>
    Quiet \/ HWrite \/ HTake \/ GFeed \/ \E s \in Session : HandlerAnswers(s)
BY DEF Next, Host, Guest, GuestLoop, Quiet

LEMMA QuietStep == Quiet => UNCHANGED streams
<1> SUFFICES ASSUME Quiet PROVE UNCHANGED streams
  OBVIOUS
<1> USE DEF streams
<1>1. CASE (\E s \in Session : HOpen(s)) \/ HStatus \/ HFlush \/ HPost \/ HPull
  BY <1>1 DEF HOpen, HStatus, HFlush, HPost, HPull
<1>2. CASE HDone \/ HClose \/ TogglePause \/ (\E s \in Session : HandlerEnds(s)) \/ UNCHANGED vars
  BY <1>2 DEF HDone, HClose, TogglePause, HandlerEnds, vars
<1>3. CASE (\E s \in Session : GPoll(s)) \/ GTake \/ GAccept \/ GRound \/ GDownServed
  BY <1>3 DEF GPoll, GTake, GAccept, GRound, GDownServed
<1>4. CASE GDownClosed \/ GDownLost \/ GDrain \/ GUpAnswered \/ GUpLost \/ GBeat \/ GEnd
  BY <1>4 DEF GDownClosed, GDownLost, GDrain, GUpAnswered, GUpLost, GBeat, GEnd
<1> QED BY <1>1, <1>2, <1>3, <1>4 DEF Quiet

LEMMA StreamStep ==
  ASSUME RelayInv, [Next]_vars
  PROVE  StreamInv' /\ [Tunnel!Next]_Tunnel!vars /\ Grow
<1>1. \A s \in Session : Len(sent[s]) \in Nat /\ Len(made[s]) \in Nat
  BY DEF RelayInv, StreamInv, Streams, Units
<1>2. CASE Quiet
  <2>1. UNCHANGED <<sent, fed, made, read>>
    BY <1>2, QuietStep DEF streams
  <2> QED BY <1>1, <2>1 DEF RelayInv, StreamInv, Follows, Tunnel!vars, Grow
<1>3. CASE HWrite
  <2>1. /\ StreamInv' /\ Tunnel!Next /\ made' = made
        /\ \A s \in Session : s # hs => sent'[s] = sent[s]
        /\ Len(sent'[hs]) = Len(sent[hs]) + 1
    BY <1>3, WriteStep
  <2> QED BY <1>1, <2>1 DEF Grow
<1>4. CASE HTake
  <2>1. StreamInv' /\ [Tunnel!Next]_Tunnel!vars /\ UNCHANGED <<sent, made>>
    BY <1>4, TakeStep
  <2> QED BY <1>1, <2>1 DEF Grow
<1>5. CASE GFeed
  <2>1. StreamInv' /\ [Tunnel!Next]_Tunnel!vars /\ UNCHANGED <<sent, made>>
    BY <1>5, FeedStep
  <2> QED BY <1>1, <2>1 DEF Grow
<1>6. CASE \E s \in Session : HandlerAnswers(s)
  <2>1. StreamInv' /\ Tunnel!Next /\ sent' = sent /\ \A s \in Session : Len(made[s]) <= Len(made'[s])
    BY <1>6, AnswerStep
  <2> QED BY <1>1, <2>1 DEF Grow
<1> QED BY <1>2, <1>3, <1>4, <1>5, <1>6, Steps

-----------------------------------------------------------------------------
(***************************************************************************)
(* Who has a session.                                                      *)
(***************************************************************************)
LEMMA SessionStep ==
  ASSUME RelayInv, [Next]_vars
  PROVE  SessionInv'
<1> USE DEF RelayInv, SessionInv, HostPC, GuestPC, Serving, GGoto, ServerCloses, ServerOpens,
            hostVars, serverVars, guestVars
<1>1. CASE \E s \in Session : HOpen(s)
  BY <1>1, Numbered DEF HOpen
<1>2. CASE HStatus \/ HWrite \/ HFlush
  BY <1>2 DEF HStatus, HWrite, HFlush
<1>3. CASE HPost \/ HPull \/ HTake
  BY <1>3 DEF HPost, HPull, HTake
<1>4. CASE HDone \/ HClose
  BY <1>4 DEF HDone, HClose
<1>5. CASE (\E s \in Session : GPoll(s)) \/ GTake \/ GAccept
  BY <1>5 DEF GPoll, GTake, GAccept
<1>6. CASE GRound \/ GDownServed \/ GDownClosed \/ GDownLost
  BY <1>6 DEF GRound, GDownServed, GDownClosed, GDownLost
<1>7. CASE GFeed \/ GDrain \/ GUpAnswered
  BY <1>7 DEF GFeed, GDrain, GUpAnswered
<1>8. CASE GUpLost \/ GBeat \/ GEnd
  BY <1>8 DEF GUpLost, GBeat, GEnd
<1>9. CASE TogglePause \/ (\E s \in Session : HandlerAnswers(s) \/ HandlerEnds(s))
  BY <1>9 DEF TogglePause, HandlerAnswers, HandlerEnds
<1>10. CASE UNCHANGED vars
  BY <1>10 DEF vars
<1> QED
  BY <1>1, <1>2, <1>3, <1>4, <1>5, <1>6, <1>7, <1>8, <1>9, <1>10
     DEF Next, Host, Guest, GuestLoop

-----------------------------------------------------------------------------
(***************************************************************************)
(* On the way down.                                                        *)
(***************************************************************************)
\* What is posted, and what is left to post, are records in order.
LEMMA PostedIs ==
  ASSUME RelayInv, hpc = "post"
  PROVE  \E m \in 1 .. Len(batch), n \in Nat :
           LET rest == SubSeq(batch, Len(Posted) + 1, Len(batch)) IN
           /\ Posted \in Seq(Records) /\ Len(Posted) = m /\ InOrder(Posted, hs, n)
           /\ rest \in Seq(Records) /\ Len(rest) = Len(batch) - m /\ InOrder(rest, hs, n + m)
           /\ Posted[1].seq = n + 1 /\ Len(sent[hs]) = n + Len(batch)
           /\ batch[Len(batch)].seq = Len(sent[hs])
<1> DEFINE n == batch[1].seq - 1
           m == IF Len(batch) < PostMax THEN Len(batch) ELSE PostMax
           rest == SubSeq(batch, m + 1, Len(batch))
<1>1. /\ batch \in Seq(Records) /\ batch # <<>> /\ batch[1].seq > 0
      /\ InOrder(batch, hs, n) /\ Len(sent[hs]) = n + Len(batch)
  BY DEF RelayInv, FlushInv
<1>2. Len(batch) \in Nat \ {0} /\ batch[1] \in Records
  BY <1>1
<1>3. n \in Nat
  BY <1>1, <1>2 DEF Records
<1>4. m \in 1 .. Len(batch)
  BY <1>2, RelayAssumption
<1> HIDE DEF n, m
<1>5. Posted = SubSeq(batch, 1, m)
  BY DEF Posted, m
<1>6. Posted \in Seq(Records) /\ Len(Posted) = m /\ \A i \in 1 .. m : Posted[i] = batch[i]
  BY <1>1, <1>4, <1>5
<1>7. /\ rest \in Seq(Records) /\ Len(rest) = Len(batch) - m
      /\ \A i \in 1 .. Len(batch) - m : rest[i] = batch[m + i]
  BY <1>1, <1>4
<1>8. InOrder(Posted, hs, n)
  <2> SUFFICES ASSUME NEW i \in 1 .. Len(Posted) PROVE Posted[i] = RecordOf(hs, n + i)
    BY DEF InOrder
  <2>1. Posted[i] = batch[i] /\ i \in 1 .. Len(batch)
    BY <1>2, <1>4, <1>6
  <2> QED BY <1>1, <2>1 DEF InOrder
<1>9. InOrder(rest, hs, n + m)
  <2> SUFFICES ASSUME NEW i \in 1 .. Len(rest) PROVE rest[i] = RecordOf(hs, n + m + i)
    BY DEF InOrder
  <2>1. rest[i] = batch[m + i] /\ m + i \in 1 .. Len(batch)
    BY <1>2, <1>4, <1>7
  <2>2. batch[m + i] = RecordOf(hs, n + (m + i))
    BY <1>1, <2>1 DEF InOrder
  <2>3. n + (m + i) = n + m + i
    BY <1>2, <1>3, <1>4, <1>7
  <2> QED BY <2>1, <2>2, <2>3
<1>10. Posted[1].seq = n + 1 /\ batch[Len(batch)].seq = n + Len(batch)
  <2>1. 1 \in 1 .. Len(Posted) /\ Len(batch) \in 1 .. Len(batch)
    BY <1>2, <1>4, <1>6
  <2>2. Posted[1] = RecordOf(hs, n + 1) /\ batch[Len(batch)] = RecordOf(hs, n + Len(batch))
    BY <1>1, <1>8, <2>1 DEF InOrder
  <2> QED BY <2>2 DEF RecordOf
<1> QED BY <1>1, <1>3, <1>4, <1>6, <1>7, <1>8, <1>9, <1>10

\* The server goes on in order, also when the client does not hear of it.
LEMMA PostStep ==
  ASSUME RelayInv, HPost
  PROVE  /\ down' \in [Session -> Seq(Records)]
         /\ \A s \in Session : InOrder(down'[s], s, 0) /\ Len(down'[s]) <= Len(sent[s])
         /\ FlushInv'
<1> USE DEF RelayInv
<1>1. hpc = "post" /\ hs \in Session /\ UNCHANGED <<hs, pending, sent>>
  BY DEF HPost, SessionInv, streams
<1> DEFINE rest == SubSeq(batch, Len(Posted) + 1, Len(batch))
<1>2. PICK m \in 1 .. Len(batch), n \in Nat :
           /\ Posted \in Seq(Records) /\ Len(Posted) = m /\ InOrder(Posted, hs, n)
           /\ rest \in Seq(Records) /\ Len(rest) = Len(batch) - m /\ InOrder(rest, hs, n + m)
           /\ Posted[1].seq = n + 1 /\ Len(sent[hs]) = n + Len(batch)
           /\ batch[Len(batch)].seq = Len(sent[hs])
  BY <1>1, PostedIs
<1>3. /\ \/ down' = down
         \/ ServerTakes(hs, Posted) /\ down' = [down EXCEPT ![hs] = @ \o Posted]
      /\ \/ /\ batch' = rest
            /\ downSeq' = IF rest = <<>> THEN batch[Len(batch)].seq + 1 ELSE downSeq
            /\ hpc' = IF rest = <<>> THEN "pull" ELSE "post"
         \/ hpc' = "closing" /\ UNCHANGED <<batch, downSeq>>
  BY DEF HPost
<1> HIDE DEF rest
<1>4. Len(batch) \in Nat /\ batch \in Seq(Records) /\ downSeq \in Nat \ {0} /\ pending \in Units
  BY DEF FlushInv
<1>5. FlushInv'
  <2>1. CASE hpc' = "closing" /\ UNCHANGED <<batch, downSeq>>
    BY <1>1, <1>4, <2>1 DEF FlushInv
  <2>2. CASE batch' = rest /\ rest = <<>> /\ downSeq' = batch[Len(batch)].seq + 1 /\ hpc' = "pull"
    <3>1. Len(sent[hs]) \in Nat
      BY <1>2, <1>4
    <3>2. downSeq' \in Nat \ {0} /\ Len(sent[hs]) = downSeq' - 1
      BY <1>2, <2>2, <3>1
    <3>3. pending = <<>>
      BY <1>1 DEF FlushInv
    <3> QED BY <1>1, <1>2, <1>4, <2>2, <3>2, <3>3 DEF FlushInv
  <2>3. CASE batch' = rest /\ rest # <<>> /\ downSeq' = downSeq /\ hpc' = "post"
    <3>1. Len(rest) \in Nat \ {0}
      BY <1>2, <2>3
    <3>2. rest[1].seq = n + m + 1
      <4>1. 1 \in 1 .. Len(rest)
        BY <3>1
      <4>2. rest[1] = RecordOf(hs, n + m + 1)
        BY <1>2, <4>1 DEF InOrder
      <4> QED BY <4>2 DEF RecordOf
    <3>3. n + m \in Nat /\ rest[1].seq - 1 = n + m /\ rest[1].seq > 0
      BY <1>2, <1>4, <3>2
    <3>4. Len(sent[hs]) = rest[1].seq - 1 + Len(rest)
      BY <1>2, <1>4, <3>3
    <3>5. InOrder(rest, hs, rest[1].seq - 1)
      BY <1>2, <3>3
    <3>6. pending = <<>>
      BY <1>1 DEF FlushInv
    <3>7. InOrder(batch, hs, batch[1].seq - 1)'
      BY <1>1, <2>3, <3>5 DEF InOrder
    <3> QED BY <1>1, <1>2, <1>4, <2>3, <3>1, <3>3, <3>4, <3>6, <3>7 DEF FlushInv
  <2> QED BY <1>3, <2>1, <2>2, <2>3
<1>6. CASE down' = down
  BY <1>5, <1>6 DEF DownInv
<1>7. CASE ServerTakes(hs, Posted) /\ down' = [down EXCEPT ![hs] = @ \o Posted]
  <2> DEFINE next == down[hs] \o Posted
  <2>0. Posted \in Seq(Records) /\ Len(Posted) = m /\ m \in Nat
    BY <1>2, <1>4
  <2>1. down[hs] \in Seq(Records) /\ InOrder(down[hs], hs, 0) /\ Len(down[hs]) = n
    BY <1>1, <1>2, <1>7 DEF ServerTakes, DownInv
  <2>2. next \in Seq(Records) /\ Len(next) = n + m
    BY <2>0, <2>1
  <2>3. ASSUME NEW i \in 1 .. Len(next) PROVE next[i] = RecordOf(hs, 0 + i)
    <3>1. CASE i <= n
      <4>1. next[i] = down[hs][i] /\ i \in 1 .. Len(down[hs])
        BY <2>0, <2>1, <2>2, <3>1
      <4> QED BY <2>1, <4>1 DEF InOrder
    <3>2. CASE i > n
      <4>1. next[i] = Posted[i - n] /\ i - n \in 1 .. Len(Posted)
        BY <2>0, <2>1, <2>2, <3>2
      <4>2. Posted[i - n] = RecordOf(hs, n + (i - n))
        BY <1>2, <4>1 DEF InOrder
      <4>3. n + (i - n) = 0 + i
        BY <1>2, <2>0, <2>2
      <4> QED BY <4>1, <4>2, <4>3
    <3> QED BY <2>0, <2>2, <3>1, <3>2
  <2>4. InOrder(next, hs, 0)
    BY <2>3 DEF InOrder
  <2>5. Len(next) <= Len(sent[hs])
    BY <1>2, <1>4, <2>2
  <2> HIDE DEF next
  <2>6. down' = [down EXCEPT ![hs] = next]
    BY <1>7 DEF next
  <2> QED BY <1>1, <1>5, <2>2, <2>4, <2>5, <2>6 DEF DownInv
<1> QED BY <1>3, <1>6, <1>7

LEMMA GuestKeeps ==
  Guest \/ TogglePause \/ (\E s \in Session : HandlerAnswers(s) \/ HandlerEnds(s)) \/ UNCHANGED vars
    => UNCHANGED <<hpc, hs, pending, batch, downSeq, upAfter, numbers, down, sent, read>>
<1> USE DEF hostVars, serverVars, streams
<1>1. CASE TogglePause \/ (\E s \in Session : HandlerAnswers(s) \/ HandlerEnds(s)) \/ UNCHANGED vars
  BY <1>1 DEF TogglePause, HandlerAnswers, HandlerEnds, vars
<1>2. CASE (\E s \in Session : GPoll(s)) \/ GTake \/ GAccept
  BY <1>2 DEF GPoll, GTake, GAccept
<1>3. CASE GRound \/ GDownServed \/ GDownClosed \/ GDownLost \/ GFeed
  BY <1>3 DEF GRound, GDownServed, GDownClosed, GDownLost, GFeed
<1>4. CASE GDrain \/ GUpAnswered \/ GUpLost \/ GBeat \/ GEnd
  BY <1>4 DEF GDrain, GUpAnswered, GUpLost, GBeat, GEnd
<1> QED BY <1>1, <1>2, <1>3, <1>4 DEF Guest, GuestLoop

LEMMA HostKeeps ==
  Host \/ TogglePause \/ (\E s \in Session : HandlerAnswers(s) \/ HandlerEnds(s)) \/ UNCHANGED vars
    => UNCHANGED <<gpc, gs, expected, upSeq, reply, drained, chunk, up, fed>>
<1> USE DEF guestVars, serverVars, streams
<1>1. CASE TogglePause \/ (\E s \in Session : HandlerAnswers(s) \/ HandlerEnds(s)) \/ UNCHANGED vars
  BY <1>1 DEF TogglePause, HandlerAnswers, HandlerEnds, vars
<1>2. CASE (\E s \in Session : HOpen(s)) \/ HStatus \/ HWrite \/ HFlush
  BY <1>2 DEF HOpen, HStatus, HWrite, HFlush
<1>3. CASE HPost \/ HPull \/ HTake
  BY <1>3 DEF HPost, HPull, HTake
<1>4. CASE HDone \/ HClose
  BY <1>4 DEF HDone, HClose
<1> QED BY <1>1, <1>2, <1>3, <1>4 DEF Host

\* A session that was not taken yet has not been taken before.
LEMMA StateMoves ==
  ASSUME RelayInv, [Next]_vars, NEW s \in Session
  PROVE  /\ state'[s] = "none" => state[s] = "none"
         /\ state'[s] \in {"none", "pending"} => state[s] \in {"none", "pending"}
<1> USE DEF RelayInv, SessionInv, ServerCloses, ServerOpens, serverVars
<1>1. CASE \E t \in Session : HOpen(t)
  BY <1>1 DEF HOpen
<1>2. CASE HStatus \/ HWrite \/ HFlush \/ HPost \/ HPull \/ HTake \/ HDone
  BY <1>2 DEF HStatus, HWrite, HFlush, HPost, HPull, HTake, HDone
<1>3. CASE HClose
  BY <1>3 DEF HClose
<1>4. CASE GTake \/ GEnd
  BY <1>4 DEF GTake, GEnd
<1>5. CASE GAccept
  BY <1>5 DEF GAccept
<1>6. CASE (\E t \in Session : GPoll(t)) \/ GRound \/ GDownServed \/ GDownClosed \/ GDownLost \/ GFeed
  BY <1>6 DEF GPoll, GRound, GDownServed, GDownClosed, GDownLost, GFeed
<1>7. CASE GDrain \/ GUpAnswered \/ GUpLost \/ GBeat
  BY <1>7 DEF GDrain, GUpAnswered, GUpLost, GBeat
<1>8. CASE TogglePause \/ (\E t \in Session : HandlerAnswers(t) \/ HandlerEnds(t)) \/ UNCHANGED vars
  BY <1>8 DEF TogglePause, HandlerAnswers, HandlerEnds, vars
<1> QED BY <1>1, <1>2, <1>3, <1>4, <1>5, <1>6, <1>7, <1>8 DEF Next, Host, Guest, GuestLoop


LEMMA FlushStep ==
  ASSUME RelayInv, [Next]_vars
  PROVE  FlushInv'
<1> USE DEF RelayInv
<1>0. /\ pending \in Units /\ batch \in Seq(Records) /\ downSeq \in Nat \ {0}
      /\ hpc # "closed" => hs \in Session
  BY DEF FlushInv, SessionInv
<1>1. ASSUME NEW s \in Session, HOpen(s) PROVE FlushInv'
  <2>1. sent[s] = <<>> /\ sent' = sent /\ hpc = "closed"
    BY <1>1 DEF HOpen, DownInv, streams
  <2>2. pending' = <<>> /\ batch' = <<>> /\ downSeq' = 1
    BY <1>1 DEF HOpen
  <2>3. hpc' = "closed" \/ (hpc' = "opening" /\ hs' = s)
    BY <1>1, <2>1 DEF HOpen
  <2>4. pending' \in Units /\ batch' \in Seq(Records)
    BY <2>2 DEF Units
  <2> QED BY <2>1, <2>2, <2>3, <2>4 DEF FlushInv, Follows
<1>2. CASE HStatus
  <2>1. hpc = "opening" /\ hpc' \in {"open", "closing", "closed"}
        /\ UNCHANGED <<hs, pending, batch, downSeq, sent>>
    BY <1>2 DEF HStatus, streams
  <2> QED BY <2>1 DEF FlushInv, Follows
<1>3. CASE HWrite
  <2>1. hpc = "open" /\ hs \in Session /\ UNCHANGED <<hpc, hs, batch, downSeq>>
    BY <1>0, <1>3 DEF HWrite
  <2>2. Follows(pending, hs, downSeq - 1) /\ Len(sent[hs]) = downSeq - 1 + Len(pending)
    BY <2>1 DEF FlushInv
  <2>3. pending' = Append(pending, <<hs, downSeq - 1 + Len(pending) + 1>>)
    BY <1>3, <2>2 DEF HWrite
  <2>4. /\ pending' \in Units /\ Follows(pending', hs, downSeq - 1)
        /\ Len(pending') = Len(pending) + 1
    <3>1. downSeq - 1 \in Nat
      BY <1>0
    <3> QED BY <1>0, <2>1, <2>2, <2>3, <3>1, FollowsAppend
  <2>5. Len(sent'[hs]) = Len(sent[hs]) + 1
    BY <1>3, WriteStep
  <2>6. Len(sent'[hs]) = downSeq - 1 + Len(pending')
    <3>1. Len(pending) \in Nat
      BY <1>0 DEF Units
    <3> QED BY <1>0, <2>2, <2>4, <2>5, <3>1
  <2>7. Follows(pending, hs, downSeq - 1)'
    BY <2>1, <2>4 DEF Follows
  <2> QED BY <1>0, <2>1, <2>4, <2>6, <2>7 DEF FlushInv
<1>4. CASE HFlush
  <2>1. hpc = "open" /\ hs \in Session /\ UNCHANGED <<hs, downSeq, sent>> /\ pending' = <<>>
    BY <1>0, <1>4 DEF HFlush, streams
  <2>2. Follows(pending, hs, downSeq - 1) /\ Len(sent[hs]) = downSeq - 1 + Len(pending)
    BY <2>1 DEF FlushInv
  <2>3. Len(pending) \in Nat /\ downSeq - 1 \in Nat
    BY <1>0 DEF Units
  <2> DEFINE signed == [i \in 1 .. Len(pending) |->
                          [session |-> hs, seq |-> downSeq + i - 1, data |-> pending[i]]]
  <2>4. ASSUME NEW i \in 1 .. Len(pending)
        PROVE  signed[i] = RecordOf(hs, downSeq - 1 + i) /\ signed[i] \in Records
    <3>1. downSeq + i - 1 = downSeq - 1 + i /\ downSeq - 1 + i \in Nat
      BY <1>0, <2>3
    <3>2. pending[i] = <<hs, downSeq - 1 + i>>
      BY <2>2 DEF Follows
    <3>3. signed[i] = [session |-> hs, seq |-> downSeq - 1 + i, data |-> <<hs, downSeq - 1 + i>>]
      BY <3>1, <3>2
    <3> QED BY <2>1, <3>1, <3>3 DEF RecordOf, Records
  <2>5. signed \in Seq(Records) /\ Len(signed) = Len(pending)
    <3>1. signed \in [1 .. Len(pending) -> Records]
      BY <2>4
    <3> QED BY <2>3, <3>1
  <2>6. InOrder(signed, hs, downSeq - 1)
    BY <2>4, <2>5 DEF InOrder
  <2>7. batch' = signed /\ hpc' = IF pending = <<>> THEN "pull" ELSE "post"
    BY <1>4 DEF HFlush
  <2> HIDE DEF signed
  <2>8. pending' \in Units
    BY <2>1 DEF Units
  <2>9. CASE pending = <<>>
    BY <1>0, <2>1, <2>2, <2>3, <2>5, <2>7, <2>8, <2>9 DEF FlushInv
  <2>10. CASE pending # <<>>
    <3>1. signed # <<>> /\ 1 \in 1 .. Len(signed)
      BY <1>0, <2>3, <2>5, <2>10 DEF Units
    <3>2. signed[1] = RecordOf(hs, downSeq - 1 + 1)
      BY <2>6, <3>1 DEF InOrder
    <3>3. signed[1].seq > 0 /\ signed[1].seq - 1 = downSeq - 1
      BY <1>0, <3>2 DEF RecordOf
    <3>4. InOrder(batch, hs, batch[1].seq - 1)'
      BY <2>1, <2>6, <2>7, <3>3 DEF InOrder
    <3> QED BY <1>0, <2>1, <2>2, <2>5, <2>7, <2>8, <2>10, <3>1, <3>3, <3>4 DEF FlushInv
  <2> QED BY <2>9, <2>10
<1>5. CASE HPost
  BY <1>5, PostStep
<1>6. CASE HPull
  <2>1. hpc = "pull" /\ hpc' \in {"take", "pull", "closed", "closing"}
        /\ UNCHANGED <<hs, pending, batch, downSeq, sent>>
    BY <1>6 DEF HPull, streams
  <2> QED BY <2>1 DEF FlushInv
<1>7. CASE HTake
  <2>1. hpc = "take" /\ hpc' \in {"open", "take", "closing"}
        /\ UNCHANGED <<hs, pending, batch, downSeq, sent>>
    BY <1>7 DEF HTake
  <2> QED BY <1>0, <2>1 DEF FlushInv, Follows
<1>8. CASE HDone \/ HClose
  <2>1. hpc' \in {"closing", "closed"} /\ UNCHANGED <<pending, batch, downSeq>>
    BY <1>8 DEF HDone, HClose
  <2> QED BY <1>0, <2>1 DEF FlushInv
<1>9. CASE UNCHANGED <<hpc, hs, pending, batch, downSeq, sent>>
  BY <1>9 DEF FlushInv, Follows, InOrder
<1>10. CASE Guest \/ TogglePause \/ (\E s \in Session : HandlerAnswers(s) \/ HandlerEnds(s))
            \/ UNCHANGED vars
  BY <1>9, <1>10, GuestKeeps
<1> QED BY <1>1, <1>2, <1>3, <1>4, <1>5, <1>6, <1>7, <1>8, <1>10 DEF Next, Host


\* Whatever the path makes of the records, each is one that was signed.
LEMMA RepliesSigned ==
  ASSUME RelayInv, NEW s \in Session, NEW n \in Nat, NEW records \in DownReplies(s, n)
  PROVE  records \in Seq(Records) /\ \A i \in 1 .. Len(records) : Signed(records[i])
<1>1. ASSUME NEW t \in Session, NEW i \in 1 .. Len(down[t])
      PROVE  down[t][i] \in Records /\ Signed(down[t][i])
  <2>1. down[t] \in Seq(Records) /\ down[t][i] = RecordOf(t, 0 + i) /\ Len(down[t]) <= Len(sent[t])
    BY DEF RelayInv, DownInv, InOrder
  <2>2. Len(sent[t]) \in Nat
    BY DEF RelayInv, StreamInv, Streams, Units
  <2>3. i \in 1 .. Len(sent[t]) /\ 0 + i = i
    BY <2>1, <2>2
  <2> QED BY <2>1, <2>3 DEF Signed, RecordOf
<1>2. CASE records \in HonestDown(s, n)
  <2>1. CASE records = <<>>
    BY <2>1
  <2>2. CASE records # <<>>
    <3>1. PICK m \in n + 1 .. Len(down[s]) : records = SubSeq(down[s], n + 1, m)
      BY <1>2, <2>2 DEF HonestDown
    <3>2. down[s] \in Seq(Records)
      BY DEF RelayInv, DownInv
    <3>3. records \in Seq(Records) /\ \A i \in 1 .. Len(records) :
            records[i] = down[s][n + i] /\ n + i \in 1 .. Len(down[s])
      BY <3>1, <3>2
    <3> QED BY <1>1, <3>3
  <2> QED BY <2>1, <2>2
<1>3. CASE records \in FaultyDown
  <2>1. \A r \in Seen : r \in Records /\ Signed(r)
    <3> TAKE r \in Seen
    <3>1. PICK t \in Session : r \in Range(down[t])
      BY DEF Seen
    <3>2. down[t] \in Seq(Records)
      BY DEF RelayInv, DownInv
    <3>3. PICK i \in 1 .. Len(down[t]) : r = down[t][i]
      BY <3>1, <3>2 DEF Range
    <3> QED BY <1>1, <3>3
  <2>2. CASE \E r \in Seen : records = <<r>>
    <3>1. PICK r \in Seen : records = <<r>>
      BY <2>2
    <3> QED BY <2>1, <3>1
  <2>3. CASE \E r \in Seen, q \in Seen : records = <<r, q>>
    <3>1. PICK r \in Seen, q \in Seen : records = <<r, q>>
      BY <2>3
    <3>2. Len(records) = 2 /\ records[1] = r /\ records[2] = q
      BY <3>1
    <3>3. records \in Seq(Records)
      BY <2>1, <3>1
    <3> QED BY <2>1, <3>2, <3>3
  <2> QED BY <1>3, <2>2, <2>3 DEF FaultyDown
<1> QED BY <1>2, <1>3 DEF DownReplies

\* What was signed stays so.
LEMMA SignedStays ==
  ASSUME RelayInv, Grow, StreamInv', NEW r \in Records, Signed(r)
  PROVE  Signed(r)'
<1>1. r.session \in Session /\ r.seq \in 1 .. Len(sent[r.session])
  BY DEF Records, Signed
<1>2. Len(sent[r.session]) \in Nat /\ Len(sent'[r.session]) \in Nat
  <2>1. sent[r.session] \in Units /\ sent'[r.session] \in Units
    BY <1>1 DEF RelayInv, StreamInv, Streams
  <2> QED BY <2>1 DEF Units
<1>3. r.seq \in 1 .. Len(sent'[r.session])
  BY <1>1, <1>2 DEF Grow
<1> QED BY <1>3 DEF Signed

LEMMA ReplyStep ==
  ASSUME RelayInv, [Next]_vars
  PROVE  ReplySigned'
<1>0. \A r \in Records : Signed(r) => Signed(r)'
  <2>1. Grow /\ StreamInv'
    BY StreamStep
  <2> QED BY <2>1, SignedStays
<1>1. CASE reply' = reply
  <2>1. reply \in Seq(Records) /\ \A i \in 1 .. Len(reply) : Signed(reply[i])
    BY DEF RelayInv, DownInv, ReplySigned
  <2>2. \A i \in 1 .. Len(reply) : reply[i] \in Records
    BY <2>1
  <2> QED BY <1>0, <1>1, <2>1, <2>2 DEF ReplySigned
<1>2. CASE GDownServed
  <2>1. gs \in Session /\ expected - 1 \in Nat
    <3>1. gs \in Session /\ expected = Len(fed[gs]) + 1
      BY <1>2 DEF GDownServed, RelayInv, SessionInv, DownInv, Serving
    <3>2. Len(fed[gs]) \in Nat
      BY <3>1 DEF RelayInv, StreamInv, Streams, Units
    <3> QED BY <3>1, <3>2
  <2>2. reply' \in DownReplies(gs, expected - 1)
    BY <1>2 DEF GDownServed
  <2>3. reply' \in Seq(Records) /\ \A i \in 1 .. Len(reply') : Signed(reply'[i])
    BY <2>1, <2>2, RepliesSigned
  <2>4. \A i \in 1 .. Len(reply') : reply'[i] \in Records
    BY <2>3
  <2> QED BY <1>0, <2>3, <2>4 DEF ReplySigned
<1>3. CASE GFeed
  <2>1. reply' = <<>>
    BY <1>3 DEF GFeed
  <2> QED BY <2>1 DEF ReplySigned
<1>4. CASE ~GDownServed /\ ~GFeed
  <2>1. CASE Host \/ TogglePause \/ (\E s \in Session : HandlerAnswers(s) \/ HandlerEnds(s))
             \/ UNCHANGED vars
    BY <1>1, <2>1, HostKeeps
  <2>2. CASE (\E s \in Session : GPoll(s)) \/ GTake \/ GAccept \/ GRound \/ GDownClosed \/ GDownLost
    BY <1>1, <2>2 DEF GPoll, GTake, GAccept, GRound, GDownClosed, GDownLost
  <2>3. CASE GDrain \/ GUpAnswered \/ GUpLost \/ GBeat \/ GEnd
    BY <1>1, <2>3 DEF GDrain, GUpAnswered, GUpLost, GBeat, GEnd
  <2> QED BY <1>4, <2>1, <2>2, <2>3 DEF Next, Guest, GuestLoop
<1> QED BY <1>2, <1>3, <1>4


\* What the handlers are to be given next is the number the loop expects.
LEMMA ExpectedStep ==
  ASSUME RelayInv, [Next]_vars
  PROVE  (gpc \in Serving => expected = Len(fed[gs]) + 1)'
<1> USE DEF RelayInv, SessionInv, DownInv, Serving, GGoto
<1>1. CASE GAccept
  <2>1. gs \in Session /\ UNCHANGED <<gs, fed>> /\ expected' = 1
    BY <1>1 DEF GAccept, streams
  <2>2. gpc' # "idle" => fed[gs] = <<>>
    BY <1>1, <2>1 DEF GAccept
  <2> QED BY <2>1, <2>2
<1>2. CASE GFeed
  <2>1. expected' = Len(fed'[gs]) + 1 /\ gs' = gs
    BY <1>2, FeedStep DEF GFeed
  <2> QED BY <2>1
<1>3. CASE (\E s \in Session : GPoll(s)) \/ GTake \/ GRound \/ GDownServed \/ GDownClosed \/ GDownLost
  BY <1>3 DEF GPoll, GTake, GRound, GDownServed, GDownClosed, GDownLost, streams
<1>4. CASE GDrain \/ GUpAnswered \/ GUpLost \/ GBeat \/ GEnd
  BY <1>4 DEF GDrain, GUpAnswered, GUpLost, GBeat, GEnd, streams
<1>5. CASE Host \/ TogglePause \/ (\E s \in Session : HandlerAnswers(s) \/ HandlerEnds(s))
             \/ UNCHANGED vars
  BY <1>5, HostKeeps
<1> QED BY <1>1, <1>2, <1>3, <1>4, <1>5 DEF Next, Guest, GuestLoop

\* Only a session that was taken is written to, and only one the agent is in is fed.
LEMMA NothingEarly ==
  ASSUME RelayInv, [Next]_vars
  PROVE  /\ \A s \in Session : state'[s] \in {"none", "pending"} => fed'[s] = <<>>
         /\ \A s \in Session : state'[s] = "none" => sent'[s] = <<>>
<1> SUFFICES ASSUME NEW s \in Session
             PROVE  /\ state'[s] \in {"none", "pending"} => fed'[s] = <<>>
                    /\ state'[s] = "none" => sent'[s] = <<>>
  OBVIOUS
<1> USE DEF RelayInv, DownInv
<1>1. /\ state'[s] = "none" => state[s] = "none"
      /\ state'[s] \in {"none", "pending"} => state[s] \in {"none", "pending"}
  BY StateMoves
<1>2. CASE UNCHANGED <<sent, fed>>
  BY <1>1, <1>2
<1>3. CASE HWrite
  <2>1. hs \in Session /\ state[hs] # "none"
    BY <1>3 DEF HWrite, SessionInv
  <2>2. fed' = fed /\ (s # hs => sent'[s] = sent[s])
    BY <1>3, WriteStep
  <2> QED BY <1>1, <2>1, <2>2
<1>4. CASE GFeed
  <2>1. gs \in Session /\ state[gs] \notin {"none", "pending"}
    BY <1>4 DEF GFeed, SessionInv, Serving
  <2>2. sent' = sent /\ (s # gs => fed'[s] = fed[s])
    BY <1>4, FeedStep
  <2> QED BY <1>1, <2>1, <2>2
<1>5. CASE HTake
  BY <1>2, <1>5, TakeStep
<1>6. CASE \E t \in Session : HandlerAnswers(t)
  BY <1>2, <1>6, AnswerStep
<1>7. CASE Quiet
  BY <1>2, <1>7, QuietStep DEF streams
<1> QED BY <1>3, <1>4, <1>5, <1>6, <1>7, Steps

LEMMA DownStep ==
  ASSUME RelayInv, [Next]_vars
  PROVE  DownInv'
<1>1. /\ down' \in [Session -> Seq(Records)]
      /\ \A s \in Session : InOrder(down'[s], s, 0) /\ Len(down'[s]) <= Len(sent'[s])
  <2>1. CASE HPost
    <3>1. sent' = sent
      BY <2>1 DEF HPost, streams
    <3> QED BY <2>1, <3>1, PostStep
  <2>2. CASE down' = down
    <3> SUFFICES ASSUME NEW s \in Session PROVE Len(down[s]) <= Len(sent'[s])
      BY <2>2 DEF RelayInv, DownInv
    <3>1. Len(down[s]) \in Nat /\ Len(down[s]) <= Len(sent[s])
      BY DEF RelayInv, DownInv
    <3>2. Len(sent[s]) <= Len(sent'[s])
      BY StreamStep DEF Grow
    <3>3. sent[s] \in Units /\ sent'[s] \in Units
      BY StreamStep DEF RelayInv, StreamInv, Streams
    <3>4. Len(sent[s]) \in Nat /\ Len(sent'[s]) \in Nat
      BY <3>3 DEF Units
    <3> QED BY <3>1, <3>2, <3>4
  <2>3. CASE Guest \/ TogglePause \/ (\E s \in Session : HandlerAnswers(s) \/ HandlerEnds(s))
             \/ UNCHANGED vars
    BY <2>2, <2>3, GuestKeeps
  <2>4. CASE Host /\ ~HPost
    <3>1. down' = down
      BY <2>4 DEF Host, HOpen, HStatus, HWrite, HFlush, HPull, HTake, HDone, HClose, serverVars
    <3> QED BY <2>2, <3>1
  <2> QED BY <2>1, <2>3, <2>4 DEF Next
<1>2. ReplySigned'
  BY ReplyStep
<1>3. (gpc \in Serving => expected = Len(fed[gs]) + 1)'
  BY ExpectedStep
<1>4. /\ \A s \in Session : state'[s] \in {"none", "pending"} => fed'[s] = <<>>
      /\ \A s \in Session : state'[s] = "none" => sent'[s] = <<>>
  BY NothingEarly
<1>5. \A s \in Session : InOrder(down[s], s, 0)'
  BY <1>1 DEF InOrder
<1> QED BY <1>1, <1>2, <1>3, <1>4, <1>5 DEF DownInv


-----------------------------------------------------------------------------
(***************************************************************************)
(* On the way up.                                                          *)
(***************************************************************************)
\* The chunks end where the last one ends, within what the handlers have written.
LEMMA InChunksIs ==
  ASSUME RelayInv, NEW s \in Session
  PROVE  /\ up[s] \in Seq(Units) /\ Len(up[s]) \in Nat
         /\ InChunks(s) \in Nat /\ InChunks(s) <= Len(made[s])
         /\ up[s] = <<>> => InChunks(s) = 0
<1>1. up[s] \in Seq(Units) /\ Len(up[s]) \in Nat
  BY DEF RelayInv, UpInv, ChunksInv
<1>2. CASE Len(up[s]) = 0
  <2>1. InChunks(s) = 0
    BY <1>2 DEF InChunks, Before
  <2>2. Len(made[s]) \in Nat
    BY DEF RelayInv, StreamInv, Streams, Units
  <2> QED BY <1>1, <2>1, <2>2
<1>3. CASE Len(up[s]) # 0
  <2> DEFINE k == Len(up[s])
  <2>1. k \in 1 .. Len(up[s])
    BY <1>1, <1>3
  <2>2. End(up[s][k]) = Before(s, k + 1) /\ Before(s, k) \in Nat /\ Len(up[s][k]) \in Nat
        /\ Before(s, k + 1) = Before(s, k) + Len(up[s][k])
    BY <2>1, ChunkIs DEF RelayInv, UpInv
  <2>3. End(up[s][k]) <= Len(made[s])
    BY <2>1 DEF RelayInv, UpInv, ChunksInv
  <2>4. InChunks(s) = Before(s, k + 1)
    BY DEF InChunks
  <2>5. up[s] # <<>>
    BY <1>3
  <2> HIDE DEF k
  <2> QED BY <1>1, <2>2, <2>3, <2>4, <2>5
<1> QED BY <1>2, <1>3

\* What a POST of a chunk does at the server, heard of or not.
LEMMA KeepStep ==
  ASSUME RelayInv, gpc = "post", ServerKeeps \/ UNCHANGED up
  PROVE  /\ gs \in Session /\ up' \in [Session -> Seq(Units)]
         /\ \A s \in Session : s # gs => up'[s] = up[s]
         /\ \/ up' = up
            \/ /\ upSeq = Len(up[gs]) + 1 /\ Follows(chunk, gs, InChunks(gs))
               /\ up'[gs] = Append(up[gs], chunk)
<1>1. gs \in Session /\ up \in [Session -> Seq(Units)] /\ chunk \in Units
  BY DEF RelayInv, SessionInv, UpInv, ChunksInv, LoopInv
<1>2. CASE up' = up
  BY <1>1, <1>2
<1>3. CASE up' # up
  <2>1. upSeq = Len(up[gs]) + 1 /\ up' = [up EXCEPT ![gs] = Append(up[gs], chunk)]
    BY <1>1, <1>3 DEF ServerKeeps
  <2>2. Len(up[gs]) \in Nat
    BY <1>1
  <2>3. Follows(chunk, gs, InChunks(gs))
    BY <2>1, <2>2 DEF RelayInv, UpInv, LoopInv
  <2>4. Append(up[gs], chunk) \in Seq(Units)
    BY <1>1
  <2> QED BY <1>1, <2>1, <2>3, <2>4
<1> QED BY <1>2, <1>3

LEMMA UpChanges ==
  ASSUME [Next]_vars
  PROVE  up' = up \/ GUpAnswered \/ GUpLost
<1>1. CASE Host \/ TogglePause \/ (\E s \in Session : HandlerAnswers(s) \/ HandlerEnds(s))
             \/ UNCHANGED vars
  BY <1>1, HostKeeps
<1>2. CASE (\E s \in Session : GPoll(s)) \/ GTake \/ GAccept \/ GRound \/ GDownServed
  BY <1>2 DEF GPoll, GTake, GAccept, GRound, GDownServed, serverVars
<1>3. CASE GDownClosed \/ GDownLost \/ GFeed \/ GDrain \/ GBeat \/ GEnd
  BY <1>3 DEF GDownClosed, GDownLost, GFeed, GDrain, GBeat, GEnd, serverVars
<1> QED BY <1>1, <1>2, <1>3 DEF Next, Guest, GuestLoop

\* The server only ever adds a chunk, and the chunks before it stay where they were.
LEMMA UpGoesOn ==
  ASSUME RelayInv, [Next]_vars, NEW s \in Session
  PROVE  /\ up' \in [Session -> Seq(Units)] /\ Len(up[s]) <= Len(up'[s])
         /\ \A k \in 1 .. Len(up[s]) : up'[s][k] = up[s][k]
         /\ \A k \in 1 .. Len(up[s]) + 1 : Before(s, k)' = Before(s, k)
         /\ \/ up'[s] = up[s]
            \/ /\ s = gs /\ gpc = "post" /\ upSeq = Len(up[s]) + 1
               /\ Follows(chunk, s, InChunks(s)) /\ up'[s] = Append(up[s], chunk)
<1>1. up \in [Session -> Seq(Units)] /\ Len(up[s]) \in Nat
  BY DEF RelayInv, UpInv, ChunksInv
<1>2. CASE up' = up
  BY <1>1, <1>2 DEF Before
<1>3. CASE GUpAnswered \/ GUpLost
  <2>1. gpc = "post" /\ (ServerKeeps \/ UNCHANGED up)
    BY <1>3 DEF GUpAnswered, GUpLost
  <2>2. /\ up' \in [Session -> Seq(Units)]
        /\ \/ up'[s] = up[s]
           \/ /\ s = gs /\ upSeq = Len(up[s]) + 1
              /\ Follows(chunk, s, InChunks(s)) /\ up'[s] = Append(up[s], chunk)
    BY <2>1, KeepStep
  <2>3. CASE up'[s] = up[s]
    BY <1>1, <2>2, <2>3 DEF Before
  <2>4. CASE up'[s] # up[s]
    <3>1. up'[s] = Append(up[s], chunk) /\ chunk \in Units
      BY <2>2, <2>4 DEF RelayInv, UpInv, LoopInv
    <3>2. Len(up[s]) <= Len(up'[s]) /\ \A k \in 1 .. Len(up[s]) : up'[s][k] = up[s][k]
      BY <1>1, <3>1
    <3>3. ASSUME NEW k \in 1 .. Len(up[s]) + 1 PROVE Before(s, k)' = Before(s, k)
      <4>1. k = 1 \/ k - 1 \in 1 .. Len(up[s])
        BY <1>1
      <4> QED BY <3>2, <4>1 DEF Before
    <3> QED BY <2>1, <2>2, <2>4, <3>2, <3>3
  <2> QED BY <2>3, <2>4
<1> QED BY <1>2, <1>3, UpChanges

LEMMA ChunksStep ==
  ASSUME RelayInv, [Next]_vars
  PROVE  ChunksInv'
<1>1. up' \in [Session -> Seq(Units)]
  <2>1. CASE Session = {}
    BY <2>1, RelayAssumption
  <2>2. CASE Session # {}
    BY <2>2, UpGoesOn
  <2> QED BY <2>1, <2>2
<1>2. ASSUME NEW s \in Session, NEW k \in 1 .. Len(up'[s])
      PROVE  /\ up'[s][k] # <<>> /\ Follows(up'[s][k], s, Before(s, k)')
             /\ End(up'[s][k]) <= Len(made'[s])
  <2>1. up[s] \in Seq(Units) /\ Len(up[s]) \in Nat
    BY InChunksIs
  <2>2. Len(made[s]) <= Len(made'[s]) /\ Len(made[s]) \in Nat /\ Len(made'[s]) \in Nat
    <3>1. made[s] \in Units /\ made'[s] \in Units /\ Len(made[s]) <= Len(made'[s])
      BY StreamStep DEF RelayInv, StreamInv, Streams, Grow
    <3> QED BY <3>1 DEF Units
  <2>3. CASE k \in 1 .. Len(up[s])
    <3>1. up'[s][k] = up[s][k] /\ Before(s, k)' = Before(s, k)
      BY <2>1, <2>3, UpGoesOn
    <3>2. /\ up[s][k] # <<>> /\ Follows(up[s][k], s, Before(s, k))
          /\ End(up[s][k]) <= Len(made[s])
      BY <2>3 DEF RelayInv, UpInv, ChunksInv
    <3>3. End(up[s][k]) \in Nat
      <4>1. End(up[s][k]) = Before(s, k + 1) /\ Before(s, k) \in Nat /\ Len(up[s][k]) \in Nat
            /\ Before(s, k + 1) = Before(s, k) + Len(up[s][k])
        BY <2>3, ChunkIs DEF RelayInv, UpInv
      <4> QED BY <4>1
    <3> QED BY <2>2, <3>1, <3>2, <3>3
  <2>4. CASE k \notin 1 .. Len(up[s])
    <3>1. up'[s] # up[s]
      BY <2>4
    <3>2. /\ s = gs /\ gpc = "post" /\ Follows(chunk, s, InChunks(s))
          /\ up'[s] = Append(up[s], chunk)
      BY <3>1, UpGoesOn
    <3>3. chunk \in Units /\ chunk # <<>> /\ End(chunk) = drained /\ drained <= Len(made[s])
          /\ drained \in Nat
      BY <3>2 DEF RelayInv, UpInv, LoopInv
    <3>4. k = Len(up[s]) + 1 /\ up'[s][k] = chunk
      BY <2>1, <2>4, <3>2, <3>3
    <3>5. Before(s, k)' = InChunks(s)
      BY <2>1, <3>4, UpGoesOn DEF InChunks
    <3> QED BY <2>2, <3>2, <3>3, <3>4, <3>5
  <2> QED BY <2>3, <2>4
<1> QED BY <1>1, <1>2 DEF ChunksInv


LEMMA DrainStep ==
  ASSUME RelayInv, GDrain
  PROVE  LoopInv'
<1> USE DEF RelayInv
<1>1. gs \in Session /\ upSeq = Len(up[gs]) + 1 /\ drained = InChunks(gs) /\ upSeq \in Nat
  BY DEF GDrain, SessionInv, UpInv, LoopInv, Serving
<1>2. made[gs] \in Units /\ Follows(made[gs], gs, 0) /\ Len(made[gs]) \in Nat
  BY <1>1 DEF StreamInv, Streams, Units
<1>3. drained \in Nat /\ drained <= Len(made[gs])
  BY <1>1, InChunksIs
<1>4. /\ UNCHANGED <<gs, up, made, upSeq>> /\ drained' = Len(made[gs])
      /\ chunk' = SubSeq(made[gs], drained + 1, Len(made[gs]))
      /\ gpc' = IF chunk' # <<>> THEN "post" ELSE IF handlerGone[gs] THEN "end" ELSE "beat"
  BY DEF GDrain, GGoto, serverVars, streams
<1>5. /\ chunk' \in Units /\ Follows(chunk', gs, drained)
      /\ Len(chunk') = Len(made[gs]) - drained
  BY <1>1, <1>2, <1>3, <1>4, FollowsRest
<1>6. CASE chunk' = <<>>
  <2>1. drained' = drained
    BY <1>2, <1>3, <1>4, <1>5, <1>6
  <2>2. InChunks(gs)' = InChunks(gs)
    BY <1>4 DEF InChunks, Before
  <2> QED BY <1>1, <1>2, <1>4, <1>5, <1>6, <2>1, <2>2 DEF LoopInv, Serving
<1>7. CASE chunk' # <<>>
  <2>1. End(chunk') = drained + Len(chunk')
    BY <1>1, <1>3, <1>5, <1>7, EndIs
  <2>2. End(chunk') = Len(made[gs])
    BY <1>2, <1>3, <1>5, <2>1
  <2>3. InChunks(gs)' = drained
    BY <1>1, <1>4 DEF InChunks, Before
  <2>4. End(chunk)' = drained'
    BY <1>4, <2>2 DEF End
  <2>5. Follows(chunk, gs, InChunks(gs))'
    BY <1>4, <1>5, <2>3 DEF Follows
  <2> QED BY <1>1, <1>2, <1>4, <1>5, <1>7, <2>4, <2>5 DEF LoopInv, Serving
<1> QED BY <1>6, <1>7

LEMMA PostUpStep ==
  ASSUME RelayInv, GUpAnswered \/ GUpLost
  PROVE  LoopInv'
<1> USE DEF RelayInv
<1>1. /\ gpc = "post" /\ gs \in Session /\ chunk \in Units /\ upSeq \in Nat /\ drained \in Nat
      /\ state[gs] \in {"open", "closed"} /\ (ServerKeeps \/ UNCHANGED up)
      /\ UNCHANGED <<gs, drained, made>>
  BY DEF GUpAnswered, GUpLost, SessionInv, UpInv, LoopInv, Serving, streams
<1>2. /\ chunk # <<>> /\ End(chunk) = drained /\ drained <= Len(made[gs])
      /\ \/ upSeq = Len(up[gs]) + 1 /\ Follows(chunk, gs, InChunks(gs))
         \/ upSeq = Len(up[gs]) /\ drained = InChunks(gs)
  BY <1>1 DEF UpInv, LoopInv
<1>3. up[gs] \in Seq(Units) /\ Len(up[gs]) \in Nat
  BY <1>1, InChunksIs
\* Once it has reached the server.
<1>4. ASSUME up'[gs] = Append(up[gs], chunk), upSeq = Len(up[gs]) + 1
      PROVE  upSeq = Len(up'[gs]) /\ drained = InChunks(gs)'
  <2>1. Len(up'[gs]) = Len(up[gs]) + 1 /\ up'[gs][Len(up[gs]) + 1] = chunk
    BY <1>1, <1>3, <1>4
  <2>2. InChunks(gs)' = End(up'[gs][Len(up[gs]) + 1])
    BY <1>1, <1>3, <2>1 DEF InChunks, Before, End
  <2> QED BY <1>2, <1>4, <2>1, <2>2
<1>5. CASE GUpAnswered
  <2>1. ServerKeeps /\ chunk' = <<>>
    BY <1>5 DEF GUpAnswered
  <2>2. chunk' \in Units
    BY <2>1 DEF Units
  <2>3. CASE state[gs] = "closed"
    <3>1. gpc' = "end" /\ upSeq' = upSeq
      BY <1>5, <2>3 DEF GUpAnswered, GGoto
    <3> QED BY <1>1, <2>2, <3>1 DEF LoopInv, Serving
  <2>4. CASE state[gs] = "open"
    <3>1. gpc' = "beat" /\ upSeq' = upSeq + 1
      BY <1>5, <2>4 DEF GUpAnswered, GGoto
    <3>2. upSeq = Len(up'[gs]) /\ drained = InChunks(gs)'
      <4>1. CASE upSeq = Len(up[gs]) + 1
        <5>1. up'[gs] = Append(up[gs], chunk)
          BY <1>1, <2>1, <2>4, <4>1 DEF ServerKeeps, UpInv, ChunksInv
        <5> QED BY <1>4, <4>1, <5>1
      <4>2. CASE upSeq = Len(up[gs]) /\ drained = InChunks(gs)
        <5>1. up' = up
          BY <1>3, <2>1, <4>2 DEF ServerKeeps
        <5> QED BY <1>1, <4>2, <5>1 DEF InChunks, Before
      <4> QED BY <1>2, <4>1, <4>2
    <3> QED BY <1>1, <2>2, <3>1, <3>2 DEF LoopInv, Serving, InChunks
  <2> QED BY <1>1, <2>3, <2>4
<1>6. CASE GUpLost
  <2>1. upSeq' = upSeq /\ ((gpc' = "end" /\ chunk' = <<>>) \/ (gpc' = "post" /\ chunk' = chunk))
    BY <1>1, <1>6 DEF GUpLost, GGoto
  <2>2. CASE gpc' = "end" /\ chunk' = <<>>
    <3>1. chunk' \in Units
      BY <2>2 DEF Units
    <3> QED BY <1>1, <2>1, <2>2, <3>1 DEF LoopInv, Serving
  <2>3. CASE gpc' = "post" /\ chunk' = chunk
    <3>1. CASE up' = up
      <4>1. InChunks(gs)' = InChunks(gs)
        BY <1>1, <3>1 DEF InChunks, Before
      <4>2. Follows(chunk, gs, InChunks(gs)) => Follows(chunk, gs, InChunks(gs))'
        BY <1>1, <2>3, <4>1 DEF Follows
      <4> QED BY <1>1, <1>2, <2>1, <2>3, <3>1, <4>1, <4>2 DEF LoopInv, Serving, End
    <3>2. CASE upSeq = Len(up[gs]) + 1 /\ up'[gs] = Append(up[gs], chunk)
      <4>1. upSeq = Len(up'[gs]) /\ drained = InChunks(gs)'
        BY <1>4, <3>2
      <4> QED BY <1>1, <1>2, <2>1, <2>3, <4>1 DEF LoopInv, Serving, End, InChunks
    <3> QED BY <1>1, <3>1, <3>2, KeepStep
  <2> QED BY <2>1, <2>2, <2>3
<1> QED BY <1>5, <1>6

LEMMA LoopStep ==
  ASSUME RelayInv, [Next]_vars
  PROVE  LoopInv'
<1> USE DEF RelayInv
<1>1. /\ upSeq \in Nat /\ drained \in Nat /\ chunk \in Units
      /\ gpc \in Serving \ {"post"} => upSeq = Len(up[gs]) + 1 /\ drained = InChunks(gs)
  BY DEF UpInv, LoopInv
<1>2. CASE GAccept
  <2>1. /\ gs \in Session /\ UNCHANGED <<gs, up, chunk>> /\ upSeq' = 1 /\ drained' = 0
        /\ gpc' \in {"round", "idle"}
    BY <1>2 DEF GAccept, GGoto, SessionInv
  <2>2. gpc' = "round" => up[gs] = <<>>
    BY <1>2, <2>1 DEF GAccept, GGoto, UpInv
  <2>3. up[gs] = <<>> => InChunks(gs) = 0
    BY <2>1, InChunksIs
  <2>4. InChunks(gs)' = InChunks(gs)
    BY <2>1 DEF InChunks, Before
  <2>5. gpc' = "round" => upSeq' = Len(up'[gs']) + 1 /\ drained' = InChunks(gs)'
    BY <2>1, <2>2, <2>3, <2>4
  <2> QED BY <1>1, <2>1, <2>5 DEF LoopInv, Serving
<1>3. CASE GDrain
  BY <1>3, DrainStep
<1>4. CASE GUpAnswered \/ GUpLost
  BY <1>4, PostUpStep
<1>5. ASSUME UNCHANGED <<up, upSeq, drained, chunk>>,
             gpc' \in Serving => gs' = gs /\ gpc \in Serving \ {"post"} /\ gpc' # "post"
      PROVE  LoopInv'
  <2>1. gs' = gs => InChunks(gs)' = InChunks(gs)
    BY <1>5 DEF InChunks, Before
  <2>2. upSeq' \in Nat /\ drained' \in Nat /\ chunk' \in Units /\ gpc' # "post"
    BY <1>1, <1>5 DEF Serving
  <2>3. gpc' \in Serving => upSeq' = Len(up'[gs']) + 1 /\ drained' = InChunks(gs)'
    BY <1>1, <1>5, <2>1
  <2> QED BY <2>2, <2>3 DEF LoopInv, Serving
<1>6. CASE (\E s \in Session : GPoll(s)) \/ GTake \/ GRound \/ GDownServed
  BY <1>5, <1>6 DEF GPoll, GTake, GRound, GDownServed, GGoto, Serving, serverVars
<1>7. CASE GDownClosed \/ GDownLost \/ GFeed \/ GBeat \/ GEnd
  BY <1>5, <1>7 DEF GDownClosed, GDownLost, GFeed, GBeat, GEnd, GGoto, Serving, serverVars
<1>8. CASE Host \/ TogglePause \/ (\E s \in Session : HandlerAnswers(s) \/ HandlerEnds(s))
             \/ UNCHANGED vars
  <2>1. UNCHANGED <<gpc, gs, upSeq, drained, chunk, up>>
    BY <1>8, HostKeeps
  <2>2. CASE gpc = "post"
    <3>1. /\ gs \in Session /\ chunk # <<>> /\ End(chunk) = drained /\ drained <= Len(made[gs])
          /\ \/ upSeq = Len(up[gs]) + 1 /\ Follows(chunk, gs, InChunks(gs))
             \/ upSeq = Len(up[gs]) /\ drained = InChunks(gs)
      BY <2>2 DEF SessionInv, UpInv, LoopInv
    <3>2. drained <= Len(made'[gs])
      <4>1. made[gs] \in Units /\ made'[gs] \in Units /\ Len(made[gs]) <= Len(made'[gs])
        BY <3>1, StreamStep DEF StreamInv, Streams, Grow
      <4>2. Len(made[gs]) \in Nat /\ Len(made'[gs]) \in Nat
        BY <4>1 DEF Units
      <4> QED BY <1>1, <3>1, <4>1, <4>2
    <3>3. InChunks(gs)' = InChunks(gs)
      BY <2>1 DEF InChunks, Before
    <3>4. Follows(chunk, gs, InChunks(gs)) => Follows(chunk, gs, InChunks(gs))'
      BY <2>1, <3>3 DEF Follows
    <3> QED BY <1>1, <2>1, <2>2, <3>1, <3>2, <3>3, <3>4 DEF LoopInv, Serving, End
  <2>3. CASE gpc # "post"
    BY <1>5, <2>1, <2>3
  <2> QED BY <2>2, <2>3
<1> QED BY <1>2, <1>3, <1>4, <1>6, <1>7, <1>8 DEF Next, Guest, GuestLoop

LEMMA UpStep ==
  ASSUME RelayInv, [Next]_vars
  PROVE  UpInv'
<1>1. ChunksInv' /\ LoopInv'
  BY ChunksStep, LoopStep
<1>2. ASSUME NEW s \in Session, state'[s] \in {"none", "pending"} PROVE up'[s] = <<>>
  <2>1. state[s] \in {"none", "pending"}
    BY <1>2, StateMoves
  <2>2. ~(s = gs /\ gpc = "post")
    BY <2>1 DEF RelayInv, SessionInv, Serving
  <2>3. up'[s] = up[s]
    BY <2>2, UpGoesOn
  <2> QED BY <2>1, <2>3 DEF RelayInv, UpInv
<1> QED BY <1>1, <1>2 DEF UpInv


-----------------------------------------------------------------------------
(***************************************************************************)
(* At the client.                                                          *)
(***************************************************************************)
\* Whatever the path makes of a reply, it numbers chunks that the server has.
LEMMA FoundIs ==
  ASSUME RelayInv, NEW s \in Session, NEW n \in Nat, NEW found \in UpReplies(s, n)
  PROVE  found \in Seq(Nat) /\ \A i \in 1 .. Len(found) : found[i] \in 1 .. Len(up[s])
<1>1. Len(up[s]) \in Nat
  BY InChunksIs
<1>2. CASE found \in HonestUp(s, n)
  <2>1. CASE found = <<>>
    BY <2>1
  <2>2. CASE found # <<>>
    <3>1. found = [i \in 1 .. Len(up[s]) - n |-> n + i] /\ Len(up[s]) - n \in Nat
      BY <1>1, <1>2, <2>2 DEF HonestUp
    <3>2. found \in [1 .. Len(up[s]) - n -> Nat]
      BY <3>1
    <3>3. found \in Seq(Nat) /\ Len(found) = Len(up[s]) - n
      BY <3>1, <3>2
    <3> QED BY <1>1, <3>1, <3>3
  <2> QED BY <2>1, <2>2
<1>3. CASE found \in FaultyUp(s)
  <2>1. CASE \E i \in 1 .. Len(up[s]) : found = <<i>>
    BY <1>1, <2>1
  <2>2. CASE \E i \in 1 .. Len(up[s]), j \in 1 .. Len(up[s]) : found = <<i, j>>
    <3>1. PICK i \in 1 .. Len(up[s]), j \in 1 .. Len(up[s]) : found = <<i, j>>
      BY <2>2
    <3>2. Len(found) = 2 /\ found[1] = i /\ found[2] = j /\ found \in Seq(Nat)
      BY <1>1, <3>1
    <3> QED BY <3>2
  <2> QED BY <1>3, <2>1, <2>2 DEF FaultyUp
<1> QED BY <1>2, <1>3 DEF UpReplies

\* What it has read ends with the chunk it has come to.
LEMMA ReadUpTo ==
  ASSUME RelayInv, [Next]_vars
  PROVE  (hpc \in Connected =>
            upAfter <= Len(up[hs]) /\ Len(read[hs]) = Before(hs, upAfter + 1))'
<1> USE DEF RelayInv
<1>1. hpc \in Connected =>
        /\ hs \in Session /\ upAfter \in Nat
        /\ upAfter <= Len(up[hs]) /\ Len(read[hs]) = Before(hs, upAfter + 1)
  BY DEF ReadInv, SessionInv, Connected
<1>2. ASSUME NEW s \in Session, s = hs, hs' = hs, read' = read, upAfter' = upAfter,
             hpc \in Connected
      PROVE  upAfter' <= Len(up'[hs']) /\ Len(read'[hs']) = Before(hs, upAfter + 1)'
  <2>1. Len(up[s]) \in Nat /\ upAfter + 1 \in 1 .. Len(up[s]) + 1
    BY <1>1, <1>2, InChunksIs
  <2>2. up'[s] \in Seq(Units) /\ Len(up[s]) <= Len(up'[s])
    BY UpGoesOn
  <2>3. ASSUME NEW k \in 1 .. Len(up[s]) + 1 PROVE Before(s, k)' = Before(s, k)
    BY UpGoesOn
  <2>4. Before(hs, upAfter + 1)' = Before(hs, upAfter + 1)
    <3>1. PICK k \in 1 .. Len(up[s]) + 1 : k = upAfter + 1
      BY <2>1
    <3>2. Before(hs, upAfter + 1) = Before(s, k) /\ Before(hs, upAfter + 1)' = Before(s, k)'
      BY <1>2, <3>1 DEF Before
    <3> QED BY <2>3, <3>2
  <2>5. upAfter <= Len(up'[s])
    BY <1>1, <1>2, <2>1, <2>2
  <2> QED BY <1>1, <1>2, <2>4, <2>5
<1>3. CASE hs' = hs /\ read' = read /\ upAfter' = upAfter /\ (hpc' \in Connected => hpc \in Connected)
  <2>1. hpc \in Connected => \E s \in Session : s = hs
    BY <1>1
  <2> QED BY <1>2, <1>3, <2>1 DEF Connected
<1>4. ASSUME NEW s \in Session, HOpen(s)
      PROVE  hpc' \in Connected =>
               upAfter' <= Len(up'[hs']) /\ Len(read'[hs']) = Before(hs, upAfter + 1)'
  <2>1. hpc' \in Connected => hs' = s
    BY <1>4 DEF HOpen, Connected
  <2>2. UNCHANGED <<up, read>> /\ upAfter' = 0 /\ read[s] = <<>>
    BY <1>4 DEF HOpen, ReadInv, streams
  <2>3. Len(up[s]) \in Nat
    BY InChunksIs
  <2> QED BY <2>1, <2>2, <2>3 DEF Before
<1>5. CASE HTake
  <2>1. up' = up /\ hs' = hs /\ upAfter' <= Len(up[hs]) /\ Len(read'[hs]) = Before(hs, upAfter' + 1)
    BY <1>5, TakeStep DEF HTake, serverVars
  <2> QED BY <2>1 DEF Before
<1>6. CASE HStatus \/ HWrite \/ HFlush \/ HPost \/ HPull \/ HDone \/ HClose
  <2>1. hs' = hs /\ read' = read /\ upAfter' = upAfter
    BY <1>6 DEF HStatus, HWrite, HFlush, HPost, HPull, HDone, HClose, streams
  <2>2. hpc' \in Connected => hpc \in Connected
    BY <1>6 DEF HStatus, HWrite, HFlush, HPost, HPull, HDone, HClose, Connected
  <2> QED BY <1>3, <2>1, <2>2
<1>7. CASE Guest \/ TogglePause \/ (\E s \in Session : HandlerAnswers(s) \/ HandlerEnds(s))
           \/ UNCHANGED vars
  BY <1>3, <1>7, GuestKeeps
<1> QED BY <1>4, <1>5, <1>6, <1>7 DEF Next, Host, Connected

\* What it has still to look at are chunks of its session.
LEMMA NumbersStep ==
  ASSUME RelayInv, [Next]_vars
  PROVE  /\ upAfter' \in Nat /\ numbers' \in Seq(Nat)
         /\ hpc' = "take" =>
              numbers' # <<>> /\ \A i \in 1 .. Len(numbers') : numbers'[i] \in 1 .. Len(up'[hs'])
<1> USE DEF RelayInv
<1>1. upAfter \in Nat /\ numbers \in Seq(Nat)
  BY DEF ReadInv
<1>2. CASE HPull
  <2>1. hs \in Session /\ UNCHANGED <<hs, upAfter, up>>
    BY <1>2 DEF HPull, SessionInv, serverVars
  <2>2. CASE numbers' = <<>> /\ hpc' # "take"
    BY <1>1, <2>1, <2>2
  <2>3. CASE \E found \in UpReplies(hs, upAfter) : upAfter + 1 \in Range(found) /\ numbers' = found
    <3>1. PICK found \in UpReplies(hs, upAfter) : upAfter + 1 \in Range(found) /\ numbers' = found
      BY <2>3
    <3>2. found \in Seq(Nat) /\ \A i \in 1 .. Len(found) : found[i] \in 1 .. Len(up[hs])
      BY <1>1, <2>1, FoundIs
    <3>3. found # <<>>
      BY <3>1 DEF Range
    <3> QED BY <1>1, <2>1, <3>1, <3>2, <3>3
  <2> QED BY <1>2, <2>2, <2>3 DEF HPull
<1>3. CASE HTake
  <2>1. upAfter' \in Nat
    BY <1>3, TakeStep
  <2>2. numbers # <<>> /\ \A i \in 1 .. Len(numbers) : numbers[i] \in 1 .. Len(up[hs])
    BY <1>3 DEF HTake, ReadInv
  <2>3. UNCHANGED <<hs, up>> /\ (hpc' = "take" => numbers' = Tail(numbers) /\ numbers' # <<>>)
        /\ (numbers' = Tail(numbers) \/ numbers' = <<>>)
    BY <1>3 DEF HTake, serverVars
  <2>4. /\ Tail(numbers) \in Seq(Nat) /\ Len(Tail(numbers)) = Len(numbers) - 1
        /\ \A i \in 1 .. Len(numbers) - 1 : Tail(numbers)[i] = numbers[i + 1]
    BY <1>1, <2>2
  <2>5. \A i \in 1 .. Len(numbers) - 1 : i + 1 \in 1 .. Len(numbers)
    BY <1>1
  <2>6. CASE numbers' = Tail(numbers)
    <3>1. \A i \in 1 .. Len(numbers') : numbers'[i] \in 1 .. Len(up[hs])
      BY <2>2, <2>4, <2>5, <2>6
    <3> QED BY <2>1, <2>3, <2>4, <2>6, <3>1
  <2>7. CASE numbers' = <<>>
    BY <2>1, <2>3, <2>7
  <2> QED BY <2>3, <2>6, <2>7
<1>4. CASE (\E s \in Session : HOpen(s)) \/ HStatus \/ HWrite \/ HFlush
  <2>1. hpc' # "take"
    BY <1>4 DEF HOpen, HStatus, HWrite, HFlush
  <2>2. upAfter' \in Nat /\ numbers' \in Seq(Nat)
    <3>1. CASE \E s \in Session : HOpen(s)
      <4>1. upAfter' = 0 /\ numbers' = <<>>
        BY <3>1 DEF HOpen
      <4> QED BY <4>1
    <3>2. CASE HStatus \/ HWrite \/ HFlush
      BY <1>1, <3>2 DEF HStatus, HWrite, HFlush
    <3> QED BY <1>4, <3>1, <3>2
  <2> QED BY <2>1, <2>2
<1>5. CASE HPost \/ HDone \/ HClose
  <2>1. hpc' # "take" /\ UNCHANGED <<upAfter, numbers>>
    BY <1>5 DEF HPost, HDone, HClose
  <2> QED BY <1>1, <2>1
<1>6. CASE Guest \/ TogglePause \/ (\E s \in Session : HandlerAnswers(s) \/ HandlerEnds(s))
           \/ UNCHANGED vars
  <2>1. UNCHANGED <<hpc, hs, upAfter, numbers>>
    BY <1>6, GuestKeeps
  <2>2. CASE hpc = "take"
    <3>1. /\ hs \in Session /\ numbers # <<>>
          /\ \A i \in 1 .. Len(numbers) : numbers[i] \in 1 .. Len(up[hs])
      BY <2>2 DEF SessionInv, ReadInv
    <3>2. Len(up[hs]) \in Nat
      BY <3>1, InChunksIs
    <3>3. up'[hs] \in Seq(Units) /\ Len(up[hs]) <= Len(up'[hs])
      BY <3>1, UpGoesOn
    <3> QED BY <1>1, <2>1, <3>1, <3>2, <3>3
  <2> QED BY <1>1, <2>1, <2>2
<1> QED BY <1>2, <1>3, <1>4, <1>5, <1>6 DEF Next, Host

LEMMA ReadStep ==
  ASSUME RelayInv, [Next]_vars
  PROVE  ReadInv'
<1>1. ASSUME NEW s \in Session, state'[s] \in {"none", "pending"} PROVE read'[s] = <<>>
  <2>1. read[s] = <<>> /\ state[s] \in {"none", "pending"}
    BY <1>1, StateMoves DEF RelayInv, ReadInv
  <2>2. CASE HTake
    <3>1. s # hs
      BY <2>1, <2>2 DEF HTake, RelayInv, SessionInv
    <3> QED BY <2>1, <2>2, <3>1, TakeStep
  <2>3. CASE HWrite \/ GFeed \/ \E t \in Session : HandlerAnswers(t)
    BY <2>1, <2>3, WriteStep, FeedStep, AnswerStep
  <2>4. CASE Quiet
    BY <2>1, <2>4, QuietStep DEF streams
  <2> QED BY <2>2, <2>3, <2>4, Steps
<1> QED BY <1>1, ReadUpTo, NumbersStep DEF ReadInv

-----------------------------------------------------------------------------
(***************************************************************************)
(* The refinement                                                          *)
(***************************************************************************)
LEMMA RelayInit == Init => RelayInv /\ Tunnel!Init
<1> SUFFICES ASSUME Init PROVE RelayInv /\ Tunnel!Init
  OBVIOUS
<1>1. <<>> \in Units /\ Len(<<>>) = 0
  BY DEF Units
<1>2. /\ sent = [s \in Session |-> <<>>] /\ fed = sent /\ made = sent /\ read = sent
  BY DEF Init
<1>3. StreamInv
  BY <1>1, <1>2, RelayAssumption DEF StreamInv, Streams, Follows
<1>4. SessionInv
  BY DEF Init, SessionInv, HostPC, GuestPC, Serving
<1>5. DownInv
  BY <1>2 DEF Init, DownInv, ReplySigned, InOrder, Serving
<1>6. FlushInv
  BY <1>1 DEF Init, FlushInv
<1>7. UpInv
  BY <1>1 DEF Init, UpInv, LoopInv, ChunksInv, Serving
<1>8. ReadInv
  BY <1>2 DEF Init, ReadInv, Connected
<1>9. Tunnel!Init
  BY <1>2 DEF Tunnel!Init
<1> QED BY <1>3, <1>4, <1>5, <1>6, <1>7, <1>8, <1>9 DEF RelayInv

\* Whatever is lost, retried, repeated, reordered or mixed up on the way, a relay session
\* is a tunnel: v9x_remote_session hands the handlers a beginning of what the client
\* wrote, in order and each unit once (v9x_relay_verify and the sequence number), and
\* RelaySession._pull returns a beginning of what they answered, of that session only.
THEOREM RelayIsTunnel == Spec => IsTunnel
<1>1. Init => RelayInv /\ Tunnel!Init
  BY RelayInit
<1>2. RelayInv /\ [Next]_vars => RelayInv' /\ [Tunnel!Next]_Tunnel!vars
  BY StreamStep, SessionStep, DownStep, FlushStep, UpStep, ReadStep DEF RelayInv
<1> QED BY <1>1, <1>2, PTL DEF Spec, IsTunnel, Tunnel!Spec
=============================================================================
