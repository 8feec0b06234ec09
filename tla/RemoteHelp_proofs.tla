-------------------------- MODULE RemoteHelp_proofs --------------------------
(***************************************************************************)
(* Proofs about RemoteHelp, for any number of lines, their lengths, queue  *)
(* length, room in a check-in, sessions and faults: its types, that the    *)
(* chat is what ChatQueue promises, and that an idle thread has nothing    *)
(* left to tell.                                                           *)
(***************************************************************************)
EXTENDS RemoteHelp, SequenceTheorems, TLAPS

USE RemoteAssumption DEF RemoteAssumption

\* Five names are enough to find one that none of four places holds.
LEMMA FreshName ==
  ASSUME NEW a, NEW b, NEW c, NEW d
  PROVE  Fresh({a, b, c, d}) \in Name
<1>1. \E n \in Name : n \notin {a, b, c, d}
  <2>1. {1, 2, 3, 4, 5} \subseteq Name
    BY DEF Name
  <2>2. \E n \in {1, 2, 3, 4, 5} : n \notin {a, b, c, d}
    OBVIOUS
  <2> QED BY <2>1, <2>2
<1>2. PICK n \in Name : n \notin {a, b, c, d}
  BY <1>1
<1> QED BY <1>2, Zenon DEF Fresh

LEMMA RegistryType ==
  ASSUME TypeOK, ServerRegisters PROVE registry' \in Identity
<1>1. /\ Fresh({me.machine, ini.machine, flushed.machine, session.of}) \in Name
      /\ Fresh({registry.secret, me.secret, ini.secret, flushed.secret}) \in Name
  BY FreshName
<1>2. registry.machine \in Name \cup {None}
  BY DEF TypeOK, Identity
<1> QED BY <1>1, <1>2 DEF ServerRegisters, Identity, None

-----------------------------------------------------------------------------
\* Types: every step of the program, the server and the developer.
LEMMA NobodyType == Nobody \in Identity
BY DEF Nobody, Identity

LEMMA TypeInit == Init => TypeOK
<1> SUFFICES ASSUME Init PROVE TypeOK
  OBVIOUS
<1>1. <<>> \in Seq(Line) /\ Len(<<>>) = 0
  BY EmptySeq
<1>2. reply \in [status : {"none", "identity", "retired", "ok"},
                session : {"none", "pending", "open", "closed"}]
  BY DEF Init, NoAnswer
<1>3. session \in [of : Name \cup {None}, state : {"none", "pending", "open", "closed"}]
  BY DEF Init
<1>4. /\ stop \in BOOLEAN /\ signal \in BOOLEAN /\ wake \in BOOLEAN /\ paused \in BOOLEAN
      /\ told \in BOOLEAN /\ retired \in BOOLEAN
  BY DEF Init
<1>5. /\ me \in Identity /\ ini \in Identity /\ flushed \in Identity /\ registry \in Identity
      /\ tunnel \in Name \cup {None}
  BY NobodyType DEF Init
<1>6. /\ outgoing \in Seq(Line) /\ Len(outgoing) <= Capacity /\ latest \in Seq(Line)
      /\ copied \in 0 .. Len(outgoing) /\ typed \in 0 .. MaxLines
      /\ heard \subseteq Line /\ owed \subseteq Line /\ lost \subseteq Line
  BY <1>1 DEF Init
<1>7. sessions \in 0 .. MaxSessions /\ restarts \in Nat /\ faults \in 0 .. MaxFaults
  BY DEF Init
<1>8. pc = "start"
  BY DEF Init
<1> QED BY <1>2, <1>3, <1>4, <1>5, <1>6, <1>7, <1>8 DEF TypeOK

LEMMA TypeStep == TypeOK /\ [Next]_vars => TypeOK'
<1> SUFFICES ASSUME TypeOK, [Next]_vars PROVE TypeOK'
  OBVIOUS
<1> USE DEF TypeOK, Goto
<1>0. Len(outgoing) \in Nat
  BY LenProperties
<1>1. CASE ReadConfig
  BY <1>1 DEF ReadConfig, NextRound, trayVars, serverVars, counters
<1>2. CASE Register
  <2>1. CASE RegisterAnswered
    BY <2>1, RegistryType DEF RegisterAnswered, trayVars, counters
  <2>2. CASE RegisterFails
    <3>1. registry' \in Identity
      BY <2>2, RegistryType DEF RegisterFails
    <3>2. me' \in Identity
      BY <2>2, NobodyType DEF RegisterFails
    <3> QED BY <2>2, <3>1, <3>2 DEF RegisterFails, trayVars, counters
  <2>3. CASE StoreMachine
    <3>1. ini' \in Identity
      BY <2>3 DEF StoreMachine, Identity
    <3> QED BY <2>3, <3>1 DEF StoreMachine, trayVars, serverVars, counters
  <2>4. CASE StoreSecret
    <3>1. ini' \in Identity /\ flushed' \in Identity
      BY <2>4 DEF StoreSecret, Identity
    <3> QED BY <2>4, <3>1 DEF StoreSecret, trayVars, serverVars, counters
  <2> QED BY <1>2, <2>1, <2>2, <2>3, <2>4 DEF Register
<1>3. CASE Poll
  <2>1. (ServerHears \/ UNCHANGED <<heard, latest, told>>)
        => /\ heard' \subseteq Line /\ latest' \in Seq(Line) /\ told' \in BOOLEAN
    <3>1. Carried(outgoing) \subseteq Line
      BY DEF Carried
    <3> QED BY <3>1 DEF ServerHears
  <2>2. Len(outgoing) \in 0 .. Len(outgoing)
    BY <1>0
  <2>3. CASE PollAnswered
    BY <2>1, <2>2, <2>3 DEF PollAnswered, ServerAnswer, trayVars, counters
  <2>4. CASE PollLost
    BY <2>1, <2>2, <2>4 DEF PollLost, NoAnswer, trayVars, counters
  <2> QED BY <1>3, <2>3, <2>4 DEF Poll
<1>4. CASE Reply
  <2>1. CASE ReplyNone
    BY <1>0, <2>1 DEF ReplyNone, NoAnswer, trayVars, serverVars, counters
  <2>2. CASE ReplyIdentity
    BY <1>0, <2>2, NobodyType DEF ReplyIdentity, Forget, NoAnswer, trayVars, serverVars, counters
  <2>3. CASE ReplyRetired
    BY <1>0, <2>3 DEF ReplyRetired, NoAnswer, trayVars, serverVars, counters
  <2>4. CASE ReplyOk
    <3>1. /\ outgoing' \in Seq(Line) /\ Len(outgoing') <= Capacity
      <4>1. copied + 1 \in Nat /\ copied + 1 >= 1 /\ Len(outgoing) \in Nat
        BY LenProperties
      <4>2. outgoing' = SubSeq(outgoing, copied + 1, Len(outgoing))
        BY <2>4 DEF ReplyOk
      <4>3. outgoing' \in Seq(Line) /\ Len(outgoing') <= Len(outgoing)
        BY <4>1, <4>2, SubSeqProperties, LenProperties
      <4> QED BY <4>1, <4>3, LenProperties
    <3>2. latest' \in Seq(Line)
      BY <2>4 DEF ReplyOk
    <3>3. lost' \subseteq Line /\ copied' = 0 /\ Len(outgoing') \in Nat
      <4>1. \A i \in 1 .. copied : outgoing[i] \in Line
        BY <1>0
      <4>2. lost' = lost \cup ({outgoing[i] : i \in 1 .. copied} \ heard) /\ copied' = 0
        BY <2>4 DEF ReplyOk
      <4> QED BY <3>1, <4>1, <4>2, LenProperties
    <3> QED BY <2>4, <3>1, <3>2, <3>3 DEF ReplyOk, NoAnswer
  <2> QED BY <1>4, <2>1, <2>2, <2>3, <2>4 DEF Reply
<1>5. CASE IdleOver \/ BackoffOver
  BY <1>5 DEF IdleOver, BackoffOver, NextRound, serverVars, counters
<1>6. CASE Accept \/ Round \/ Beat \/ End
  BY <1>6 DEF Accept, Round, RoundClosed, RoundRefused, RoundBreaks, RoundServed, InRound,
              Beat, End, NextRound, trayVars, serverVars, counters, None
<1>7. CASE Tray
  <2>1. CASE Say
    <3>1. typed' \in Line /\ typed' \in 0 .. MaxLines
      BY <2>1 DEF Say, Line
    <3>2. outgoing' \in Seq(Line) /\ Len(outgoing') <= Capacity
      <4>1. Len(outgoing) \in Nat /\ Capacity \in Nat
        BY LenProperties
      <4>2. CASE outgoing' = Append(outgoing, typed') /\ Len(outgoing) < Capacity
        <5>1. outgoing' \in Seq(Line) /\ Len(outgoing') = Len(outgoing) + 1
          BY <3>1, <4>2, AppendProperties
        <5> QED BY <4>1, <4>2, <5>1
      <4> QED BY <2>1, <4>2 DEF Say
    <3>3. copied' \in 0 .. Len(outgoing')
      <4>1. copied' = copied /\ (outgoing' = Append(outgoing, typed') \/ outgoing' = outgoing)
        BY <2>1 DEF Say, threadVars
      <4>2. Len(Append(outgoing, typed')) = Len(outgoing) + 1
        BY <3>1, AppendProperties
      <4> QED BY <1>0, <4>1, <4>2
    <3>4. signal' \in BOOLEAN /\ wake' \in BOOLEAN /\ paused' \in BOOLEAN /\ owed' \subseteq Line
      BY <2>1, <3>1 DEF Say
    <3> QED BY <2>1, <3>1, <3>2, <3>3, <3>4 DEF Say, threadVars, serverVars, counters
  <2>2. CASE TogglePause
    BY <2>2 DEF TogglePause, threadVars, serverVars, counters
  <2>3. CASE Signal
    <3>1. signal' \in BOOLEAN /\ wake' \in BOOLEAN
      BY <2>3 DEF Signal
    <3> QED BY <2>3, <3>1 DEF Signal, threadVars, serverVars, counters
  <2> QED BY <1>7, <2>1, <2>2, <2>3 DEF Tray
<1>8. CASE DeveloperOpens \/ DeveloperCloses
  <2>1. CASE DeveloperOpens
    BY <2>1 DEF DeveloperOpens, threadVars, trayVars, Identity
  <2>2. CASE DeveloperCloses
    <3>1. session' \in [of : Name \cup {None}, state : {"none", "pending", "open", "closed"}]
      BY <2>2 DEF DeveloperCloses
    <3> QED BY <2>2, <3>1 DEF DeveloperCloses, threadVars, trayVars, counters
  <2> QED BY <1>8, <2>1, <2>2
<1>9. CASE ServerLoses
  <2>1. registry' \in Identity /\ faults' \in 0 .. MaxFaults
    BY <1>9, NobodyType DEF ServerLoses
  <2>2. retired' \in BOOLEAN
    BY <1>9, Zenon DEF ServerLoses
  <2> QED BY <1>9, <2>1, <2>2 DEF ServerLoses, threadVars, trayVars
<1>10. CASE AgentRestarts
  <2>1. /\ me' = Nobody /\ reply' = NoAnswer /\ outgoing' = <<>> /\ latest' = <<>>
        /\ ini' \in Identity /\ flushed' \in Identity
    BY <1>10 DEF AgentRestarts, Identity
  <2>2. <<>> \in Seq(Line) /\ Len(<<>>) = 0
    BY EmptySeq
  <2>3. reply' \in [status : {"none", "identity", "retired", "ok"},
                   session : {"none", "pending", "open", "closed"}]
    BY <2>1 DEF NoAnswer
  <2>4. /\ stop' \in BOOLEAN /\ signal' \in BOOLEAN /\ wake' \in BOOLEAN /\ paused' \in BOOLEAN
    BY <1>10 DEF AgentRestarts
  <2>5. /\ restarts' \in Nat /\ faults' \in 0 .. MaxFaults /\ owed' \subseteq Line
        /\ copied' = 0 /\ tunnel' \in Name \cup {None} /\ pc' = "start"
    BY <1>10 DEF AgentRestarts
  <2>6. me' \in Identity /\ outgoing' \in Seq(Line) /\ Len(outgoing') <= Capacity
        /\ latest' \in Seq(Line) /\ copied' \in 0 .. Len(outgoing')
    BY <2>1, <2>2, <2>5, NobodyType
  <2>7. UNCHANGED <<typed, registry, retired, session, heard, told, sessions, lost>>
    BY <1>10 DEF AgentRestarts
  <2> QED BY <2>1, <2>3, <2>4, <2>5, <2>6, <2>7
<1>11. CASE UNCHANGED vars
  BY <1>11 DEF vars, threadVars, trayVars, serverVars, counters
<1> QED BY <1>1, <1>2, <1>3, <1>4, <1>5, <1>6, <1>7, <1>8, <1>9, <1>10, <1>11
        DEF Next, Thread

\* TypeOK of RemoteHelp, for every run.
THEOREM TypeCorrect == Spec => []TypeOK
BY TypeInit, TypeStep, PTL DEF Spec

-----------------------------------------------------------------------------
(***************************************************************************)
(* The chat is a ChatQueue.  What reached the server last is the head of   *)
(* the queue until it leaves it, and a check-in that was answered copied   *)
(* exactly that.                                                           *)
(***************************************************************************)
LatestIsHead ==
  /\ Len(latest) <= Len(outgoing)
  /\ \A i \in 1 .. Len(latest) : outgoing[i] = latest[i]
  /\ pc = "reply" /\ reply.status = "ok" => copied = Len(latest)

chatVars == <<outgoing, latest, heard, lost, restarts>>

\* A step that leaves the chat alone and does not arrive at an answered check-in.
LEMMA LatestKept ==
  ASSUME LatestIsHead, UNCHANGED <<outgoing, latest>>,
         \/ pc' # "reply"
         \/ pc' = pc /\ UNCHANGED <<reply, copied>>
  PROVE  LatestIsHead'
BY DEF LatestIsHead

LEMMA SubSeqAll ==
  ASSUME NEW S, NEW s \in Seq(S) PROVE SubSeq(s, 1, Len(s)) = s
BY SubSeqFull, LenProperties

LEMMA ChatPoll ==
  ASSUME TypeOK, LatestIsHead, Poll PROVE LatestIsHead' /\ [Chat!Next]_(Chat!vars)
<1>1. outgoing \in Seq(Line) /\ latest \in Seq(Line) /\ Len(outgoing) \in Nat
  BY LenProperties DEF TypeOK
<1>2. UNCHANGED <<outgoing, restarts, lost>> /\ copied' = Len(outgoing)
  BY DEF Poll, PollAnswered, PollLost, trayVars, counters
<1>3. ServerHears \/ UNCHANGED <<heard, latest, told>>
  BY DEF Poll, PollAnswered, PollLost
<1>4. CASE heard' = heard \cup Carried(outgoing) /\ latest' = outgoing
  <2>1. LatestIsHead'
    BY <1>1, <1>2, <1>4 DEF LatestIsHead
  <2>2. CASE outgoing = <<>>
    <3>1. Len(latest) = 0 /\ latest = <<>>
      BY <1>1, <2>2, EmptySeq DEF LatestIsHead
    <3>2. Carried(outgoing) = {}
      BY <1>1, <2>2, EmptySeq DEF Carried
    <3> QED BY <1>2, <1>4, <2>1, <2>2, <3>1, <3>2 DEF Chat!vars
  <2>3. CASE outgoing # <<>>
    <3>1. Chat!Reach
      BY <1>2, <1>4, <2>3 DEF Chat!Reach
    <3> QED BY <2>1, <3>1 DEF Chat!Next
  <2> QED BY <2>2, <2>3
<1>5. CASE UNCHANGED <<heard, latest>>
  <2>1. ~(reply'.status = "ok" /\ pc' = "reply") \/ (Known /\ ~retired)
    BY DEF Poll, PollAnswered, PollLost, ServerAnswer, NoAnswer
  <2>2. CASE Known /\ ~retired /\ PollAnswered
    <3>1. heard' = heard \cup Carried(outgoing) /\ latest' = outgoing
      BY <2>2 DEF PollAnswered, ServerHears
    <3> QED BY <1>4, <3>1
  <2>3. CASE PollLost \/ ~Known \/ retired
    <3>1. reply'.status # "ok"
      BY <2>3 DEF Poll, PollAnswered, PollLost, ServerAnswer, NoAnswer
    <3> QED BY <1>2, <1>5, <3>1 DEF LatestIsHead, Chat!vars
  <2> QED BY <2>2, <2>3 DEF Poll
<1> QED BY <1>3, <1>4, <1>5 DEF ServerHears

LEMMA ChatReplyOk ==
  ASSUME TypeOK, LatestIsHead, ReplyOk PROVE LatestIsHead' /\ [Chat!Next]_(Chat!vars)
<1>1. /\ outgoing \in Seq(Line) /\ latest \in Seq(Line)
      /\ Len(outgoing) \in Nat /\ Len(latest) \in Nat
  BY LenProperties DEF TypeOK
<1>2. /\ outgoing' = SubSeq(outgoing, copied + 1, Len(outgoing)) /\ latest' = <<>>
      /\ lost' = lost \cup ({outgoing[i] : i \in 1 .. copied} \ heard)
      /\ UNCHANGED <<heard, restarts>> /\ copied = Len(latest) /\ reply' = NoAnswer
  BY DEF ReplyOk, LatestIsHead
<1>3. LatestIsHead'
  <2>1. outgoing' \in Seq(Line) /\ Len(outgoing') \in Nat
    BY <1>1, <1>2, SubSeqProperties, LenProperties
  <2>2. Len(latest') = 0
    BY <1>2, EmptySeq
  <2>3. reply'.status # "ok"
    BY <1>2 DEF NoAnswer
  <2> QED BY <2>1, <2>2, <2>3 DEF LatestIsHead
<1>4. CASE copied = 0
  <2>1. latest = <<>>
    BY <1>1, <1>2, <1>4, EmptySeq
  <2>2. outgoing' = SubSeq(outgoing, 1, Len(outgoing))
    BY <1>2, <1>4
  <2>3. outgoing' = outgoing
    BY <1>1, <2>2, SubSeqAll
  <2>4. lost' = lost
    <3>1. {outgoing[i] : i \in 1 .. copied} = {}
      BY <1>4
    <3> QED BY <1>2, <3>1
  <2> QED BY <1>2, <1>3, <2>1, <2>3, <2>4 DEF Chat!vars
<1>5. CASE copied # 0
  <2>1. copied \in 1 .. Len(outgoing)
    BY <1>1, <1>2, <1>5 DEF LatestIsHead
  <2>2. Chat!Done(copied)
    BY <1>1, <1>2, <2>1 DEF Chat!Done, LatestIsHead
  <2> QED BY <1>3, <2>1, <2>2 DEF Chat!Next
<1> QED BY <1>4, <1>5

LEMMA ChatSay ==
  ASSUME TypeOK, LatestIsHead, Say PROVE LatestIsHead' /\ [Chat!Next]_(Chat!vars)
<1>1. /\ outgoing \in Seq(Line) /\ latest \in Seq(Line) /\ Len(outgoing) \in Nat
      /\ Len(latest) \in Nat
  BY LenProperties DEF TypeOK
<1>2. /\ UNCHANGED <<pc, reply, copied, latest, heard, lost, restarts>> /\ typed' \in Line
      /\ \/ outgoing' = Append(outgoing, typed') /\ Len(outgoing) < Capacity
         \/ UNCHANGED outgoing
  BY DEF TypeOK, Say, Line, threadVars, serverVars, counters
<1>3. CASE outgoing' = Append(outgoing, typed') /\ Len(outgoing) < Capacity
  <2>1. /\ Len(outgoing') = Len(outgoing) + 1
        /\ \A i \in 1 .. Len(outgoing) : outgoing'[i] = outgoing[i]
    BY <1>1, <1>2, <1>3, AppendProperties
  <2>2. LatestIsHead'
    <3>1. Len(latest') <= Len(outgoing')
      BY <1>1, <1>2, <2>1 DEF LatestIsHead
    <3>2. ASSUME NEW i \in 1 .. Len(latest') PROVE outgoing'[i] = latest'[i]
      <4>1. latest' = latest /\ i \in 1 .. Len(latest) /\ Len(latest) <= Len(outgoing)
        BY <1>2 DEF LatestIsHead
      <4>2. i \in 1 .. Len(outgoing) /\ outgoing[i] = latest[i]
        BY <1>1, <4>1 DEF LatestIsHead
      <4> QED BY <2>1, <4>1, <4>2
    <3>3. pc' = "reply" /\ reply'.status = "ok" => copied' = Len(latest')
      BY <1>2 DEF LatestIsHead
    <3> QED BY <3>1, <3>2, <3>3 DEF LatestIsHead
  <2>3. Chat!Take(typed')
    BY <1>2, <1>3 DEF Chat!Take
  <2> QED BY <1>2, <2>2, <2>3 DEF Chat!Next
<1>4. CASE UNCHANGED outgoing
  BY <1>2, <1>4, LatestKept DEF Chat!vars, LatestIsHead
<1> QED BY <1>2, <1>3, <1>4

LEMMA ChatStep ==
  ASSUME TypeOK, LatestIsHead, [Next]_vars
  PROVE  LatestIsHead' /\ [Chat!Next]_(Chat!vars)
<1>1. CASE Poll
  BY <1>1, ChatPoll
<1>2. CASE ReplyOk
  BY <1>2, ChatReplyOk
<1>3. CASE Say
  BY <1>3, ChatSay
<1>4. CASE AgentRestarts
  <2>1. /\ outgoing' = <<>> /\ latest' = <<>> /\ heard' = heard /\ lost' = lost
        /\ restarts' = restarts + 1 /\ pc' = "start"
    BY <1>4 DEF AgentRestarts, Goto
  <2>2. Chat!Restart
    BY <2>1 DEF Chat!Restart
  <2> QED BY <2>1, <2>2 DEF LatestIsHead, Chat!Next
<1>5. CASE /\ UNCHANGED chatVars
           /\ pc' # "reply" \/ (pc' = pc /\ UNCHANGED <<reply, copied>>)
  BY <1>5, LatestKept DEF Chat!vars, chatVars
<1>6. CASE ReadConfig \/ Register
  BY <1>5, <1>6 DEF chatVars, ReadConfig, Register, RegisterAnswered, RegisterFails, StoreMachine,
                    StoreSecret, Goto, NextRound, trayVars, serverVars, counters
<1>7. CASE ReplyNone \/ ReplyIdentity \/ ReplyRetired
  BY <1>5, <1>7 DEF chatVars, ReplyNone, ReplyIdentity, ReplyRetired, Goto, trayVars, serverVars, counters
<1>8. CASE IdleOver \/ BackoffOver
  BY <1>5, <1>8 DEF chatVars, IdleOver, BackoffOver, Goto, NextRound, serverVars, counters
<1>9. CASE Accept \/ Round \/ Beat \/ End
  BY <1>5, <1>9 DEF chatVars, Accept, Round, RoundClosed, RoundRefused, RoundBreaks, RoundServed,
                    InRound, Beat, End, Goto, NextRound, trayVars, serverVars, counters
<1>10. CASE TogglePause \/ Signal
  BY <1>5, <1>10 DEF chatVars, TogglePause, Signal, threadVars, serverVars, counters
<1>11. CASE DeveloperOpens \/ DeveloperCloses \/ ServerLoses
  BY <1>5, <1>11 DEF chatVars, DeveloperOpens, DeveloperCloses, ServerLoses, threadVars, trayVars,
                     counters
<1>12. CASE UNCHANGED vars
  BY <1>5, <1>12 DEF chatVars, vars, threadVars, trayVars, serverVars, counters
<1> QED BY <1>1, <1>2, <1>3, <1>4, <1>6, <1>7, <1>8, <1>9, <1>10, <1>11, <1>12
        DEF Next, Thread, Tray, Reply

\* The chat implements ChatQueue: whatever calls and replies are lost, a line that was
\* taken is neither skipped nor dropped before a check-in that offered it was answered,
\* and lost then only if no check-in had room for it (v9x_remote_poll, v9x_chat_send).
THEOREM ChatIsQueue == Spec => ChatDelivers
<1>1. Init => LatestIsHead /\ Chat!Init
  BY EmptySeq DEF Init, LatestIsHead, Chat!Init
<1>2. TypeOK /\ LatestIsHead /\ [Next]_vars => LatestIsHead' /\ [Chat!Next]_(Chat!vars)
  BY ChatStep
<1> QED BY <1>1, <1>2, TypeCorrect, PTL DEF Spec, ChatDelivers, Chat!Spec

-----------------------------------------------------------------------------
(***************************************************************************)
(* The thread knows what it has not sent.  An answered check-in told the   *)
(* server everything, or the thread has been woken since.                  *)
(***************************************************************************)
Woken == wake \/ signal
CurrentInv ==
  /\ IdleIsCurrent
  /\ pc = "reply" /\ reply.status = "ok" =>
       Woken \/ (Len(outgoing) = copied /\ told = paused)

\* A step that arrives at neither place.
LEMMA NotWaiting ==
  ASSUME pc' \notin {"idle", "reply"} PROVE CurrentInv'
BY DEF CurrentInv, IdleIsCurrent

\* A step that stays where it was, told the thread nothing new and took nothing back.
LEMMA StaysCurrent ==
  ASSUME CurrentInv, UNCHANGED <<pc, reply, copied, outgoing, told, paused, wake, signal>>
  PROVE  CurrentInv'
BY DEF CurrentInv, IdleIsCurrent, Woken

LEMMA WokenIsCurrent == ASSUME Woken' PROVE CurrentInv'
BY DEF CurrentInv, IdleIsCurrent, Woken

LEMMA CurrentPoll == ASSUME TypeOK, Poll PROVE CurrentInv'
<1>1. pc' = "reply" /\ UNCHANGED <<outgoing, paused>> /\ copied' = Len(outgoing)
  BY DEF Poll, PollAnswered, PollLost, Goto, trayVars
<1>2. reply'.status = "ok" => told' = paused
  BY DEF Poll, PollAnswered, PollLost, ServerAnswer, ServerHears, NoAnswer
<1> QED BY <1>1, <1>2 DEF CurrentInv, IdleIsCurrent

LEMMA CurrentReplyOk == ASSUME TypeOK, CurrentInv, ReplyOk PROVE CurrentInv'
<1>1. /\ reply.status = "ok" /\ pc = "reply" /\ pc' # "reply"
      /\ outgoing' = SubSeq(outgoing, copied + 1, Len(outgoing))
      /\ UNCHANGED <<told, paused, wake, signal>>
  BY DEF ReplyOk, Goto
<1>2. CASE Woken
  BY <1>1, <1>2, WokenIsCurrent DEF Woken
<1>3. CASE Len(outgoing) = copied /\ told = paused
  <2>1. outgoing' = <<>>
    <3>1. outgoing \in Seq(Line) /\ copied \in Nat
      BY DEF TypeOK
    <3>2. outgoing' = SubSeq(outgoing, copied + 1, copied)
      BY <1>1, <1>3
    <3>3. Len(outgoing') = 0 /\ outgoing' \in Seq(Line)
      BY <1>3, <3>1, <3>2, SubSeqProperties, LenProperties
    <3> QED BY <3>3, EmptySeq
  <2> QED BY <1>1, <1>3, <2>1 DEF CurrentInv, IdleIsCurrent
<1> QED BY <1>1, <1>2, <1>3 DEF CurrentInv

LEMMA CurrentStep == ASSUME TypeOK, CurrentInv, [Next]_vars PROVE CurrentInv'
<1>1. CASE Poll
  BY <1>1, CurrentPoll
<1>2. CASE ReplyOk
  BY <1>2, CurrentReplyOk
<1>3. CASE ReadConfig \/ Register \/ AgentRestarts
  BY <1>3, NotWaiting DEF ReadConfig, Register, RegisterAnswered, RegisterFails, StoreMachine,
       StoreSecret, AgentRestarts, Goto, NextRound
<1>4. CASE ReplyNone \/ ReplyIdentity \/ ReplyRetired \/ IdleOver \/ BackoffOver
  BY <1>4, NotWaiting DEF ReplyNone, ReplyIdentity, ReplyRetired, IdleOver, BackoffOver,
       Goto, NextRound
<1>5. CASE Accept \/ Round \/ Beat \/ End
  <2>1. pc' \notin {"idle", "reply"}
    BY <1>5 DEF Accept, Round, RoundClosed, RoundRefused, RoundBreaks, RoundServed, InRound,
         Beat, End, Goto, NextRound
  <2> QED BY <2>1, NotWaiting
<1>6. CASE Say \/ TogglePause \/ Signal
  <2>1. Woken'
    BY <1>6 DEF Say, TogglePause, Signal, Woken
  <2> QED BY <2>1, WokenIsCurrent
<1>7. CASE DeveloperOpens \/ DeveloperCloses \/ ServerLoses \/ UNCHANGED vars
  BY <1>7, StaysCurrent DEF DeveloperOpens, DeveloperCloses, ServerLoses, vars, threadVars,
       trayVars, serverVars
<1> QED BY <1>1, <1>2, <1>3, <1>4, <1>5, <1>6, <1>7 DEF Next, Thread, Tray, Reply

\* Whatever is lost and however often the agent restarts, the thread never sits out an
\* idle interval with a line to send or a switch the server has not been told of.
THEOREM NeverIdlesStale == Spec => []IdleIsCurrent
<1>1. Init => CurrentInv
  BY DEF Init, CurrentInv, IdleIsCurrent
<1>2. CurrentInv => IdleIsCurrent
  BY DEF CurrentInv
<1> QED BY <1>1, <1>2, CurrentStep, TypeCorrect, PTL DEF Spec
=============================================================================
