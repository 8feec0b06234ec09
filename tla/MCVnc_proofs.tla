------------------------------ MODULE MCVnc_proofs ------------------------------
(***************************************************************************)
(* WorkerOwnsFrame, ViewerMirrorsPrev and NothingStuck for screens of any  *)
(* width and depth, any viewers, and any number of events; WholeTexts and  *)
(* OnlyNews for any texts and any number of visits; and TilesArrive for    *)
(* tiles of any size and shape, any colours and any palettes.              *)
(***************************************************************************)
EXTENDS MCVnc, FiniteSetTheorems, SequenceTheorems, NaturalsInduction, WellFoundedInduction, TLAPS

\* Each part takes its own steps, and stands still in those of the others.
LEMMA PartSteps ==
  [VncNext]_<<vars, clipboard, tiles, part>> =>
    [Next]_vars /\ [Clip!Next]_clipboard /\ [Tiles!Next]_tiles
BY DEF VncNext

-----------------------------------------------------------------------------
(***************************************************************************)
(* The network thread and the worker                                       *)
(***************************************************************************)
Capturing == {"capture", "full", "sample", "suspects", "cursor", "foreground"}
Gone == {"stopped", "exited"}

-----------------------------------------------------------------------------
(***************************************************************************)
(* One job at a time.  The worker has it, or its event is set, or that of  *)
(* its end; and a job that replaces the frames is one the network thread   *)
(* waits for.                                                              *)
(***************************************************************************)
JobInv ==
  /\ {job_event, done_event} \subseteq BOOLEAN
  /\ job \in {"none", "capture", "init", "free"}
  /\ wk \in {"idle", "init", "free"} \cup Capturing
  /\ wk # "idle" => job # "none" /\ ~job_event /\ ~done_event
  /\ job_event => job # "none" /\ ~done_event
  /\ done_event => job # "none"
  /\ wk \in {"init", "free"} => job = wk
  /\ wk \in Capturing => job = "capture"
  /\ job \in {"init", "free"} => nt \in Running \cup {"exited"}

LEMMA JobInit == Init => JobInv
BY DEF Init, JobInv, Capturing, Running

\* A step that neither starts nor ends a job.
LEMMA JobStays ==
  ASSUME JobInv, UNCHANGED <<job, wk, job_event, done_event>>,
         nt \in Running => nt' \in Running \cup {"exited"}, nt = "exited" => nt' = "exited"
  PROVE  JobInv'
BY DEF JobInv, Running

LEMMA JobStep == JobInv /\ [Next]_vars => JobInv'
<1> SUFFICES ASSUME JobInv, [Next]_vars PROVE JobInv'
  OBVIOUS
<1> USE DEF network, worker
<1>1. CASE Machine
  <2>1. UNCHANGED <<network, worker>>
    BY <1>1 DEF Machine, Drawing, WindowMoves, CursorMoves, ShapeChanges, ModeChanges, Changes
  <2> QED BY <2>1, JobStays
<1>2. CASE \/ ViewerLeaves \/ StopSeen \/ SetEncodings \/ UpdateRequest \/ FullRequest \/ KeyEvent
           \/ StopRequested \/ Accept \/ Handshake \/ StopListening \/ GivesUp \/ Wedges \/ Unwedges
  <2>1. UNCHANGED <<job, wk, job_event, done_event>>
    BY <1>2 DEF ViewerLeaves, StopSeen, EndsSession, SetEncodings, UpdateRequest, FullRequest,
       KeyEvent, StopRequested, Accept, Handshake, StopListening, GivesUp, Wedges, Unwedges
  <2>2. /\ nt \in Running => nt' \in Running \cup {"exited"}
        /\ nt = "exited" => nt' = "exited"
    BY <1>2 DEF ViewerLeaves, StopSeen, EndsSession, EndSession, SetEncodings, UpdateRequest,
       FullRequest, KeyEvent, StopRequested, Accept, Handshake, StopListening, GivesUp, Wedges,
       Unwedges, Running
  <2> QED BY <2>1, <2>2, JobStays
<1>3. CASE WorkerTakes
  BY <1>3 DEF WorkerTakes, JobInv, Capturing, Running
<1>4. CASE BeginCapture \/ ReadFull \/ SampleRows \/ ReadSuspects \/ RecordCursor
           \/ RecordForeground \/ ReadFails \/ InitCapture \/ FreeCapture
  <2>1. /\ wk # "idle" /\ UNCHANGED <<network, job_event>>
        /\ \/ wk' = "idle" /\ done_event' = TRUE
           \/ wk \in Capturing /\ wk' \in Capturing /\ UNCHANGED done_event
    BY <1>4 DEF BeginCapture, ReadFull, SampleRows, ReadSuspects, RecordCursor,
       RecordForeground, ReadFails, InitCapture, FreeCapture, WorkerDone, Capturing
  <2>2. job # "none" /\ ~job_event /\ ~done_event
    BY <2>1 DEF JobInv
  <2>3. CASE wk' = "idle" /\ done_event' = TRUE
    BY <2>1, <2>2, <2>3 DEF JobInv, Capturing
  <2>4. CASE wk \in Capturing /\ wk' \in Capturing /\ UNCHANGED done_event
    BY <2>1, <2>2, <2>4 DEF JobInv, Capturing
  <2> QED BY <2>1, <2>3, <2>4
<1>5. CASE RunStart \/ Schedule
  <2>1. /\ job = "none" /\ job_event' = TRUE /\ UNCHANGED <<wk, done_event, nt>>
        /\ \/ job' = "capture"
           \/ job' \in {"init", "free"} /\ nt \in Running
    BY <1>5 DEF RunStart, Schedule, MayStart, Start, Wanted
  <2>2. wk = "idle" /\ ~done_event
    BY <2>1 DEF JobInv
  <2> QED BY <2>1, <2>2 DEF JobInv, Capturing
<1>6. CASE Drain \/ InitDone \/ ResizeDone \/ FreeDone \/ CaptureDone
  <2>1. job' = "none" /\ done_event /\ done_event' = FALSE /\ UNCHANGED <<wk, job_event>>
    BY <1>6 DEF Drain, InitDone, ResizeDone, FreeDone, CaptureDone, Collect
  <2> QED BY <2>1 DEF JobInv, Capturing
<1>7. CASE UNCHANGED vars
  BY <1>7, JobStays DEF vars, Running
<1> QED BY <1>1, <1>2, <1>3, <1>4, <1>5, <1>6, <1>7
        DEF Next, Viewer, NetworkStep, WorkerStep

\* While a job is given, taken or done and not yet collected, the network thread
\* keeps away from what vnc_worker reads and writes (vnc_job_start, vnc_job_poll).
THEOREM FrameOwned == VncSpec => []WorkerOwnsFrame
<1>1. VncInit => JobInv
  BY JobInit DEF VncInit
<1>2. JobInv => WorkerOwnsFrame
  BY DEF JobInv, WorkerOwnsFrame
<1> QED BY <1>1, <1>2, JobStep, PartSteps, PTL DEF VncSpec

-----------------------------------------------------------------------------
(***************************************************************************)
(* What a viewer holds down is known to be its own.                        *)
(***************************************************************************)
KeysInv ==
  /\ keys_down \subseteq {"key"} /\ held \subseteq keys_down
  /\ NothingStuck

LEMMA KeysStep == KeysInv /\ [Next]_vars => KeysInv'
<1> SUFFICES ASSUME KeysInv, [Next]_vars PROVE KeysInv'
  OBVIOUS
<1> USE DEF network, worker, client, KeysInv, NothingStuck
<1>1. CASE Machine
  BY <1>1 DEF Machine, Drawing, WindowMoves, CursorMoves, ShapeChanges, ModeChanges, Changes
<1>2. CASE WorkerStep \/ ReadFails \/ Wedges \/ Unwedges
  BY <1>2 DEF WorkerStep, WorkerTakes, BeginCapture, ReadFull, SampleRows, ReadSuspects,
     RecordCursor, RecordForeground, ReadFails, InitCapture, FreeCapture, Wedges, Unwedges
<1>3. CASE RunStart \/ Drain \/ InitDone \/ Handshake \/ StopListening \/ FreeDone \/ Schedule
  <2>1. UNCHANGED <<held, keys_down>> /\ (nt \in {"loop", "resize"} => nt' = nt)
    BY <1>3 DEF RunStart, Drain, InitDone, Handshake, StopListening, FreeDone, Schedule
  <2> QED BY <2>1
<1>4. CASE GivesUp \/ ViewerLeaves \/ StopSeen
  BY <1>4 DEF GivesUp, ViewerLeaves, StopSeen, EndsSession, EndSession, ReleaseAll
<1>5. CASE ResizeDone
  BY <1>5 DEF ResizeDone, EndSession, ReleaseAll
<1>6. CASE CaptureDone
  BY <1>6 DEF CaptureDone, EndSession, ReleaseAll, FrameSent
<1>7. CASE Accept
  BY <1>7 DEF Accept
<1>8. CASE SetEncodings \/ UpdateRequest \/ FullRequest \/ StopRequested
  BY <1>8 DEF SetEncodings, UpdateRequest, FullRequest, StopRequested
<1>9. CASE KeyEvent
  BY <1>9 DEF KeyEvent
<1>10. CASE UNCHANGED vars
  BY <1>10 DEF vars
<1> QED BY <1>1, <1>2, <1>3, <1>4, <1>5, <1>6, <1>7, <1>8, <1>9, <1>10
        DEF Next, Viewer, NetworkStep

\* Without a viewer no key that one pressed is down, also when the process ends
\* with its worker stuck (vnc_release_all).
THEOREM KeysReleased == VncSpec => []NothingStuck
<1>1. VncInit => KeysInv
  BY DEF VncInit, Init, KeysInv, NothingStuck
<1>2. KeysInv => NothingStuck
  BY DEF KeysInv
<1> QED BY <1>1, <1>2, KeysStep, PartSteps, PTL DEF VncSpec

-----------------------------------------------------------------------------
(***************************************************************************)
(* vnc_prev is what the viewer shows.  The two frames have one size; a     *)
(* session that has not begun owes a full frame; and frames are replaced   *)
(* only by jobs during which there is no loop (JobInv).                    *)
(***************************************************************************)
Sizes ==
  /\ \E w \in Nat : DOMAIN prev = 1 .. w /\ DOMAIN bits = 1 .. w
  /\ prev = [t \in DOMAIN prev |-> prev[t]]

MirrorInv ==
  /\ JobInv /\ Sizes /\ mode \in Nat
  /\ viewer = [frame |-> viewer.frame, shape |-> viewer.shape]
  /\ nt \in {"init", "handshake"} => full_wanted
  /\ nt = "loop" => /\ viewer.frame = [t \in DOMAIN prev |-> viewer.frame[t]]
                    /\ ~full_wanted => viewer.frame = prev

LEMMA Blanks ==
  ASSUME NEW w \in Nat
  PROVE  DOMAIN Blank(w) = 1 .. w /\ Blank(w) = [t \in 1 .. w |-> Blank(w)[t]]
BY DEF Blank

LEMMA BlankOfPrev ==
  ASSUME Sizes
  PROVE  LET b == Blank(Cardinality(DOMAIN prev)) IN b = [t \in DOMAIN prev |-> b[t]]
<1>1. PICK w \in Nat : DOMAIN prev = 1 .. w
  BY DEF Sizes
<1>2. Cardinality(1 .. w) = w
  BY FS_Interval
<1> QED BY <1>1, <1>2, Blanks

LEMMA MirrorInit == Init => MirrorInv
<1> SUFFICES ASSUME Init PROVE MirrorInv
  OBVIOUS
<1>1. Sizes
  BY Blanks DEF Init, Sizes
<1>2. mode \in Nat
  BY VncAssumption DEF Init
<1> QED BY <1>1, <1>2, JobInit DEF Init, MirrorInv, NoViewer

\* A step that leaves the frames alone and does not enter the loop.
LEMMA MirrorStays ==
  ASSUME MirrorInv, JobInv', UNCHANGED <<prev, viewer>>, DOMAIN bits' = DOMAIN bits, mode' \in Nat,
         nt' = "loop" => nt = "loop", full_wanted => full_wanted',
         nt' \in {"init", "handshake"} => full_wanted' \/ nt \in {"init", "handshake"}
  PROVE  MirrorInv'
BY DEF MirrorInv, Sizes

\* vnc_send_update: what the viewer makes of it is the new vnc_prev.
LEMMA SentIsPrev ==
  ASSUME MirrorInv, nt = "loop", FrameSent
  PROVE  /\ DOMAIN prev' = DOMAIN prev /\ prev' = [t \in DOMAIN prev' |-> prev'[t]]
         /\ viewer' = [frame |-> viewer'.frame, shape |-> viewer'.shape]
         /\ viewer'.frame = [t \in DOMAIN prev |-> viewer'.frame[t]]
         /\ ~full_wanted' => viewer'.frame = prev'
<1>1. PICK w \in Nat : DOMAIN prev = 1 .. w /\ DOMAIN bits = 1 .. w
  BY DEF MirrorInv, Sizes
<1>2. DOMAIN Moved = DOMAIN prev
  BY DEF Moved, CopyRect
<1>3. prev' = [t \in DOMAIN prev |-> IF t \in Changed THEN bits[t] ELSE Moved[t]]
  BY <1>2 DEF FrameSent, Overlay
<1>4. DOMAIN prev' = DOMAIN prev /\ prev' = [t \in DOMAIN prev' |-> prev'[t]]
  BY <1>3
<1>5. CASE Changed # {} \/ CopyPending \/ ShapeDue
  <2> DEFINE copied == IF CopyPending THEN CopyRect(viewer.frame) ELSE viewer.frame
  <2>1. DOMAIN viewer.frame = DOMAIN prev
    BY DEF MirrorInv
  <2>2. DOMAIN copied = DOMAIN prev
    BY <2>1 DEF CopyRect
  <2>3. /\ viewer'.frame = SendUpdate(viewer.frame, Changed, prev')
        /\ viewer' = [frame |-> viewer'.frame, shape |-> viewer'.shape]
    BY <1>5 DEF FrameSent
  <2>4. viewer'.frame = [t \in DOMAIN prev |-> IF t \in Changed THEN prev'[t] ELSE copied[t]]
    BY <2>2, <2>3 DEF SendUpdate, Overlay
  <2>5. CASE full_wanted
    <3>1. Changed = DOMAIN prev
      BY <1>1, <2>5 DEF Changed
    <3>2. viewer'.frame = [t \in DOMAIN prev |-> prev'[t]]
      BY <2>4, <3>1
    <3> QED BY <1>4, <2>3, <3>2
  <2>6. CASE ~full_wanted
    <3>1. copied = Moved
      BY <2>6 DEF MirrorInv, Moved
    <3>2. \A t \in DOMAIN prev : viewer'.frame[t] = prev'[t]
      BY <1>3, <2>4, <3>1
    <3>3. viewer'.frame = [t \in DOMAIN prev |-> viewer'.frame[t]]
      BY <2>4
    <3>4. viewer'.frame = prev'
      BY <1>4, <3>2, <3>3
    <3> QED BY <1>4, <2>3, <3>3, <3>4
  <2> QED BY <2>5, <2>6
<1>6. CASE ~(Changed # {} \/ CopyPending \/ ShapeDue)
  <2>1. UNCHANGED <<viewer, full_wanted>>
    BY <1>6 DEF FrameSent
  <2>2. prev' = prev
    BY <1>3, <1>6 DEF MirrorInv, Sizes, Moved
  <2> QED BY <1>4, <2>1, <2>2 DEF MirrorInv
<1> QED BY <1>5, <1>6

LEMMA MirrorStep == MirrorInv /\ [Next]_vars => MirrorInv'
<1> SUFFICES ASSUME MirrorInv, [Next]_vars PROVE MirrorInv'
  OBVIOUS
<1>0. JobInv'
  BY JobStep DEF MirrorInv
<1> USE DEF machine, network, worker, client, frame
<1>1. CASE Machine
  <2>1. UNCHANGED <<prev, viewer, bits, nt, full_wanted>>
    BY <1>1 DEF Machine, Drawing, WindowMoves, CursorMoves, ShapeChanges, ModeChanges, Changes
  <2>2. mode' \in Nat
    BY <1>1, VncAssumption DEF MirrorInv, Machine, Drawing, WindowMoves, CursorMoves,
       ShapeChanges, ModeChanges, Position
  <2> QED BY <1>0, <2>1, <2>2, MirrorStays
<1>2. CASE WorkerTakes \/ BeginCapture \/ ReadFull \/ SampleRows \/ ReadSuspects \/ RecordCursor
           \/ RecordForeground \/ ReadFails \/ Wedges \/ Unwedges
  <2>1. UNCHANGED <<prev, viewer, nt, full_wanted, mode>> /\ DOMAIN bits' = DOMAIN bits
    BY <1>2 DEF WorkerTakes, BeginCapture, ReadFull, SampleRows, ReadSuspects, RecordCursor,
       RecordForeground, ReadFails, Wedges, Unwedges
  <2> QED BY <1>0, <2>1, MirrorStays DEF MirrorInv
<1>3. CASE InitCapture \/ FreeCapture
  <2>1. wk \in {"init", "free"} /\ UNCHANGED <<viewer, nt, full_wanted, mode>>
    BY <1>3 DEF InitCapture, FreeCapture
  <2>2. nt # "loop"
    BY <2>1 DEF MirrorInv, JobInv, Running
  <2>3. \E w \in Nat : prev' = Blank(w) /\ bits' = Blank(w)
    BY <1>3 DEF InitCapture, FreeCapture, MirrorInv
  <2>4. Sizes'
    BY <2>3, Blanks DEF Sizes
  <2> QED BY <1>0, <2>1, <2>2, <2>4 DEF MirrorInv
<1>4. CASE RunStart \/ Drain \/ InitDone \/ StopListening \/ FreeDone \/ Schedule
           \/ UpdateRequest \/ StopRequested \/ KeyEvent
  <2>1. UNCHANGED <<prev, viewer, bits, mode, full_wanted>>
    BY <1>4 DEF RunStart, Drain, InitDone, StopListening, FreeDone, Schedule, UpdateRequest,
       StopRequested, KeyEvent
  <2>2. /\ nt' = "loop" => nt = "loop"
        /\ nt' \in {"init", "handshake"} => nt \in {"init", "handshake"}
    BY <1>4 DEF RunStart, Drain, InitDone, StopListening, FreeDone, Schedule, UpdateRequest,
       StopRequested, KeyEvent
  <2> QED BY <1>0, <2>1, <2>2, MirrorStays DEF MirrorInv
<1>5. CASE GivesUp \/ ViewerLeaves \/ StopSeen
  <2>1. UNCHANGED <<prev, bits, mode>> /\ nt' \in {"exited", "listen"} /\ viewer' = NoViewer
    BY <1>5 DEF GivesUp, ViewerLeaves, StopSeen, EndsSession, EndSession
  <2> QED BY <1>0, <2>1 DEF MirrorInv, Sizes, NoViewer
<1>6. CASE Handshake
  <2>1. UNCHANGED <<prev, bits, mode>> /\ nt = "handshake"
    BY <1>6 DEF Handshake
  <2>2. CASE nt' = "loop"
    <3>1. /\ viewer' = [frame |-> Blank(Cardinality(DOMAIN prev)), shape |-> "none"]
          /\ full_wanted'
      BY <1>6, <2>2 DEF Handshake, Chooses, MirrorInv
    <3> QED BY <1>0, <2>1, <2>2, <3>1, BlankOfPrev DEF MirrorInv, Sizes
  <2>3. CASE nt' # "loop"
    <3>1. UNCHANGED viewer /\ nt' = "listen"
      BY <1>6, <2>3 DEF Handshake
    <3> QED BY <1>0, <2>1, <3>1 DEF MirrorInv, Sizes
  <2> QED BY <2>2, <2>3
<1>7. CASE ResizeDone
  <2>1. UNCHANGED <<prev, bits, mode>>
    BY <1>7 DEF ResizeDone
  <2>2. CASE job_result = "done"
    <3>1. /\ viewer' = [viewer EXCEPT !.frame = Blank(Cardinality(DOMAIN prev))]
          /\ full_wanted' /\ nt' = "loop"
      BY <1>7, <2>2 DEF ResizeDone
    <3>2. viewer' = [frame |-> Blank(Cardinality(DOMAIN prev)), shape |-> viewer.shape]
      BY <3>1 DEF MirrorInv
    <3> QED BY <1>0, <2>1, <3>1, <3>2, BlankOfPrev DEF MirrorInv, Sizes
  <2>3. CASE job_result # "done"
    <3>1. viewer' = NoViewer /\ nt' = "listen"
      BY <1>7, <2>3 DEF ResizeDone, EndSession
    <3> QED BY <1>0, <2>1, <3>1 DEF MirrorInv, Sizes, NoViewer
  <2> QED BY <2>2, <2>3
<1>8. CASE CaptureDone
  <2>1. UNCHANGED <<bits, mode>> /\ nt = "loop"
    BY <1>8 DEF CaptureDone
  <2>2. CASE FrameSent
    <3>1. UNCHANGED nt
      BY <2>2 DEF FrameSent
    <3> QED BY <1>0, <2>1, <2>2, <3>1, SentIsPrev DEF MirrorInv, Sizes
  <2>3. CASE EndSession /\ UNCHANGED <<prev, full_wanted>>
    BY <1>0, <2>1, <2>3 DEF EndSession, MirrorInv, Sizes, NoViewer
  <2>4. CASE nt' \in {nt, "resize"} /\ UNCHANGED <<prev, viewer, full_wanted>>
    BY <1>0, <2>1, <2>4, MirrorStays DEF MirrorInv
  <2> QED BY <1>8, <2>2, <2>3, <2>4 DEF CaptureDone
<1>9. CASE SetEncodings \/ FullRequest \/ Accept
  <2>1. UNCHANGED <<prev, viewer, bits, mode>> /\ nt' \in {nt, "init"}
    BY <1>9 DEF SetEncodings, FullRequest, Accept
  <2>2. full_wanted => full_wanted'
    BY <1>9 DEF SetEncodings, Chooses, FullRequest, Accept
  <2>3. nt' \in {"init", "handshake"} => full_wanted'
    BY <1>9 DEF SetEncodings, FullRequest, Accept
  <2> QED BY <1>0, <2>1, <2>2, <2>3, MirrorStays DEF MirrorInv
<1>10. CASE UNCHANGED vars
  BY <1>0, <1>10, MirrorStays DEF vars, MirrorInv
<1> QED BY <1>1, <1>2, <1>3, <1>4, <1>5, <1>6, <1>7, <1>8, <1>9, <1>10
        DEF Next, Viewer, NetworkStep, WorkerStep

\* Between frames vnc_prev is what the viewer shows, whatever was copied, sent, resized
\* or asked for in between, unless a full frame is owed (vnc_send_update, vnc_serve).
THEOREM PrevIsShown == VncSpec => []ViewerMirrorsPrev
<1>1. VncInit => MirrorInv
  BY MirrorInit DEF VncInit
<1>2. MirrorInv => ViewerMirrorsPrev
  BY DEF MirrorInv, ViewerMirrorsPrev
<1> QED BY <1>1, <1>2, MirrorStep, PartSteps, PTL DEF VncSpec

-----------------------------------------------------------------------------
(***************************************************************************)
(* The clipboard                                                           *)
(***************************************************************************)
Copies == [text : Text \cup {Clip!NoText}, by : 0 .. Clip!FromViewer, news : BOOLEAN]

\* The types that matter, without the bound on events.
ClipType ==
  /\ visit \in 0 .. MaxVisits /\ look \in 0 .. visit
  /\ cells \in [1 .. 2 -> Text \cup {Clip!NoText}] /\ in_buf \in {1, 2}
  /\ out \in Copies /\ board \in Copies

-----------------------------------------------------------------------------
(***************************************************************************)
(* No buffer has two users.  The clipboard thread keeps the text that came *)
(* in until it clears in_ready, and fills the text that goes out only      *)
(* while out_ready is clear, which it sets when it is done with it.        *)
(***************************************************************************)
BuffersInv ==
  /\ ClipType
  /\ Clip!WholeTexts
  /\ ct = "decide" => ~out_ready

LEMMA BuffersInit == ASSUME MaxVisits \in Nat, Clip!Init PROVE BuffersInv
<1>1. 0 \in 0 .. Clip!FromViewer
  BY DEF Clip!FromViewer
<1>2. Clip!Nothing \in Copies
  BY <1>1 DEF Clip!Nothing, Clip!Copy, Copies
<1>3. \A t \in Text \cup {Clip!NoText} : Clip!Copy(t, 0, FALSE) \in Copies
  BY <1>1 DEF Clip!Copy, Copies
<1>4. out \in Copies /\ board \in Copies
  BY <1>2, <1>3 DEF Clip!Init
<1>5. visit \in 0 .. MaxVisits /\ look \in 0 .. visit /\ in_buf \in {1, 2}
  BY DEF Clip!Init
<1>6. cells \in [1 .. 2 -> Text \cup {Clip!NoText}]
  BY DEF Clip!Init
<1> QED BY <1>4, <1>5, <1>6 DEF Clip!Init, BuffersInv, ClipType, Clip!WholeTexts

LEMMA TypeStep == ASSUME MaxVisits \in Nat, ClipType, [Clip!Next]_clipboard PROVE ClipType'
<1> USE DEF Clip!netvars, Clip!clipvars, ClipType
<1>1. CASE Clip!Turn \/ Clip!Apply
  BY <1>1 DEF Clip!Turn, Clip!Apply
<1>2. CASE Clip!Put
  BY <1>2 DEF Clip!Put, Copies, Clip!Copy, Clip!FromViewer
<1>3. CASE Clip!PutFails \/ Clip!Note
  BY <1>3 DEF Clip!PutFails, Clip!Note
<1>4. CASE Clip!Look
  BY <1>4 DEF Clip!Look
<1>5. CASE Clip!Read
  BY <1>5 DEF Clip!Read
<1>6. CASE Clip!Decide
  BY <1>6 DEF Clip!Decide
<1>7. CASE Clip!Connect
  BY <1>7 DEF Clip!Connect
<1>8. CASE Clip!Handshake \/ Clip!Disconnect
  BY <1>8 DEF Clip!Handshake, Clip!Disconnect
<1>9. CASE Clip!ViewerText
  BY <1>9 DEF Clip!ViewerText
<1>10. CASE Clip!HandOver \/ Clip!SendCut \/ Clip!CutSent
  BY <1>10 DEF Clip!HandOver, Clip!SendCut, Clip!CutSent
<1>11. CASE Clip!LocalCopy
  <2>1. PICK t \in Text \cup {Clip!NoText}, n \in BOOLEAN : board' = Clip!Copy(t, visit, n)
    BY <1>11 DEF Clip!LocalCopy
  <2>2. board' \in Copies
    BY <2>1 DEF Copies, Clip!Copy, Clip!FromViewer
  <2> QED BY <1>11, <2>2 DEF Clip!LocalCopy
<1>12. CASE UNCHANGED clipboard
  BY <1>12 DEF clipboard
<1> QED BY <1>1, <1>2, <1>3, <1>4, <1>5, <1>6, <1>7, <1>8, <1>9, <1>10, <1>11, <1>12
        DEF Clip!Next, Clip!ClipThread, Clip!NetThread

LEMMA BuffersStep == ASSUME MaxVisits \in Nat, BuffersInv, [Clip!Next]_clipboard PROVE BuffersInv'
<1>1. ClipType'
  BY TypeStep DEF BuffersInv
<1> USE DEF Clip!netvars, Clip!clipvars, BuffersInv, ClipType, Clip!WholeTexts, Clip!ClipGoto
<1>2. CASE Clip!Turn
  BY <1>1, <1>2 DEF Clip!Turn
<1>3. CASE Clip!Apply
  BY <1>1, <1>3 DEF Clip!Apply
<1>4. CASE Clip!Put
  BY <1>1, <1>4 DEF Clip!Put
<1>5. CASE Clip!PutFails
  BY <1>1, <1>5 DEF Clip!PutFails
<1>6. CASE Clip!Note
  BY <1>1, <1>6 DEF Clip!Note
<1>7. CASE Clip!Look
  BY <1>1, <1>7 DEF Clip!Look
<1>8. CASE Clip!Read
  BY <1>1, <1>8 DEF Clip!Read
<1>9. CASE Clip!Decide
  BY <1>1, <1>9 DEF Clip!Decide
<1>10. CASE Clip!Connect
  BY <1>1, <1>10 DEF Clip!Connect
<1>11. CASE Clip!Handshake \/ Clip!Disconnect
  BY <1>1, <1>11 DEF Clip!Handshake, Clip!Disconnect
<1>12. CASE Clip!ViewerText
  <2>1. cells'[in_buf] = cells[in_buf]
    BY <1>12 DEF Clip!ViewerText
  <2> QED BY <1>1, <1>12, <2>1 DEF Clip!ViewerText
<1>13. CASE Clip!HandOver
  BY <1>1, <1>13 DEF Clip!HandOver
<1>14. CASE Clip!SendCut \/ Clip!CutSent
  BY <1>1, <1>14 DEF Clip!SendCut, Clip!CutSent
<1>15. CASE Clip!LocalCopy
  BY <1>1, <1>15 DEF Clip!LocalCopy
<1>16. CASE UNCHANGED clipboard
  BY <1>1, <1>16 DEF clipboard
<1> QED BY <1>2, <1>3, <1>4, <1>5, <1>6, <1>7, <1>8, <1>9, <1>10, <1>11, <1>12, <1>13,
           <1>14, <1>15, <1>16 DEF Clip!Next, Clip!ClipThread, Clip!NetThread

\* "No buffer is ever touched by two threads at once" (vnc.c, above the clipboard's
\* variables): a text stays whole while it is put on the clipboard or sent.
THEOREM TextsWhole == VncSpec => []WholeTexts
<1>1. VncInit => BuffersInv
  BY VisitsAssumption, BuffersInit DEF VncInit
<1>2. BuffersInv /\ [Clip!Next]_clipboard => BuffersInv'
  BY VisitsAssumption, BuffersStep
<1>3. BuffersInv => WholeTexts
  BY DEF BuffersInv, WholeTexts
<1> QED BY <1>1, <1>2, <1>3, PartSteps, PTL DEF VncSpec

-----------------------------------------------------------------------------
(***************************************************************************)
(* What is sent is news.  FromThem says that a text of the viewer on the   *)
(* clipboard is the one noted last, save between its being put there and   *)
(* its being noted.  Seen says that once a session has had its first look, *)
(* what is on the clipboard was noted or copied since the viewer came.     *)
(***************************************************************************)
Fresh(copy) == copy.by = visit \/ copy.text = hash

FromThem ==
  /\ board.by = Clip!FromViewer => board.text = (IF ct = "note" THEN cells[in_buf] ELSE hash)
  /\ ct = "decide" /\ board.by = Clip!FromViewer => out = board
  /\ ct = "decide" /\ out.by = Clip!FromViewer => out.text = hash

Seen ==
  /\ primed /\ ~reset /\ ct # "note" => Fresh(board)
  /\ ct = "note" /\ ~reset => board.by = visit \/ board.text = cells[in_buf]
  /\ ct = "decide" /\ ~reset => board.by = visit \/ out.text = board.text
  /\ ct \in {"read", "decide"} /\ look = visit => ~reset
  /\ ct = "decide" /\ primed /\ look = visit => Fresh(out)

NewsInv ==
  /\ BuffersInv /\ FromThem /\ Seen
  /\ out_ready => out.by # Clip!FromViewer /\ (found = visit => out.by = visit)
  /\ found \in 0 .. visit

LEMMA NewsInit == ASSUME MaxVisits \in Nat, Clip!Init PROVE NewsInv
<1>1. BuffersInv
  BY BuffersInit
<1> QED BY <1>1 DEF Clip!Init, NewsInv, FromThem, Seen, Fresh, Clip!Copy, Clip!Nothing,
    Clip!FromViewer

LEMMA NewsStep == ASSUME MaxVisits \in Nat, NewsInv, [Clip!Next]_clipboard PROVE NewsInv'
<1>1. BuffersInv'
  BY BuffersStep DEF NewsInv
<1> USE DEF Clip!netvars, Clip!clipvars, NewsInv, FromThem, Seen, Fresh, Clip!ClipGoto, BuffersInv,
            ClipType
<1>2. CASE Clip!Turn
  BY <1>1, <1>2 DEF Clip!Turn
<1>3. CASE Clip!Apply
  BY <1>1, <1>3 DEF Clip!Apply
<1>4. CASE Clip!Put
  BY <1>1, <1>4 DEF Clip!Put, Clip!Copy
<1>5. CASE Clip!PutFails
  BY <1>1, <1>5 DEF Clip!PutFails
<1>6. CASE Clip!Note
  BY <1>1, <1>6 DEF Clip!Note
<1>7. CASE Clip!Look
  BY <1>1, <1>7 DEF Clip!Look
<1>8. CASE Clip!Read
  BY <1>1, <1>8 DEF Clip!Read
<1>9. CASE Clip!Decide
  BY <1>1, <1>9 DEF Clip!Decide
<1>10. CASE Clip!Connect
  BY <1>1, <1>10 DEF Clip!Connect
<1>11. CASE Clip!Handshake \/ Clip!Disconnect
  BY <1>1, <1>11 DEF Clip!Handshake, Clip!Disconnect
<1>12. CASE Clip!ViewerText
  <2>1. cells'[in_buf] = cells[in_buf]
    BY <1>12 DEF Clip!ViewerText
  <2> QED BY <1>1, <1>12, <2>1 DEF Clip!ViewerText
<1>13. CASE Clip!HandOver
  BY <1>1, <1>13 DEF Clip!HandOver, Clip!WholeTexts
<1>14. CASE Clip!SendCut \/ Clip!CutSent
  BY <1>1, <1>14 DEF Clip!SendCut, Clip!CutSent
<1>15. CASE Clip!LocalCopy
  <2>1. PICK t \in Text \cup {Clip!NoText}, n \in BOOLEAN : board' = Clip!Copy(t, visit, n)
    BY <1>15 DEF Clip!LocalCopy
  <2>2. board'.by = visit /\ visit # Clip!FromViewer
    BY <2>1 DEF Clip!Copy, Clip!FromViewer
  <2> QED BY <1>1, <1>15, <2>2 DEF Clip!LocalCopy
<1>16. CASE UNCHANGED clipboard
  BY <1>1, <1>16 DEF clipboard
<1> QED BY <1>2, <1>3, <1>4, <1>5, <1>6, <1>7, <1>8, <1>9, <1>10, <1>11, <1>12, <1>13,
           <1>14, <1>15, <1>16 DEF Clip!Next, Clip!ClipThread, Clip!NetThread

\* The viewer is never sent its own text again, nor, by a look that began in its
\* session, what was on the clipboard before (vnc_clip_poll_out).
THEOREM NewsOnly == VncSpec => []OnlyNews
<1>1. VncInit => NewsInv
  BY VisitsAssumption, NewsInit DEF VncInit
<1>2. NewsInv /\ [Clip!Next]_clipboard => NewsInv'
  BY VisitsAssumption, NewsStep
<1>3. NewsInv => OnlyNews
  BY DEF NewsInv, BuffersInv, Clip!WholeTexts, Clip!OnlyNews, OnlyNews
<1> QED BY <1>1, <1>2, <1>3, PartSteps, PTL DEF VncSpec

-----------------------------------------------------------------------------
(***************************************************************************)
(* The tiles.  Hextile leaves a colour out of a tile when the server takes *)
(* the viewer to have it from the tile before.                             *)
(***************************************************************************)
ColoursAgree ==
  /\ enc = [bg |-> enc.bg, fg |-> enc.fg] /\ dec = [bg |-> dec.bg, fg |-> dec.fg]
  /\ enc.bg # Tiles!NoColour => dec.bg = enc.bg
  /\ enc.fg # Tiles!NoColour => dec.fg = enc.fg

\* What the viewer keeps of a tile's colours, and the server of those it sent.
LEMMA ViewerColours ==
  ASSUME NEW msg, NEW places
  PROVE  Tiles!ShowHextile(msg, places).dec =
           IF msg.raw THEN Tiles!Fresh
           ELSE [bg |-> IF msg.bg # Tiles!NoColour THEN msg.bg ELSE dec.bg,
                 fg |-> IF msg.coloured THEN Tiles!NoColour
                        ELSE IF msg.fg # Tiles!NoColour THEN msg.fg ELSE dec.fg]
<1>1. CASE msg.raw
  BY <1>1 DEF Tiles!ShowHextile
<1>2. CASE ~msg.raw
  BY <1>2 DEF Tiles!ShowHextile
<1> QED BY <1>1, <1>2

LEMMA ServerColours ==
  ASSUME NEW t
  PROVE  \E bg, fg :
           LET e == Tiles!HextileTile(t) IN
           \/ e.msg.raw /\ e.enc = Tiles!Fresh
           \/ /\ ~e.msg.raw /\ ~e.msg.coloured /\ e.msg.bg = Tiles!Specify(bg, enc.bg)
              /\ e.msg.fg = Tiles!NoColour /\ e.enc = [enc EXCEPT !.bg = bg]
           \/ /\ ~e.msg.raw /\ ~e.msg.coloured /\ e.msg.bg = Tiles!Specify(bg, enc.bg)
              /\ e.msg.fg = Tiles!Specify(fg, enc.fg) /\ e.enc = [bg |-> bg, fg |-> fg]
           \/ /\ ~e.msg.raw /\ e.msg.coloured /\ e.msg.bg = Tiles!Specify(bg, enc.bg)
              /\ e.msg.fg = Tiles!NoColour /\ e.enc = [bg |-> bg, fg |-> Tiles!NoColour]
<1> DEFINE bg == Tiles!Background(t)
           n  == Tiles!Cardinality(Tiles!Colours(t))
           fg == IF n = 2 THEN CHOOSE c \in Tiles!Colours(t) : c # bg ELSE Tiles!NoColour
           e  == Tiles!HextileTile(t)
<1>1. CASE n = 1
  <2>1. /\ e.msg.raw = FALSE /\ e.msg.coloured = FALSE /\ e.msg.bg = Tiles!Specify(bg, enc.bg)
        /\ e.msg.fg = Tiles!NoColour /\ e.enc = [enc EXCEPT !.bg = bg]
    BY <1>1 DEF Tiles!HextileTile
  <2> QED BY <2>1
<1>2. CASE n > 1 /\ Tiles!TooMany(t, Tiles!Subrects(t, bg), n = 2)
  <2>1. e.msg.raw = TRUE /\ e.enc = Tiles!Fresh
    BY <1>2 DEF Tiles!HextileTile, Tiles!RawTile
  <2> QED BY <2>1
<1>3. CASE n # 1 /\ ~(n > 1 /\ Tiles!TooMany(t, Tiles!Subrects(t, bg), n = 2))
  <2>1. /\ e.msg.raw = FALSE /\ e.msg.coloured = (n # 2)
        /\ e.msg.bg = Tiles!Specify(bg, enc.bg) /\ e.enc = [bg |-> bg, fg |-> fg]
        /\ e.msg.fg = IF n = 2 THEN Tiles!Specify(fg, enc.fg) ELSE Tiles!NoColour
    BY <1>3 DEF Tiles!HextileTile
  <2>2. CASE n = 2
    BY <2>1, <2>2
  <2>3. CASE n # 2
    BY <2>1, <2>3
  <2> QED BY <2>2, <2>3
<1> QED BY <1>1, <1>2, <1>3

LEMMA ColoursStep == ColoursAgree /\ [Tiles!Next]_tiles => ColoursAgree'
<1> SUFFICES ASSUME ColoursAgree, [Tiles!Next]_tiles PROVE ColoursAgree'
  OBVIOUS
<1> USE DEF ColoursAgree, Tiles!Fresh
<1>1. CASE Tiles!Rectangle
  BY <1>1 DEF Tiles!Rectangle
<1>2. ASSUME NEW t \in Tiles!Tile, Tiles!SendHextile(t) PROVE ColoursAgree'
  <2> DEFINE e == Tiles!HextileTile(t)
             d == Tiles!ShowHextile(e.msg, DOMAIN t)
  <2>1. enc' = e.enc /\ dec' = d.dec
    BY <1>2 DEF Tiles!SendHextile
  <2>2. d.dec = IF e.msg.raw THEN Tiles!Fresh
                ELSE [bg |-> IF e.msg.bg # Tiles!NoColour THEN e.msg.bg ELSE dec.bg,
                      fg |-> IF e.msg.coloured THEN Tiles!NoColour
                             ELSE IF e.msg.fg # Tiles!NoColour THEN e.msg.fg ELSE dec.fg]
    BY ViewerColours
  <2> HIDE DEF e, d
  <2>3. PICK bg, fg :
          \/ e.msg.raw /\ e.enc = Tiles!Fresh
          \/ /\ ~e.msg.raw /\ ~e.msg.coloured /\ e.msg.bg = Tiles!Specify(bg, enc.bg)
             /\ e.msg.fg = Tiles!NoColour /\ e.enc = [enc EXCEPT !.bg = bg]
          \/ /\ ~e.msg.raw /\ ~e.msg.coloured /\ e.msg.bg = Tiles!Specify(bg, enc.bg)
             /\ e.msg.fg = Tiles!Specify(fg, enc.fg) /\ e.enc = [bg |-> bg, fg |-> fg]
          \/ /\ ~e.msg.raw /\ e.msg.coloured /\ e.msg.bg = Tiles!Specify(bg, enc.bg)
             /\ e.msg.fg = Tiles!NoColour /\ e.enc = [bg |-> bg, fg |-> Tiles!NoColour]
    BY ServerColours DEF e
  <2> QED BY <2>1, <2>2, <2>3 DEF Tiles!Specify
<1>3. ASSUME NEW t \in Tiles!Tile, Tiles!SendZrle(t) PROVE ColoursAgree'
  BY <1>3 DEF Tiles!SendZrle
<1>4. CASE Tiles!Drawn
  BY <1>4 DEF Tiles!Drawn
<1>5. CASE UNCHANGED tiles
  BY <1>5 DEF tiles
<1> QED BY <1>1, <1>2, <1>3, <1>4, <1>5 DEF Tiles!Next

\* A colour that the server holds vnc_hex_bg or vnc_hex_fg to be valid for, and so leaves
\* out of a tile, is the one the viewer has from the tiles before (vnc_encode_hextile_tile).
THEOREM ColoursKept == VncSpec => []ColoursAgree
<1>1. VncInit => ColoursAgree
  BY DEF VncInit, Tiles!Init, ColoursAgree, Tiles!Fresh
<1> QED BY <1>1, ColoursStep, PartSteps, PTL DEF VncSpec

-----------------------------------------------------------------------------
(***************************************************************************)
(* What the viewer makes of a tile.  The tiles are packed a pixel, a run   *)
(* or a byte at a time, by recursive functions.  What holds at the start   *)
(* and is kept by every step holds at the end (Upwards), for a set of      *)
(* steps: it follows from there being a least one outside of the set.      *)
(***************************************************************************)
LEMMA LeastNat ==
  ASSUME NEW T \in SUBSET Nat, T # {}
  PROVE  \E x \in T : \A y \in T : x <= y
<1> DEFINE R == {ss \in Nat \X Nat : ss[1] < ss[2]}
<1>1. IsWellFoundedOn(R, Nat)
  BY NatLessThanWellFounded DEF OpToRel
<1>2. \E x \in T : \A y \in T : ~(<<y, x>> \in R)
  <2> HIDE DEF R
  <2> QED BY <1>1, WFMin, Zenon
<1>3. PICK x \in T : \A y \in T : ~(<<y, x>> \in R)
  BY <1>2
<1>4. ASSUME NEW y \in T PROVE x <= y
  <2>1. x \in Nat /\ y \in Nat /\ <<y, x>> \in Nat \X Nat
    OBVIOUS
  <2>2. <<y, x>>[1] = y /\ <<y, x>>[2] = x
    OBVIOUS
  <2>3. ~(y < x)
    BY <1>3, <2>1, <2>2
  <2> QED BY <2>1, <2>3
<1> QED BY <1>4

\* From 0 up to n, a step at a time.
LEMMA Upwards ==
  ASSUME NEW n \in Nat, NEW S, 0 \in S, \A i \in 1 .. n : i - 1 \in S => i \in S
  PROVE  0 .. n \subseteq S
<1> DEFINE T == (0 .. n) \ S
<1>1. SUFFICES ASSUME T # {} PROVE FALSE
  OBVIOUS
<1>2. PICK i \in T : \A j \in T : i <= j
  <2>1. T \in SUBSET Nat
    OBVIOUS
  <2> HIDE DEF T
  <2> QED BY <1>1, <2>1, LeastNat
<1>3. i \in 1 .. n /\ i - 1 \in 0 .. n /\ i - 1 \notin T
  BY <1>2
<1> QED BY <1>2, <1>3

\* A recursive function has its values.
Unfolds(f, A, base, n, F) ==
  f \in [0 .. n -> A] /\ f[0] = base /\ \A i \in 1 .. n : f[i] = F[<<f[i - 1], i>>]
LEMMA Recursion ==
  ASSUME NEW A, NEW base \in A, NEW n \in Nat, NEW F \in [A \X (1 .. n) -> A]
  PROVE  \E f : Unfolds(f, A, base, n, F)
<1> USE DEF Unfolds
<1> DEFINE Is(f, m) == Unfolds(f, A, base, m, F)
           S == {m \in 0 .. n : \E f : Is(f, m)}
<1>1. 0 \in S
  <2>1. Is([i \in 0 .. 0 |-> base], 0)
    OBVIOUS
  <2> HIDE DEF Unfolds
  <2>2. \E f : Is(f, 0)
    BY <2>1, Zenon
  <2> HIDE DEF Is
  <2> QED BY <2>2
<1>2. ASSUME NEW m \in 1 .. n, m - 1 \in S PROVE m \in S
  <2>1. PICK f : Is(f, m - 1)
    BY <1>2
  <2> DEFINE last == F[<<f[m - 1], m>>]
             g == [i \in 0 .. m |-> IF i = m THEN last ELSE f[i]]
  <2>2. f \in [0 .. m - 1 -> A] /\ m - 1 \in 0 .. m - 1
    BY <2>1
  <2>3. last \in A
    BY <2>2
  <2>4. g \in [0 .. m -> A] /\ g[0] = base
    BY <2>1, <2>2, <2>3
  <2>5. ASSUME NEW i \in 1 .. m PROVE g[i] = F[<<g[i - 1], i>>]
    <3>1. CASE i = m
      <4>1. m - 1 # m /\ m - 1 \in 0 .. m
        OBVIOUS
      <4>2. g[m] = last /\ g[m - 1] = f[m - 1]
        BY <4>1
      <4> QED BY <3>1, <4>2
    <3>2. CASE i # m
      <4>1. i \in 1 .. m - 1 /\ i - 1 \in 0 .. m - 1 /\ i - 1 # m
        BY <3>2
      <4>2. g[i] = f[i] /\ g[i - 1] = f[i - 1]
        BY <3>2, <4>1
      <4> QED BY <2>1, <4>1, <4>2
    <3> QED BY <3>1, <3>2
  <2> HIDE DEF g
  <2>6. Is(g, m)
    BY <2>4, <2>5
  <2> HIDE DEF Unfolds
  <2>7. \E e : Is(e, m)
    BY <2>6, Zenon
  <2> HIDE DEF Is
  <2> QED BY <2>7
<1>3. 0 .. n \subseteq S
  <2> HIDE DEF S
  <2> QED BY <1>1, <1>2, Upwards
<1> HIDE DEF Unfolds
<1> QED BY <1>3

\* A set of numbers that has a bound has a greatest one; and a least one if that bounds it.
LEMMA MaxIs ==
  ASSUME NEW S, NEW b \in Int, S \subseteq Int, S # {}, \A s \in S : s <= b
  PROVE  Tiles!Max(S) \in S /\ \A s \in S : s <= Tiles!Max(S)
<1> DEFINE T == {b - s : s \in S}
<1>1. T \in SUBSET Nat /\ T # {}
  <2>1. \A s \in S : b - s \in Nat
    OBVIOUS
  <2> QED BY <2>1
<1>2. PICK d \in T : \A e \in T : d <= e
  BY <1>1, LeastNat
<1>3. PICK m \in S : d = b - m
  OBVIOUS
<1>4. \A s \in S : m >= s
  BY <1>2, <1>3
<1> QED BY <1>4 DEF Tiles!Max

LEMMA MinIs ==
  ASSUME NEW S, S \subseteq Nat, S # {}
  PROVE  Tiles!Min(S) \in S /\ \A s \in S : Tiles!Min(S) <= s
<1>1. \E m \in S : \A s \in S : m <= s
  BY LeastNat
<1> QED BY <1>1 DEF Tiles!Min

-----------------------------------------------------------------------------
(***************************************************************************)
(* A tile and its places, row by row.                                      *)
(***************************************************************************)
Wide(t) == Tiles!Width(t)
High(t) == Tiles!Height(t)

LEMMA Shapes ==
  ASSUME NEW t \in Tiles!Tile
  PROVE  /\ Wide(t) \in Nat \ {0} /\ High(t) \in Nat \ {0} /\ Wide(t) * High(t) = TileArea
         /\ DOMAIN t = (0 .. Wide(t) - 1) \X (0 .. High(t) - 1)
         /\ t \in [DOMAIN t -> Ink]
<1>1. PICK dims \in Tiles!Shape : t \in [(0 .. dims[1] - 1) \X (0 .. dims[2] - 1) -> Ink]
  BY DEF Tiles!Tile
<1> DEFINE w == dims[1]
           h == dims[2]
<1>2. w \in Nat \ {0} /\ h \in Nat \ {0} /\ w * h = TileArea
  BY TilesAssumption DEF Tiles!Shape
<1>3. DOMAIN t = (0 .. w - 1) \X (0 .. h - 1) /\ t \in [DOMAIN t -> Ink]
  BY <1>1
<1> HIDE DEF w, h
<1>4. {p[1] : p \in DOMAIN t} = 0 .. w - 1
  <2>1. ASSUME NEW x \in 0 .. w - 1 PROVE x \in {p[1] : p \in DOMAIN t}
    <3>1. <<x, 0>> \in DOMAIN t /\ <<x, 0>>[1] = x
      BY <1>2, <1>3
    <3> QED BY <3>1
  <2> QED BY <1>3, <2>1
<1>5. {p[2] : p \in DOMAIN t} = 0 .. h - 1
  <2>1. ASSUME NEW y \in 0 .. h - 1 PROVE y \in {p[2] : p \in DOMAIN t}
    <3>1. <<0, y>> \in DOMAIN t /\ <<0, y>>[2] = y
      BY <1>2, <1>3
    <3> QED BY <3>1
  <2> QED BY <1>3, <2>1
<1>6. ASSUME NEW n \in Nat \ {0} PROVE Tiles!Max(0 .. n - 1) = n - 1
  <2> DEFINE S == 0 .. n - 1
             b == n - 1
  <2>1. S \subseteq Int /\ S # {} /\ b \in S /\ b \in Int /\ \A x \in S : x <= b
    OBVIOUS
  <2> HIDE DEF S, b
  <2>2. Tiles!Max(S) \in S /\ \A x \in S : x <= Tiles!Max(S)
    BY <2>1, MaxIs
  <2>3. Tiles!Max(S) = b
    <3> DEFINE top == Tiles!Max(S)
    <3>1. top \in Int /\ top <= b /\ b <= top
      BY <2>1, <2>2
    <3> HIDE DEF top
    <3>2. top = b
      BY <2>1, <3>1
    <3> QED BY <3>2 DEF top
  <2> QED BY <2>3 DEF S, b
<1>7. Wide(t) = w /\ High(t) = h
  <2>1. Wide(t) = 1 + Tiles!Max(0 .. w - 1) /\ High(t) = 1 + Tiles!Max(0 .. h - 1)
    BY <1>4, <1>5 DEF Wide, High, Tiles!Width, Tiles!Height
  <2> QED BY <1>2, <1>6, <2>1
<1> QED BY <1>2, <1>3, <1>7

LEMMA Places ==
  ASSUME NEW t \in Tiles!Tile
  PROVE  /\ \A i \in 1 .. TileArea : Tiles!Place(t, i) \in DOMAIN t
         /\ \A p \in DOMAIN t : /\ p[2] * Wide(t) + p[1] + 1 \in 1 .. TileArea
                                /\ Tiles!Place(t, p[2] * Wide(t) + p[1] + 1) = p
<1> DEFINE w == Wide(t)
           h == High(t)
<1>1. w \in Nat \ {0} /\ h \in Nat \ {0} /\ w * h = TileArea
  BY Shapes
<1>2. DOMAIN t = (0 .. w - 1) \X (0 .. h - 1)
  BY Shapes
<1>3. \A i : Tiles!Place(t, i) = <<(i - 1) % w, (i - 1) \div w>>
  BY DEF Tiles!Place, Wide
<1> HIDE DEF w, h
<1>4. ASSUME NEW i \in 1 .. TileArea PROVE Tiles!Place(t, i) \in DOMAIN t
  <2> DEFINE j == i - 1
             q == j \div w
             r == j % w
  <2>1. j \in Nat /\ j < w * h
    BY <1>1
  <2> HIDE DEF j
  <2>2. q \in Nat /\ r \in 0 .. w - 1 /\ j = w * q + r
    BY <1>1, <2>1
  <2> HIDE DEF q, r
  <2>3. w * q < w * h
    BY <1>1, <2>1, <2>2
  <2>4. q < h
    BY <1>1, <2>2, <2>3
  <2>5. Tiles!Place(t, i) = <<r, q>>
    BY <1>3 DEF j, q, r
  <2> QED BY <1>1, <1>2, <2>2, <2>4, <2>5
<1>5. ASSUME NEW p \in DOMAIN t
      PROVE  p[2] * w + p[1] + 1 \in 1 .. TileArea /\ Tiles!Place(t, p[2] * w + p[1] + 1) = p
  <2>1. PICK x \in 0 .. w - 1, y \in 0 .. h - 1 : p = <<x, y>>
    BY <1>2
  <2>2. y * w + w <= w * h
    BY <1>1
  <2>3. y * w \in Nat /\ y * w + x + 1 \in 1 .. TileArea
    BY <1>1, <2>2
  <2>4. (y * w + x) % w = x /\ (y * w + x) \div w = y
    BY <1>1
  <2> QED BY <1>3, <2>1, <2>3, <2>4
<1> QED BY <1>4, <1>5 DEF w

-----------------------------------------------------------------------------
(***************************************************************************)
(* Hextile: the rectangles have each the one colour of what they cover,    *)
(* and cover all that is not background.                                   *)
(***************************************************************************)
LEMMA GrowFits ==
  ASSUME NEW free, NEW w \in Nat, NEW h \in Nat, NEW x \in 0 .. w - 1, NEW y \in 0 .. h - 1,
         <<x, y>> \in free
  PROVE  \E a \in 1 .. w, b \in 1 .. h :
           /\ Tiles!Grow(free, x, y, w, h) = <<a, b>>
           /\ (x .. x + a - 1) \X (y .. y + b - 1) \subseteq free
<1> DEFINE Full(a, b)  == (x .. x + a - 1) \X (y .. y + b - 1) \subseteq free
           Ws(b)       == {a \in 1 .. w - x : Full(a, b)}
           Hs(a)       == {b \in 1 .. h - y : Full(a, b)}
           Widest(b)   == Tiles!Max(Ws(b))
           Tallest(a)  == Tiles!Max(Hs(a))
<1>1. Full(1, 1)
  OBVIOUS
<1> HIDE DEF Full
<1>2. ASSUME NEW b, Full(1, b) PROVE Widest(b) \in 1 .. w - x /\ Full(Widest(b), b)
  <2>1. 1 \in Ws(b) /\ Ws(b) \subseteq Int /\ \A a \in Ws(b) : a <= w
    BY <1>2
  <2>2. Widest(b) \in Ws(b)
    <3> HIDE DEF Ws
    <3> QED BY <2>1, MaxIs
  <2> QED BY <2>2
<1>3. ASSUME NEW a, Full(a, 1) PROVE Tallest(a) \in 1 .. h - y /\ Full(a, Tallest(a))
  <2>1. 1 \in Hs(a) /\ Hs(a) \subseteq Int /\ \A b \in Hs(a) : b <= h
    BY <1>3
  <2>2. Tallest(a) \in Hs(a)
    <3> HIDE DEF Hs
    <3> QED BY <2>1, MaxIs
  <2> QED BY <2>2
<1> DEFINE wide == Widest(1)
           tall == Tallest(1)
<1>4. wide \in 1 .. w - x /\ Full(wide, 1) /\ tall \in 1 .. h - y /\ Full(1, tall)
  BY <1>1, <1>2, <1>3
<1>5. /\ Tallest(wide) \in 1 .. h - y /\ Full(wide, Tallest(wide))
      /\ Widest(tall) \in 1 .. w - x /\ Full(Widest(tall), tall)
  <2> HIDE DEF Widest, Tallest
  <2> QED BY <1>2, <1>3, <1>4
<1>6. \/ Tiles!Grow(free, x, y, w, h) = <<wide, Tallest(wide)>>
      \/ Tiles!Grow(free, x, y, w, h) = <<Widest(tall), tall>>
  BY DEF Tiles!Grow, Full
<1> HIDE DEF Widest, Tallest, wide, tall
<1>7. wide \in 1 .. w /\ Tallest(wide) \in 1 .. h /\ Widest(tall) \in 1 .. w /\ tall \in 1 .. h
  BY <1>4, <1>5
<1> QED BY <1>5, <1>6, <1>7 DEF Full

Rect == [x : Nat, y : Nat, size : Nat \X Nat, colour : Ink]
Covers(t) == [covered : SUBSET DOMAIN t, rects : Seq(Rect)]
NoCover   == [covered |-> {}, rects |-> <<>>]

\* One more rectangle, or none.
Covering(t, bg, done, p, next) ==
  \/ next = done /\ (t[p] = bg \/ p \in done.covered)
  \/ \E r \in Rect :
       /\ t[p] # bg /\ r.colour = t[p]
       /\ p \in Tiles!Inside(r)
       /\ Tiles!Inside(r) \subseteq {q \in DOMAIN t : t[q] = t[p]}
       /\ next = [covered |-> done.covered \cup Tiles!Inside(r), rects |-> Append(done.rects, r)]

LEMMA CoverIs ==
  ASSUME NEW t \in Tiles!Tile, NEW bg, NEW done \in Covers(t), NEW p \in DOMAIN t
  PROVE  Covering(t, bg, done, p, Tiles!Cover(t, bg, done, p))
<1> DEFINE free == {q \in DOMAIN t \ done.covered : t[q] = t[p]}
           size == Tiles!Grow(free, p[1], p[2], Wide(t), High(t))
           r    == [x |-> p[1], y |-> p[2], size |-> size, colour |-> t[p]]
<1>1. CASE t[p] = bg \/ p \in done.covered
  BY <1>1 DEF Tiles!Cover, Covering
<1>2. CASE t[p] # bg /\ p \notin done.covered
  <2>1. /\ p[1] \in 0 .. Wide(t) - 1 /\ p[2] \in 0 .. High(t) - 1 /\ p = <<p[1], p[2]>>
        /\ Wide(t) \in Nat /\ High(t) \in Nat /\ t[p] \in Ink
    <3>1. /\ DOMAIN t = (0 .. Wide(t) - 1) \X (0 .. High(t) - 1)
          /\ Wide(t) \in Nat /\ High(t) \in Nat /\ t \in [DOMAIN t -> Ink]
      BY Shapes
    <3>2. t[p] \in Ink
      BY <3>1
    <3>3. p \in (0 .. Wide(t) - 1) \X (0 .. High(t) - 1)
      BY <3>1
    <3> QED BY ONLY <3>1, <3>2, <3>3
  <2>2. p \in free
    BY <1>2
  <2>3. PICK a \in 1 .. Wide(t), b \in 1 .. High(t) :
          size = <<a, b>> /\ (p[1] .. p[1] + a - 1) \X (p[2] .. p[2] + b - 1) \subseteq free
    <3> HIDE DEF free
    <3> QED BY <2>1, <2>2, GrowFits
  <2>4. Tiles!Cover(t, bg, done, p) = [covered |-> done.covered \cup Tiles!Inside(r),
                                       rects |-> Append(done.rects, r)]
    BY <1>2 DEF Tiles!Cover, Wide, High
  <2> HIDE DEF free, size
  <2>5. r \in Rect
    BY <2>1, <2>3 DEF Rect
  <2>6. Tiles!Inside(r) = (p[1] .. p[1] + a - 1) \X (p[2] .. p[2] + b - 1)
    BY <2>3 DEF Tiles!Inside
  <2>7. p \in Tiles!Inside(r)
    BY <2>1, <2>6
  <2>8. Tiles!Inside(r) \subseteq {q \in DOMAIN t : t[q] = t[p]}
    BY <2>3, <2>6 DEF free
  <2>9. r.colour = t[p]
    OBVIOUS
  <2> HIDE DEF r
  <2> QED BY <1>2, <2>4, <2>5, <2>7, <2>8, <2>9 DEF Covering
<1> QED BY <1>1, <1>2

LEMMA CoverType ==
  ASSUME NEW t \in Tiles!Tile, NEW bg, NEW done \in Covers(t), NEW p \in DOMAIN t
  PROVE  Tiles!Cover(t, bg, done, p) \in Covers(t)
<1>1. CASE Tiles!Cover(t, bg, done, p) = done
  BY <1>1
<1>2. ASSUME NEW r \in Rect, Tiles!Inside(r) \subseteq DOMAIN t,
             Tiles!Cover(t, bg, done, p) = [covered |-> done.covered \cup Tiles!Inside(r),
                                            rects |-> Append(done.rects, r)]
      PROVE  Tiles!Cover(t, bg, done, p) \in Covers(t)
  BY <1>2 DEF Covers
<1> QED BY <1>1, <1>2, CoverIs DEF Covering

IsCover(f, t, bg) ==
  f = [i \in 0 .. TileArea |-> IF i = 0 THEN NoCover
                               ELSE Tiles!Cover(t, bg, f[i - 1], Tiles!Place(t, i))]

\* How far the rectangles have come after so many places.
LEMMA CoverSteps ==
  ASSUME NEW t \in Tiles!Tile, NEW bg
  PROVE  \E W : /\ Tiles!Subrects(t, bg) = W[TileArea].rects
                /\ W[0] = NoCover
                /\ \A i \in 1 .. TileArea :
                     W[i] = Tiles!Cover(t, bg, W[i - 1], Tiles!Place(t, i))
<1> DEFINE F == [q \in Covers(t) \X (1 .. TileArea) |-> Tiles!Cover(t, bg, q[1], Tiles!Place(t, q[2]))]
<1>1. NoCover \in Covers(t) /\ TileArea \in Nat
  BY TilesAssumption DEF NoCover, Covers
<1>2. F \in [Covers(t) \X (1 .. TileArea) -> Covers(t)]
  BY CoverType, Places
<1>3. PICK f : Unfolds(f, Covers(t), NoCover, TileArea, F)
  <2> HIDE DEF F
  <2> QED BY <1>1, <1>2, Recursion
<1> USE DEF Unfolds
<1>4. ASSUME NEW i \in 1 .. TileArea
      PROVE  F[<<f[i - 1], i>>] = Tiles!Cover(t, bg, f[i - 1], Tiles!Place(t, i))
  <2>1. f[i - 1] \in Covers(t)
    BY <1>1, <1>3
  <2> QED BY <2>1
<1> HIDE DEF F
<1>5. IsCover(f, t, bg)
  <2>1. ASSUME NEW i \in 0 .. TileArea
        PROVE  f[i] = IF i = 0 THEN NoCover ELSE Tiles!Cover(t, bg, f[i - 1], Tiles!Place(t, i))
    <3>1. i # 0 => i \in 1 .. TileArea
      BY <1>1
    <3> QED BY <1>3, <1>4, <3>1
  <2> QED BY <1>3, <2>1 DEF IsCover
<1> DEFINE W == CHOOSE g : IsCover(g, t, bg)
<1>6. IsCover(W, t, bg)
  BY <1>5, Zenon
<1>7. Tiles!Subrects(t, bg) = W[TileArea].rects
  BY DEF Tiles!Subrects, IsCover, NoCover
<1> HIDE DEF W
<1>8. W[0] = NoCover
  BY <1>1, <1>6 DEF IsCover
<1>9. ASSUME NEW i \in 1 .. TileArea PROVE W[i] = Tiles!Cover(t, bg, W[i - 1], Tiles!Place(t, i))
  <2>1. i \in 0 .. TileArea /\ i # 0
    BY <1>1
  <2> QED BY <1>6, <2>1 DEF IsCover
<1> QED BY <1>7, <1>8, <1>9

\* What the rectangles are of, when so many places have been passed.
CoverInv(t, bg, done, i) ==
  /\ done \in Covers(t)
  /\ \A k \in 1 .. Len(done.rects) : \A q \in Tiles!Inside(done.rects[k]) :
       q \in DOMAIN t /\ t[q] = done.rects[k].colour /\ t[q] # bg
  /\ \A q \in done.covered : \E k \in 1 .. Len(done.rects) : q \in Tiles!Inside(done.rects[k])
  /\ \A j \in 1 .. i : t[Tiles!Place(t, j)] = bg \/ Tiles!Place(t, j) \in done.covered

LEMMA CoverKeeps ==
  ASSUME NEW t \in Tiles!Tile, NEW bg, NEW done, NEW i \in 1 .. TileArea,
         NEW p, p = Tiles!Place(t, i), CoverInv(t, bg, done, i - 1)
  PROVE  CoverInv(t, bg, Tiles!Cover(t, bg, done, p), i)
<1> DEFINE next == Tiles!Cover(t, bg, done, p)
<1>1. done \in Covers(t) /\ p \in DOMAIN t
  BY Places DEF CoverInv
<1>2. next \in Covers(t)
  BY <1>1, CoverType
<1>3. \A j \in 1 .. i : j = i \/ j \in 1 .. i - 1
  OBVIOUS
<1>4. ASSUME next = done, t[p] = bg \/ p \in done.covered PROVE CoverInv(t, bg, next, i)
  <2>1. t[p] = bg \/ p \in next.covered
    BY <1>4
  <2> HIDE DEF next
  <2>2. \A j \in 1 .. i : t[Tiles!Place(t, j)] = bg \/ Tiles!Place(t, j) \in next.covered
    BY <1>3, <1>4, <2>1 DEF CoverInv
  <2> QED BY <1>4, <2>2 DEF CoverInv
<1>5. ASSUME NEW r \in Rect, t[p] # bg, r.colour = t[p], p \in Tiles!Inside(r),
             Tiles!Inside(r) \subseteq {q \in DOMAIN t : t[q] = t[p]},
             next = [covered |-> done.covered \cup Tiles!Inside(r), rects |-> Append(done.rects, r)]
      PROVE  CoverInv(t, bg, next, i)
  <2> DEFINE n == Len(done.rects)
  <2>1. done.rects \in Seq(Rect) /\ n \in Nat
    BY <1>1 DEF Covers
  <2>2. /\ next.covered = done.covered \cup Tiles!Inside(r)
        /\ next.rects = Append(done.rects, r)
    BY <1>5
  <2>3. /\ Len(next.rects) = n + 1 /\ next.rects[n + 1] = r
        /\ \A k \in 1 .. n : next.rects[k] = done.rects[k]
    BY <2>1, <2>2
  <2> HIDE DEF next, n
  <2>4. ASSUME NEW k \in 1 .. n + 1, NEW q \in Tiles!Inside(next.rects[k])
        PROVE  q \in DOMAIN t /\ t[q] = next.rects[k].colour /\ t[q] # bg
    <3>1. CASE k = n + 1
      BY <1>5, <2>3, <3>1
    <3>2. CASE k # n + 1
      <4>1. k \in 1 .. n
        BY <2>1, <3>2 DEF n
      <4> QED BY <2>3, <4>1 DEF CoverInv, n
    <3> QED BY <3>1, <3>2
  <2>5. ASSUME NEW q \in next.covered
        PROVE  \E k \in 1 .. n + 1 : q \in Tiles!Inside(next.rects[k])
    <3>1. n + 1 \in 1 .. n + 1 /\ \A k \in 1 .. n : k \in 1 .. n + 1
      BY <2>1 DEF n
    <3>2. CASE q \in Tiles!Inside(r)
      BY <2>3, <3>1, <3>2
    <3>3. CASE q \in done.covered
      <4>1. PICK k \in 1 .. n : q \in Tiles!Inside(done.rects[k])
        BY <3>3 DEF CoverInv, n
      <4> QED BY <2>3, <3>1, <4>1
    <3> QED BY <2>2, <3>2, <3>3
  <2>6. \A j \in 1 .. i : t[Tiles!Place(t, j)] = bg \/ Tiles!Place(t, j) \in next.covered
    BY <1>3, <1>5, <2>2 DEF CoverInv
  <2> QED BY <1>2, <2>3, <2>4, <2>5, <2>6 DEF CoverInv
<1>6. Covering(t, bg, done, p, next)
  BY <1>1, CoverIs
<1> HIDE DEF next
<1>7. CoverInv(t, bg, next, i)
  BY <1>4, <1>5, <1>6 DEF Covering
<1> QED BY <1>7 DEF next

LEMMA SubrectsCover ==
  ASSUME NEW t \in Tiles!Tile, NEW bg
  PROVE  LET rects == Tiles!Subrects(t, bg) IN
         /\ rects \in Seq(Rect)
         /\ \A k \in 1 .. Len(rects) : \A q \in Tiles!Inside(rects[k]) :
              q \in DOMAIN t /\ t[q] = rects[k].colour /\ t[q] # bg
         /\ \A p \in DOMAIN t : t[p] = bg \/ \E k \in 1 .. Len(rects) : p \in Tiles!Inside(rects[k])
<1>1. PICK W : /\ Tiles!Subrects(t, bg) = W[TileArea].rects
               /\ W[0] = NoCover
               /\ \A i \in 1 .. TileArea : W[i] = Tiles!Cover(t, bg, W[i - 1], Tiles!Place(t, i))
  BY CoverSteps
<1> DEFINE S == {i \in 0 .. TileArea : CoverInv(t, bg, W[i], i)}
<1>2. TileArea \in Nat
  BY TilesAssumption
<1>3. 0 \in S
  <2>1. CoverInv(t, bg, NoCover, 0)
    BY DEF CoverInv, NoCover, Covers
  <2> QED BY <1>1, <1>2, <2>1
<1>4. \A i \in 1 .. TileArea : i - 1 \in S => i \in S
  BY <1>1, <1>2, CoverKeeps
<1>5. TileArea \in S
  <2>1. 0 .. TileArea \subseteq S
    <3> HIDE DEF S
    <3> QED BY <1>2, <1>3, <1>4, Upwards
  <2> QED BY <1>2, <2>1
<1> DEFINE done == W[TileArea]
<1>6. CoverInv(t, bg, done, TileArea)
  BY <1>5
<1> HIDE DEF done
<1>7. Tiles!Subrects(t, bg) = done.rects
  BY <1>1 DEF done
<1>8. ASSUME NEW p \in DOMAIN t, t[p] # bg
      PROVE  \E k \in 1 .. Len(done.rects) : p \in Tiles!Inside(done.rects[k])
  <2>1. \E j \in 1 .. TileArea : Tiles!Place(t, j) = p
    BY Places
  <2>2. p \in done.covered
    BY <1>6, <1>8, <2>1 DEF CoverInv
  <2> QED BY <1>6, <2>2 DEF CoverInv
<1> QED BY <1>6, <1>7, <1>8 DEF CoverInv, Covers

-----------------------------------------------------------------------------
(***************************************************************************)
(* Hextile: the viewer draws the rectangles over the background.           *)
(***************************************************************************)
LEMMA ColoursFinite ==
  ASSUME NEW t \in Tiles!Tile
  PROVE  /\ IsFiniteSet(Tiles!Colours(t)) /\ Tiles!Colours(t) \subseteq Ink
         /\ Tiles!Cardinality(Tiles!Colours(t)) = Cardinality(Tiles!Colours(t))
<1>1. /\ DOMAIN t = (0 .. Wide(t) - 1) \X (0 .. High(t) - 1) /\ t \in [DOMAIN t -> Ink]
      /\ Wide(t) \in Nat /\ High(t) \in Nat
  BY Shapes
<1>2. IsFiniteSet(0 .. Wide(t) - 1) /\ IsFiniteSet(0 .. High(t) - 1)
  <2>1. \A n \in Int : IsFiniteSet(0 .. n)
    BY FS_Interval
  <2> QED BY <1>1, <2>1
<1>3. IsFiniteSet(DOMAIN t)
  BY <1>1, <1>2, FS_Product
<1>4. IsFiniteSet(Tiles!Colours(t))
  <2>1. t \in Surjection(DOMAIN t, Tiles!Colours(t))
    BY <1>1 DEF Surjection, Tiles!Colours
  <2> QED BY <1>3, <2>1, FS_Surjection
<1>5. Tiles!Colours(t) \subseteq Ink
  BY <1>1 DEF Tiles!Colours
<1> QED BY <1>4, <1>5 DEF Tiles!Cardinality, Cardinality

LEMMA BackgroundIs ==
  ASSUME NEW t \in Tiles!Tile PROVE Tiles!Background(t) \in Tiles!Colours(t)
<1> DEFINE others == {i \in 1 .. TileArea : Tiles!Pixels(t)[i] # t[<<0, 0>>]}
           second == Tiles!Pixels(t)[Tiles!Min(others)]
<1>1. \A p \in DOMAIN t : t[p] \in Tiles!Colours(t)
  BY DEF Tiles!Colours
<1>2. t[<<0, 0>>] \in Tiles!Colours(t)
  <2>1. <<0, 0>> \in DOMAIN t
    <3>1. /\ DOMAIN t = (0 .. Wide(t) - 1) \X (0 .. High(t) - 1)
          /\ Wide(t) \in Nat \ {0} /\ High(t) \in Nat \ {0}
      BY Shapes
    <3> QED BY <3>1
  <2> QED BY <1>1, <2>1
<1>3. others # {} => second \in Tiles!Colours(t)
  <2> SUFFICES ASSUME others # {} PROVE second \in Tiles!Colours(t)
    OBVIOUS
  <2>1. others \subseteq Nat /\ others \subseteq 1 .. TileArea
    OBVIOUS
  <2>2. Tiles!Min(others) \in 1 .. TileArea
    <3> HIDE DEF others
    <3> QED BY <2>1, MinIs
  <2> HIDE DEF others
  <2>3. second = t[Tiles!Place(t, Tiles!Min(others))]
    BY <2>2 DEF Tiles!Pixels
  <2> QED BY <1>1, <2>2, <2>3, Places
<1>4. \/ Tiles!Background(t) = t[<<0, 0>>]
      \/ others # {} /\ Tiles!Background(t) = second
  BY DEF Tiles!Background
<1> HIDE DEF others, second
<1> QED BY <1>2, <1>3, <1>4

\* The rectangles that a place is in.
Around(rects, p) == {i \in DOMAIN rects : p \in Tiles!Inside(rects[i])}

\* The rectangle that a place is in has its colour, and that is not the background's.
LEMMA Painted ==
  ASSUME NEW t \in Tiles!Tile, NEW bg, NEW rects, rects = Tiles!Subrects(t, bg), NEW p \in DOMAIN t
  PROVE  IF Around(rects, p) = {} THEN t[p] = bg
         ELSE t[p] = rects[Tiles!Max(Around(rects, p))].colour /\ t[p] # bg
<1> DEFINE at == Around(rects, p)
<1> USE DEF Around
<1>1. /\ rects \in Seq(Rect)
      /\ \A k \in 1 .. Len(rects) : \A q \in Tiles!Inside(rects[k]) :
           q \in DOMAIN t /\ t[q] = rects[k].colour /\ t[q] # bg
      /\ \A q \in DOMAIN t : t[q] = bg \/ \E k \in 1 .. Len(rects) : q \in Tiles!Inside(rects[k])
  BY SubrectsCover
<1>2. DOMAIN rects = 1 .. Len(rects) /\ Len(rects) \in Nat
  BY <1>1
<1>3. CASE at = {}
  BY <1>1, <1>2, <1>3
<1>4. CASE at # {}
  <2>1. at \subseteq Int /\ \A i \in at : i <= Len(rects)
    BY <1>2
  <2>2. Tiles!Max(at) \in at
    <3>1. PICK b \in Int : \A i \in at : i <= b
      BY <1>2, <2>1
    <3> HIDE DEF at
    <3> QED BY ONLY <1>4, <2>1, <3>1, MaxIs
  <2> QED BY <1>1, <1>2, <1>4, <2>2
<1> QED BY <1>3, <1>4

\* A Hextile tile looks to the viewer as it was read.
LEMMA HextileShown ==
  ASSUME ColoursAgree, NEW t \in Tiles!Tile, Tiles!SendHextile(t)
  PROVE  shown' = t
<1> DEFINE bg    == Tiles!Background(t)
           n     == Tiles!Cardinality(Tiles!Colours(t))
           fg    == IF n = 2 THEN CHOOSE c \in Tiles!Colours(t) : c # bg ELSE Tiles!NoColour
           rects == Tiles!Subrects(t, bg)
           msg   == Tiles!HextileTile(t).msg
           Back  == IF msg.bg # Tiles!NoColour THEN msg.bg ELSE dec.bg
           Fore  == IF msg.fg # Tiles!NoColour THEN msg.fg ELSE dec.fg
<1>1. shown' = Tiles!ShowHextile(msg, DOMAIN t).shown
  BY DEF Tiles!SendHextile
<1>2. /\ IsFiniteSet(Tiles!Colours(t)) /\ Tiles!Colours(t) \subseteq Ink
      /\ n = Cardinality(Tiles!Colours(t)) /\ bg \in Tiles!Colours(t) /\ bg \in Nat \ {0}
  BY ColoursFinite, BackgroundIs, TilesAssumption
<1>3. \/ msg = Tiles!RawTile(t)
      \/ /\ msg.raw = FALSE /\ msg.rects = rects /\ msg.bg = Tiles!Specify(bg, enc.bg)
         /\ \/ n = 1 /\ msg.coloured = FALSE
            \/ n = 2 /\ msg.coloured = FALSE /\ msg.fg = Tiles!Specify(fg, enc.fg)
            \/ msg.coloured = TRUE
  <2>1. CASE n = 1
    BY <2>1 DEF Tiles!HextileTile
  <2>2. CASE n # 1 /\ n > 1 /\ Tiles!TooMany(t, rects, n = 2)
    BY <2>2 DEF Tiles!HextileTile
  <2>3. CASE n # 1 /\ ~(n > 1 /\ Tiles!TooMany(t, rects, n = 2))
    BY <2>3 DEF Tiles!HextileTile
  <2> QED BY <2>1, <2>2, <2>3
<1> HIDE DEF msg
<1>4. CASE msg = Tiles!RawTile(t)
  <2>1. msg.raw = TRUE /\ msg.pixels = t
    BY <1>4 DEF Tiles!RawTile
  <2>2. Tiles!ShowHextile(msg, DOMAIN t).shown = msg.pixels
    BY <2>1 DEF Tiles!ShowHextile
  <2> QED BY <1>1, <2>1, <2>2
<1>5. CASE /\ msg.raw = FALSE /\ msg.rects = rects /\ msg.bg = Tiles!Specify(bg, enc.bg)
           /\ \/ n = 1 /\ msg.coloured = FALSE
              \/ n = 2 /\ msg.coloured = FALSE /\ msg.fg = Tiles!Specify(fg, enc.fg)
              \/ msg.coloured = TRUE
  <2>1. Back = bg
    BY <1>2, <1>5 DEF ColoursAgree, Tiles!Specify, Tiles!NoColour
  <2>2. ASSUME NEW c \in Tiles!Colours(t) \ {bg}, ~msg.coloured PROVE c = Fore
    <3>1. n = 2
      <4>1. Cardinality(Tiles!Colours(t)) # 1
        BY <1>2, <2>2, FS_Singleton
      <4> QED BY <1>2, <1>5, <2>2, <4>1
    <3>2. fg \in Tiles!Colours(t) \ {bg}
      BY <2>2, <3>1
    <3>3. Cardinality(Tiles!Colours(t) \ {bg}) = 1 /\ IsFiniteSet(Tiles!Colours(t) \ {bg})
      <4>1. /\ IsFiniteSet(Tiles!Colours(t) \ {bg})
            /\ Cardinality(Tiles!Colours(t) \ {bg}) = Cardinality(Tiles!Colours(t)) - 1
        BY <1>2, FS_RemoveElement
      <4> QED BY <1>2, <3>1, <4>1
    <3>4. c = fg
      BY <2>2, <3>2, <3>3, FS_Singleton
    <3>5. fg \in Nat \ {0}
      BY <1>2, <3>2, TilesAssumption
    <3>6. msg.fg = Tiles!Specify(fg, enc.fg)
      BY <1>5, <2>2, <3>1
    <3> HIDE DEF fg
    <3> QED BY <3>4, <3>5, <3>6 DEF ColoursAgree, Tiles!Specify, Tiles!NoColour
  <2>3. Tiles!ShowHextile(msg, DOMAIN t).shown =
          [p \in DOMAIN t |-> IF Around(rects, p) = {} THEN Back
                              ELSE IF msg.coloured THEN rects[Tiles!Max(Around(rects, p))].colour ELSE Fore]
    BY <1>5 DEF Tiles!ShowHextile, Around
  <2> HIDE DEF bg, n, fg, Back, Fore
  <2>4. ASSUME NEW p \in DOMAIN t
        PROVE  (IF Around(rects, p) = {} THEN Back
                ELSE IF msg.coloured THEN rects[Tiles!Max(Around(rects, p))].colour ELSE Fore) = t[p]
    <3>1. IF Around(rects, p) = {} THEN t[p] = bg ELSE t[p] = rects[Tiles!Max(Around(rects, p))].colour /\ t[p] # bg
      <4> HIDE DEF rects
      <4>1. rects = Tiles!Subrects(t, bg)
        BY DEF rects
      <4> QED BY <4>1, Painted
    <3>2. t[p] \in Tiles!Colours(t)
      BY DEF Tiles!Colours
    <3> QED BY <2>1, <2>2, <3>1, <3>2
  <2>5. t = [p \in DOMAIN t |-> t[p]]
    <3>1. t \in [DOMAIN t -> Ink]
      BY Shapes
    <3> QED BY <3>1
  <2>6. Tiles!ShowHextile(msg, DOMAIN t).shown = [p \in DOMAIN t |-> t[p]]
    BY <2>3, <2>4
  <2> QED BY <1>1, <2>5, <2>6
<1> QED BY <1>3, <1>4, <1>5

-----------------------------------------------------------------------------
(***************************************************************************)
(* Sums, and the lengths of runs.                                          *)
(***************************************************************************)
IsTotal(f, sizes) ==
  f = [i \in 0 .. Len(sizes) |-> IF i = 0 THEN 0 ELSE f[i - 1] + sizes[i]]

LEMMA TotalSteps ==
  ASSUME NEW sizes \in Seq(Int)
  PROVE  \E W \in [0 .. Len(sizes) -> Int] :
           /\ Tiles!Total(sizes) = W[Len(sizes)] /\ W[0] = 0
           /\ \A i \in 1 .. Len(sizes) : W[i] = W[i - 1] + sizes[i]
<1> DEFINE n == Len(sizes)
<1>1. n \in Nat /\ \A i \in 1 .. n : sizes[i] \in Int
  OBVIOUS
<1> DEFINE W == CHOOSE g : IsTotal(g, sizes)
<1>2. Tiles!Total(sizes) = W[n]
  BY DEF Tiles!Total, IsTotal
<1> DEFINE Sums == Int
           F    == [q \in Sums \X (1 .. n) |-> q[1] + sizes[q[2]]]
           zero == 0
<1> HIDE DEF n, W
<1>3. F \in [Sums \X (1 .. n) -> Sums] /\ zero \in Sums
  BY <1>1
<1>4. PICK f : Unfolds(f, Sums, zero, n, F)
  <2> HIDE DEF F, zero, Sums
  <2> QED BY <1>1, <1>3, Recursion
<1> USE DEF Unfolds
<1>5. ASSUME NEW i \in 1 .. n PROVE F[<<f[i - 1], i>>] = f[i - 1] + sizes[i]
  <2>1. f[i - 1] \in Sums
    BY <1>1, <1>4
  <2> QED BY <2>1
<1> HIDE DEF F
<1>6. IsTotal(W, sizes)
  <2>1. IsTotal(f, sizes)
    <3>1. f = [i \in 0 .. n |-> IF i = 0 THEN 0 ELSE f[i - 1] + sizes[i]]
      <4>1. ASSUME NEW i \in 0 .. n PROVE f[i] = IF i = 0 THEN 0 ELSE f[i - 1] + sizes[i]
        <5>1. i # 0 => i \in 1 .. n
          BY <1>1
        <5> QED BY <1>4, <1>5, <5>1
      <4> QED BY <1>4, <4>1
    <3> QED BY <3>1 DEF IsTotal, n
  <2> QED BY <2>1, Zenon DEF W
<1>8. W[0] = 0 /\ \A i \in 1 .. n : W[i] = W[i - 1] + sizes[i]
  <2>1. W[0] = 0
    BY <1>1, <1>6 DEF IsTotal, n
  <2>2. ASSUME NEW i \in 1 .. n PROVE W[i] = W[i - 1] + sizes[i]
    <3>1. i \in 0 .. n /\ i # 0
      BY <1>1
    <3> QED BY <1>6, <3>1 DEF IsTotal, n
  <2> QED BY <2>1, <2>2
<1>9. W \in [0 .. n -> Int]
  <2> DEFINE S == {i \in 0 .. n : W[i] \in Int}
  <2>1. 0 \in S /\ \A i \in 1 .. n : i - 1 \in S => i \in S
    <3>1. 0 \in S
      BY <1>1, <1>8
    <3>2. ASSUME NEW i \in 1 .. n, W[i - 1] \in Int PROVE W[i] \in Int
      <4>1. W[i] = W[i - 1] + sizes[i] /\ sizes[i] \in Int
        BY <1>1, <1>8
      <4> QED BY <3>2, <4>1
    <3> QED BY <1>1, <3>1, <3>2
  <2>2. 0 .. n \subseteq S
    <3> HIDE DEF S
    <3> QED BY <1>1, <2>1, Upwards
  <2> QED BY <1>6, <2>2 DEF IsTotal, n
<1> QED BY <1>2, <1>8, <1>9 DEF n

\* The first so many are of one size.
LEMMA TotalOfEqual ==
  ASSUME NEW n \in Nat, NEW c \in Int, NEW W, W[0] = 0, \A i \in 1 .. n : W[i] = W[i - 1] + c
  PROVE  W[n] = n * c
<1> DEFINE S == {i \in 0 .. n : W[i] = i * c}
<1>1. 0 \in S
  OBVIOUS
<1>2. ASSUME NEW i \in 1 .. n, i - 1 \in S PROVE i \in S
  <2>1. W[i] = (i - 1) * c + c
    BY <1>2
  <2>2. (i - 1) * c + c = i * c
    OBVIOUS
  <2> QED BY <2>1, <2>2
<1>3. 0 .. n \subseteq S
  <2> HIDE DEF S
  <2> QED BY <1>1, <1>2, Upwards
<1> QED BY <1>3

LEMMA TotalIsProduct ==
  ASSUME NEW sizes \in Seq(Int), NEW c \in Int, \A i \in 1 .. Len(sizes) : sizes[i] = c
  PROVE  Tiles!Total(sizes) = Len(sizes) * c
<1>1. PICK W : /\ Tiles!Total(sizes) = W[Len(sizes)] /\ W[0] = 0
               /\ \A i \in 1 .. Len(sizes) : W[i] = W[i - 1] + sizes[i]
  BY TotalSteps
<1>2. \A i \in 1 .. Len(sizes) : W[i] = W[i - 1] + c
  BY <1>1
<1> QED BY <1>1, <1>2, TotalOfEqual

\* A run length says what it is of, and takes the bytes that were counted for it.
LEMMA RunLengthIs ==
  ASSUME NEW n \in Nat \ {0}
  PROVE  /\ Tiles!RunLength(n) \in Seq(Nat)
         /\ Len(Tiles!RunLength(n)) = Tiles!RunBytes(n) /\ Tiles!RunBytes(n) \in Nat \ {0}
         /\ Tiles!RunOf(Tiles!RunLength(n)) = n
<1> DEFINE q == (n - 1) \div LongRun
           r == (n - 1) % LongRun
           s == Tiles!RunLength(n)
<1>1. q \in Nat /\ r \in Nat /\ n - 1 = LongRun * q + r /\ LongRun \in Nat
  BY TilesAssumption
<1>2. s = [i \in 1 .. q + 1 |-> IF i <= q THEN LongRun ELSE r] /\ Tiles!RunBytes(n) = q + 1
  BY DEF Tiles!RunLength, Tiles!RunBytes
<1> HIDE DEF q, r, s
<1>3. s \in Seq(Nat) /\ Len(s) = q + 1
  BY <1>1, <1>2
<1>4. PICK W \in [0 .. Len(s) -> Int] :
             /\ Tiles!Total(s) = W[Len(s)] /\ W[0] = 0
             /\ \A i \in 1 .. Len(s) : W[i] = W[i - 1] + s[i]
  <2>1. s \in Seq(Int)
    BY <1>3
  <2> QED BY <2>1, TotalSteps
<1>5. W[q] = q * LongRun
  <2>1. \A i \in 1 .. q : W[i] = W[i - 1] + LongRun
    <3> SUFFICES ASSUME NEW i \in 1 .. q PROVE W[i] = W[i - 1] + LongRun
      OBVIOUS
    <3>1. i \in 1 .. q + 1 /\ i <= q
      BY <1>1
    <3>2. s[i] = LongRun
      BY <1>2, <3>1
    <3> QED BY <1>3, <1>4, <3>1, <3>2
  <2>2. LongRun \in Int
    BY <1>1
  <2> QED BY <1>1, <1>4, <2>1, <2>2, TotalOfEqual, Zenon
<1>6. W[q + 1] = W[q] + r
  <2>1. s[q + 1] = r /\ q + 1 \in 1 .. q + 1 /\ (q + 1) - 1 = q
    BY <1>1, <1>2
  <2> QED BY <1>3, <1>4, <2>1
<1>7. Tiles!RunOf(s) = n
  BY <1>1, <1>3, <1>4, <1>5, <1>6 DEF Tiles!RunOf
<1> QED BY <1>1, <1>2, <1>3, <1>7 DEF s

-----------------------------------------------------------------------------
(***************************************************************************)
(* Sequences end to end, and the runs of a tile.                           *)
(***************************************************************************)
Inks == Seq(Ink)
Joins(W, seqs) == /\ W[0] = <<>>
                  /\ \A i \in 1 .. Len(seqs) : W[i] = W[i - 1] \o seqs[i]
IsFlatten(f, seqs) ==
  f = [i \in 1 .. Len(seqs) |-> IF i = 1 THEN seqs[i] ELSE f[i - 1] \o seqs[i]]

LEMMA JoinsType ==
  ASSUME NEW seqs \in Seq(Inks), NEW W, Joins(W, seqs)
  PROVE  \A i \in 0 .. Len(seqs) : W[i] \in Inks
<1> DEFINE n == Len(seqs)
           S == {i \in 0 .. n : W[i] \in Inks}
<1>1. n \in Nat /\ \A i \in 1 .. n : seqs[i] \in Inks
  OBVIOUS
<1> HIDE DEF n
<1>2. 0 \in S
  <2>1. W[0] \in Inks
    BY DEF Joins, Inks
  <2> QED BY <1>1, <2>1
<1>3. ASSUME NEW i \in 1 .. n, i - 1 \in S PROVE i \in S
  <2>1. W[i] = W[i - 1] \o seqs[i] /\ W[i - 1] \in Inks /\ seqs[i] \in Inks
    BY <1>1, <1>3 DEF Joins, n
  <2>2. W[i] \in Inks
    BY <2>1 DEF Inks
  <2> QED BY <1>1, <2>2
<1>4. 0 .. n \subseteq S
  <2> HIDE DEF S
  <2> QED BY <1>1, <1>2, <1>3, Upwards
<1> QED BY <1>4 DEF n

LEMMA Joined ==
  ASSUME NEW seqs \in Seq(Inks), NEW W, NEW V, Joins(W, seqs), Joins(V, seqs)
  PROVE  W[Len(seqs)] = V[Len(seqs)]
<1> DEFINE n == Len(seqs)
           S == {i \in 0 .. n : W[i] = V[i]}
<1>1. n \in Nat
  OBVIOUS
<1> HIDE DEF n
<1>2. 0 \in S
  BY <1>1 DEF Joins
<1>3. ASSUME NEW i \in 1 .. n, i - 1 \in S PROVE i \in S
  <2>1. W[i] = W[i - 1] \o seqs[i] /\ V[i] = V[i - 1] \o seqs[i] /\ W[i - 1] = V[i - 1]
    BY <1>3 DEF Joins, n
  <2>2. W[i] = V[i]
    BY <2>1, Zenon
  <2> QED BY <1>1, <2>2
<1>4. 0 .. n \subseteq S
  <2> HIDE DEF S
  <2> QED BY <1>1, <1>2, <1>3, Upwards
<1>5. n \in S
  BY <1>1, <1>4
<1> QED BY <1>5 DEF n

LEMMA FlattenSteps ==
  ASSUME NEW seqs \in Seq(Inks)
  PROVE  \E W : Joins(W, seqs) /\ Tiles!FlattenSeq(seqs) = W[Len(seqs)]
<1> DEFINE n == Len(seqs)
<1>1. n \in Nat /\ (n = 0 => seqs = <<>>) /\ \A i \in 1 .. n : seqs[i] \in Inks
  OBVIOUS
<1> DEFINE G == CHOOSE g : IsFlatten(g, seqs)
<1>2. Tiles!FlattenSeq(seqs) = IF n = 0 THEN seqs ELSE G[n]
  BY DEF Tiles!FlattenSeq, IsFlatten
<1> DEFINE F == [q \in Inks \X (1 .. n) |-> q[1] \o seqs[q[2]]]
           none == <<>>
<1> HIDE DEF n, G
<1>3. F \in [Inks \X (1 .. n) -> Inks] /\ none \in Inks
  <2>1. \A a, b \in Inks : a \o b \in Inks
    BY DEF Inks
  <2> QED BY <1>1, <2>1 DEF Inks
<1>4. PICK f : Unfolds(f, Inks, none, n, F)
  <2> HIDE DEF F, none
  <2> QED BY <1>1, <1>3, Recursion
<1>5. ASSUME NEW i \in 1 .. n PROVE f[i - 1] \in Inks /\ f[i] = f[i - 1] \o seqs[i]
  <2>1. f[i - 1] \in Inks
    BY <1>1, <1>4 DEF Unfolds
  <2> QED BY <1>4, <2>1 DEF Unfolds
<1> HIDE DEF F
<1>6. Joins(f, seqs)
  BY <1>4, <1>5 DEF Joins, Unfolds, n
<1>7. CASE n = 0
  <2>1. Tiles!FlattenSeq(seqs) = <<>> /\ f[0] = <<>>
    BY <1>1, <1>2, <1>4, <1>7 DEF Unfolds
  <2> QED BY <1>6, <1>7, <2>1 DEF n
<1>8. CASE n # 0
  <2> DEFINE g == [i \in 1 .. n |-> f[i]]
  <2>1. ASSUME NEW i \in 1 .. n
        PROVE  g[i] = IF i = 1 THEN seqs[i] ELSE g[i - 1] \o seqs[i]
    <3>1. CASE i = 1
      <4>1. f[1] = <<>> \o seqs[1] /\ seqs[1] \in Inks
        BY <1>1, <1>4, <1>5, <3>1 DEF Unfolds
      <4>2. <<>> \o seqs[1] = seqs[1]
        BY <4>1 DEF Inks
      <4> QED BY <3>1, <4>1, <4>2
    <3>2. CASE i # 1
      <4>1. i - 1 \in 1 .. n
        BY <1>1, <3>2
      <4> QED BY <1>5, <3>2, <4>1
    <3> QED BY <3>1, <3>2
  <2>2. IsFlatten(g, seqs)
    <3>1. g = [i \in 1 .. n |-> IF i = 1 THEN seqs[i] ELSE g[i - 1] \o seqs[i]]
      BY <2>1
    <3> HIDE DEF g
    <3> QED BY <3>1 DEF IsFlatten, n
  <2> HIDE DEF g
  <2>3. IsFlatten(G, seqs)
    BY <2>2, Zenon DEF G
  <2> DEFINE W == [i \in 0 .. n |-> IF i = 0 THEN <<>> ELSE G[i]]
  <2>4. W[0] = <<>> /\ W[n] = G[n]
    BY <1>1, <1>8
  <2>5. ASSUME NEW i \in 1 .. n PROVE W[i] = W[i - 1] \o seqs[i]
    <3>1. G[i] = IF i = 1 THEN seqs[i] ELSE G[i - 1] \o seqs[i]
      BY <2>3 DEF IsFlatten, n
    <3>2. W[i] = G[i] /\ i - 1 \in 0 .. n /\ i \in 0 .. n
      BY <1>1
    <3>3. CASE i = 1
      <4>1. <<>> \o seqs[1] = seqs[1]
        BY <1>1, <3>3 DEF Inks
      <4>2. W[i - 1] = <<>>
        BY <2>4, <3>3
      <4> HIDE DEF W
      <4> QED BY <3>1, <3>2, <3>3, <4>1, <4>2
    <3>4. CASE i # 1
      <4>1. W[i - 1] = G[i - 1]
        BY <3>2, <3>4
      <4> HIDE DEF W
      <4> QED BY <3>1, <3>2, <3>4, <4>1
    <3> QED BY <3>3, <3>4
  <2> HIDE DEF W
  <2>6. Joins(W, seqs)
    BY <2>4, <2>5 DEF Joins, n
  <2> QED BY <1>2, <1>8, <2>4, <2>6 DEF n
<1> QED BY <1>7, <1>8

LEMMA FlattenAppend ==
  ASSUME NEW seqs \in Seq(Inks), NEW x \in Inks
  PROVE  /\ Tiles!FlattenSeq(Append(seqs, x)) = Tiles!FlattenSeq(seqs) \o x
         /\ Tiles!FlattenSeq(seqs) \in Inks
<1> DEFINE n == Len(seqs)
           longer == Append(seqs, x)
<1>1. /\ n \in Nat /\ longer \in Seq(Inks) /\ Len(longer) = n + 1 /\ longer[n + 1] = x
      /\ \A i \in 1 .. n : longer[i] = seqs[i]
  OBVIOUS
<1> HIDE DEF n, longer
<1>2. PICK W : Joins(W, longer) /\ Tiles!FlattenSeq(longer) = W[n + 1]
  BY <1>1, FlattenSteps
<1>3. PICK V : Joins(V, seqs) /\ Tiles!FlattenSeq(seqs) = V[n]
  BY FlattenSteps DEF n
<1>4. Joins(W, seqs)
  <2>1. W[0] = <<>>
    BY <1>2 DEF Joins
  <2>2. ASSUME NEW i \in 1 .. n PROVE W[i] = W[i - 1] \o seqs[i]
    <3>1. i \in 1 .. n + 1
      BY <1>1
    <3> QED BY <1>1, <1>2, <3>1 DEF Joins
  <2> QED BY <2>1, <2>2 DEF Joins, n
<1>5. W[n] = V[n]
  BY <1>3, <1>4, Joined DEF n
<1>6. W[n + 1] = W[n] \o x
  <2>1. n + 1 \in 1 .. n + 1 /\ (n + 1) - 1 = n
    BY <1>1
  <2> QED BY <1>1, <1>2, <2>1 DEF Joins
<1>7. V[n] \in Inks
  BY <1>1, <1>3, JoinsType DEF n
<1> QED BY <1>2, <1>3, <1>5, <1>6, <1>7 DEF longer

Run == [colour : Ink, length : Nat \ {0}]
Rep(c, n) == [j \in 1 .. n |-> c]
Spread(runs) == [k \in 1 .. Len(runs) |-> Rep(runs[k].colour, runs[k].length)]

LEMMA Pixels ==
  ASSUME NEW t \in Tiles!Tile
  PROVE  /\ Tiles!Pixels(t) \in Inks /\ Len(Tiles!Pixels(t)) = TileArea
         /\ \A i \in 1 .. TileArea : /\ Tiles!Pixels(t)[i] = t[Tiles!Place(t, i)]
                                     /\ Tiles!Pixels(t)[i] \in Ink
<1>1. \A i \in 1 .. TileArea : t[Tiles!Place(t, i)] \in Ink
  BY Places, Shapes
<1>2. TileArea \in Nat
  BY TilesAssumption
<1> QED BY <1>1, <1>2 DEF Tiles!Pixels, Inks

LEMMA Reps ==
  ASSUME NEW c \in Ink, NEW n \in Nat \ {0}, NEW a \in Inks
  PROVE  /\ Rep(c, n) \in Inks /\ Rep(c, 1) = <<c>>
         /\ a \o Rep(c, n + 1) = (a \o Rep(c, n)) \o <<c>>
<1>1. Rep(c, n) \in Inks /\ Rep(c, n + 1) \in Inks /\ Len(Rep(c, n)) = n /\ Len(Rep(c, n + 1)) = n + 1
  BY DEF Rep, Inks
<1>2. Rep(c, n + 1) = Rep(c, n) \o <<c>>
  BY <1>1 DEF Rep, Inks
<1>3. Rep(c, 1) = <<c>>
  BY DEF Rep
<1>4. <<c>> \in Inks
  BY DEF Inks
<1>5. a \o (Rep(c, n) \o <<c>>) = (a \o Rep(c, n)) \o <<c>>
  <2> DEFINE x == Rep(c, n)
             y == <<c>>
  <2>1. a \in Seq(Ink) /\ x \in Seq(Ink) /\ y \in Seq(Ink)
    BY <1>1, <1>4 DEF Inks
  <2> HIDE DEF x, y
  <2>2. a \o (x \o y) = (a \o x) \o y
    BY <2>1
  <2> QED BY <2>2 DEF x, y
<1>6. a \o Rep(c, n + 1) = (a \o Rep(c, n)) \o <<c>>
  BY <1>2, <1>5, Zenon
<1> QED BY <1>1, <1>3, <1>6

LEMMA Ends ==
  ASSUME NEW S, NEW long \in Seq(S), NEW front \in Seq(S), NEW m \in Nat, NEW e,
         Len(long) = m, Len(front) = m - 1, m \in 1 .. m, long[m] = e,
         \A k \in 1 .. m - 1 : long[k] = front[k]
  PROVE  long = Append(front, e)
<1> DEFINE new == Append(front, e)
<1>1. e \in S
  OBVIOUS
<1>2. new \in Seq(S) /\ Len(new) = m /\ new[m] = e /\ \A k \in 1 .. m - 1 : new[k] = front[k]
  BY <1>1
<1> HIDE DEF new
<1>3. \A k \in 1 .. m : long[k] = new[k]
  <2> TAKE k \in 1 .. m
  <2>1. k = m \/ k \in 1 .. m - 1
    OBVIOUS
  <2> QED BY <1>2, <2>1
<1>4. long \in Seq(S) /\ Len(long) = Len(new)
  BY <1>2
<1>5. long = new
  BY <1>2, <1>3, <1>4, SeqEqual
<1> QED BY <1>5 DEF new

LEMMA ExtendIs ==
  ASSUME NEW runs \in Seq(Run), NEW c \in Ink
  PROVE  LET next == Tiles!Extend(runs, c) IN
         \/ next = Append(runs, [colour |-> c, length |-> 1])
         \/ \E front \in Seq(Run), n \in Nat \ {0} :
              /\ runs = Append(front, [colour |-> c, length |-> n])
              /\ next = Append(front, [colour |-> c, length |-> n + 1])
<1> DEFINE m == Len(runs)
<1>1. m \in Nat /\ (m = 0 <=> runs = <<>>) /\ \A k \in 1 .. m : runs[k] \in Run
  OBVIOUS
<1>2. CASE runs = <<>> \/ runs[m].colour # c
  BY <1>2 DEF Tiles!Extend, Tiles!Last
<1>3. CASE runs # <<>> /\ runs[m].colour = c
  <2> DEFINE front == SubSeq(runs, 1, m - 1)
             n     == runs[m].length
             longer == [runs EXCEPT ![m].length = n + 1]
  <2>1. Tiles!Extend(runs, c) = longer
    BY <1>3 DEF Tiles!Extend, Tiles!Last
  <2>2. m \in 1 .. m /\ runs[m] \in Run /\ n \in Nat \ {0} /\ runs[m] = [colour |-> c, length |-> n]
    BY <1>1, <1>3 DEF Run
  <2>3. front \in Seq(Run) /\ Len(front) = m - 1 /\ \A k \in 1 .. m - 1 : front[k] = runs[k]
    <3>1. front = [k \in 1 .. m - 1 |-> runs[k]]
      BY <2>2
    <3>2. m - 1 \in Nat /\ \A k \in 1 .. m - 1 : runs[k] \in Run
      BY <1>1, <2>2
    <3> HIDE DEF front, m
    <3>3. front \in [1 .. m - 1 -> Run]
      BY <3>1, <3>2
    <3> QED BY <3>1, <3>2, <3>3
  <2>4. runs = Append(front, [colour |-> c, length |-> n])
    <3>1. runs \in Seq(Run) /\ Len(runs) = m
      OBVIOUS
    <3> HIDE DEF front, n, m
    <3> QED BY <1>1, <2>2, <2>3, <3>1, Ends
  <2>5. longer = Append(front, [colour |-> c, length |-> n + 1])
    <3>1. longer \in Seq(Run) /\ Len(longer) = m
      BY <2>2 DEF Run
    <3>2. longer[m] = [colour |-> c, length |-> n + 1] /\ \A k \in 1 .. m - 1 : longer[k] = runs[k]
      BY <1>1, <2>2 DEF Run
    <3>3. [colour |-> c, length |-> n + 1] \in Run
      BY <2>2 DEF Run
    <3> HIDE DEF longer, front, n, m
    <3> QED BY <1>1, <2>2, <2>3, <3>1, <3>2, <3>3, Ends
  <2> HIDE DEF front, n, longer
  <2> QED BY <2>1, <2>2, <2>3, <2>4, <2>5
<1> QED BY <1>2, <1>3

LEMMA SpreadAppend ==
  ASSUME NEW runs \in Seq(Run), NEW c \in Ink, NEW n \in Nat \ {0}
  PROVE  /\ Spread(runs) \in Seq(Inks)
         /\ Append(runs, [colour |-> c, length |-> n]) \in Seq(Run)
         /\ Spread(Append(runs, [colour |-> c, length |-> n])) = Append(Spread(runs), Rep(c, n))
<1> DEFINE m == Len(runs)
           r == [colour |-> c, length |-> n]
           longer == Append(runs, r)
<1>1. r \in Run /\ r.colour = c /\ r.length = n
  BY DEF Run
<1>2. m \in Nat /\ \A k \in 1 .. m : runs[k] \in Run
  OBVIOUS
<1>3. /\ longer \in Seq(Run) /\ Len(longer) = m + 1 /\ longer[m + 1] = r
      /\ \A k \in 1 .. m : longer[k] = runs[k]
  BY <1>1
<1> HIDE DEF r, longer
<1>4. \A q \in Seq(Run) : Spread(q) \in Seq(Inks) /\ Len(Spread(q)) = Len(q)
  <2> TAKE q \in Seq(Run)
  <2>1. \A k \in 1 .. Len(q) : q[k].colour \in Ink /\ q[k].length \in Nat
    <3>1. \A k \in 1 .. Len(q) : q[k] \in Run
      OBVIOUS
    <3> QED BY <3>1 DEF Run
  <2>2. \A k \in 1 .. Len(q) : Rep(q[k].colour, q[k].length) \in Inks
    BY <2>1 DEF Rep, Inks
  <2> QED BY <2>2 DEF Spread
<1>5. /\ Spread(runs) \in Seq(Inks) /\ Len(Spread(runs)) = m
      /\ Spread(longer) \in Seq(Inks) /\ Len(Spread(longer)) = m + 1
  BY <1>3, <1>4
<1>6. Spread(longer)[m + 1] = Rep(c, n)
  BY <1>1, <1>2, <1>3 DEF Spread
<1>7. \A k \in 1 .. m : Spread(longer)[k] = Spread(runs)[k]
  BY <1>2, <1>3 DEF Spread
<1> HIDE DEF m
<1>8. Spread(longer) = Append(Spread(runs), Rep(c, n))
  <2>1. m + 1 \in Nat /\ (m + 1) - 1 = m /\ m + 1 \in 1 .. m + 1
    BY <1>2
  <2> QED BY <1>2, <1>5, <1>6, <1>7, <2>1, Ends
<1> QED BY <1>3, <1>5, <1>8 DEF longer, r

Flat(runs) == Tiles!FlattenSeq(Spread(runs))

\* A pixel more.
LEMMA RunsGrow ==
  ASSUME NEW runs \in Seq(Run), NEW c \in Ink
  PROVE  /\ Tiles!Extend(runs, c) \in Seq(Run)
         /\ Flat(runs) \in Inks
         /\ Flat(Tiles!Extend(runs, c)) = Flat(runs) \o <<c>>
<1> DEFINE next == Tiles!Extend(runs, c)
<1>1. \A q \in Seq(Run), n \in Nat \ {0} :
        /\ Flat(q) \in Inks
        /\ Append(q, [colour |-> c, length |-> n]) \in Seq(Run)
        /\ Flat(Append(q, [colour |-> c, length |-> n])) = Flat(q) \o Rep(c, n)
  <2> TAKE q \in Seq(Run), n \in Nat \ {0}
  <2>1. /\ Spread(q) \in Seq(Inks)
        /\ Append(q, [colour |-> c, length |-> n]) \in Seq(Run)
        /\ Spread(Append(q, [colour |-> c, length |-> n])) = Append(Spread(q), Rep(c, n))
    BY SpreadAppend
  <2>2. Rep(c, n) \in Inks
    BY DEF Rep, Inks
  <2>3. /\ Tiles!FlattenSeq(Append(Spread(q), Rep(c, n))) = Tiles!FlattenSeq(Spread(q)) \o Rep(c, n)
        /\ Tiles!FlattenSeq(Spread(q)) \in Inks
    BY <2>1, <2>2, FlattenAppend
  <2> QED BY <2>1, <2>3, Zenon DEF Flat
<1>2. CASE next = Append(runs, [colour |-> c, length |-> 1])
  <2>1. Flat(next) = Flat(runs) \o Rep(c, 1) /\ next \in Seq(Run) /\ Flat(runs) \in Inks
    BY <1>1, <1>2
  <2>2. Rep(c, 1) = <<c>>
    BY DEF Rep
  <2> QED BY <2>1, <2>2
<1>3. ASSUME NEW front \in Seq(Run), NEW n \in Nat \ {0},
             runs = Append(front, [colour |-> c, length |-> n]),
             next = Append(front, [colour |-> c, length |-> n + 1])
      PROVE  next \in Seq(Run) /\ Flat(runs) \in Inks /\ Flat(next) = Flat(runs) \o <<c>>
  <2>0. n + 1 \in Nat \ {0}
    OBVIOUS
  <2>1. /\ Flat(runs) = Flat(front) \o Rep(c, n) /\ Flat(front) \in Inks /\ Flat(runs) \in Inks
        /\ Flat(next) = Flat(front) \o Rep(c, n + 1) /\ next \in Seq(Run)
    BY ONLY <1>1, <1>3, <2>0, runs \in Seq(Run), n \in Nat \ {0}, front \in Seq(Run)
  <2>2. Flat(front) \o Rep(c, n + 1) = (Flat(front) \o Rep(c, n)) \o <<c>>
    BY <2>1, Reps
  <2> QED BY <2>1, <2>2, Zenon
<1> HIDE DEF next
<1>4. \/ next = Append(runs, [colour |-> c, length |-> 1])
      \/ \E front \in Seq(Run), n \in Nat \ {0} :
           /\ runs = Append(front, [colour |-> c, length |-> n])
           /\ next = Append(front, [colour |-> c, length |-> n + 1])
  BY ExtendIs DEF next
<1> QED BY <1>2, <1>3, <1>4 DEF next

\* Its colour is the one that a run may be added for.
LEMMA RunsColoured ==
  ASSUME NEW runs \in Seq(Run), NEW C, NEW c \in Ink, c \in C,
         \A k \in 1 .. Len(runs) : runs[k].colour \in C
  PROVE  LET next == Tiles!Extend(runs, c) IN \A k \in 1 .. Len(next) : next[k].colour \in C
<1> DEFINE next == Tiles!Extend(runs, c)
<1>1. \A q \in Seq(Run), n \in Nat \ {0} :
        LET longer == Append(q, [colour |-> c, length |-> n]) IN
        /\ Len(longer) = Len(q) + 1 /\ longer[Len(q) + 1].colour = c
        /\ \A k \in 1 .. Len(q) : longer[k] = q[k]
        /\ Len(q) \in Nat
  <2> TAKE q \in Seq(Run), n \in Nat \ {0}
  <2> DEFINE r == [colour |-> c, length |-> n]
  <2>1. r \in Run /\ r.colour = c
    BY DEF Run
  <2> HIDE DEF r
  <2>2. LET longer == Append(q, r) IN
        /\ Len(longer) = Len(q) + 1 /\ longer[Len(q) + 1] = r
        /\ \A k \in 1 .. Len(q) : longer[k] = q[k]
        /\ Len(q) \in Nat
    BY <2>1
  <2> QED BY <2>1, <2>2 DEF r
<1>2. ASSUME NEW q \in Seq(Run), NEW n \in Nat \ {0}, \A k \in 1 .. Len(q) : q[k].colour \in C,
             next = Append(q, [colour |-> c, length |-> n])
      PROVE  \A k \in 1 .. Len(next) : next[k].colour \in C
  <2> HIDE DEF next
  <2>1. /\ Len(next) = Len(q) + 1 /\ next[Len(q) + 1].colour = c /\ Len(q) \in Nat
        /\ \A k \in 1 .. Len(q) : next[k] = q[k]
    BY <1>1, <1>2
  <2>2. \A k \in 1 .. Len(next) : k = Len(q) + 1 \/ k \in 1 .. Len(q)
    BY <2>1
  <2> QED BY <1>2, <2>1, <2>2
<1>3. ASSUME NEW front \in Seq(Run), NEW n \in Nat \ {0},
             runs = Append(front, [colour |-> c, length |-> n])
      PROVE  \A k \in 1 .. Len(front) : front[k].colour \in C
  <2>1. /\ Len(runs) = Len(front) + 1 /\ Len(front) \in Nat
        /\ \A k \in 1 .. Len(front) : runs[k] = front[k]
    BY <1>1, <1>3
  <2>2. \A k \in 1 .. Len(front) : k \in 1 .. Len(runs)
    BY <2>1
  <2> QED BY <2>1, <2>2
<1> HIDE DEF next
<1>4. \/ next = Append(runs, [colour |-> c, length |-> 1])
      \/ \E front \in Seq(Run), n \in Nat \ {0} :
           /\ runs = Append(front, [colour |-> c, length |-> n])
           /\ next = Append(front, [colour |-> c, length |-> n + 1])
  BY ExtendIs DEF next
<1>5. CASE next = Append(runs, [colour |-> c, length |-> 1])
  <2>1. \A k \in 1 .. Len(next) : next[k].colour \in C
    BY <1>2, <1>5
  <2> QED BY <2>1 DEF next
<1>6. ASSUME NEW front \in Seq(Run), NEW n \in Nat \ {0},
             runs = Append(front, [colour |-> c, length |-> n]),
             next = Append(front, [colour |-> c, length |-> n + 1])
      PROVE  \A k \in 1 .. Len(next) : next[k].colour \in C
  <2>1. n + 1 \in Nat \ {0}
    OBVIOUS
  <2> QED BY <1>2, <1>3, <1>6, <2>1
<1> QED BY <1>4, <1>5, <1>6 DEF next

NoRun == <<>>
IsRuns(f, t) ==
  f = [i \in 0 .. TileArea |-> IF i = 0 THEN NoRun ELSE Tiles!Extend(f[i - 1], Tiles!Pixels(t)[i])]

\* How far the runs have come after so many pixels.
LEMMA RunsSteps ==
  ASSUME NEW t \in Tiles!Tile
  PROVE  \E W : /\ Tiles!Runs(t) = W[TileArea] /\ W[0] = NoRun
                /\ \A i \in 1 .. TileArea : W[i] = Tiles!Extend(W[i - 1], Tiles!Pixels(t)[i])
<1> DEFINE A == Seq(Run)
           F == [q \in A \X (1 .. TileArea) |-> Tiles!Extend(q[1], Tiles!Pixels(t)[q[2]])]
<1>1. NoRun \in A /\ TileArea \in Nat
  BY TilesAssumption DEF NoRun
<1>2. F \in [A \X (1 .. TileArea) -> A]
  BY RunsGrow, Pixels
<1> HIDE DEF A
<1>3. PICK f : Unfolds(f, A, NoRun, TileArea, F)
  <2> HIDE DEF F
  <2> QED BY <1>1, <1>2, Recursion
<1> USE DEF Unfolds
<1>4. ASSUME NEW i \in 1 .. TileArea
      PROVE  F[<<f[i - 1], i>>] = Tiles!Extend(f[i - 1], Tiles!Pixels(t)[i])
  <2>1. f[i - 1] \in A
    BY <1>1, <1>3
  <2> QED BY <2>1
<1> HIDE DEF F
<1>5. IsRuns(f, t)
  <2>1. ASSUME NEW i \in 0 .. TileArea
        PROVE  f[i] = IF i = 0 THEN NoRun ELSE Tiles!Extend(f[i - 1], Tiles!Pixels(t)[i])
    <3>1. i # 0 => i \in 1 .. TileArea
      BY <1>1
    <3> QED BY <1>3, <1>4, <3>1
  <2> QED BY <1>3, <2>1 DEF IsRuns
<1> DEFINE W == CHOOSE g : IsRuns(g, t)
<1>6. IsRuns(W, t)
  BY <1>5, Zenon
<1>7. Tiles!Runs(t) = W[TileArea]
  BY DEF Tiles!Runs, IsRuns, NoRun
<1> HIDE DEF W
<1>8. W[0] = NoRun
  BY <1>1, <1>6 DEF IsRuns
<1>9. ASSUME NEW i \in 1 .. TileArea PROVE W[i] = Tiles!Extend(W[i - 1], Tiles!Pixels(t)[i])
  <2>1. i \in 0 .. TileArea /\ i # 0
    BY <1>1
  <2> QED BY <1>6, <2>1 DEF IsRuns
<1> QED BY <1>7, <1>8, <1>9

\* The runs are of the pixels.
First(t, i) == [j \in 1 .. i |-> Tiles!Pixels(t)[j]]
LEMMA RunsArePixels ==
  ASSUME NEW t \in Tiles!Tile
  PROVE  /\ Tiles!Runs(t) \in Seq(Run) /\ Flat(Tiles!Runs(t)) = Tiles!Pixels(t)
         /\ \A k \in 1 .. Len(Tiles!Runs(t)) : Tiles!Runs(t)[k].colour \in Tiles!Colours(t)
<1> DEFINE px == Tiles!Pixels(t)
<1>1. PICK W : /\ Tiles!Runs(t) = W[TileArea] /\ W[0] = NoRun
               /\ \A i \in 1 .. TileArea : W[i] = Tiles!Extend(W[i - 1], px[i])
  BY RunsSteps
<1>2. TileArea \in Nat /\ px \in Seq(Ink) /\ Len(px) = TileArea /\ \A i \in 1 .. TileArea : px[i] \in Ink
  BY TilesAssumption, Pixels DEF Inks
<1>0. \A i \in 1 .. TileArea : px[i] \in Tiles!Colours(t)
  BY Pixels, Places DEF Tiles!Colours
<1> HIDE DEF px
<1> DEFINE Coloured(runs) == \A k \in 1 .. Len(runs) : runs[k].colour \in Tiles!Colours(t)
           S == {i \in 0 .. TileArea : /\ W[i] \in Seq(Run) /\ Flat(W[i]) = First(t, i)
                                       /\ Coloured(W[i])}
<1>3. 0 \in S
  <2>1. Spread(NoRun) = <<>> /\ First(t, 0) = <<>>
    BY DEF Spread, NoRun, First
  <2>2. Tiles!FlattenSeq(<<>>) = <<>>
    BY DEF Tiles!FlattenSeq
  <2>3. NoRun \in Seq(Run) /\ Coloured(NoRun)
    BY DEF NoRun
  <2>4. Flat(NoRun) = First(t, 0)
    BY <2>1, <2>2, Zenon DEF Flat
  <2> QED BY <1>1, <1>2, <2>3, <2>4
<1>4. ASSUME NEW i \in 1 .. TileArea, i - 1 \in S PROVE i \in S
  <2>1. W[i - 1] \in Seq(Run) /\ Flat(W[i - 1]) = First(t, i - 1) /\ Coloured(W[i - 1])
    BY <1>4
  <2>2. W[i] = Tiles!Extend(W[i - 1], px[i]) /\ px[i] \in Ink
    BY <1>1, <1>2
  <2>3. W[i] \in Seq(Run) /\ Flat(W[i]) = First(t, i - 1) \o <<px[i]>>
    BY <2>1, <2>2, RunsGrow
  <2>4. First(t, i - 1) \o <<px[i]>> = First(t, i)
    <3>1. First(t, i) = [j \in 1 .. i |-> px[j]] /\ First(t, i - 1) = [j \in 1 .. i - 1 |-> px[j]]
      BY DEF First, px
    <3>2. First(t, i) \in Seq(Ink) /\ Len(First(t, i)) = i
      BY <1>2, <3>1
    <3>3. First(t, i - 1) \in Seq(Ink) /\ Len(First(t, i - 1)) = i - 1
      BY <1>2, <3>1
    <3>4. i \in Nat /\ i \in 1 .. i /\ First(t, i)[i] = px[i]
      BY <1>2, <3>1
    <3>5. \A k \in 1 .. i - 1 : First(t, i)[k] = First(t, i - 1)[k]
      BY <1>2, <3>1
    <3>6. First(t, i) = Append(First(t, i - 1), px[i])
      BY <3>2, <3>3, <3>4, <3>5, Ends
    <3>7. Append(First(t, i - 1), px[i]) = First(t, i - 1) \o <<px[i]>>
      BY <2>2, <3>3
    <3> QED BY <3>6, <3>7
  <2>5. W[i] \in Seq(Run) /\ Flat(W[i]) = First(t, i)
    BY <2>3, <2>4, Zenon
  <2>6. Coloured(W[i])
    BY <1>0, <2>1, <2>2, RunsColoured
  <2> QED BY <1>2, <2>5, <2>6
<1>5. TileArea \in S
  <2>1. 0 .. TileArea \subseteq S
    <3> HIDE DEF S
    <3> QED BY <1>2, <1>3, <1>4, Upwards
  <2> QED BY <1>2, <2>1
<1>6. First(t, TileArea) = px
  <2>1. px = [j \in 1 .. TileArea |-> px[j]]
    BY <1>2
  <2> QED BY <2>1 DEF First, px
<1> QED BY <1>1, <1>5, <1>6 DEF px

-----------------------------------------------------------------------------
(* The palette. *)
IsPalette(f, t) ==
  f = [i \in 0 .. TileArea |-> IF i = 0 THEN NoRun ELSE Tiles!Add(f[i - 1], Tiles!Pixels(t)[i])]

LEMMA AddIs ==
  ASSUME NEW palette \in Seq(Ink), NEW c \in Ink
  PROVE  /\ Tiles!Add(palette, c) \in Seq(Ink)
         /\ c \in Tiles!Range(Tiles!Add(palette, c))
         /\ Tiles!Range(palette) \subseteq Tiles!Range(Tiles!Add(palette, c))
<1>1. CASE c \in Tiles!Range(palette)
  BY <1>1 DEF Tiles!Add
<1>2. CASE c \notin Tiles!Range(palette)
  <2> DEFINE m == Len(palette)
             new == Append(palette, c)
  <2>1. Tiles!Add(palette, c) = new
    BY <1>2 DEF Tiles!Add
  <2>2. /\ new \in Seq(Ink) /\ m \in Nat /\ DOMAIN new = 1 .. m + 1 /\ new[m + 1] = c
        /\ DOMAIN palette = 1 .. m /\ \A k \in 1 .. m : new[k] = palette[k]
    OBVIOUS
  <2> HIDE DEF new, m
  <2>3. c \in Tiles!Range(new)
    <3>1. m + 1 \in DOMAIN new
      BY <2>2
    <3> QED BY <2>2, <3>1 DEF Tiles!Range
  <2>4. Tiles!Range(palette) \subseteq Tiles!Range(new)
    <3>1. \A k \in DOMAIN palette : k \in DOMAIN new /\ new[k] = palette[k]
      BY <2>2
    <3> QED BY <3>1 DEF Tiles!Range
  <2> QED BY <2>1, <2>2, <2>3, <2>4
<1> QED BY <1>1, <1>2

LEMMA PaletteSteps ==
  ASSUME NEW t \in Tiles!Tile
  PROVE  \E W : /\ Tiles!Palette(t) = W[TileArea] /\ W[0] = NoRun
                /\ \A i \in 1 .. TileArea : W[i] = Tiles!Add(W[i - 1], Tiles!Pixels(t)[i])
<1> DEFINE A == Seq(Ink)
           F == [q \in A \X (1 .. TileArea) |-> Tiles!Add(q[1], Tiles!Pixels(t)[q[2]])]
<1>1. NoRun \in A /\ TileArea \in Nat
  BY TilesAssumption DEF NoRun
<1>2. F \in [A \X (1 .. TileArea) -> A]
  BY AddIs, Pixels
<1> HIDE DEF A
<1>3. PICK f : Unfolds(f, A, NoRun, TileArea, F)
  <2> HIDE DEF F
  <2> QED BY <1>1, <1>2, Recursion
<1> USE DEF Unfolds
<1>4. ASSUME NEW i \in 1 .. TileArea
      PROVE  F[<<f[i - 1], i>>] = Tiles!Add(f[i - 1], Tiles!Pixels(t)[i])
  <2>1. f[i - 1] \in A
    BY <1>1, <1>3
  <2> QED BY <2>1
<1> HIDE DEF F
<1>5. IsPalette(f, t)
  <2>1. ASSUME NEW i \in 0 .. TileArea
        PROVE  f[i] = IF i = 0 THEN NoRun ELSE Tiles!Add(f[i - 1], Tiles!Pixels(t)[i])
    <3>1. i # 0 => i \in 1 .. TileArea
      BY <1>1
    <3> QED BY <1>3, <1>4, <3>1
  <2> QED BY <1>3, <2>1 DEF IsPalette
<1> DEFINE W == CHOOSE g : IsPalette(g, t)
<1>6. IsPalette(W, t)
  BY <1>5, Zenon
<1>7. Tiles!Palette(t) = W[TileArea]
  BY DEF Tiles!Palette, IsPalette, NoRun
<1> HIDE DEF W
<1>8. W[0] = NoRun
  BY <1>1, <1>6 DEF IsPalette
<1>9. ASSUME NEW i \in 1 .. TileArea PROVE W[i] = Tiles!Add(W[i - 1], Tiles!Pixels(t)[i])
  <2>1. i \in 0 .. TileArea /\ i # 0
    BY <1>1
  <2> QED BY <1>6, <2>1 DEF IsPalette
<1> QED BY <1>7, <1>8, <1>9

\* Every colour of the tile has a place in the palette.
LEMMA PaletteHolds ==
  ASSUME NEW t \in Tiles!Tile
  PROVE  /\ Tiles!Palette(t) \in Seq(Ink) /\ Len(Tiles!Palette(t)) \in Nat \ {0}
         /\ \A c \in Tiles!Colours(t) :
              /\ Tiles!IndexIn(Tiles!Palette(t), c) \in 1 .. Len(Tiles!Palette(t))
              /\ Tiles!Palette(t)[Tiles!IndexIn(Tiles!Palette(t), c)] = c
<1> DEFINE px == Tiles!Pixels(t)
<1>1. PICK W : /\ Tiles!Palette(t) = W[TileArea] /\ W[0] = NoRun
               /\ \A i \in 1 .. TileArea : W[i] = Tiles!Add(W[i - 1], px[i])
  BY PaletteSteps
<1>2. TileArea \in Nat \ {0} /\ \A i \in 1 .. TileArea : px[i] \in Ink
  BY TilesAssumption, Pixels
<1> HIDE DEF px
<1> DEFINE In(palette, i) == palette \in Seq(Ink) /\ \A j \in 1 .. i : px[j] \in Tiles!Range(palette)
           S == {i \in 0 .. TileArea : In(W[i], i)}
<1>3. 0 \in S
  <2>1. In(W[0], 0)
    BY <1>1 DEF NoRun
  <2> QED BY <1>2, <2>1
<1>4. ASSUME NEW i \in 1 .. TileArea, i - 1 \in S PROVE i \in S
  <2>1. In(W[i - 1], i - 1)
    BY <1>4
  <2>2. W[i] = Tiles!Add(W[i - 1], px[i]) /\ px[i] \in Ink
    BY <1>1, <1>2
  <2>3. /\ W[i] \in Seq(Ink) /\ px[i] \in Tiles!Range(W[i])
        /\ Tiles!Range(W[i - 1]) \subseteq Tiles!Range(W[i])
    BY <2>1, <2>2, AddIs
  <2>4. \A j \in 1 .. i : j = i \/ j \in 1 .. i - 1
    OBVIOUS
  <2>5. In(W[i], i)
    BY <2>1, <2>3, <2>4
  <2> QED BY <1>2, <2>5
<1>5. In(W[TileArea], TileArea)
  <2>1. 0 .. TileArea \subseteq S
    <3> HIDE DEF S
    <3> QED BY <1>2, <1>3, <1>4, Upwards
  <2>2. TileArea \in S
    BY <1>2, <2>1
  <2> QED BY <2>2
<1> DEFINE pal == W[TileArea]
<1>6. pal \in Seq(Ink) /\ \A j \in 1 .. TileArea : px[j] \in Tiles!Range(pal)
  BY <1>5
<1>7. Tiles!Palette(t) = pal
  BY <1>1
<1> HIDE DEF pal
<1>8. ASSUME NEW c \in Tiles!Colours(t)
      PROVE  Tiles!IndexIn(pal, c) \in 1 .. Len(pal) /\ pal[Tiles!IndexIn(pal, c)] = c
  <2>1. PICK p \in DOMAIN t : c = t[p]
    BY DEF Tiles!Colours
  <2>2. \E i \in 1 .. TileArea : Tiles!Place(t, i) = p
    BY Places
  <2>3. PICK i \in 1 .. TileArea : px[i] = c
    BY <2>1, <2>2, Pixels DEF px
  <2>4. c \in Tiles!Range(pal)
    BY <1>6, <2>3
  <2>5. DOMAIN pal = 1 .. Len(pal)
    BY <1>6
  <2>6. \E k \in DOMAIN pal : pal[k] = c
    BY <2>4 DEF Tiles!Range
  <2> QED BY <2>5, <2>6 DEF Tiles!IndexIn
<1>9. Len(pal) \in Nat \ {0}
  <2>1. 1 \in 1 .. TileArea
    BY <1>2
  <2>2. px[1] \in Tiles!Range(pal)
    BY <1>6, <2>1
  <2> QED BY <1>6, <2>2 DEF Tiles!Range
<1> QED BY <1>6, <1>7, <1>8, <1>9

-----------------------------------------------------------------------------
(***************************************************************************)
(* A packed row: what has been put into a byte can be got out of it.       *)
(***************************************************************************)
Widths == {1, 2, 4}
Fills(b) == {f \in 0 .. 7 : f % b = 0}
Get(byte, low, b) == (byte \div (2 ^ low)) % (2 ^ b)
Byte(y, b) == (y * b) \div 8
Bit(y, b)  == (y * b) % 8

\* The byte of an index and where in it.
LEMMA Fields ==
  ASSUME NEW b \in Widths, NEW y \in Nat
  PROVE  /\ Byte(y, b) \in Nat /\ Bit(y, b) \in Fills(b) /\ Bit(y, b) \in 0 .. 7
         /\ y * b = Byte(y, b) * 8 + Bit(y, b)
<1>1. CASE b = 1
  BY <1>1 DEF Fills, Byte, Bit
<1>2. CASE b = 2
  BY <1>2 DEF Fills, Byte, Bit
<1>3. CASE b = 4
  BY <1>3 DEF Fills, Byte, Bit
<1> QED BY <1>1, <1>2, <1>3 DEF Widths

\* There is room for one more index.
LEMMA Room ==
  ASSUME NEW b \in Widths, NEW f \in Fills(b)
  PROVE  f \in 0 .. 8 - b /\ f + b \in 1 .. 8 /\ (f + b = 8 \/ f + b \in Fills(b))
<1>1. CASE b = 1
  BY <1>1 DEF Fills
<1>2. CASE b = 2
  BY <1>2 DEF Fills
<1>3. CASE b = 4
  BY <1>3 DEF Fills
<1> QED BY <1>1, <1>2, <1>3 DEF Widths

LEMMA Below ==
  ASSUME NEW b \in Widths, NEW f \in Fills(b), NEW r \in Fills(b), r < f
  PROVE  r <= f - b /\ f - b - r \in Fills(b) /\ f - b - r \in 0 .. 8 - b
<1>1. CASE b = 1
  BY <1>1 DEF Fills
<1>2. CASE b = 2
  BY <1>2 DEF Fills
<1>3. CASE b = 4
  BY <1>3 DEF Fills
<1> QED BY <1>1, <1>2, <1>3 DEF Widths

LEMMA Powers ==
  /\ 2 ^ 0 = 1 /\ 2 ^ 1 = 2 /\ 2 ^ 2 = 4 /\ 2 ^ 3 = 8 /\ 2 ^ 4 = 16
  /\ 2 ^ 5 = 32 /\ 2 ^ 6 = 64 /\ 2 ^ 7 = 128 /\ 2 ^ 8 = 256
OBVIOUS

LEMMA PowerSum ==
  ASSUME NEW a \in 0 .. 8, NEW k \in 0 .. 8 - a
  PROVE  2 ^ a \in Nat \ {0} /\ 2 ^ (a + k) = 2 ^ a * 2 ^ k
<1> DEFINE P == [e \in 0 .. 8 |-> 2 ^ e]
<1>1. /\ P[0] = 1 /\ P[1] = 2 /\ P[2] = 4 /\ P[3] = 8 /\ P[4] = 16
      /\ P[5] = 32 /\ P[6] = 64 /\ P[7] = 128 /\ P[8] = 256
  BY Powers
<1>2. 2 ^ a = P[a] /\ 2 ^ k = P[k] /\ 2 ^ (a + k) = P[a + k]
  OBVIOUS
<1> HIDE DEF P
<1>3. P[a] \in Nat \ {0} /\ P[a + k] = P[a] * P[k]
  <2>1. CASE a = 0
    BY <1>1, <2>1
  <2>2. CASE a = 1
    BY <1>1, <2>2
  <2>3. CASE a = 2
    BY <1>1, <2>3
  <2>4. CASE a = 3
    BY <1>1, <2>4
  <2>5. CASE a = 4
    BY <1>1, <2>5
  <2>6. CASE a = 5
    BY <1>1, <2>6
  <2>7. CASE a \in 6 .. 8
    BY <1>1, <2>7
  <2> QED BY <2>1, <2>2, <2>3, <2>4, <2>5, <2>6, <2>7
<1> QED BY <1>2, <1>3

LEMMA Cancel ==
  ASSUME NEW n \in Nat, NEW m \in Nat \ {0}, NEW k \in Nat \ {0}, NEW j \in 0 .. k - 1
  PROVE  (n * k + j) \div (m * k) = n \div m
<1> DEFINE q == n \div m
           r == n % m
           mk == m * k
           new == n * k + j
<1>1. q \in Nat /\ r \in 0 .. m - 1 /\ n = m * q + r
  OBVIOUS
<1> HIDE DEF q, r
<1>2. mk \in Nat \ {0} /\ new \in Nat
  OBVIOUS
<1>3. n * k = mk * q + r * k
  BY <1>1
<1>4. r * k + k <= mk /\ r * k \in Nat
  <2>1. (r + 1) * k <= m * k
    BY <1>1
  <2>2. (r + 1) * k = r * k + k
    BY <1>1
  <2> QED BY <1>1, <2>1, <2>2
<1> DEFINE rest == r * k + j
<1>5. rest \in 0 .. mk - 1 /\ new = mk * q + rest
  <2> DEFINE a == r * k
             c == mk * q
             d == n * k
  <2>1. a \in Nat /\ c \in Nat /\ d \in Nat /\ d = c + a /\ a + k <= mk
    BY <1>1, <1>2, <1>3, <1>4
  <2> HIDE DEF a, c, d, mk
  <2>2. a + j \in 0 .. mk - 1 /\ d + j = c + (a + j)
    BY <1>2, <2>1
  <2> QED BY <2>2 DEF a, c, d, new, rest
<1> HIDE DEF mk, new, rest
<1>6. new \div mk = q
  BY <1>1, <1>2, <1>5
<1> QED BY <1>6 DEF new, mk, q

LEMMA ShiftIn ==
  ASSUME NEW b \in Widths, NEW byte \in Nat, NEW index \in 0 .. 2 ^ b - 1
  PROVE  /\ byte * 2 ^ b + index \in Nat
         /\ Get(byte * 2 ^ b + index, 0, b) = index
         /\ \A low \in 0 .. 8 - b : Get(byte * 2 ^ b + index, low + b, b) = Get(byte, low, b)
<1> DEFINE k == 2 ^ b
           new == byte * k + index
<1>1. k \in Nat \ {0} /\ index \in 0 .. k - 1
  BY PowerSum DEF Widths
<1> HIDE DEF k
<1>2. new \in Nat
  BY <1>1
<1>3. Get(new, 0, b) = index
  <2>1. new % k = index
    BY <1>1
  <2>2. new \div 1 = new
    BY <1>2
  <2> QED BY <2>1, <2>2, Powers DEF Get, k
<1>4. ASSUME NEW low \in 0 .. 8 - b PROVE Get(new, low + b, b) = Get(byte, low, b)
  <2>0. low \in 0 .. 8 /\ b \in 0 .. 8 - low
    BY DEF Widths
  <2>1. 2 ^ low \in Nat \ {0} /\ 2 ^ (low + b) = 2 ^ low * k
    BY <2>0, PowerSum, Zenon DEF k
  <2>2. new \div (2 ^ low * k) = byte \div (2 ^ low)
    BY <1>1, <2>1, Cancel
  <2> QED BY <2>1, <2>2 DEF Get
<1> QED BY <1>2, <1>3, <1>4 DEF k

LEMMA FillUp ==
  ASSUME NEW b \in Widths, NEW byte \in Nat, NEW f \in Fills(b), f # 0
  PROVE  /\ byte * 2 ^ (8 - f) \in Nat
         /\ \A r \in Fills(b) : r < f =>
              Get(byte * 2 ^ (8 - f), 8 - b - r, b) = Get(byte, f - b - r, b)
<1> DEFINE e == 8 - f
           k == 2 ^ e
<1>1. e \in 0 .. 8 /\ f \in 1 .. 7 /\ 0 \in 0 .. 8 - e /\ f = 8 - e
  BY DEF Fills
<1> HIDE DEF e
<1>2. k \in Nat \ {0}
  BY <1>1, PowerSum
<1> HIDE DEF k
<1>3. ASSUME NEW r \in Fills(b), r < f
      PROVE  Get(byte * k, 8 - b - r, b) = Get(byte, f - b - r, b)
  <2> DEFINE low == f - b - r
  <2>1. low \in 0 .. 8 /\ e \in 0 .. 8 - low /\ 8 - b - r = low + e
    <3>1. b \in Nat /\ r \in Nat /\ r <= f - b
      BY <1>3, Below DEF Fills, Widths
    <3> QED BY <1>1, <3>1
  <2> HIDE DEF low
  <2>2. 2 ^ low \in Nat \ {0} /\ 2 ^ (low + e) = 2 ^ low * k
    BY <2>1, PowerSum, Zenon DEF k
  <2>3. (byte * k + 0) \div (2 ^ low * k) = byte \div (2 ^ low)
    BY <1>2, <2>2, Cancel
  <2>4. (byte * k) \div (2 ^ low * k) = byte \div (2 ^ low)
    BY <1>2, <2>3
  <2> QED BY <2>1, <2>2, <2>4 DEF Get, low
<1> QED BY <1>2, <1>3 DEF k, e

Indices(b) == 0 .. 2 ^ b - 1
Packing == [out : Seq(Nat), byte : Nat, filled : Nat]
NoByte  == [out |-> <<>>, byte |-> 0, filled |-> 0]
IsPacked(f, row, b) ==
  f = [x \in 0 .. Len(row) |-> IF x = 0 THEN NoByte ELSE Tiles!Put(f[x - 1], row[x], b)]

LEMMA PutIs ==
  ASSUME NEW b \in Widths, NEW done \in Packing, NEW index \in Indices(b)
  PROVE  /\ Tiles!Put(done, index, b) \in Packing
         /\ done.byte * 2 ^ b + index \in Nat
         /\ done.filled + b = 8 =>
              Tiles!Put(done, index, b) = [out |-> Append(done.out, done.byte * 2 ^ b + index),
                                           byte |-> 0, filled |-> 0]
         /\ done.filled + b # 8 =>
              Tiles!Put(done, index, b) = [out |-> done.out, byte |-> done.byte * 2 ^ b + index,
                                           filled |-> done.filled + b]
<1> DEFINE new == done.byte * 2 ^ b + index
<1>1. new \in Nat
  BY ShiftIn DEF Packing, Indices
<1> HIDE DEF new
<1>2. done.out \in Seq(Nat) /\ done.filled + b \in Nat /\ Append(done.out, new) \in Seq(Nat)
  BY <1>1 DEF Packing, Widths
<1>3. CASE done.filled + b = 8
  BY <1>1, <1>2, <1>3 DEF Tiles!Put, Packing, new
<1>4. CASE done.filled + b # 8
  BY <1>1, <1>2, <1>4 DEF Tiles!Put, Packing, new
<1> QED BY <1>1, <1>3, <1>4 DEF new

LEMMA Elements ==
  ASSUME NEW S, NEW row \in Seq(S)
  PROVE  Len(row) \in Nat /\ \A x \in 1 .. Len(row) : row[x] \in S
OBVIOUS

LEMMA PackSteps ==
  ASSUME NEW b \in Widths, NEW row \in Seq(Indices(b))
  PROVE  \E W : /\ Tiles!PackRow(row, b) =
                     IF W[Len(row)].filled = 0 THEN W[Len(row)].out
                     ELSE Append(W[Len(row)].out, W[Len(row)].byte * 2 ^ (8 - W[Len(row)].filled))
                /\ W[0] = NoByte
                /\ \A x \in 1 .. Len(row) : W[x] = Tiles!Put(W[x - 1], row[x], b)
<1> DEFINE n == Len(row)
           F == [q \in Packing \X (1 .. n) |-> Tiles!Put(q[1], row[q[2]], b)]
<1>1. NoByte \in Packing /\ n \in Nat
  BY DEF NoByte, Packing
<1>2. F \in [Packing \X (1 .. n) -> Packing]
  <2>1. \A x \in 1 .. n : row[x] \in Indices(b)
    BY Elements
  <2> QED BY <2>1, PutIs
<1> DEFINE W == CHOOSE g : IsPacked(g, row, b)
<1>3. Tiles!PackRow(row, b) = IF W[n].filled = 0 THEN W[n].out
                              ELSE Append(W[n].out, W[n].byte * 2 ^ (8 - W[n].filled))
  BY DEF Tiles!PackRow, IsPacked, NoByte
<1> HIDE DEF W, n
<1>4. PICK f : Unfolds(f, Packing, NoByte, n, F)
  <2> HIDE DEF F
  <2> QED BY <1>1, <1>2, Recursion
<1> USE DEF Unfolds
<1>5. ASSUME NEW x \in 1 .. n PROVE F[<<f[x - 1], x>>] = Tiles!Put(f[x - 1], row[x], b)
  <2>1. f[x - 1] \in Packing
    BY <1>1, <1>4
  <2> QED BY <2>1
<1> HIDE DEF F
<1>6. IsPacked(f, row, b)
  <2>1. ASSUME NEW x \in 0 .. n
        PROVE  f[x] = IF x = 0 THEN NoByte ELSE Tiles!Put(f[x - 1], row[x], b)
    <3>1. x # 0 => x \in 1 .. n
      BY <1>1
    <3> QED BY <1>4, <1>5, <3>1
  <2> QED BY <1>4, <2>1 DEF IsPacked, n
<1>7. IsPacked(W, row, b)
  BY <1>6, Zenon DEF W
<1>8. W[0] = NoByte
  BY <1>1, <1>7 DEF IsPacked, n
<1>9. ASSUME NEW x \in 1 .. n PROVE W[x] = Tiles!Put(W[x - 1], row[x], b)
  <2>1. x \in 0 .. n /\ x # 0
    BY <1>1
  <2> QED BY <1>7, <2>1 DEF IsPacked, n
<1> QED BY <1>3, <1>8, <1>9 DEF n

\* What can be got out of so many indices, the last of them in a byte that is not full yet.
Kept(row, b, whole, byte, filled, x) ==
  \A y \in 0 .. x - 1 :
    \/ Byte(y, b) < Len(whole) /\ Get(whole[Byte(y, b) + 1], 8 - b - Bit(y, b), b) = row[y + 1]
    \/ /\ Byte(y, b) = Len(whole) /\ Bit(y, b) < filled
       /\ Get(byte, filled - b - Bit(y, b), b) = row[y + 1]
PackInv(row, b, done, x) ==
  /\ done \in Packing /\ done.filled \in Fills(b)
  /\ Len(done.out) * 8 + done.filled = x * b
  /\ Kept(row, b, done.out, done.byte, done.filled, x)

LEMMA OneMore ==
  ASSUME NEW n \in Nat, NEW d \in Nat, NEW b \in Nat, NEW x \in Nat, n * 8 + d = (x - 1) * b
  PROVE  n * 8 + (d + b) = x * b
<1>1. (x - 1) * b = x * b - b
  OBVIOUS
<1> QED BY <1>1

LEMMA SamePlace ==
  ASSUME NEW n \in Nat, NEW d \in 0 .. 7, NEW q \in Nat, NEW r \in 0 .. 7,
         q * 8 + r = n * 8 + d
  PROVE  q = n /\ r = d
OBVIOUS

LEMMA WholeBytes ==
  ASSUME NEW m \in Nat, NEW f \in 0 .. 7, NEW v, m * 8 + f = v
  PROVE  (v + 7) \div 8 = IF f = 0 THEN m ELSE m + 1
OBVIOUS

LEMMA PutKeeps ==
  ASSUME NEW b \in Widths, NEW row \in Seq(Indices(b)), NEW x \in 1 .. Len(row),
         NEW done, PackInv(row, b, done, x - 1)
  PROVE  PackInv(row, b, Tiles!Put(done, row[x], b), x)
<1> DEFINE new == done.byte * 2 ^ b + row[x]
           f   == done.filled + b
           whole == done.out
           n   == Len(whole)
           next == Tiles!Put(done, row[x], b)
<1>1. /\ done \in Packing /\ done.byte \in Nat /\ done.filled \in Fills(b) /\ done.filled \in 0 .. 7
      /\ whole \in Seq(Nat) /\ n \in Nat
      /\ x \in Nat \ {0} /\ row[x] \in Indices(b) /\ b \in 1 .. 4
  <2>1. done \in Packing /\ done.filled \in Fills(b)
    BY DEF PackInv
  <2>2. row[x] \in Indices(b) /\ x \in Nat \ {0}
    <3>1. Len(row) \in Nat /\ \A k \in 1 .. Len(row) : row[k] \in Indices(b)
      BY Elements
    <3> QED BY <3>1
  <2> QED BY <2>1, <2>2 DEF Packing, Fills, Widths
<1>2. new \in Nat /\ Get(new, 0, b) = row[x]
      /\ \A low \in 0 .. 8 - b : Get(new, low + b, b) = Get(done.byte, low, b)
  BY <1>1, ShiftIn DEF Indices
<1>3. n * 8 + f = x * b
  <2>1. n * 8 + done.filled = (x - 1) * b
    BY DEF PackInv
  <2>2. done.filled \in Nat /\ b \in Nat
    BY <1>1
  <2> HIDE DEF n
  <2> QED BY <1>1, <2>1, <2>2, OneMore
<1>4. f \in 1 .. 8 /\ (f = 8 \/ f \in Fills(b))
  <2>1. done.filled \in 0 .. 8 - b /\ (f = 8 \/ f \in Fills(b))
    BY <1>1, Room
  <2> QED BY <1>1, <2>1, Room
<1> HIDE DEF new, n, f
<1> DEFINE d == done.filled
<1>0. /\ d \in Fills(b) /\ d \in 0 .. 7 /\ n \in Nat /\ f = d + b /\ b \in 1 .. 4
      /\ x \in Nat \ {0}
  BY <1>1 DEF f
<1> HIDE DEF d
<1>5. ASSUME NEW y \in 0 .. x - 1
      PROVE  \/ Byte(y, b) < n /\ Get(whole[Byte(y, b) + 1], 8 - b - Bit(y, b), b) = row[y + 1]
             \/ /\ Byte(y, b) = n /\ Bit(y, b) < f
                /\ Get(new, f - b - Bit(y, b), b) = row[y + 1]
  <2>1. CASE y = x - 1
    <3>1. y \in Nat /\ y * b = n * 8 + d
      BY <1>1, <2>1 DEF PackInv, n, d
    <3>2. Byte(y, b) \in Nat /\ Bit(y, b) \in 0 .. 7 /\ y * b = Byte(y, b) * 8 + Bit(y, b)
      BY <3>1, Fields DEF Fills
    <3>3. Byte(y, b) = n /\ Bit(y, b) = d
      <4>1. Byte(y, b) * 8 + Bit(y, b) = n * 8 + d
        BY <3>1, <3>2
      <4> QED BY <1>0, <3>2, <4>1, SamePlace
    <3>4. f - b - Bit(y, b) = 0 /\ Bit(y, b) < f /\ y + 1 = x
      BY <1>0, <2>1, <3>3
    <3> QED BY <1>2, <3>3, <3>4
  <2>2. CASE y # x - 1
    <3>1. y \in 0 .. (x - 1) - 1 /\ y \in Nat
      BY <1>1, <2>2
    <3>2. CASE Byte(y, b) < n /\ Get(whole[Byte(y, b) + 1], 8 - b - Bit(y, b), b) = row[y + 1]
      BY <3>2
    <3>3. CASE /\ Byte(y, b) = n /\ Bit(y, b) < d
               /\ Get(done.byte, d - b - Bit(y, b), b) = row[y + 1]
      <4> DEFINE low == d - b - Bit(y, b)
      <4>1. Bit(y, b) \in Fills(b) /\ Bit(y, b) \in 0 .. 7
        BY <3>1, Fields DEF Fills
      <4>2. low \in Fills(b)
        BY <1>0, <3>3, <4>1, Below
      <4>3. low \in 0 .. 8 - b
        BY <4>2, Room
      <4>4. f - b - Bit(y, b) = low + b /\ Bit(y, b) < f
        <5> DEFINE r == Bit(y, b)
        <5>1. r \in 0 .. 7 /\ r < d
          BY <3>3, <4>1
        <5> HIDE DEF r
        <5>2. f - b - r = d - b - r + b /\ r < f
          BY ONLY <1>0, <5>1
        <5> QED BY <5>2 DEF r
      <4> HIDE DEF low
      <4>5. Get(new, f - b - Bit(y, b), b) = Get(done.byte, low, b)
        BY <1>2, <4>3, <4>4
      <4> QED BY <3>3, <4>4, <4>5 DEF low
    <3> QED BY <3>1, <3>2, <3>3 DEF PackInv, Kept, n, d
  <2> QED BY <2>1, <2>2
<1>6. CASE f = 8
  <2>1. next = [out |-> Append(whole, new), byte |-> 0, filled |-> 0] /\ next \in Packing
    BY <1>1, <1>6, PutIs DEF f, new
  <2> DEFINE longer == Append(whole, new)
  <2>2. Len(longer) = n + 1 /\ longer[n + 1] = new /\ \A k \in 1 .. n : longer[k] = whole[k]
    BY <1>1, <1>2 DEF n
  <2>3. 0 \in Fills(b)
    BY DEF Fills, Widths
  <2> HIDE DEF longer
  <2>4. Kept(row, b, longer, 0, 0, x)
    <3> SUFFICES ASSUME NEW y \in 0 .. x - 1
                 PROVE  /\ Byte(y, b) < Len(longer)
                        /\ Get(longer[Byte(y, b) + 1], 8 - b - Bit(y, b), b) = row[y + 1]
      BY DEF Kept
    <3>0. y \in Nat
      BY <1>1
    <3>1. Byte(y, b) \in Nat
      BY <3>0, Fields
    <3>2. CASE Byte(y, b) < n /\ Get(whole[Byte(y, b) + 1], 8 - b - Bit(y, b), b) = row[y + 1]
      <4> DEFINE k == Byte(y, b)
      <4>1. k \in Nat /\ n \in Nat /\ k < n
        BY <1>1, <3>1, <3>2
      <4> HIDE DEF k
      <4>2. k + 1 \in 1 .. n /\ k < n + 1
        BY ONLY <4>1
      <4>3. Byte(y, b) + 1 \in 1 .. n /\ Byte(y, b) < n + 1
        BY <4>2 DEF k
      <4> QED BY <2>2, <3>2, <4>3
    <3>3. CASE /\ Byte(y, b) = n /\ Bit(y, b) < f
               /\ Get(new, f - b - Bit(y, b), b) = row[y + 1]
      BY <1>1, <1>6, <2>2, <3>3
    <3> QED BY <1>5, <3>2, <3>3
  <2>5. next.out = longer /\ next.byte = 0 /\ next.filled = 0
    BY <2>1 DEF longer
  <2>6. Len(longer) * 8 + 0 = x * b
    BY <1>1, <1>3, <1>6, <2>2
  <2> HIDE DEF next
  <2> QED BY <2>1, <2>3, <2>4, <2>5, <2>6 DEF PackInv, next
<1>7. CASE f # 8
  <2>1. next = [out |-> whole, byte |-> new, filled |-> f] /\ next \in Packing
    BY <1>1, <1>7, PutIs DEF f, new
  <2>2. next.out = whole /\ next.byte = new /\ next.filled = f
    BY <2>1
  <2>3. Kept(row, b, whole, new, f, x)
    BY <1>5 DEF Kept, n
  <2> HIDE DEF next
  <2> QED BY <1>3, <1>4, <1>7, <2>1, <2>2, <2>3 DEF PackInv, n, next
<1> QED BY <1>6, <1>7

\* A packed row is as long as its indices need, and each of them is where the viewer looks.
LEMMA RowPacked ==
  ASSUME NEW b \in Widths, NEW row \in Seq(Indices(b))
  PROVE  LET packed == Tiles!PackRow(row, b) IN
         /\ packed \in Seq(Nat) /\ Len(packed) = (Len(row) * b + 7) \div 8
         /\ \A y \in 0 .. Len(row) - 1 :
              Get(packed[Byte(y, b) + 1], 8 - b - Bit(y, b), b) = row[y + 1]
<1> DEFINE n == Len(row)
           packed == Tiles!PackRow(row, b)
<1>1. PICK W : /\ packed = IF W[n].filled = 0 THEN W[n].out
                           ELSE Append(W[n].out, W[n].byte * 2 ^ (8 - W[n].filled))
               /\ W[0] = NoByte
               /\ \A x \in 1 .. n : W[x] = Tiles!Put(W[x - 1], row[x], b)
  BY PackSteps
<1>2. n \in Nat
  OBVIOUS
<1> HIDE DEF packed
<1> DEFINE S == {x \in 0 .. n : PackInv(row, b, W[x], x)}
<1>3. 0 \in S
  <2>1. PackInv(row, b, NoByte, 0)
    BY DEF PackInv, Kept, NoByte, Packing, Fills, Widths
  <2> QED BY <1>1, <1>2, <2>1
<1>4. \A x \in 1 .. n : x - 1 \in S => x \in S
  BY <1>1, <1>2, PutKeeps
<1>5. PackInv(row, b, W[n], n)
  <2> HIDE DEF n
  <2>1. 0 .. n \subseteq S
    <3> HIDE DEF S
    <3> QED BY <1>2, <1>3, <1>4, Upwards
  <2>2. n \in S
    BY <1>2, <2>1
  <2> QED BY <2>2
<1> DEFINE all == W[n]
           f == all.filled
           whole == all.out
           m == Len(whole)
<1>6. packed = IF f = 0 THEN whole ELSE Append(whole, all.byte * 2 ^ (8 - f))
  BY <1>1
<1> HIDE DEF all
<1>7. /\ f \in Fills(b) /\ f \in 0 .. 7 /\ whole \in Seq(Nat) /\ m \in Nat /\ all.byte \in Nat
      /\ m * 8 + f = n * b /\ Kept(row, b, whole, all.byte, f, n)
  BY <1>5 DEF PackInv, Packing, Fills, all
<1> HIDE DEF f, whole, m, n
<1>8. CASE f = 0
  <2>1. packed = whole
    BY <1>6, <1>8
  <2>2. m = (n * b + 7) \div 8
    BY <1>7, <1>8, WholeBytes
  <2>3. ASSUME NEW y \in 0 .. n - 1
        PROVE  Get(whole[Byte(y, b) + 1], 8 - b - Bit(y, b), b) = row[y + 1]
    <3>0. y \in Nat
      BY <1>2
    <3>1. Bit(y, b) \in 0 .. 7
      BY <3>0, Fields
    <3>2. ~(Bit(y, b) < f)
      BY <1>8, <3>1
    <3> QED BY <1>7, <3>2 DEF Kept, m
  <2> QED BY <1>7, <2>1, <2>2, <2>3 DEF m, n, packed
<1>9. CASE f # 0
  <2> DEFINE last == all.byte * 2 ^ (8 - f)
  <2>1. /\ last \in Nat
        /\ \A r \in Fills(b) : r < f => Get(last, 8 - b - r, b) = Get(all.byte, f - b - r, b)
    BY <1>7, <1>9, FillUp
  <2> HIDE DEF last
  <2>2. packed = Append(whole, last)
    BY <1>6, <1>9 DEF last
  <2>3. /\ packed \in Seq(Nat) /\ Len(packed) = m + 1 /\ packed[m + 1] = last
        /\ \A k \in 1 .. m : packed[k] = whole[k]
    BY <1>7, <2>1, <2>2 DEF m
  <2>4. m + 1 = (n * b + 7) \div 8
    BY <1>7, <1>9, WholeBytes
  <2>5. ASSUME NEW y \in 0 .. n - 1
        PROVE  Get(packed[Byte(y, b) + 1], 8 - b - Bit(y, b), b) = row[y + 1]
    <3>0. y \in Nat
      BY <1>2
    <3>1. Byte(y, b) \in Nat /\ Bit(y, b) \in Fills(b)
      BY <3>0, Fields
    <3>2. CASE Byte(y, b) < m /\ Get(whole[Byte(y, b) + 1], 8 - b - Bit(y, b), b) = row[y + 1]
      <4>1. Byte(y, b) + 1 \in 1 .. m
        BY <1>7, <3>1, <3>2
      <4> QED BY <2>3, <3>2, <4>1
    <3>3. CASE /\ Byte(y, b) = m /\ Bit(y, b) < f
               /\ Get(all.byte, f - b - Bit(y, b), b) = row[y + 1]
      BY <2>1, <2>3, <3>1, <3>3
    <3> QED BY <1>7, <3>2, <3>3 DEF Kept, m
  <2> QED BY <2>3, <2>4, <2>5 DEF n, packed
<1> QED BY <1>8, <1>9

-----------------------------------------------------------------------------
(***************************************************************************)
(* ZRLE: each form unpacks to the tile, and takes the bytes it was thought *)
(* to take.                                                                *)
(***************************************************************************)
LEMMA TotalNat ==
  ASSUME NEW sizes \in Seq(Nat)
  PROVE  Tiles!Total(sizes) \in Nat
<1> DEFINE n == Len(sizes)
<1>0. n \in Nat /\ \A i \in 1 .. n : sizes[i] \in Nat
  BY Elements
<1>1. PICK W : /\ Tiles!Total(sizes) = W[n] /\ W[0] = 0
               /\ \A i \in 1 .. n : W[i] = W[i - 1] + sizes[i]
  <2>1. sizes \in Seq(Int)
    OBVIOUS
  <2> QED BY <2>1, TotalSteps
<1> HIDE DEF n
<1> DEFINE S == {i \in 0 .. n : W[i] \in Nat}
<1>2. 0 \in S
  BY <1>0, <1>1
<1>3. ASSUME NEW i \in 1 .. n, i - 1 \in S PROVE i \in S
  <2>1. W[i] = W[i - 1] + sizes[i] /\ sizes[i] \in Nat /\ W[i - 1] \in Nat
    BY <1>0, <1>1, <1>3
  <2> QED BY <1>0, <2>1
<1>4. 0 .. n \subseteq S
  <2> HIDE DEF S
  <2> QED BY <1>0, <1>2, <1>3, Upwards
<1> QED BY <1>0, <1>1, <1>4

Fits(t, msg) == /\ Tiles!Length(msg) = 1 + msg.size /\ msg.size \in Nat
                /\ Tiles!Unpack(msg, Tiles!Width(t), DOMAIN t) = t

\* A tile is its pixels row by row.
LEMMA ByRows ==
  ASSUME NEW t \in Tiles!Tile, NEW px, px = Tiles!Pixels(t)
  PROVE  t = [p \in DOMAIN t |-> px[p[2] * Tiles!Width(t) + p[1] + 1]]
<1>1. t = [p \in DOMAIN t |-> t[p]]
  <2>1. t \in [DOMAIN t -> Ink]
    BY Shapes
  <2> QED BY <2>1
<1>2. ASSUME NEW p \in DOMAIN t PROVE t[p] = px[p[2] * Tiles!Width(t) + p[1] + 1]
  <2>1. /\ p[2] * Wide(t) + p[1] + 1 \in 1 .. TileArea
        /\ Tiles!Place(t, p[2] * Wide(t) + p[1] + 1) = p
    BY Places
  <2> QED BY <2>1, Pixels DEF Wide
<1> QED BY <1>1, <1>2

LEMMA RawFits ==
  ASSUME NEW t \in Tiles!Tile, bytes \in Nat \ {0}
  PROVE  Fits(t, Tiles!Raw(t)) /\ Tiles!Raw(t).size = TileArea * bytes
<1> DEFINE msg == Tiles!Raw(t)
<1>1. /\ msg.form = "raw" /\ msg.palette = <<>> /\ msg.data = Tiles!Pixels(t)
      /\ msg.size = TileArea * bytes
  BY DEF Tiles!Raw
<1> HIDE DEF msg
<1>2. TileArea * bytes \in Nat
  BY TilesAssumption
<1>3. Tiles!Length(msg) = 1 + TileArea * bytes
  <2>1. Len(msg.palette) * bytes = 0 /\ Len(msg.data) = TileArea
    BY <1>1, Pixels
  <2>2. Tiles!Length(msg) = 1 + Len(msg.palette) * bytes + Len(msg.data) * bytes
    BY <1>1 DEF Tiles!Length
  <2> QED BY <1>2, <2>1, <2>2
<1>4. Tiles!Unpack(msg, Tiles!Width(t), DOMAIN t) =
        [p \in DOMAIN t |-> msg.data[p[2] * Tiles!Width(t) + p[1] + 1]]
  BY <1>1 DEF Tiles!Unpack
<1>5. Tiles!Unpack(msg, Tiles!Width(t), DOMAIN t) = t
  BY <1>1, <1>4, ByRows
<1> QED BY <1>1, <1>2, <1>3, <1>5 DEF Fits, msg

LEMMA SolidFits ==
  ASSUME NEW t \in Tiles!Tile, bytes \in Nat \ {0}, Len(Tiles!Palette(t)) = 1
  PROVE  LET msg == [form |-> "solid", palette |-> Tiles!Palette(t), data |-> <<>>, size |-> bytes]
         IN Fits(t, msg)
<1> DEFINE pal == Tiles!Palette(t)
           msg == [form |-> "solid", palette |-> pal, data |-> <<>>, size |-> bytes]
<1>1. msg.form = "solid" /\ msg.palette = pal /\ msg.data = <<>> /\ msg.size = bytes
  OBVIOUS
<1> HIDE DEF msg, pal
<1>2. Tiles!Length(msg) = 1 + bytes
  <2>1. Tiles!Length(msg) = 1 + Len(pal) * bytes + 0 * bytes
    BY <1>1 DEF Tiles!Length
  <2> QED BY <2>1 DEF pal
<1>3. Tiles!Unpack(msg, Tiles!Width(t), DOMAIN t) = [p \in DOMAIN t |-> pal[1]]
  BY <1>1 DEF Tiles!Unpack
<1>4. ASSUME NEW p \in DOMAIN t PROVE t[p] = pal[1]
  <2>1. t[p] \in Tiles!Colours(t)
    BY DEF Tiles!Colours
  <2>2. Tiles!IndexIn(pal, t[p]) \in 1 .. 1 /\ pal[Tiles!IndexIn(pal, t[p])] = t[p]
    BY <2>1, PaletteHolds DEF pal
  <2> QED BY <2>2
<1>5. t = [p \in DOMAIN t |-> t[p]]
  <2>1. t \in [DOMAIN t -> Ink]
    BY Shapes
  <2> QED BY <2>1
<1>6. Tiles!Unpack(msg, Tiles!Width(t), DOMAIN t) = t
  BY <1>3, <1>4, <1>5
<1> QED BY <1>1, <1>2, <1>6 DEF Fits, msg, pal

\* What the viewer makes of runs, if it finds each of them.
LEMMA RunsUnpack ==
  ASSUME NEW t \in Tiles!Tile, NEW seqs,
         seqs = [i \in 1 .. Len(Tiles!Runs(t)) |->
                   Rep(Tiles!Runs(t)[i].colour, Tiles!Runs(t)[i].length)]
  PROVE  [p \in DOMAIN t |-> Tiles!FlattenSeq(seqs)[p[2] * Tiles!Width(t) + p[1] + 1]] = t
<1>1. Tiles!FlattenSeq(seqs) = Tiles!Pixels(t)
  BY RunsArePixels DEF Flat, Spread
<1> QED BY <1>1, ByRows

LEMMA HeadAndRest ==
  ASSUME NEW c \in Nat, NEW length \in Seq(Nat)
  PROVE  LET all == <<c>> \o length IN
         all \in Seq(Nat) /\ Len(all) = 1 + Len(length) /\ all[1] = c /\ Tail(all) = length
<1> DEFINE all == <<c>> \o length
<1>1. /\ all \in Seq(Nat) /\ Len(all) = 1 + Len(length) /\ all[1] = c
      /\ \A i \in 1 .. Len(length) : all[i + 1] = length[i]
  OBVIOUS
<1> HIDE DEF all
<1>2. Tail(all) \in Seq(Nat) /\ Len(Tail(all)) = Len(length)
  BY <1>1
<1>3. \A i \in 1 .. Len(Tail(all)) : Tail(all)[i] = length[i]
  BY <1>1, <1>2
<1>4. Tail(all) = length
  BY <1>2, <1>3, SeqEqual
<1> QED BY <1>1, <1>4 DEF all

LEMMA PlainFits ==
  ASSUME NEW t \in Tiles!Tile, bytes \in Nat \ {0}
  PROVE  Fits(t, Tiles!PlainRle(Tiles!Runs(t)))
<1> DEFINE runs == Tiles!Runs(t)
           m    == Len(runs)
           msg  == Tiles!PlainRle(runs)
           Sent(i) == <<runs[i].colour>> \o Tiles!RunLength(runs[i].length)
           sizes == [i \in 1 .. m |-> bytes + Tiles!RunBytes(runs[i].length)]
<1>1. runs \in Seq(Run)
  BY RunsArePixels
<1>2. m \in Nat /\ DOMAIN runs = 1 .. m /\ \A i \in 1 .. m : runs[i] \in Run
  BY <1>1, Elements
<1>3. /\ msg.form = "plain_rle" /\ msg.palette = <<>>
      /\ msg.data = [i \in 1 .. m |-> Sent(i)] /\ msg.size = Tiles!Total(sizes)
  BY <1>2 DEF Tiles!PlainRle
<1> HIDE DEF runs, m, msg
<1>4. ASSUME NEW i \in 1 .. m
      PROVE  /\ Len(Sent(i)) = 1 + Tiles!RunBytes(runs[i].length)
             /\ Sent(i)[1] = runs[i].colour
             /\ Tiles!RunOf(Tail(Sent(i))) = runs[i].length
             /\ Tiles!RunBytes(runs[i].length) \in Nat
  <2> DEFINE c == runs[i].colour
             length == Tiles!RunLength(runs[i].length)
  <2>1. c \in Ink /\ runs[i].length \in Nat \ {0} /\ c \in Nat
    BY <1>2, TilesAssumption DEF Run
  <2>2. /\ length \in Seq(Nat) /\ Len(length) = Tiles!RunBytes(runs[i].length)
        /\ Tiles!RunBytes(runs[i].length) \in Nat /\ Tiles!RunOf(length) = runs[i].length
    BY <2>1, RunLengthIs
  <2> HIDE DEF c, length
  <2>3. Len(<<c>> \o length) = 1 + Len(length) /\ (<<c>> \o length)[1] = c /\ Tail(<<c>> \o length) = length
    BY <2>1, <2>2, HeadAndRest
  <2> QED BY <2>2, <2>3 DEF c, length
<1> HIDE DEF Sent
<1>5. sizes \in Seq(Nat) /\ Tiles!Total(sizes) \in Nat
  <2>1. \A i \in 1 .. m : bytes + Tiles!RunBytes(runs[i].length) \in Nat
    BY <1>4
  <2>2. sizes \in Seq(Nat)
    BY <1>2, <2>1
  <2> QED BY <2>2, TotalNat
<1>6. Tiles!Length(msg) = 1 + Tiles!Total(sizes)
  <2>1. [i \in DOMAIN msg.data |-> bytes + Len(msg.data[i]) - 1] = sizes
    <3>1. ASSUME NEW i \in 1 .. m
          PROVE  bytes + Len(msg.data[i]) - 1 = bytes + Tiles!RunBytes(runs[i].length)
      <4> DEFINE length == Tiles!RunBytes(runs[i].length)
      <4>1. Len(msg.data[i]) = 1 + length /\ length \in Nat
        BY <1>3, <1>4
      <4> HIDE DEF length
      <4> QED BY <4>1 DEF length
    <3> QED BY <1>3, <3>1
  <2>2. Tiles!Length(msg) = 1 + Len(msg.palette) * bytes + Tiles!Total(sizes)
    BY <1>3, <2>1 DEF Tiles!Length
  <2>3. Len(msg.palette) * bytes = 0
    BY <1>3
  <2> HIDE DEF sizes
  <2> QED BY <1>5, <2>2, <2>3
<1>7. Tiles!Unpack(msg, Tiles!Width(t), DOMAIN t) = t
  <2> DEFINE Hue(i) == msg.data[i][1]
             Times(i) == Tiles!RunOf(Tail(msg.data[i]))
             seqs == [i \in DOMAIN msg.data |-> [j \in 1 .. Times(i) |-> Hue(i)]]
  <2>1. Tiles!Unpack(msg, Tiles!Width(t), DOMAIN t) =
          [p \in DOMAIN t |-> Tiles!FlattenSeq(seqs)[p[2] * Tiles!Width(t) + p[1] + 1]]
    BY <1>3 DEF Tiles!Unpack
  <2>2. seqs = [i \in 1 .. m |-> Rep(runs[i].colour, runs[i].length)]
    <3>1. \A i \in 1 .. m : Hue(i) = runs[i].colour /\ Times(i) = runs[i].length
      BY <1>3, <1>4
    <3>2. DOMAIN msg.data = 1 .. m
      BY <1>3
    <3> HIDE DEF Hue, Times
    <3> QED BY <3>1, <3>2 DEF Rep
  <2> HIDE DEF seqs
  <2> QED BY <2>1, <2>2, RunsUnpack DEF runs, m
<1> QED BY <1>3, <1>5, <1>6, <1>7 DEF Fits, msg, runs

LEMMA PaletteFits ==
  ASSUME NEW t \in Tiles!Tile, bytes \in Nat \ {0}, Len(Tiles!Palette(t)) <= MaxPalette
  PROVE  Fits(t, Tiles!PaletteRle(Tiles!Runs(t), Tiles!Palette(t)))
<1> DEFINE runs == Tiles!Runs(t)
           pal  == Tiles!Palette(t)
           m    == Len(runs)
           msg  == Tiles!PaletteRle(runs, pal)
           Index(i) == Tiles!IndexIn(pal, runs[i].colour) - 1
           Sent(i) == IF runs[i].length = 1 THEN <<Index(i)>>
                      ELSE <<Index(i) + 128>> \o Tiles!RunLength(runs[i].length)
           Size(i) == IF runs[i].length = 1 THEN 1 ELSE 1 + Tiles!RunBytes(runs[i].length)
           sizes == [i \in 1 .. m |-> Size(i)]
           Hue(i) == pal[(Sent(i)[1] % 128) + 1]
           Times(i) == IF Sent(i)[1] < 128 THEN 1 ELSE Tiles!RunOf(Tail(Sent(i)))
<1>1. runs \in Seq(Run) /\ \A i \in 1 .. Len(runs) : runs[i].colour \in Tiles!Colours(t)
  BY RunsArePixels
<1>2. m \in Nat /\ DOMAIN runs = 1 .. m /\ \A i \in 1 .. m : runs[i] \in Run
  BY <1>1, Elements
<1>3. /\ msg.form = "palette_rle" /\ msg.palette = pal
      /\ msg.data = [i \in 1 .. m |-> Sent(i)]
      /\ msg.size = Len(pal) * bytes + Tiles!Total(sizes)
  BY <1>2 DEF Tiles!PaletteRle
<1> HIDE DEF msg
<1>4. Len(pal) \in 1 .. 127
  <2> DEFINE k == Len(pal)
  <2>1. k \in Nat \ {0} /\ k <= MaxPalette
    BY PaletteHolds
  <2>2. MaxPalette \in 0 .. 127
    BY TilesAssumption
  <2> HIDE DEF k
  <2>3. k \in 1 .. 127
    BY ONLY <2>1, <2>2
  <2> QED BY <2>3 DEF k
<1>5. ASSUME NEW i \in 1 .. m PROVE Index(i) \in 0 .. 126 /\ pal[Index(i) + 1] = runs[i].colour
  <2>1. /\ Tiles!IndexIn(pal, runs[i].colour) \in 1 .. Len(pal)
        /\ pal[Tiles!IndexIn(pal, runs[i].colour)] = runs[i].colour
    BY <1>1, PaletteHolds
  <2> DEFINE k == Tiles!IndexIn(pal, runs[i].colour)
  <2> HIDE DEF pal, k
  <2> DEFINE n == Len(pal)
  <2>2. k \in 1 .. n /\ pal[k] = runs[i].colour /\ n \in 1 .. 127
    BY <1>4, <2>1 DEF k
  <2> HIDE DEF n
  <2>3. k - 1 \in 0 .. 126 /\ (k - 1) + 1 = k
    <3>1. k \in 1 .. n /\ n \in 1 .. 127
      BY <2>2
    <3> QED BY ONLY <3>1
  <2> QED BY <2>2, <2>3 DEF k
<1> HIDE DEF runs, m, pal, Index, Hue, Times
<1>6. ASSUME NEW i \in 1 .. m
      PROVE  /\ Len(Sent(i)) = Size(i) /\ Size(i) \in Nat
             /\ Hue(i) = runs[i].colour /\ Times(i) = runs[i].length
  <2> DEFINE c == Index(i)
             length == Tiles!RunLength(runs[i].length)
  <2>1. runs[i].length \in Nat \ {0} /\ c \in 0 .. 126 /\ pal[c + 1] = runs[i].colour
    BY <1>2, <1>5 DEF Run
  <2>2. /\ length \in Seq(Nat) /\ Len(length) = Tiles!RunBytes(runs[i].length)
        /\ Tiles!RunBytes(runs[i].length) \in Nat /\ Tiles!RunOf(length) = runs[i].length
    BY <2>1, RunLengthIs
  <2> HIDE DEF c, length
  <2>3. CASE runs[i].length = 1
    <3>1. Sent(i) = <<c>> /\ Size(i) = 1
      BY <2>3 DEF c
    <3> HIDE DEF Sent, Size
    <3>2. Sent(i)[1] = c /\ Len(Sent(i)) = 1
      BY <3>1
    <3>3. c % 128 = c /\ c < 128
      <4>1. c \in 0 .. 126
        BY <2>1
      <4> QED BY ONLY <4>1
    <3>4. Hue(i) = runs[i].colour
      BY <2>1, <3>2, <3>3 DEF Hue
    <3>5. Times(i) = 1
      BY <3>2, <3>3 DEF Times
    <3> QED BY <2>3, <3>1, <3>2, <3>4, <3>5
  <2>4. CASE runs[i].length # 1
    <3> DEFINE b == c + 128
    <3>1. Sent(i) = <<b>> \o length /\ Size(i) = 1 + Tiles!RunBytes(runs[i].length)
      BY <2>4 DEF c, length
    <3> HIDE DEF Sent, Size
    <3>2. b \in Nat /\ b % 128 = c /\ ~(b < 128)
      BY <2>1
    <3> HIDE DEF b
    <3>3. Len(Sent(i)) = 1 + Len(length) /\ Sent(i)[1] = b /\ Tail(Sent(i)) = length
      BY <2>2, <3>1, <3>2, HeadAndRest
    <3>4. Hue(i) = runs[i].colour
      BY <2>1, <3>2, <3>3 DEF Hue
    <3>5. Times(i) = runs[i].length
      BY <2>2, <3>2, <3>3 DEF Times
    <3>6. Len(Sent(i)) = Size(i) /\ Size(i) \in Nat
      BY <2>2, <3>1, <3>3
    <3> QED BY <3>4, <3>5, <3>6
  <2> HIDE DEF Sent, Size
  <2> QED BY <2>3, <2>4
<1> HIDE DEF Sent, Size
<1>7. sizes \in Seq(Nat) /\ Tiles!Total(sizes) \in Nat
  <2>1. sizes \in Seq(Nat)
    BY <1>2, <1>6
  <2> QED BY <2>1, TotalNat
<1>8. Tiles!Length(msg) = 1 + msg.size /\ msg.size \in Nat
  <2>1. [i \in DOMAIN msg.data |-> Len(msg.data[i])] = sizes
    <3>1. \A i \in 1 .. m : Len(msg.data[i]) = Size(i)
      BY <1>3, <1>6
    <3> QED BY <1>3, <3>1
  <2> HIDE DEF sizes
  <2>2. Tiles!Length(msg) = 1 + Len(pal) * bytes + Tiles!Total(sizes)
    BY <1>3, <2>1 DEF Tiles!Length
  <2>3. Len(pal) * bytes \in Nat
    BY <1>4
  <2> QED BY <1>3, <1>7, <2>2, <2>3
<1>9. Tiles!Unpack(msg, Tiles!Width(t), DOMAIN t) = t
  <2> DEFINE seqs == [i \in DOMAIN msg.data |->
                        [j \in 1 .. (IF msg.data[i][1] < 128 THEN 1 ELSE Tiles!RunOf(Tail(msg.data[i])))
                           |-> pal[(msg.data[i][1] % 128) + 1]]]
  <2>1. Tiles!Unpack(msg, Tiles!Width(t), DOMAIN t) =
          [p \in DOMAIN t |-> Tiles!FlattenSeq(seqs)[p[2] * Tiles!Width(t) + p[1] + 1]]
    BY <1>3 DEF Tiles!Unpack
  <2>2. seqs = [i \in 1 .. m |-> Rep(runs[i].colour, runs[i].length)]
    <3>1. seqs = [i \in 1 .. m |-> [j \in 1 .. Times(i) |-> Hue(i)]]
      BY <1>3 DEF Hue, Times
    <3> HIDE DEF seqs
    <3> QED BY <1>6, <3>1 DEF Rep
  <2> HIDE DEF seqs
  <2> QED BY <2>1, <2>2, RunsUnpack DEF runs, m
<1> QED BY <1>8, <1>9 DEF Fits, msg, runs, pal

LEMMA PackedFits ==
  ASSUME NEW t \in Tiles!Tile, bytes \in Nat \ {0}, Len(Tiles!Palette(t)) <= MaxPacked
  PROVE  Fits(t, Tiles!Packed(t, Tiles!Palette(t)))
<1> DEFINE pal == Tiles!Palette(t)
           msg == Tiles!Packed(t, pal)
           w == Wide(t)
           h == High(t)
           b == Tiles!IndexBits(pal)
           Index(x, y) == Tiles!IndexIn(pal, t[<<x - 1, y - 1>>]) - 1
           Line(y) == [x \in 1 .. w |-> Index(x, y)]
           room == (w * b + 7) \div 8
<1>1. /\ msg.form = "packed" /\ msg.palette = pal
      /\ msg.data = [y \in 1 .. h |-> Tiles!PackRow(Line(y), b)]
      /\ msg.size = Len(pal) * bytes + h * room
  BY DEF Tiles!Packed, Wide, High
<1>2. /\ w \in Nat \ {0} /\ h \in Nat \ {0} /\ DOMAIN t = (0 .. w - 1) \X (0 .. h - 1)
      /\ t \in [DOMAIN t -> Ink]
  BY Shapes
<1>3. Len(pal) \in 1 .. 16
  <2> DEFINE k == Len(pal)
  <2>1. k \in Nat \ {0} /\ k <= MaxPacked
    BY PaletteHolds
  <2>2. MaxPacked \in 0 .. 16
    BY TilesAssumption
  <2> HIDE DEF k
  <2>3. k \in 1 .. 16
    BY ONLY <2>1, <2>2
  <2> QED BY <2>3 DEF k
<1>4. b \in Widths /\ Len(pal) <= 2 ^ b /\ 2 ^ b \in Nat \ {0}
  <2> DEFINE n == Len(pal)
  <2>1. n \in 1 .. 16
    BY <1>3
  <2>2. \/ b = 1 /\ n <= 2
        \/ b = 2 /\ n <= 4
        \/ b = 4
    BY DEF Tiles!IndexBits
  <2>3. 2 ^ 1 = 2 /\ 2 ^ 2 = 4 /\ 2 ^ 4 = 16
    BY Powers
  <2> HIDE DEF n, b
  <2>4. n <= 2 ^ b /\ 2 ^ b \in Nat \ {0}
    <3>1. CASE b = 1 /\ n <= 2
      BY <2>3, <3>1
    <3>2. CASE b = 2 /\ n <= 4
      BY <2>3, <3>2
    <3>3. CASE b = 4
      BY <2>1, <2>3, <3>3
    <3> QED BY <2>2, <3>1, <3>2, <3>3
  <2>5. b \in Widths
    BY <2>2 DEF Widths
  <2> QED BY <2>4, <2>5 DEF n
<1> HIDE DEF msg, w, h, b
<1>5. ASSUME NEW x \in 1 .. w, NEW y \in 1 .. h
      PROVE  Index(x, y) \in Indices(b) /\ pal[Index(x, y) + 1] = t[<<x - 1, y - 1>>]
  <2>1. <<x - 1, y - 1>> \in DOMAIN t
    BY <1>2
  <2>2. t[<<x - 1, y - 1>>] \in Tiles!Colours(t)
    BY <2>1 DEF Tiles!Colours
  <2> DEFINE k == Tiles!IndexIn(pal, t[<<x - 1, y - 1>>])
  <2>3. k \in 1 .. Len(pal) /\ pal[k] = t[<<x - 1, y - 1>>]
    BY <2>2, PaletteHolds
  <2> HIDE DEF k, pal
  <2>4. k - 1 \in Indices(b) /\ (k - 1) + 1 = k
    BY <1>3, <1>4, <2>3 DEF Indices
  <2> QED BY <2>3, <2>4 DEF k
<1> HIDE DEF pal, Index
<1>6. ASSUME NEW y \in 1 .. h
      PROVE  /\ Line(y) \in Seq(Indices(b)) /\ Len(Line(y)) = w
             /\ Len(msg.data[y]) = room
             /\ \A x \in 0 .. w - 1 :
                  Get(msg.data[y][Byte(x, b) + 1], 8 - b - Bit(x, b), b) = Index(x + 1, y)
  <2> DEFINE row == Line(y)
  <2>1. row \in Seq(Indices(b)) /\ Len(row) = w
    <3>1. \A x \in 1 .. w : Index(x, y) \in Indices(b)
      BY <1>5
    <3> QED BY <1>2, <3>1
  <2>2. \A x \in 0 .. w - 1 : row[x + 1] = Index(x + 1, y)
    BY <1>2
  <2>3. msg.data[y] = Tiles!PackRow(row, b)
    BY <1>1
  <2> HIDE DEF row
  <2>4. /\ Len(msg.data[y]) = (Len(row) * b + 7) \div 8
        /\ \A x \in 0 .. Len(row) - 1 :
             Get(msg.data[y][Byte(x, b) + 1], 8 - b - Bit(x, b), b) = row[x + 1]
    BY <1>4, <2>1, <2>3, RowPacked
  <2> QED BY <2>1, <2>2, <2>4 DEF row
<1>7. room \in Nat
  <2> DEFINE wb == w * b
  <2>1. wb \in Nat
    BY <1>2, <1>4 DEF Widths
  <2> HIDE DEF wb
  <2>2. (wb + 7) \div 8 \in Nat
    BY <2>1
  <2> QED BY <2>2 DEF wb
<1> HIDE DEF room, Line
<1>8. Tiles!Length(msg) = 1 + msg.size /\ msg.size \in Nat
  <2> DEFINE sizes == [y \in 1 .. h |-> Len(msg.data[y])]
  <2>1. sizes \in Seq(Int) /\ Len(sizes) = h /\ \A y \in 1 .. Len(sizes) : sizes[y] = room
    <3>1. \A y \in 1 .. h : Len(msg.data[y]) = room
      BY <1>6
    <3>2. room \in Int /\ h \in Nat
      BY <1>2, <1>7
    <3> QED BY <3>1, <3>2
  <2>2. [y \in DOMAIN msg.data |-> Len(msg.data[y])] = sizes
    BY <1>1
  <2> HIDE DEF sizes
  <2>3. Tiles!Total(sizes) = h * room
    <3>1. room \in Int
      BY <1>7
    <3>2. Tiles!Total(sizes) = Len(sizes) * room
      BY <2>1, <3>1, TotalIsProduct
    <3> QED BY <2>1, <3>2
  <2>4. Tiles!Length(msg) = 1 + Len(pal) * bytes + Tiles!Total(sizes)
    BY <1>1, <2>2 DEF Tiles!Length
  <2>5. Len(pal) * bytes \in Nat /\ h * room \in Nat
    BY <1>2, <1>3, <1>7
  <2> QED BY <1>1, <2>3, <2>4, <2>5
<1>9. Tiles!Unpack(msg, Tiles!Width(t), DOMAIN t) = t
  <2>1. Tiles!Unpack(msg, Tiles!Width(t), DOMAIN t) =
          [p \in DOMAIN t |-> pal[Get(msg.data[p[2] + 1][Byte(p[1], b) + 1], 8 - b - Bit(p[1], b), b) + 1]]
    BY <1>1 DEF Tiles!Unpack, Get, Byte, Bit, b
  <2>2. ASSUME NEW p \in DOMAIN t
        PROVE  pal[Get(msg.data[p[2] + 1][Byte(p[1], b) + 1], 8 - b - Bit(p[1], b), b) + 1] = t[p]
    <3>1. PICK x \in 0 .. w - 1, y \in 0 .. h - 1 : p = <<x, y>>
      BY <1>2
    <3>2. p[1] = x /\ p[2] = y /\ x + 1 \in 1 .. w /\ y + 1 \in 1 .. h
          /\ (x + 1) - 1 = x /\ (y + 1) - 1 = y
      BY <1>2, <3>1
    <3>3. Get(msg.data[y + 1][Byte(x, b) + 1], 8 - b - Bit(x, b), b) = Index(x + 1, y + 1)
      BY <1>6, <3>2
    <3>4. pal[Index(x + 1, y + 1) + 1] = t[<<x, y>>]
      BY <1>5, <3>2
    <3> QED BY <3>1, <3>2, <3>3, <3>4
  <2>3. t = [p \in DOMAIN t |-> t[p]]
    BY <1>2
  <2> QED BY <2>1, <2>2, <2>3
<1> QED BY <1>8, <1>9 DEF Fits, msg, pal

-----------------------------------------------------------------------------
(***************************************************************************)
(* The form that is sent is one of those, and none is smaller.             *)
(***************************************************************************)
ZrleForms(t) ==
  (IF Len(Tiles!Palette(t)) <= MaxPacked THEN {Tiles!Packed(t, Tiles!Palette(t))} ELSE {})
    \cup (IF Len(Tiles!Palette(t)) <= MaxPalette
          THEN {Tiles!PaletteRle(Tiles!Runs(t), Tiles!Palette(t))} ELSE {})
    \cup {Tiles!PlainRle(Tiles!Runs(t)), Tiles!Raw(t)}

\* Up to two that may be missing, and two.
LEMMA LastOf ==
  ASSUME NEW S, NEW front \in Seq(S), NEW rest \in Seq(S), Len(rest) = 2
  PROVE  LET all == front \o rest IN
         all \in Seq(S) /\ Len(all) \in Nat \ {0} /\ all[Len(all)] = rest[2]
<1> DEFINE all == front \o rest
           n == Len(front)
<1>1. n \in Nat
  OBVIOUS
<1>2. /\ all \in Seq(S) /\ Len(all) = n + Len(rest)
      /\ \A i \in 1 .. n + Len(rest) : all[i] = IF i <= n THEN front[i] ELSE rest[i - n]
  BY ConcatProperties, Zenon
<1> HIDE DEF all, n
<1>3. n + 2 \in 1 .. n + Len(rest) /\ ~(n + 2 <= n) /\ (n + 2) - n = 2
  BY <1>1
<1>4. all[n + 2] = rest[2]
  BY <1>2, <1>3
<1>5. Len(all) \in Nat \ {0} /\ all[Len(all)] = rest[2]
  BY <1>1, <1>2, <1>4
<1> QED BY <1>2, <1>5 DEF all

LEMMA Listed ==
  ASSUME NEW S, NEW a \in Seq(S), NEW b \in Seq(S), NEW c \in S, NEW d \in S
  PROVE  LET all == a \o b \o <<c, d>> IN
         all \in Seq(S) /\ Len(all) \in Nat \ {0} /\ all[Len(all)] = d
<1> DEFINE front == a \o b
           rest == <<c, d>>
<1>1. front \in Seq(S) /\ rest \in Seq(S) /\ Len(rest) = 2 /\ rest[2] = d
  OBVIOUS
<1> HIDE DEF front, rest
<1>2. LET all == front \o rest IN
      all \in Seq(S) /\ Len(all) \in Nat \ {0} /\ all[Len(all)] = rest[2]
  BY <1>1, LastOf
<1> QED BY <1>1, <1>2 DEF front, rest

LEMMA Smallest ==
  ASSUME NEW forms, NEW n \in Nat \ {0}, DOMAIN forms = 1 .. n, \A i \in 1 .. n : forms[i].size \in Nat
  PROVE  LET best == Tiles!Min({forms[i].size : i \in DOMAIN forms})
             k    == Tiles!Min({i \in DOMAIN forms : forms[i].size = best})
         IN k \in 1 .. n /\ forms[k].size <= forms[n].size
<1> DEFINE Counts == {forms[i].size : i \in DOMAIN forms}
           best  == Tiles!Min(Counts)
           At    == {i \in DOMAIN forms : forms[i].size = best}
           k     == Tiles!Min(At)
<1>1. Counts \subseteq Nat /\ forms[n].size \in Counts /\ n \in 1 .. n
  OBVIOUS
<1>2. best \in Counts /\ best <= forms[n].size
  <2> HIDE DEF Counts
  <2> QED BY <1>1, MinIs
<1>3. At \subseteq Nat /\ At # {}
  <2>1. \E i \in DOMAIN forms : forms[i].size = best
    BY <1>2
  <2> HIDE DEF best
  <2> QED BY <2>1
<1>4. k \in At
  <2> HIDE DEF At
  <2> QED BY <1>3, MinIs
<1> QED BY <1>2, <1>4

\* A ZRLE tile looks to the viewer as it was read, and takes no more than a raw one.
LEMMA ZrleShown ==
  ASSUME NEW t \in Tiles!Tile, bytes \in Nat \ {0}, Tiles!SendZrle(t)
  PROVE  shown' = t /\ sent' <= TileArea * bytes + 1
<1> DEFINE pal == Tiles!Palette(t)
           runs == Tiles!Runs(t)
           msg == Tiles!ZrleTile(t)
           S == ZrleForms(t)
           a == IF Len(pal) <= MaxPacked THEN <<Tiles!Packed(t, pal)>> ELSE <<>>
           b == IF Len(pal) <= MaxPalette THEN <<Tiles!PaletteRle(runs, pal)>> ELSE <<>>
           c == Tiles!PlainRle(runs)
           d == Tiles!Raw(t)
           forms == a \o b \o <<c, d>>
           best == Tiles!Min({forms[i].size : i \in DOMAIN forms})
           k == Tiles!Min({i \in DOMAIN forms : forms[i].size = best})
<1>1. shown' = Tiles!Unpack(msg, Tiles!Width(t), DOMAIN t) /\ sent' = Tiles!Length(msg)
  BY DEF Tiles!SendZrle
<1>2. /\ Len(pal) = 1 => msg = [form |-> "solid", palette |-> pal, data |-> <<>>, size |-> bytes]
      /\ Len(pal) # 1 => msg = forms[k]
  BY DEF Tiles!ZrleTile
<1>3. TileArea * bytes \in Nat /\ bytes <= TileArea * bytes
  BY TilesAssumption
<1>4. \A m \in S : Fits(t, m)
  BY PackedFits, PaletteFits, PlainFits, RawFits DEF ZrleForms
<1>5. a \in Seq(S) /\ b \in Seq(S) /\ c \in S /\ d \in S
  <2> DEFINE pk == Tiles!Packed(t, pal)
             pr == Tiles!PaletteRle(runs, pal)
  <2>1. /\ Len(pal) <= MaxPacked => pk \in S
        /\ Len(pal) <= MaxPalette => pr \in S
        /\ c \in S /\ d \in S
    BY DEF ZrleForms
  <2> HIDE DEF S, pk, pr, c, d
  <2>2. \A x \in S : <<x>> \in Seq(S)
    OBVIOUS
  <2>3. <<>> \in Seq(S)
    OBVIOUS
  <2>4. a \in Seq(S)
    BY <2>1, <2>2, <2>3 DEF pk
  <2>5. b \in Seq(S)
    BY <2>1, <2>2, <2>3 DEF pr
  <2> QED BY <2>1, <2>4, <2>5
<1>6. d.size = TileArea * bytes
  BY RawFits
<1> HIDE DEF msg
<1>7. Fits(t, msg) /\ msg.size <= TileArea * bytes
  <2>1. CASE Len(pal) = 1
    <3>1. Fits(t, msg)
      BY <1>2, <2>1, SolidFits
    <3>2. msg.size = bytes
      BY <1>2, <2>1
    <3> QED BY <1>3, <3>1, <3>2
  <2>2. CASE Len(pal) # 1
    <3> HIDE DEF pal, runs, a, b, c, d, S
    <3> DEFINE n == Len(forms)
    <3>1. forms \in Seq(S) /\ n \in Nat \ {0} /\ forms[n] = d
      BY <1>5, Listed
    <3>2. msg = forms[k]
      BY <1>2, <2>2
    <3> HIDE DEF forms
    <3>3. DOMAIN forms = 1 .. n /\ \A i \in 1 .. n : forms[i] \in S
      BY <3>1
    <3>4. \A i \in 1 .. n : forms[i].size \in Nat
      BY <1>4, <3>3 DEF Fits
    <3> HIDE DEF n
    <3>5. k \in 1 .. n /\ forms[k].size <= forms[n].size
      BY <3>1, <3>3, <3>4, Smallest
    <3> HIDE DEF k
    <3>6. Fits(t, msg) /\ msg.size <= d.size
      BY <1>4, <3>1, <3>2, <3>3, <3>5
    <3> QED BY <1>6, <3>6
  <2> QED BY <2>1, <2>2
<1> QED BY <1>1, <1>3, <1>7 DEF Fits

-----------------------------------------------------------------------------
(***************************************************************************)
(* Every tile arrives.  A Hextile tile does as long as the colours that    *)
(* are left out of it are the viewer's; a ZRLE tile has no past.           *)
(***************************************************************************)
TilesInv == ColoursAgree /\ bytes \in Nat \ {0} /\ Tiles!TilesArrive

LEMMA TilesStep == TilesInv /\ [Tiles!Next]_tiles => TilesInv'
<1> SUFFICES ASSUME TilesInv, [Tiles!Next]_tiles PROVE TilesInv'
  OBVIOUS
<1>1. ColoursAgree'
  BY ColoursStep DEF TilesInv
<1>2. ColoursAgree /\ bytes \in Nat \ {0} /\ Tiles!TilesArrive
  BY DEF TilesInv
<1>3. ASSUME bytes' = bytes, shown' = tile', tile' # Tiles!NoTile => sent' <= TileArea * bytes + 1
      PROVE  TilesInv'
  BY <1>1, <1>2, <1>3 DEF TilesInv, Tiles!TilesArrive
<1>4. CASE Tiles!Rectangle
  BY <1>2, <1>3, <1>4 DEF Tiles!Rectangle, Tiles!TilesArrive
<1>5. ASSUME NEW t \in Tiles!Tile, Tiles!SendHextile(t) PROVE TilesInv'
  <2>1. shown' = t
    BY <1>2, <1>5, HextileShown
  <2>2. bytes' = bytes /\ tile' = t /\ sent' = 0
    BY <1>5 DEF Tiles!SendHextile
  <2>3. 0 <= TileArea * bytes + 1
    BY <1>2, TilesAssumption
  <2> QED BY <1>3, <2>1, <2>2, <2>3
<1>6. ASSUME NEW t \in Tiles!Tile, Tiles!SendZrle(t) PROVE TilesInv'
  <2>1. shown' = t /\ sent' <= TileArea * bytes + 1
    BY <1>2, <1>6, ZrleShown
  <2>2. bytes' = bytes /\ tile' = t
    BY <1>6 DEF Tiles!SendZrle
  <2> QED BY <1>3, <2>1, <2>2
<1>7. CASE Tiles!Drawn
  BY <1>3, <1>7 DEF Tiles!Drawn
<1>8. CASE UNCHANGED tiles
  BY <1>2, <1>3, <1>8 DEF tiles, Tiles!TilesArrive
<1>9. [Tiles!Next]_tiles
  OBVIOUS
<1> QED BY <1>4, <1>5, <1>6, <1>7, <1>8, <1>9 DEF Tiles!Next

\* The viewer shows every tile as it was read of vnc_prev, Hextile or ZRLE and in whichever
\* of its forms, and no ZRLE tile is larger than vnc_zraw has room for
\* (vnc_encode_hextile_tile, vnc_encode_zrle_tile).
THEOREM TilesShown == VncSpec => []TilesArrive
<1>1. VncInit => TilesInv
  BY TilesAssumption DEF VncInit, Tiles!Init, TilesInv, ColoursAgree, Tiles!Fresh, Tiles!TilesArrive
<1>2. TilesInv => TilesArrive
  BY DEF TilesInv, TilesArrive
<1> QED BY <1>1, <1>2, TilesStep, PartSteps, PTL DEF VncSpec
=============================================================================
