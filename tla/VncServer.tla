------------------------------ MODULE VncServer ------------------------------
(***************************************************************************)
(* The VNC server, src/guest/vnc.c: the network thread (vnc_service_main,  *)
(* vnc_serve), the GDI worker it gives one job at a time, and one viewer.  *)
(* The worker reads the screen, one pixel row of every tile at a poll and  *)
(* in full only the tiles it suspects; the network thread compares what    *)
(* was read with vnc_prev, the frame the viewer has, and sends the         *)
(* difference.  The screen, its mode, the foreground window and the cursor *)
(* change at any step, also between two reads of one capture.              *)
(*                                                                         *)
(* A tile is a function from its pixel rows to colours.  A window is one   *)
(* tile, the drawn cursor one row of a tile.  Encodings and pixel formats  *)
(* change how a tile travels and not which: they are left out (VncTiles    *)
(* has them).                                                              *)
(***************************************************************************)
EXTENDS Naturals, FiniteSets, Functions

CONSTANTS
  MaxWidth,    \* the widest screen mode, in tiles (256 x 256 in the code)
  Rows,        \* pixel rows of a tile (16 in the code)
  Encodings,   \* the sets of encodings viewers name in SetEncodings
  MaxEvents    \* bound on what happens: on the screen, the viewer's keys,
               \* encodings and full requests, its leaving, a failing driver,
               \* the stop event

ASSUME VncAssumption ==
  /\ MaxWidth \in Nat \ {0} /\ Rows \in Nat \ {0}
  /\ MaxEvents \in Nat /\ Encodings \subseteq SUBSET {"rich", "copyrect", "size"}

Row      == 0 .. Rows - 1
Position == 1 .. MaxWidth
Black    == 0
White    == 1
Cursor   == 2
Colour   == {Black, White, Cursor}
Tile     == [Row -> Colour]
BlackTile == [r \in Row |-> Black]
Blank(w) == [t \in 1 .. w |-> BlackTile]
Shape    == {"arrow", "beam"}

VARIABLES
  \* the machine: its screen, mode, foreground window and cursor
  screen, mode, window, cursor, shape,
  \* the network thread, the job it gave and what it was told
  nt, job, update_wanted, full_wanted, stop,
  use_copyrect, use_desktop_size, keys_down,
  \* the worker
  wk, job_event, done_event, job_result, wedged,
  \* written by the worker during a job, by the network thread otherwise
  bits, prev, read_mask, dirty, suspect, cursor_area, foreground,
  sample_step, last_foreground, shape_seen, shape_due,
  \* flags both set
  capture_full, rich_cursor, cursor_reset,
  \* the viewer
  viewer, held,
  events         \* those that happened

machine == <<screen, mode, window, cursor, shape>>
network == <<nt, job, update_wanted, full_wanted, stop,
             use_copyrect, use_desktop_size, keys_down>>
worker  == <<wk, job_event, done_event, job_result, wedged>>
frame   == <<bits, prev, read_mask, dirty, suspect, cursor_area, foreground,
             sample_step, last_foreground, shape_seen, shape_due>>
flags   == <<capture_full, rich_cursor, cursor_reset>>
client  == <<viewer, held>>
vars == <<machine, network, worker, frame, flags, client, events>>

NoViewer == [frame |-> Blank(0), shape |-> "none"]
NoWindow == 0
NoArea   == 0

Init ==
  \* the machine and its viewer
  /\ screen = Blank(MaxWidth) /\ mode = MaxWidth
  /\ window = 1 /\ cursor = 1 /\ shape = "arrow"
  /\ viewer = NoViewer /\ held = {}
  \* the process
  /\ nt = "listen" /\ job = "none" /\ stop = FALSE
  /\ update_wanted = FALSE /\ full_wanted = FALSE
  /\ use_copyrect = FALSE /\ use_desktop_size = FALSE /\ keys_down = {}
  /\ wk = "idle" /\ job_event = FALSE /\ done_event = FALSE
  /\ job_result = "failed" /\ wedged = FALSE
  /\ bits = Blank(0) /\ prev = Blank(0) /\ read_mask = {} /\ dirty = {}
  /\ suspect = {} /\ cursor_area = NoArea /\ foreground = NoWindow
  /\ sample_step = 0 /\ last_foreground = NoWindow
  /\ shape_seen = "none" /\ shape_due = FALSE
  /\ capture_full = TRUE /\ rich_cursor = FALSE /\ cursor_reset = FALSE
  /\ events = 0

-----------------------------------------------------------------------------
(* The machine.  What is drawn never has the cursor's colour: the cursor is
   not part of the screen surface. *)

Happens == events < MaxEvents /\ events' = events + 1
Changes == Happens /\ UNCHANGED <<network, worker, frame, flags, client>>

Drawing == \E t \in Position, r \in Row :
  /\ Changes
  /\ screen' = [screen EXCEPT ![t][r] = IF @ = Black THEN White ELSE Black]
  /\ UNCHANGED <<mode, window, cursor, shape>>

\* A window takes its pixels along and uncovers what was black behind it.
WindowMoves == \E t \in Position \ {window} :
  /\ Changes
  /\ window' = t
  /\ screen' = [screen EXCEPT ![t] = screen[window], ![window] = BlackTile]
  /\ UNCHANGED <<mode, cursor, shape>>

CursorMoves == \E t \in Position \ {cursor} :
  Changes /\ cursor' = t /\ UNCHANGED <<screen, mode, window, shape>>

ShapeChanges == \E s \in Shape \ {shape} :
  Changes /\ shape' = s /\ UNCHANGED <<screen, mode, window, cursor>>

ModeChanges == \E w \in Position \ {mode} :
  Changes /\ mode' = w /\ UNCHANGED <<screen, window, cursor, shape>>

\* What a read of tile t returns: nothing is behind the edge of the mode.
OnScreen(t) == IF t <= mode THEN screen[t] ELSE BlackTile

WithCursor(tile) == [tile EXCEPT ![0] = Cursor]

-----------------------------------------------------------------------------
(* The worker, vnc_worker: one job at a time; every BitBlt is a step. *)

WorkerDone(result) ==
  /\ wk' = "idle" /\ done_event' = TRUE /\ job_result' = result

WorkerTakes ==
  /\ wk = "idle" /\ job_event /\ ~wedged
  /\ job_event' = FALSE
  /\ wk' = job
  /\ UNCHANGED <<machine, network, done_event, job_result, wedged, frame, flags,
                 client, events>>

\* vnc_capture: the size is compared once, then the kind of read is taken.
BeginCapture ==
  /\ wk = "capture" /\ ~wedged
  /\ IF mode # Cardinality(DOMAIN bits)
     THEN /\ WorkerDone("resized")
          /\ UNCHANGED capture_full
     ELSE /\ wk' = IF capture_full THEN "full" ELSE "sample"
          /\ capture_full' = FALSE
          /\ UNCHANGED <<done_event, job_result>>
  /\ UNCHANGED <<machine, network, job_event, wedged, frame, rich_cursor, cursor_reset,
                 client, events>>

ReadFull ==
  /\ wk = "full" /\ ~wedged
  /\ bits' = [t \in DOMAIN bits |-> OnScreen(t)]
  /\ read_mask' = read_mask \cup DOMAIN bits
  /\ wk' = "cursor"
  /\ UNCHANGED <<machine, network, job_event, done_event, job_result, wedged,
                 prev, dirty, suspect, cursor_area, foreground, sample_step,
                 last_foreground, shape_seen, shape_due, flags, client, events>>

\* Mutant: vnc_sample_step stays.
SameStep == sample_step
NextStep == (sample_step + 1) % Rows

\* vnc_capture_sampled, its first half: one row of every tile.
SampleRows ==
  LET row == sample_step % Rows IN
  /\ wk = "sample" /\ ~wedged
  /\ sample_step' = NextStep
  /\ bits' = [t \in DOMAIN bits |-> [bits[t] EXCEPT ![row] = OnScreen(t)[row]]]
  /\ suspect' = dirty \cup {t \in DOMAIN bits : bits'[t][row] # prev[t][row]}
                \cup (IF rich_cursor THEN {} ELSE {cursor_area, cursor} \cap DOMAIN bits)
  /\ cursor_area' = IF rich_cursor THEN cursor_area ELSE cursor
  /\ wk' = "suspects"
  /\ UNCHANGED <<machine, network, job_event, done_event, job_result, wedged,
                 prev, read_mask, dirty, foreground, last_foreground,
                 shape_seen, shape_due, flags, client, events>>

\* vnc_capture_sampled, its second half: the suspect tiles in full.
ReadSuspects ==
  /\ wk = "suspects" /\ ~wedged
  /\ bits' = [t \in DOMAIN bits |-> IF t \in suspect THEN OnScreen(t) ELSE bits[t]]
  /\ read_mask' = read_mask \cup suspect
  /\ wk' = "cursor" /\ suspect' = {}
  /\ UNCHANGED <<machine, network, job_event, done_event, job_result, wedged,
                 prev, dirty, cursor_area, foreground, sample_step,
                 last_foreground, shape_seen, shape_due, flags, client, events>>

\* A BitBlt fails: the next capture reads everything.
ReadFails ==
  /\ wk \in {"full", "sample", "suspects"} /\ ~wedged
  /\ Happens
  /\ capture_full' = TRUE
  /\ WorkerDone("failed")
  /\ UNCHANGED <<machine, network, job_event, wedged, frame, rich_cursor, cursor_reset,
                 client>>

\* The end of vnc_capture: the cursor's shape is recorded for a viewer that
\* draws it itself (vnc_grab_cursor), or the cursor is drawn into the frame.
RecordCursor ==
  /\ wk = "cursor" /\ ~wedged
  /\ IF rich_cursor
     THEN /\ cursor_area' = NoArea
          /\ cursor_reset' = FALSE
          /\ shape_due' = (shape_due \/ cursor_reset \/ shape # shape_seen)
          /\ shape_seen' = shape
          /\ UNCHANGED bits
     ELSE /\ bits' = IF cursor \in DOMAIN bits
                     THEN [bits EXCEPT ![cursor] = WithCursor(@)] ELSE bits
          /\ UNCHANGED <<cursor_area, cursor_reset, shape_due, shape_seen>>
  /\ wk' = "foreground"
  /\ UNCHANGED <<machine, network, job_event, done_event, job_result, wedged,
                 prev, read_mask, dirty, suspect, foreground, sample_step,
                 last_foreground, capture_full, rich_cursor, client, events>>

\* vnc_worker asks for the window's place after the capture.
RecordForeground ==
  /\ wk = "foreground" /\ ~wedged
  /\ foreground' = window
  /\ WorkerDone("done")
  /\ UNCHANGED <<machine, network, job_event, wedged, bits, prev, read_mask, dirty,
                 suspect, cursor_area, sample_step, last_foreground,
                 shape_seen, shape_due, flags, client, events>>

\* vnc_capture_init, with vnc_capture_free before it.
InitCapture ==
  /\ wk = "init" /\ ~wedged
  /\ \/ /\ bits' = Blank(mode) /\ prev' = Blank(mode)
        /\ capture_full' = TRUE /\ cursor_area' = NoArea /\ dirty' = {}
        /\ WorkerDone("done")
        /\ UNCHANGED events
     \/ /\ Happens
        /\ bits' = Blank(0) /\ prev' = Blank(0)
        /\ WorkerDone("failed")
        /\ UNCHANGED <<capture_full, cursor_area, dirty>>
  /\ UNCHANGED <<machine, network, job_event, wedged, read_mask, suspect, foreground,
                 sample_step, last_foreground, shape_seen, shape_due,
                 rich_cursor, cursor_reset, client>>

\* Mutant: the DIB outlives vnc_prev.
FreePrevOnly ==
  /\ wk = "free" /\ ~wedged
  /\ prev' = Blank(0)
  /\ WorkerDone("done")
  /\ UNCHANGED <<machine, network, job_event, wedged, bits, read_mask, dirty, suspect,
                 cursor_area, foreground, sample_step, last_foreground,
                 shape_seen, shape_due, flags, client, events>>

FreeCapture ==
  /\ wk = "free" /\ ~wedged
  /\ bits' = Blank(0) /\ prev' = Blank(0)
  /\ WorkerDone("done")
  /\ UNCHANGED <<machine, network, job_event, wedged, read_mask, dirty, suspect,
                 cursor_area, foreground, sample_step, last_foreground,
                 shape_seen, shape_due, flags, client, events>>

\* The display driver keeps the worker inside GDI, for a while or for good.
Wedges ==
  /\ ~wedged /\ wk # "idle" /\ Happens
  /\ wedged' = TRUE
  /\ UNCHANGED <<machine, network, wk, job_event, done_event, job_result, frame, flags,
                 client>>
Unwedges ==
  /\ wedged /\ wedged' = FALSE
  /\ UNCHANGED <<machine, network, wk, job_event, done_event, job_result, frame, flags,
                 client, events>>

WorkerStep ==
  \/ WorkerTakes \/ BeginCapture \/ ReadFull \/ SampleRows \/ ReadSuspects
  \/ RecordCursor \/ RecordForeground \/ InitCapture \/ FreeCapture

-----------------------------------------------------------------------------
(* The network thread: jobs it waits for (vnc_job_run). *)

\* job is vnc_job while vnc_job_pending.
Start(j) == job' = j /\ job_event' = TRUE
Collect  == job # "none" /\ done_event /\ done_event' = FALSE /\ job' = "none"

Running == {"init", "resize", "free"}
Wanted  == IF nt = "free" THEN "free" ELSE "init"

\* A capture still running when the session ended is waited for first.
StartsAtOnce == job # Wanted  \* mutant: the running capture is not waited for
MayStart == job = "none"

RunStart ==
  /\ nt \in Running /\ MayStart
  /\ Start(Wanted)
  /\ UNCHANGED <<machine, nt, update_wanted, full_wanted, stop, use_copyrect,
                 use_desktop_size, keys_down, wk, done_event, job_result, wedged,
                 frame, flags, client, events>>

Drain ==
  /\ nt \in Running /\ job = "capture" /\ Collect
  /\ UNCHANGED <<machine, nt, update_wanted, full_wanted, stop, use_copyrect,
                 use_desktop_size, keys_down, wk, job_event, job_result, wedged,
                 frame, flags, client, events>>

\* What this viewer holds down is released with it: vnc_release_all.
ReleaseAll == held' = held \ keys_down /\ keys_down' = {}
EndSession == ReleaseAll /\ nt' = "listen" /\ viewer' = NoViewer

\* Mutants: the process exits with a key down; it waits without a bound.
ExitsHolding ==
  /\ nt \in Running /\ job # "none" /\ ~done_event /\ wedged
  /\ nt' = "exited" /\ viewer' = NoViewer
  /\ UNCHANGED <<machine, job, update_wanted, full_wanted, stop, use_copyrect,
                 use_desktop_size, keys_down, held, worker, frame, flags, events>>
WaitsForever == FALSE /\ UNCHANGED vars

\* The worker is stuck and the 15 s are over.  The next process is a new Init.
GivesUp ==
  /\ nt \in Running /\ job # "none" /\ ~done_event /\ wedged
  /\ nt' = "exited" /\ ReleaseAll /\ viewer' = NoViewer
  /\ UNCHANGED <<machine, job, update_wanted, full_wanted, stop,
                 use_copyrect, use_desktop_size, worker, frame, flags, events>>

-----------------------------------------------------------------------------
(* Sessions: vnc_service_main's accept loop and vnc_serve. *)

Accept ==
  /\ nt = "listen" /\ ~stop
  /\ nt' = "init"
  /\ rich_cursor' = FALSE /\ shape_due' = FALSE
  /\ use_copyrect' = FALSE /\ use_desktop_size' = FALSE
  /\ last_foreground' = NoWindow
  /\ update_wanted' = FALSE /\ full_wanted' = TRUE
  /\ keys_down' = {}
  /\ UNCHANGED <<machine, job, stop, worker, bits, prev, read_mask, dirty,
                 suspect, cursor_area, foreground, sample_step, shape_seen,
                 capture_full, cursor_reset, client, events>>

InitDone ==
  /\ nt = "init" /\ job = "init" /\ Collect
  /\ nt' = IF job_result = "done" THEN "handshake" ELSE "listen"
  /\ UNCHANGED <<machine, update_wanted, full_wanted, stop, use_copyrect,
                 use_desktop_size, keys_down, wk, job_event, job_result, wedged,
                 frame, flags, client, events>>

\* SetEncodings: who draws the cursor may change, so the frame is sent anew.
Chooses(chosen) ==
  LET rich == "rich" \in chosen IN
  /\ use_copyrect' = ("copyrect" \in chosen)
  /\ use_desktop_size' = ("size" \in chosen)
  /\ rich_cursor' = rich
  /\ full_wanted' = (full_wanted \/ rich # rich_cursor)
  /\ cursor_reset' = TRUE

\* vnc_handshake; ServerInit tells the viewer the size.  Every viewer sends its
\* encodings next: that first SetEncodings is part of the step.
Handshake ==
  /\ nt = "handshake"
  /\ \/ \E chosen \in Encodings :
           /\ nt' = "loop" /\ Chooses(chosen)
           /\ viewer' = [frame |-> Blank(Cardinality(DOMAIN prev)), shape |-> "none"]
           /\ UNCHANGED events
     \/ /\ nt' = "listen" /\ Happens
        /\ UNCHANGED <<viewer, use_copyrect, use_desktop_size, rich_cursor, full_wanted,
                       cursor_reset>>
  /\ UNCHANGED <<machine, job, update_wanted, stop, keys_down, worker, frame,
                 capture_full, held>>

\* DesktopSize answers the request that is open.
ResizeDone ==
  /\ nt = "resize" /\ job = "init" /\ Collect
  /\ IF job_result = "done"
     THEN /\ viewer' = [viewer EXCEPT !.frame = Blank(Cardinality(DOMAIN prev))]
          /\ update_wanted' = FALSE /\ full_wanted' = TRUE
          /\ nt' = "loop" /\ UNCHANGED <<held, keys_down>>
     ELSE EndSession /\ UNCHANGED <<update_wanted, full_wanted>>
  /\ UNCHANGED <<machine, stop, use_copyrect, use_desktop_size, wk, job_event,
                 job_result, wedged, frame, flags, events>>

EndsSession ==
  /\ nt = "loop" /\ EndSession
  /\ UNCHANGED <<machine, job, update_wanted, full_wanted, stop,
                 use_copyrect, use_desktop_size, worker, frame, flags>>
ViewerLeaves == EndsSession /\ Happens
StopSeen     == EndsSession /\ stop /\ UNCHANGED events

StopRequested ==
  /\ ~stop /\ nt \notin {"stopped", "exited"} /\ Happens
  /\ stop' = TRUE
  /\ UNCHANGED <<machine, nt, job, update_wanted, full_wanted,
                 use_copyrect, use_desktop_size, keys_down, worker, frame, flags,
                 client>>

StopListening ==
  /\ nt = "listen" /\ stop
  /\ nt' = "free"
  /\ UNCHANGED <<machine, job, update_wanted, full_wanted, stop, use_copyrect,
                 use_desktop_size, keys_down, worker, frame, flags, client, events>>

FreeDone ==
  /\ nt = "free" /\ job = "free" /\ Collect
  /\ nt' = "stopped"
  /\ UNCHANGED <<machine, update_wanted, full_wanted, stop, use_copyrect,
                 use_desktop_size, keys_down, wk, job_event, job_result, wedged,
                 frame, flags, client, events>>

-----------------------------------------------------------------------------
(* The viewer's messages, vnc_handle_message; they also arrive while a
   capture runs. *)

SetEncodings == \E chosen \in Encodings :
  /\ nt = "loop" /\ Happens
  /\ Chooses(chosen)
  /\ UNCHANGED <<machine, nt, job, update_wanted, stop, keys_down, worker,
                 frame, capture_full, client>>

UpdateRequest ==
  /\ nt = "loop" /\ ~update_wanted
  /\ update_wanted' = TRUE
  /\ UNCHANGED <<machine, nt, job, full_wanted, stop, use_copyrect,
                 use_desktop_size, keys_down, worker, frame, flags, client, events>>

\* A request that is not incremental, or SetPixelFormat.
FullRequest ==
  /\ nt = "loop" /\ Happens
  /\ full_wanted' = TRUE
  /\ UNCHANGED <<machine, nt, job, update_wanted, stop, use_copyrect,
                 use_desktop_size, keys_down, worker, frame, flags, client>>

\* A key goes up only when this viewer pressed it.
KeyEvent == \E down \in BOOLEAN :
  /\ nt = "loop" /\ down = (keys_down = {})
  /\ Happens
  /\ keys_down' = IF down THEN {"key"} ELSE {}
  /\ held' = IF down THEN held \cup {"key"} ELSE held \ {"key"}
  /\ UNCHANGED <<machine, nt, job, update_wanted, full_wanted, stop,
                 use_copyrect, use_desktop_size, worker, frame, flags, viewer>>

-----------------------------------------------------------------------------
(* Frames: the part of vnc_serve's loop that takes a finished capture. *)

Schedule ==
  /\ nt = "loop" /\ job = "none" /\ update_wanted
  /\ Start("capture")
  /\ capture_full' = (capture_full \/ full_wanted)
  /\ UNCHANGED <<machine, nt, update_wanted, full_wanted, stop, use_copyrect,
                 use_desktop_size, keys_down, wk, done_event, job_result, wedged,
                 frame, rich_cursor, cursor_reset, client, events>>

\* vnc_detect_move: a window of the last frame is somewhere else now, and both
\* places are on the screen.
CopyPending ==
  /\ ~full_wanted /\ use_copyrect
  /\ {foreground, last_foreground} \subseteq DOMAIN prev
  /\ foreground # last_foreground
CopyRect(f) == [f EXCEPT ![foreground] = f[last_foreground]]
Moved == IF CopyPending THEN CopyRect(prev) ELSE prev

\* vnc_diff: only tiles that were read are compared, unless all are sent.
Changed == IF full_wanted THEN DOMAIN bits
           ELSE {t \in read_mask \cap DOMAIN bits : bits[t] # Moved[t]}
Overlay(f, tiles, from) == [t \in DOMAIN f |-> IF t \in tiles THEN from[t] ELSE f[t]]

ShapeDue == rich_cursor /\ shape_due

\* Mutant: the tiles go out before the copy.
TilesFirst(f, tiles, new) ==
  LET painted == Overlay(f, tiles, new) IN
  IF CopyPending THEN CopyRect(painted) ELSE painted

\* vnc_send_update, as the viewer applies it: the copy first, then the tiles.
SendUpdate(f, tiles, new) ==
  Overlay(IF CopyPending THEN CopyRect(f) ELSE f, tiles, new)

FrameSent ==
  /\ last_foreground' = foreground
  /\ prev' = Overlay(Moved, Changed, bits)
  /\ read_mask' = read_mask \ DOMAIN bits
  /\ dirty' = Changed
  /\ IF Changed # {} \/ CopyPending \/ ShapeDue
     THEN /\ viewer' = [frame |-> SendUpdate(viewer.frame, Changed, prev'),
                        shape |-> IF ShapeDue THEN shape_seen ELSE viewer.shape]
          /\ shape_due' = (shape_due /\ ~rich_cursor)
          /\ full_wanted' = FALSE /\ update_wanted' = FALSE
     ELSE UNCHANGED <<viewer, shape_due, full_wanted, update_wanted>>
  /\ UNCHANGED <<nt, held, keys_down>>

CaptureDone ==
  /\ nt = "loop" /\ Collect
  /\ \/ /\ job_result = "resized" /\ use_desktop_size
        /\ nt' = "resize"
        /\ UNCHANGED <<last_foreground, prev, read_mask, dirty, viewer, shape_due,
                       full_wanted, update_wanted, held, keys_down>>
     \/ /\ job_result = "resized" /\ ~use_desktop_size
        /\ EndSession
        /\ UNCHANGED <<last_foreground, prev, read_mask, dirty, shape_due,
                       full_wanted, update_wanted>>
     \/ /\ job_result = "failed" \/ (job_result = "done" /\ ~update_wanted)
        /\ UNCHANGED <<nt, last_foreground, prev, read_mask, dirty, viewer, shape_due,
                       full_wanted, update_wanted, held, keys_down>>
     \/ job_result = "done" /\ update_wanted /\ FrameSent
  /\ UNCHANGED <<machine, stop, use_copyrect, use_desktop_size, wk, job_event,
                 job_result, wedged, bits, suspect, cursor_area, foreground,
                 sample_step, shape_seen, flags, events>>

-----------------------------------------------------------------------------
Machine == Drawing \/ WindowMoves \/ CursorMoves \/ ShapeChanges \/ ModeChanges
Viewer  == \/ Accept \/ ViewerLeaves \/ SetEncodings \/ UpdateRequest \/ FullRequest
           \/ KeyEvent
\* What the thread does without being asked.
NetworkStep ==
  \/ RunStart \/ Drain \/ GivesUp \/ InitDone \/ Handshake
  \/ ResizeDone \/ StopListening \/ FreeDone \/ Schedule \/ CaptureDone

Next ==
  \/ Machine \/ Viewer \/ NetworkStep \/ WorkerStep \/ StopSeen \/ StopRequested
  \/ ReadFails \/ Wedges \/ Unwedges

Spec == Init /\ [][Next]_vars

\* The threads run and a viewer asks for the next frame when it has one.  A
\* wedged driver need not recover.
FairSpec == /\ Spec
            /\ WF_vars(NetworkStep) /\ WF_vars(WorkerStep) /\ WF_vars(StopSeen)
            /\ WF_vars(UpdateRequest)

-----------------------------------------------------------------------------
Frames == UNION {[1 .. w -> Tile] : w \in 0 .. MaxWidth}

\* TypeOK: every variable has its type, and the two frame buffers and the
\* tile marks have the one size vnc_capture_init gave them.
TypeOK ==
  /\ screen \in [Position -> [Row -> Colour \ {Cursor}]] /\ mode \in Position
  /\ {window, cursor} \subseteq Position /\ shape \in Shape
  /\ nt \in Running \cup {"listen", "handshake", "loop", "stopped", "exited"}
  /\ job \in {"none", "capture", "init", "free"}
  /\ {update_wanted, full_wanted, stop, use_copyrect, use_desktop_size} \subseteq BOOLEAN
  /\ wk \in {"idle", "capture", "full", "sample", "suspects", "cursor", "foreground",
             "init", "free"}
  /\ {job_event, done_event, wedged, shape_due} \subseteq BOOLEAN
  /\ {capture_full, rich_cursor, cursor_reset} \subseteq BOOLEAN
  /\ job_result \in {"done", "failed", "resized"}
  /\ bits \in Frames /\ prev \in [DOMAIN bits -> Tile]
  /\ dirty \subseteq Position /\ read_mask \subseteq Position /\ suspect \subseteq Position
  /\ {cursor_area, foreground, last_foreground} \subseteq Position \cup {NoArea}
  /\ sample_step \in Row /\ shape_seen \in Shape \cup {"none"}
  /\ viewer.frame \in Frames /\ viewer.shape \in Shape \cup {"none"}
  /\ {keys_down, held} \subseteq {{}, {"key"}}

\* WorkerOwnsFrame: while the worker has a job, or one is on its way to it or
\* back, the network thread has that very job open, so it leaves the buffers
\* alone; with no job open nothing of the worker's is pending.
WorkerOwnsFrame ==
  /\ wk # "idle" \/ job_event \/ done_event => job # "none"
  /\ wk \in {"init", "free"} => job = wk

\* ViewerMirrorsPrev: between two frames vnc_prev is what the viewer shows,
\* tile by tile and in size, whatever was copied, sent, resized or asked for
\* meanwhile; only a frame that is still owed in full may differ.
ViewerMirrorsPrev ==
  nt = "loop" => /\ DOMAIN viewer.frame = DOMAIN prev
                 /\ ~full_wanted => viewer.frame = prev

\* NothingStuck: without a viewer no key that one pressed is down: the end of
\* a session and the end of a process with a stuck worker both release it.
NothingStuck == nt \notin {"loop", "resize"} => held = {}

\* What the viewer should come to show.
Target == [t \in 1 .. mode |-> IF t = cursor /\ ~rich_cursor
                               THEN WithCursor(screen[t]) ELSE screen[t]]

\* CatchesUp: once the machine rests, a viewer that goes on asking shows its
\* screen, with the cursor where it is and in the shape it has, although each
\* poll samples one row of a tile and changes fell between its reads.
CatchesUp ==
  <>[](nt = "loop" /\ ~wedged =>
         viewer.frame = Target /\ (rich_cursor => viewer.shape = shape))

\* Stops: told to stop, the server ends, though a viewer may be connected and
\* the worker may be stuck in the display driver.
Stops == stop ~> nt \in {"stopped", "exited"}
=============================================================================
