----------------------------- MODULE VncClipboard -----------------------------
(***************************************************************************)
(* The text clipboard of the VNC server, src/guest/vnc.c: the network      *)
(* thread receives the viewer's text and sends the machine's, the          *)
(* clipboard thread makes every clipboard call.  They share three buffers  *)
(* and five flags, without a lock.  A text is a model value; its digest is *)
(* the text itself.                                                        *)
(***************************************************************************)
EXTENDS Naturals

CONSTANTS
  Text,         \* texts that are copied
  MaxVisits,    \* bound on connections
  MaxClips      \* bound on copies, texts sent, failures and departures

NoText == "no text"
FromViewer == MaxVisits + 1

VARIABLES
  net,          \* the network thread: listen, handshake, loop or send
  visit,        \* connections so far; names the session
  recv_ready, in_ready, out_ready, clip_session, reset,
  cells, in_buf,    \* vnc_clip_in is cells[in_buf], vnc_clip_recv the other
  out,              \* vnc_clip_out
  clip_event,
  ct, early,    \* the clipboard thread, and whether the event woke it
  got, look,    \* the text it sized; the session in which its look began
  found,        \* the session in which the look began that found out
  hash, primed,
  board,        \* the Windows clipboard
  told,         \* what the viewer was sent last
  clips         \* copies, texts, failures and departures so far

netvars   == <<net, visit, recv_ready, clip_session, told>>
clipvars  == <<ct, early, got, look, found, hash, primed>>
vars == <<netvars, in_ready, out_ready, reset, cells, in_buf, out, clip_event,
          clipvars, board, clips>>

\* A text on its way, with where it came from: the session in which it was
\* copied on the machine, or the viewer; news when it differed from what the
\* server had noted last and from what it was applying.
Copy(text, by, news) == [text |-> text, by |-> by, news |-> news]
Nothing == Copy(NoText, 0, FALSE)

Init ==
  /\ net = "listen" /\ visit = 0 /\ told = NoText
  /\ recv_ready = FALSE /\ in_ready = FALSE /\ out_ready = FALSE
  /\ clip_session = FALSE /\ reset = FALSE
  /\ cells = [i \in 1 .. 2 |-> NoText] /\ in_buf = 1
  /\ out = Nothing /\ clip_event = FALSE
  /\ ct = "wait" /\ early = FALSE /\ got = NoText /\ look = 0 /\ found = 0
  /\ hash = NoText /\ primed = FALSE
  /\ board \in {Copy(t, 0, FALSE) : t \in Text \cup {NoText}}
  /\ clips = 0

Clips == clips < MaxClips /\ clips' = clips + 1

-----------------------------------------------------------------------------
(* The network thread. *)

\* Mutant: text that the other thread is applying is forgotten as well.
ConnectClearsAll ==
  /\ net = "listen" /\ visit < MaxVisits
  /\ net' = "handshake" /\ visit' = visit + 1 /\ told' = NoText
  /\ recv_ready' = FALSE /\ out_ready' = FALSE /\ in_ready' = FALSE
  /\ reset' = TRUE /\ clip_session' = TRUE
  /\ UNCHANGED <<cells, in_buf, out, clip_event, clipvars, board, clips>>

\* vnc_serve begins; in_ready is left to the clipboard thread.
Connect ==
  /\ net = "listen" /\ visit < MaxVisits
  /\ net' = "handshake" /\ visit' = visit + 1 /\ told' = NoText
  /\ recv_ready' = FALSE /\ out_ready' = FALSE
  /\ reset' = TRUE /\ clip_session' = TRUE
  /\ UNCHANGED <<in_ready, cells, in_buf, out, clip_event, clipvars, board, clips>>

\* A handshake that fails leaves clip_session set.
Handshake ==
  /\ net = "handshake"
  /\ \/ net' = "loop" /\ UNCHANGED clips
     \/ net' = "listen" /\ Clips
  /\ UNCHANGED <<visit, told, recv_ready, clip_session, in_ready, out_ready, reset,
                 cells, in_buf, out, clip_event, clipvars, board>>

\* The viewer leaves, or a send to it fails.
Disconnect ==
  /\ net \in {"loop", "send"} /\ Clips
  /\ net' = "listen" /\ clip_session' = FALSE
  /\ UNCHANGED <<visit, told, recv_ready, in_ready, out_ready, reset, cells, in_buf,
                 out, clip_event, clipvars, board>>

\* ClientCutText: a later text takes the place of one not handed over yet.
ViewerText == \E t \in Text :
  /\ net = "loop" /\ Clips
  /\ cells' = [cells EXCEPT ![3 - in_buf] = t]
  /\ recv_ready' = TRUE
  /\ UNCHANGED <<net, visit, told, clip_session, in_ready, out_ready, reset, in_buf,
                 out, clip_event, clipvars, board>>

HandOver ==
  /\ net = "loop" /\ recv_ready /\ ~in_ready
  /\ in_buf' = 3 - in_buf
  /\ recv_ready' = FALSE /\ in_ready' = TRUE /\ clip_event' = TRUE
  /\ UNCHANGED <<net, visit, told, clip_session, out_ready, reset, cells, out,
                 clipvars, board, clips>>

\* vnc_send_cut_text sends the buffer in parts.
SendCut ==
  /\ net = "loop" /\ out_ready
  /\ net' = "send" /\ told' = out.text
  /\ UNCHANGED <<visit, recv_ready, clip_session, in_ready, out_ready, reset, cells,
                 in_buf, out, clip_event, clipvars, board, clips>>

CutSent ==
  /\ net = "send"
  /\ net' = "loop" /\ out_ready' = FALSE
  /\ UNCHANGED <<visit, told, recv_ready, clip_session, in_ready, reset, cells,
                 in_buf, out, clip_event, clipvars, board, clips>>

-----------------------------------------------------------------------------
(* The clipboard thread, vnc_clip_thread. *)

ClipGoto(pc) == ct' = pc

\* A turn begins with the event or after 500 ms.
Turn ==
  /\ ct = "wait"
  /\ clip_event' = FALSE /\ early' = clip_event
  /\ IF clip_session THEN ClipGoto("apply") ELSE clip_event /\ UNCHANGED ct
  /\ UNCHANGED <<netvars, in_ready, out_ready, reset, cells, in_buf, out, got, look,
                 found, hash, primed, board, clips>>

\* vnc_clip_apply_in, its first pass over the text, for the size.
Apply ==
  /\ ct = "apply"
  /\ IF in_ready THEN ClipGoto("put") /\ got' = cells[in_buf]
                 ELSE ClipGoto("look") /\ UNCHANGED got
  /\ UNCHANGED <<netvars, in_ready, out_ready, reset, cells, in_buf, out, clip_event,
                 early, look, found, hash, primed, board, clips>>

\* Its second pass, and SetClipboardData.
Put ==
  /\ ct = "put"
  /\ board' = Copy(cells[in_buf], FromViewer, FALSE)
  /\ ClipGoto("note")
  /\ UNCHANGED <<netvars, in_ready, out_ready, reset, cells, in_buf, out, clip_event,
                 early, got, look, found, hash, primed, clips>>

\* The clipboard is busy: the text is dropped.
PutFails ==
  /\ ct = "put" /\ Clips
  /\ ClipGoto("look") /\ in_ready' = FALSE
  /\ UNCHANGED <<netvars, out_ready, reset, cells, in_buf, out, clip_event, early, got,
                 look, found, hash, primed, board>>

\* Mutant: the digest of the viewer's text is not noted.
NoteForgotten ==
  /\ ct = "note"
  /\ primed' = TRUE
  /\ in_ready' = FALSE /\ ClipGoto("look")
  /\ UNCHANGED <<netvars, out_ready, reset, cells, in_buf, out, clip_event, early, got,
                 look, found, hash, board, clips>>

\* Mutant: the digest is taken of what the clipboard holds by then.
NoteBoard ==
  /\ ct = "note"
  /\ hash' = board.text /\ primed' = TRUE
  /\ in_ready' = FALSE /\ ClipGoto("look")
  /\ UNCHANGED <<netvars, out_ready, reset, cells, in_buf, out, clip_event, early, got,
                 look, found, board, clips>>

Note ==
  /\ ct = "note"
  /\ hash' = cells[in_buf] /\ primed' = TRUE
  /\ in_ready' = FALSE /\ ClipGoto("look")
  /\ UNCHANGED <<netvars, out_ready, reset, cells, in_buf, out, clip_event, early, got,
                 look, found, board, clips>>

\* vnc_clip_poll_out: the first look of a session is told apart; a look within
\* 500 ms of the last is skipped.
Look ==
  /\ ct = "look"
  /\ reset' = FALSE /\ primed' = (primed /\ ~reset) /\ look' = visit
  /\ \/ ClipGoto("read")
     \/ early /\ primed' /\ ClipGoto("wait")
  /\ UNCHANGED <<netvars, in_ready, out_ready, cells, in_buf, out, clip_event, early,
                 got, found, hash, board, clips>>

\* A text that waits to be sent keeps the buffer; a busy clipboard is left alone.
Read ==
  /\ ct = "read"
  /\ \/ out_ready /\ ClipGoto("wait") /\ UNCHANGED <<out, clips>>
     \/ ~out_ready /\ out' = board /\ ClipGoto("decide") /\ UNCHANGED clips
     \/ ~out_ready /\ Clips /\ ClipGoto("wait") /\ UNCHANGED out
  /\ UNCHANGED <<netvars, in_ready, out_ready, reset, cells, in_buf, clip_event, early,
                 got, look, found, hash, primed, board>>

\* Only a text other than the one noted last is sent, and never the first seen.
Decide ==
  /\ ct = "decide"
  /\ hash' = out.text /\ primed' = TRUE
  /\ out_ready' = (primed /\ out.text \notin {hash, NoText}) /\ found' = look
  /\ ClipGoto("wait")
  /\ UNCHANGED <<netvars, in_ready, reset, cells, in_buf, out, clip_event, early, got,
                 look, board, clips>>

\* Somebody at the machine copies another text or empties the clipboard.
LocalCopy == \E t \in (Text \cup {NoText}) \ {board.text} :
  /\ Clips
  /\ board' = Copy(t, visit, /\ net = "loop" /\ primed /\ ~reset
                            /\ t \notin {hash, NoText} /\ ~(in_ready /\ t = cells[in_buf]))
  /\ UNCHANGED <<netvars, in_ready, out_ready, reset, cells, in_buf, out, clip_event,
                 clipvars>>

-----------------------------------------------------------------------------
ClipThread == Turn \/ Apply \/ Put \/ Note \/ Look \/ Read \/ Decide
NetThread  == Handshake \/ HandOver \/ SendCut \/ CutSent

Next == \/ ClipThread \/ NetThread \/ Connect \/ Disconnect \/ ViewerText
        \/ LocalCopy \/ PutFails

Fairness == /\ WF_vars(ClipThread)
            /\ WF_vars(Handshake) /\ WF_vars(HandOver) /\ WF_vars(SendCut \/ CutSent)

Spec == Init /\ [][Next]_vars
FairSpec == Spec /\ Fairness

-----------------------------------------------------------------------------
TypeOK ==
  /\ net \in {"listen", "handshake", "loop", "send"} /\ visit \in 0 .. MaxVisits
  /\ {recv_ready, in_ready, out_ready, clip_session, reset} \subseteq BOOLEAN
  /\ cells \in [1 .. 2 -> Text \cup {NoText}] /\ in_buf \in 1 .. 2
  /\ {out, board} \subseteq
       {Copy(t, b, n) : t \in Text \cup {NoText}, b \in 0 .. FromViewer, n \in BOOLEAN}
  /\ ct \in {"wait", "apply", "put", "note", "look", "read", "decide"}
  /\ {clip_event, early, primed} \subseteq BOOLEAN /\ look \in 0 .. MaxVisits
  /\ {got, told, hash} \subseteq Text \cup {NoText}
  /\ clips \in 0 .. MaxClips

\* WholeTexts: "no buffer is ever touched by two threads at once": a text that
\* is being put on the clipboard stays the one whose size was taken, and one
\* that is being sent stays as it was when its sending began.
WholeTexts ==
  /\ ct \in {"put", "note"} => in_ready /\ cells[in_buf] = got
  /\ net = "send" => out_ready /\ out.text = told

\* OnlyNews: the viewer is sent only what was copied at the machine, and in
\* its own session, never its own text again nor what was there before, unless
\* the look that found it began before the viewer came.
OnlyNews ==
  net = "send" => out.by # FromViewer /\ (found = visit => out.by = visit)

\* CopyReachesViewer: a text copied while the viewer is there, other than the
\* last one the server noted, reaches the viewer unless another replaces it.
CopyReachesViewer ==
  <>[](net = "loop" /\ board.news /\ board.by = visit => told = board.text)
=============================================================================
