-------------------------------- MODULE MCVnc --------------------------------
(***************************************************************************)
(* The VNC server in one run: the network thread with the capture worker,  *)
(* or with the clipboard thread, or the packing of tiles.  The pairs of    *)
(* threads share only the coming and going of viewers, which each has for  *)
(* itself; a behaviour is one of one part.  MCClip.cfg and MCTiles.cfg     *)
(* check the other two alone.                                              *)
(***************************************************************************)
EXTENDS VncServer

CONSTANTS
  Text, MaxVisits, MaxClips,                                     \* of the clipboard
  Ink, TileArea, PixelBytes, MaxPalette, MaxPacked, LongRun      \* of the tiles

ASSUME VisitsAssumption == MaxVisits \in Nat
ASSUME TilesAssumption ==
  /\ Ink \subseteq Nat \ {0} /\ TileArea \in Nat \ {0} /\ PixelBytes \subseteq Nat \ {0}
  /\ MaxPalette \in 0 .. 127 /\ MaxPacked \in 0 .. 16 /\ LongRun \in Nat \ {0}

VARIABLES
  part,        \* which of them runs
  net, visit, recv_ready, in_ready, out_ready, clip_session, reset, cells, in_buf,
  out, clip_event, ct, early, got, look, found, hash, primed, board, told, clips

clipboard == <<net, visit, recv_ready, in_ready, out_ready, clip_session, reset, cells, in_buf,
               out, clip_event, ct, early, got, look, found, hash, primed, board, told, clips>>

VARIABLES bytes, enc, dec, tile, shown, sent
tiles == <<bytes, enc, dec, tile, shown, sent>>

Clip  == INSTANCE VncClipboard
Tiles == INSTANCE VncTiles WITH Colour <- Ink

VncInit ==
  /\ part \in {"screen", "clipboard", "tiles"}
  /\ Init /\ Clip!Init /\ Tiles!Init
  /\ part # "clipboard" => board = Clip!Nothing
  /\ part # "tiles" => bytes = CHOOSE n \in PixelBytes : TRUE

VncNext ==
  \/ part = "screen"    /\ Next      /\ UNCHANGED <<part, clipboard, tiles>>
  \/ part = "clipboard" /\ Clip!Next /\ UNCHANGED <<part, vars, tiles>>
  \/ part = "tiles"     /\ Tiles!Next /\ UNCHANGED <<part, vars, clipboard>>

\* The fairness of the pair that runs.
VncFairness ==
  /\ WF_vars(part = "screen" /\ NetworkStep)
  /\ WF_vars(part = "screen" /\ WorkerStep)
  /\ WF_vars(part = "screen" /\ StopSeen)
  /\ WF_vars(part = "screen" /\ UpdateRequest)
  /\ WF_clipboard(part = "clipboard" /\ Clip!ClipThread)
  /\ WF_clipboard(part = "clipboard" /\ Clip!Handshake)
  /\ WF_clipboard(part = "clipboard" /\ Clip!HandOver)
  /\ WF_clipboard(part = "clipboard" /\ (Clip!SendCut \/ Clip!CutSent))

VncSpec == VncInit /\ [][VncNext]_<<vars, clipboard, tiles, part>> /\ VncFairness

-----------------------------------------------------------------------------
\* The types of both.
TypesOK == TypeOK /\ Clip!TypeOK

\* "No buffer is ever touched by two threads at once" (vnc.c, the clipboard).
WholeTexts == Clip!WholeTexts

\* Nothing is sent back to the viewer it came from, nor what was on the
\* clipboard before that viewer came (vnc.c, v9x_vnc_clip_thread).
OnlyNews == Clip!OnlyNews

\* What is copied while a viewer is there gets to it (vnc.c, v9x_vnc_clip_thread).
CopyReachesViewer == Clip!CopyReachesViewer

\* The viewer shows every tile as it was read, however it was packed (vnc.c,
\* Hextile and ZRLE).
TilesArrive == Tiles!TilesArrive
=============================================================================
