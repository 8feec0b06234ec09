---------------------------- MODULE FileTransfer ----------------------------
(***************************************************************************)
(* Uploads, HTTP downloads and reads of one destination path by several    *)
(* connections (src/guest/files.c, src/guest/download.c).                  *)
(*                                                                         *)
(* Each connection stages its transfer in a temporary file of its own; the *)
(* destination and its .V9X.BAK are shared, with no lock, by every         *)
(* connection that promotes a temporary file to that path.  Each action    *)
(* from Attributes to Clean is one call to the file system, because the    *)
(* other connections' calls may come between any two of them.              *)
(*                                                                         *)
(* A file's contents are the blocks in it: 1 .. Blocks when it holds what  *)
(* the sender meant to send, 0 standing for anything else.  Size and CRC32 *)
(* tell 1 .. Blocks from every other sequence.                             *)
(***************************************************************************)
EXTENDS Naturals, Sequences

CONSTANTS
  Conn,           \* connections
  Blocks,         \* blocks per file
  MaxTransfers,   \* bound on the transfers started
  NoFile,
  ClientResends,  \* may a client send a chunk again after a failed write?
  ServerCuts      \* may the HTTP server close before the whole body is sent?

\* What a file holds, and which transfer it came from (0: it was there before).
File  == [from : 0 .. MaxTransfers, data : Seq(0 .. Blocks)]
Whole == [i \in 1 .. Blocks |-> i]
Temp  == {"PART", "DLPART"}

ASSUME TransferAssumption ==
  /\ Blocks \in Nat \ {0} /\ MaxTransfers \in Nat
  /\ ClientResends \in BOOLEAN /\ ServerCuts \in BOOLEAN
  /\ NoFile \notin File

VARIABLES
  final, backup,  \* the destination and its .V9X.BAK
  temp,           \* temporary files, by connection and kind
  \* per connection: where its request is, whether an upload is open (and a
  \* write of it failed), what the running size and CRC cover, which temporary
  \* file is promoted, whether the old file was backed up
  pc, open, failed, received, source, backedUp,
  reading,        \* connections that have the destination open for reading
  started,        \* transfers so far
  \* history: the transfer put in place last (NoFile: there was never a file;
  \* 0: the file that was there before); did two promotions overlap, how many
  \* renames failed for reasons of their own (0, 1, more), was there a crash
  placed, overlapped, flaky, crashed

files == <<final, backup, temp>>
conns == <<pc, open, failed, received, source, backedUp, reading>>
hist  == <<placed, overlapped, flaky, crashed>>
vars  == <<files, conns, started, hist>>

Promoting == {"attributes", "unbackup", "away", "place", "rollback", "clean"}

Init ==
  /\ final \in {NoFile, [from |-> 0, data |-> Whole]}
  /\ backup = NoFile
  /\ temp = [c \in Conn |-> [t \in Temp |-> NoFile]]
  /\ pc = [c \in Conn |-> "idle"]
  /\ open = [c \in Conn |-> FALSE] /\ failed = open
  /\ received = [c \in Conn |-> <<>>]
  /\ source = [c \in Conn |-> "PART"]
  /\ backedUp = [c \in Conn |-> FALSE]
  /\ reading = {}
  /\ started = 0
  /\ placed = IF final = NoFile THEN NoFile ELSE 0
  /\ overlapped = FALSE /\ flaky = 0 /\ crashed = FALSE

-----------------------------------------------------------------------------
Goto(c, label) == pc' = [pc EXCEPT ![c] = label]

SetTemp(c, t, f) == temp' = [temp EXCEPT ![c][t] = f]

\* Append to a temporary file that is being written.
Store(c, t, block) == temp' = [temp EXCEPT ![c][t].data = Append(@, block)]

\* Promotion begins: v9x_promote_temp.
StartPromotion(c, t) ==
  /\ Goto(c, "attributes")
  /\ source' = [source EXCEPT ![c] = t]
  /\ backedUp' = [backedUp EXCEPT ![c] = FALSE]
  /\ overlapped' = (overlapped \/ \E d \in Conn \ {c} : pc[d] \in Promoting)

NoPromotion == UNCHANGED <<source, backedUp, overlapped>>

-----------------------------------------------------------------------------
(***************************************************************************)
(* Uploads                                                                 *)
(***************************************************************************)
\* FILE_OPEN_WRITE: refused while an upload is open; truncates a stale part.
OpenWrite(c) ==
  /\ pc[c] = "idle" /\ ~open[c] /\ started < MaxTransfers
  /\ started' = started + 1
  /\ SetTemp(c, "PART", [from |-> started', data |-> <<>>])
  /\ open' = [open EXCEPT ![c] = TRUE]
  /\ received' = [received EXCEPT ![c] = <<>>]
  /\ UNCHANGED <<final, backup, pc, failed, source, backedUp, reading, hist>>

WriteChunkBeyond(c) ==     \* a mutant: no check against the declared size
  /\ pc[c] = "idle" /\ open[c] /\ ~failed[c]
  /\ Len(received[c]) <= Blocks
  /\ Store(c, "PART", Len(received[c]) + 1)
  /\ received' = [received EXCEPT ![c] = Append(@, Len(@) + 1)]
  /\ UNCHANGED <<final, backup, pc, open, failed, source, backedUp, reading, started, hist>>

\* FILE_WRITE_CHUNK at the offset received so far, within the declared size.
WriteChunk(c) ==
  LET n == Len(received[c]) IN
  /\ pc[c] = "idle" /\ open[c] /\ n < Blocks
  /\ failed[c] => ClientResends
  /\ \E block \in {0, n + 1} :
       /\ Store(c, "PART", block)
       /\ received' = [received EXCEPT ![c] = Append(@, block)]
  /\ UNCHANGED <<final, backup, pc, open, failed, source, backedUp, reading, started, hist>>

\* WriteFile fails, or writes less than the chunk: an error frame, and the
\* upload stays open with its offset and running CRC as they were.
WriteFails(c) ==
  /\ pc[c] = "idle" /\ open[c] /\ ~failed[c] /\ Len(received[c]) < Blocks
  /\ Store(c, "PART", 0) \/ temp' = temp
  /\ failed' = [failed EXCEPT ![c] = TRUE]
  /\ UNCHANGED <<final, backup, pc, open, received, source, backedUp, reading, started, hist>>

CommitBySize(c) ==     \* a mutant: the CRC32 is not compared
  /\ pc[c] = "idle" /\ open[c] /\ ~failed[c]
  /\ open' = [open EXCEPT ![c] = FALSE]
  /\ \/ Len(received[c]) = Blocks /\ StartPromotion(c, "PART") /\ temp' = temp
     \/ SetTemp(c, "PART", NoFile) /\ pc' = pc /\ NoPromotion
  /\ UNCHANGED <<final, backup, failed, received, reading, started, placed, flaky, crashed>>

\* FILE_COMMIT: a failed flush, or a size or CRC32 that differs, drops the part.
Commit(c) ==
  /\ pc[c] = "idle" /\ open[c]
  /\ failed[c] => ClientResends
  /\ open' = [open EXCEPT ![c] = FALSE] /\ failed' = [failed EXCEPT ![c] = FALSE]
  /\ \/ received[c] = Whole /\ StartPromotion(c, "PART") /\ temp' = temp
     \/ SetTemp(c, "PART", NoFile) /\ pc' = pc /\ NoPromotion
  /\ UNCHANGED <<final, backup, received, reading, started, placed, flaky, crashed>>

\* v9x_files_disconnect.
Disconnect(c) ==
  /\ pc[c] = "idle" /\ open[c]
  /\ open' = [open EXCEPT ![c] = FALSE] /\ failed' = [failed EXCEPT ![c] = FALSE]
  /\ SetTemp(c, "PART", NoFile)
  /\ UNCHANGED <<final, backup, pc, received, source, backedUp, reading, started, hist>>

-----------------------------------------------------------------------------
(***************************************************************************)
(* Downloads: v9x_handle_download runs to its end within one request.      *)
(***************************************************************************)
Download(c) ==
  /\ pc[c] = "idle" /\ started < MaxTransfers
  /\ started' = started + 1
  /\ SetTemp(c, "DLPART", [from |-> started', data |-> <<>>])
  /\ Goto(c, "fetch")
  /\ UNCHANGED <<final, backup, open, failed, received, source, backedUp, reading, hist>>

Fetch(c) ==
  LET n == Len(temp[c]["DLPART"].data) IN
  /\ pc[c] = "fetch" /\ n < Blocks
  /\ Store(c, "DLPART", n + 1)
  /\ UNCHANGED <<final, backup, conns, started, hist>>

\* recv returns 0: the body is over, however much of it has come.
BodyEnds(c) ==
  /\ pc[c] = "fetch"
  /\ Len(temp[c]["DLPART"].data) = Blocks \/ ServerCuts
  /\ StartPromotion(c, "DLPART")
  /\ UNCHANGED <<files, open, failed, received, reading, started, placed, flaky, crashed>>

\* recv, WriteFile or the flush fails, or the limit is reached.
FetchFails(c) ==
  /\ pc[c] = "fetch"
  /\ SetTemp(c, "DLPART", NoFile)
  /\ Goto(c, "idle")
  /\ UNCHANGED <<final, backup, open, failed, received, source, backedUp, reading, started, hist>>

-----------------------------------------------------------------------------
(***************************************************************************)
(* v9x_promote_temp.  A rename fails when its source is missing or open or *)
(* its target exists; it may also fail for reasons of its own.             *)
(***************************************************************************)
Attributes(c) ==
  /\ pc[c] = "attributes"
  /\ Goto(c, IF final = NoFile THEN "place" ELSE "unbackup")
  /\ UNCHANGED <<files, open, failed, received, source, backedUp, reading, started, hist>>

Unbackup(c) ==
  /\ pc[c] = "unbackup" /\ Goto(c, "away")
  /\ backup' = NoFile
  /\ UNCHANGED <<final, temp, open, failed, received, source, backedUp, reading, started, hist>>

\* A rename fails; if it could have worked, that is for reasons of its own.
CountIf(could) == flaky' = IF could /\ flaky < 2 THEN flaky + 1 ELSE flaky

\* final -> backup
CanMoveAway == final # NoFile /\ reading = {} /\ backup = NoFile

AwayForGood(c) ==     \* a mutant: deletes the old file instead of keeping it
  /\ pc[c] = "away" /\ CanMoveAway
  /\ final' = NoFile
  /\ Goto(c, "place")
  /\ UNCHANGED <<backup, temp, open, failed, received, source, backedUp, reading, started, hist>>

Away(c) ==
  /\ pc[c] = "away" /\ CanMoveAway
  /\ backup' = final /\ final' = NoFile
  /\ backedUp' = [backedUp EXCEPT ![c] = TRUE]
  /\ Goto(c, "place")
  /\ UNCHANGED <<temp, open, failed, received, source, reading, started, hist>>

AwayFailsLeavesTemp(c) ==     \* a mutant: keeps the temporary file
  /\ pc[c] = "away"
  /\ CountIf(CanMoveAway)
  /\ Goto(c, "idle")
  /\ UNCHANGED <<files, open, failed, received, source, backedUp,
                 reading, started, placed, overlapped, crashed>>

AwayFails(c) ==
  /\ pc[c] = "away"
  /\ CountIf(CanMoveAway)
  /\ SetTemp(c, source[c], NoFile)
  /\ Goto(c, "idle")
  /\ UNCHANGED <<final, backup, open, failed, received, source, backedUp,
                 reading, started, placed, overlapped, crashed>>

\* temp -> final
Place(c) ==
  /\ pc[c] = "place" /\ final = NoFile
  /\ final' = temp[c][source[c]]
  /\ placed' = final'.from
  /\ SetTemp(c, source[c], NoFile)
  /\ Goto(c, IF backedUp[c] THEN "clean" ELSE "idle")
  /\ UNCHANGED <<backup, open, failed, received, source, backedUp, reading,
                 started, overlapped, flaky, crashed>>

PlaceFails(c) ==
  /\ pc[c] = "place"
  /\ CountIf(final = NoFile)
  /\ IF backedUp[c] THEN Goto(c, "rollback") /\ temp' = temp
                    ELSE Goto(c, "idle") /\ SetTemp(c, source[c], NoFile)
  /\ UNCHANGED <<final, backup, open, failed, received, source, backedUp,
                 reading, started, placed, overlapped, crashed>>

\* backup -> final, whether or not it works; then the temporary file goes.
CanRollback == backup # NoFile /\ final = NoFile

RollbackForgotten(c) ==     \* a mutant: leaves the old file in the backup
  /\ pc[c] = "rollback"
  /\ SetTemp(c, source[c], NoFile)
  /\ Goto(c, "idle")
  /\ UNCHANGED <<final, backup, open, failed, received, source, backedUp, reading,
                 started, hist>>

Rollback(c) ==
  /\ pc[c] = "rollback"
  /\ \/ CanRollback /\ final' = backup /\ backup' = NoFile /\ flaky' = flaky
     \/ CountIf(CanRollback) /\ UNCHANGED <<final, backup>>
  /\ SetTemp(c, source[c], NoFile)
  /\ Goto(c, "idle")
  /\ UNCHANGED <<open, failed, received, source, backedUp, reading, started,
                 placed, overlapped, crashed>>

Clean(c) ==
  /\ pc[c] = "clean" /\ Goto(c, "idle")
  /\ backup' = NoFile
  /\ UNCHANGED <<final, temp, open, failed, received, source, backedUp, reading, started, hist>>

-----------------------------------------------------------------------------
(***************************************************************************)
(* FILE_OPEN_READ keeps the destination open, so that it cannot be renamed.*)
(***************************************************************************)
OpenRead(c) ==
  /\ pc[c] = "idle" /\ final # NoFile
  /\ Goto(c, "read") /\ reading' = reading \cup {c}
  /\ UNCHANGED <<files, open, failed, received, source, backedUp, started, hist>>

EndRead(c) ==
  /\ pc[c] = "read"
  /\ Goto(c, "idle") /\ reading' = reading \ {c}
  /\ UNCHANGED <<files, open, failed, received, source, backedUp, started, hist>>

\* The agent or the machine goes down and comes up again: files stay as they are.
Crash ==
  /\ ~crashed /\ crashed' = TRUE
  /\ pc' = [c \in Conn |-> "idle"]
  /\ open' = [c \in Conn |-> FALSE] /\ failed' = open'
  /\ received' = [c \in Conn |-> <<>>]
  /\ reading' = {}
  /\ UNCHANGED <<files, source, backedUp, started, placed, overlapped, flaky>>

-----------------------------------------------------------------------------
Promote(c) ==
  \/ Attributes(c) \/ Unbackup(c) \/ Away(c) \/ AwayFails(c)
  \/ Place(c) \/ PlaceFails(c) \/ Rollback(c) \/ Clean(c)

Next ==
  \/ \E c \in Conn :
       \/ OpenWrite(c) \/ WriteChunk(c) \/ WriteFails(c) \/ Commit(c) \/ Disconnect(c)
       \/ Download(c) \/ Fetch(c) \/ BodyEnds(c) \/ FetchFails(c)
       \/ Promote(c) \/ OpenRead(c) \/ EndRead(c)
  \/ Crash

Spec == Init /\ [][Next]_vars

-----------------------------------------------------------------------------
(***************************************************************************)
(* Properties                                                              *)
(***************************************************************************)
TypeOK ==
  /\ final \in File \cup {NoFile} /\ backup \in File \cup {NoFile}
  /\ temp \in [Conn -> [Temp -> File \cup {NoFile}]]
  /\ pc \in [Conn -> Promoting \cup {"idle", "fetch", "read"}]
  /\ open \in [Conn -> BOOLEAN] /\ failed \in [Conn -> BOOLEAN]
  /\ received \in [Conn -> Seq(0 .. Blocks)]
  /\ source \in [Conn -> Temp] /\ backedUp \in [Conn -> BOOLEAN]
  /\ reading \subseteq Conn
  /\ started \in 0 .. MaxTransfers /\ placed \in (0 .. MaxTransfers) \cup {NoFile}
  /\ overlapped \in BOOLEAN /\ flaky \in 0 .. 2 /\ crashed \in BOOLEAN

IsWhole(f) == f # NoFile /\ f.data = Whole

\* docs/ai-workflows.md: "interrupted transfers leave only .PART/.V9X.BAK
\* files, never a corrupt destination"; docs/protocol.md of a download: a
\* "transport failure ... leaves any existing destination untouched".
NeverCorrupt == final = NoFile \/ IsWhole(final)

\* Once there has been a file, the destination or its backup holds a whole one,
\* whatever fails and whenever the machine goes down, as long as no two
\* connections were promoting a file to the same path at the same time.
Kept ==
  ~overlapped /\ placed # NoFile => IsWhole(final) \/ IsWhole(backup)

\* When no promotion is under way the destination is the file that was put in
\* place last: however promotions by several connections overlapped, and, if
\* none did, even when a rename fails for reasons of its own.
Settled ==
  /\ \A c \in Conn : pc[c] \notin Promoting
  /\ ~crashed /\ flaky <= (IF overlapped THEN 0 ELSE 1) /\ placed # NoFile
  => final # NoFile /\ final.from = placed

\* A temporary file exists only for the transfer that is using it: refused and
\* failed transfers leave none behind, and neither do closed connections.
NoStrayTemp ==
  ~crashed =>
    \A c \in Conn :
      /\ temp[c]["PART"] # NoFile =>
           open[c] \/ (pc[c] \in Promoting /\ source[c] = "PART")
      /\ temp[c]["DLPART"] # NoFile =>
           pc[c] = "fetch" \/ (pc[c] \in Promoting /\ source[c] = "DLPART")
=============================================================================
