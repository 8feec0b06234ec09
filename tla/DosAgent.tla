------------------------------- MODULE DosAgent -------------------------------
(***************************************************************************)
(* The DOS agent, src/guest-dos: one thread that serves one client at a    *)
(* time.  Nothing is concurrent; what mixes is the client's requests, in   *)
(* any order, with resets of the machine and failures of the disk.         *)
(*                                                                         *)
(* A path is absolute or relative to a current directory that the agent    *)
(* has only one of: executions move it.  A file is a sequence of blocks,   *)
(* a checksum is the content itself.                                       *)
(***************************************************************************)
EXTENDS Naturals, Sequences

CONSTANTS
  Dest,        \* names of files that are uploaded, alike in each directory
  Block,       \* what a chunk may carry
  MaxSize,     \* bound on an upload's chunks
  MaxWorks, MaxMishaps   \* bounds on uploads, executions; failures, resets

Dir  == {"home", "other"}
Path == [dir : {"home", "."}, name : Dest]
Absent == <<"absent">>
Spoilt == "part of a block"

VARIABLES
  pc,         \* where the one thread is
  cwd,        \* the current directory
  out,        \* OUT.TMP: none, an earlier command's, or the running one's
  disk,       \* per directory: the destinations, V9XUP.TMP and V9XUP.BAK
  write,      \* write_state; home and torn are for the properties alone
  backed_up,  \* in v9x_promote_temp
  claim,      \* the upload that the agent last called complete
  good,       \* per directory: what each destination was given last
  cut,        \* directories in which a commit was cut short
  unbacked,   \* and those of them in which a later one has removed the backup
  works, mishaps

history == <<claim, good, cut, unbacked>>
vars == <<pc, cwd, disk, out, write, backed_up, history, works, mishaps>>

Names == Dest \cup {"V9XUP.TMP", "V9XUP.BAK"}
NoWrite == [open |-> FALSE]
NoClaim == [sound |-> FALSE]

Init ==
  /\ pc = "start" /\ cwd = "home" /\ out = "none"
  /\ disk = [d \in Dir |-> [n \in Names |-> IF n \in Dest THEN <<>> ELSE Absent]]
  /\ write = NoWrite /\ backed_up = FALSE /\ claim = NoClaim
  /\ good = [d \in Dir |-> [n \in Dest |-> <<>>]] /\ cut = {}
  /\ unbacked = {}
  /\ works = 0 /\ mishaps = 0

Mishap == mishaps < MaxMishaps /\ mishaps' = mishaps + 1
Work   == works < MaxWorks /\ works' = works + 1

Resolve(path) == IF path.dir = "." THEN cwd ELSE path.dir
Put(d, n, content) == disk' = [disk EXCEPT ![d][n] = content]

\* v9x_send_frame: an answer that cannot be sent ends the connection.
Answer == \/ pc' = "serve" /\ UNCHANGED mishaps
          \/ pc' = "hangup" /\ Mishap

-----------------------------------------------------------------------------
(* main *)

Start ==
  /\ pc = "start" /\ pc' = "listen"
  /\ UNCHANGED <<cwd, disk, out, write, backed_up, history, works, mishaps>>

\* No packet driver, or no socket to listen on: main returns.
NetFails ==
  /\ pc = "listen" /\ Mishap
  /\ pc' = "ended"
  /\ UNCHANGED <<cwd, disk, out, write, backed_up, history, works>>

\* A client other than allowed_client is turned away at once.
Accept ==
  /\ pc = "listen"
  /\ pc' = "hello"
  /\ UNCHANGED <<cwd, disk, out, write, backed_up, history, works, mishaps>>

\* v9x_files_disconnect, the temporary file being named afresh.
Hangup ==
  /\ pc = "hangup" /\ pc' = "listen"
  /\ IF write.open THEN Put(Resolve(write.path), "V9XUP.TMP", Absent) ELSE UNCHANGED disk
  /\ write' = NoWrite
  /\ UNCHANGED <<cwd, out, backed_up, history, works, mishaps>>

\* The client is gone, or its header makes no sense.
Leaves ==
  /\ pc \in {"hello", "serve"} /\ pc' = "hangup"
  /\ UNCHANGED <<cwd, disk, out, write, backed_up, history, works, mishaps>>

-----------------------------------------------------------------------------
(* v9x_serve_client *)

Hello ==
  /\ pc = "hello" /\ Answer
  /\ UNCHANGED <<cwd, disk, out, write, backed_up, history, works>>

HelloRefused ==
  /\ pc = "hello" /\ pc' = "hangup"
  /\ UNCHANGED <<cwd, disk, out, write, backed_up, history, works, mishaps>>

\* PING, INFO, CANCEL and what is not supported: nothing changes.
Report ==
  /\ pc = "serve" /\ Answer
  /\ UNCHANGED <<cwd, disk, out, write, backed_up, history, works>>

\* STAT, LIST and MKDIR change no file.
Look == Report

\* A download: chunk after chunk, then its checksum; a read that fails ends it
\* with an error in their place, a send that fails ends the connection.
Download ==
  /\ pc \in {"serve", "download"}
  /\ \/ pc' = "download" /\ UNCHANGED mishaps
     \/ Answer
     \/ pc' = "serve" /\ Mishap
  /\ UNCHANGED <<cwd, disk, out, write, backed_up, history, works>>

\* Mutant: what is there is left to the command to overwrite.
ExecuteKeepsOutput ==
  /\ pc = "serve" /\ Work
  /\ pc' = "run" /\ UNCHANGED <<out, mishaps>>
  /\ UNCHANGED <<cwd, disk, write, backed_up, history>>

\* v9x_dos_execute: accept, and remove what an execution before has left.
Execute ==
  /\ pc = "serve" /\ Work
  /\ \/ pc' = "run" /\ out' = "none" /\ UNCHANGED mishaps
     \/ pc' = "hangup" /\ UNCHANGED out /\ Mishap
  /\ UNCHANGED <<cwd, disk, write, backed_up, history>>

\* The child, in a directory of its own, to which v9x_pushd and v9x_popd lead
\* and back; or in the current directory, which it may leave elsewhere.  It may
\* end without an output file.
Run ==
  /\ pc = "run" /\ pc' = "stream"
  /\ cwd' \in Dir /\ out' \in {out, "own"}
  /\ UNCHANGED <<disk, write, backed_up, history, works, mishaps>>

\* Not run, for its directory does not exist; when that is on another drive the
\* agent stays there, as v9x_popd is not called.
NotRun ==
  /\ pc = "run" /\ pc' = "complete"
  /\ cwd' \in Dir
  /\ UNCHANGED <<disk, out, write, backed_up, history, works, mishaps>>

\* A frame that cannot be sent ends it; the output file is removed either way.
Stream ==
  /\ pc = "stream" /\ out' = "none"
  /\ \/ pc' = "complete" /\ UNCHANGED mishaps
     \/ pc' = "hangup" /\ out # "none" /\ Mishap
  /\ UNCHANGED <<cwd, disk, write, backed_up, history, works>>

ExecuteComplete ==
  /\ pc = "complete" /\ out' = "none" /\ Answer
  /\ UNCHANGED <<cwd, disk, write, backed_up, history, works>>

-----------------------------------------------------------------------------
(* Uploads, files_dos.c *)

Declared == UNION {[1 .. n -> Block] : n \in 0 .. MaxSize}

OpenWrite == \E path \in Path, declared \in Declared :
  /\ pc = "serve" /\ ~write.open /\ Work
  /\ \/ /\ write' = [open |-> TRUE, path |-> path, declared |-> declared,
                     received |-> <<>>, home |-> Resolve(path), torn |-> FALSE]
        /\ Put(Resolve(path), "V9XUP.TMP", <<>>)
        /\ Answer
     \/ /\ Mishap /\ pc' = "serve"     \* it cannot be created
        /\ UNCHANGED <<write, disk>>
  /\ claim' = NoClaim
  /\ UNCHANGED <<cwd, out, backed_up, good, cut, unbacked>>

\* A second upload; a chunk or a commit without one; a chunk that is not next.
Misplaced ==
  /\ pc = "serve" /\ Answer
  /\ UNCHANGED <<cwd, disk, out, write, backed_up, history, works>>

Remaining == Len(write.received) < Len(write.declared)
Receive(block) == Put(write.home, "V9XUP.TMP", Append(disk[write.home]["V9XUP.TMP"], block))

WriteChunk == \E block \in Block :
  /\ pc = "serve" /\ write.open /\ Remaining
  /\ Receive(block) /\ write' = [write EXCEPT !.received = Append(@, block)]
  /\ Answer
  /\ UNCHANGED <<cwd, out, backed_up, history, works>>

\* The disk is full part of the way; the upload stays open, and the chunk may
\* be sent again.
WriteShort ==
  /\ pc = "serve" /\ write.open /\ Remaining /\ Mishap
  /\ Receive(Spoilt) /\ write' = [write EXCEPT !.torn = TRUE]
  /\ pc' = "serve"
  /\ UNCHANGED <<cwd, out, backed_up, history, works>>

\* Where a path leads by now.
Here == Resolve(write.path)
Name == write.path.name

\* Mutant: the size alone is compared.
MatchesBySize == Len(write.received) = Len(write.declared)

Matches == write.received = write.declared

Commit ==
  /\ pc = "serve" /\ write.open
  /\ IF Matches THEN pc' = "unbackup" /\ UNCHANGED <<disk, write, mishaps>>
     ELSE Put(Here, "V9XUP.TMP", Absent) /\ write' = NoWrite /\ Answer
  /\ backed_up' = FALSE
  /\ UNCHANGED <<cwd, out, history, works>>

\* v9x_promote_temp, a call to the file system at a time.
UnBackup ==
  /\ pc = "unbackup"
  /\ \/ disk[Here][Name] = Absent /\ pc' = "promote" /\ UNCHANGED <<disk, mishaps>>
     \/ /\ disk[Here][Name] # Absent /\ pc' = "backup"
        /\ \/ Put(Here, "V9XUP.BAK", Absent) /\ UNCHANGED mishaps
           \/ UNCHANGED disk /\ Mishap
  /\ unbacked' = IF disk[Here][Name] # Absent /\ Here \in cut THEN unbacked \cup {Here}
                                                            ELSE unbacked
  /\ UNCHANGED <<cwd, out, write, backed_up, claim, good, cut, works>>

\* rename, which does not replace a file.
CanRename(m, n) == disk[Here][m] # Absent /\ disk[Here][n] = Absent
Rename(m, n) ==
  CanRename(m, n) /\ disk' = [disk EXCEPT ![Here][n] = disk[Here][m], ![Here][m] = Absent]

Backup ==
  /\ pc = "backup"
  /\ Rename(Name, "V9XUP.BAK") /\ pc' = "promote" /\ backed_up' = TRUE
  /\ UNCHANGED <<cwd, out, write, history, works, mishaps>>

BackupFails ==
  /\ pc = "backup"
  /\ IF CanRename(Name, "V9XUP.BAK") THEN Mishap ELSE UNCHANGED mishaps
  /\ Put(Here, "V9XUP.TMP", Absent) /\ write' = NoWrite /\ pc' = "serve"
  /\ UNCHANGED <<cwd, out, backed_up, history, works>>

Promote ==
  /\ pc = "promote"
  /\ Rename("V9XUP.TMP", Name) /\ pc' = "drop"
  /\ good' = [good EXCEPT ![Here][Name] = disk[Here]["V9XUP.TMP"]]
  /\ UNCHANGED <<cwd, out, write, backed_up, claim, cut, unbacked, works,
                 mishaps>>

\* The temporary file is not where the current directory is by now; or a fault.
PromoteFails ==
  /\ pc = "promote" /\ pc' = "rollback"
  /\ IF CanRename("V9XUP.TMP", Name) THEN Mishap ELSE UNCHANGED mishaps
  /\ UNCHANGED <<cwd, disk, out, write, backed_up, history, works>>

\* Mutant: all that the commit has made is removed, whether the backup went back or not.
RollbackClears ==
  /\ pc = "rollback" /\ pc' = "serve" /\ write' = NoWrite
  /\ LET dir == [disk[Here] EXCEPT !["V9XUP.TMP"] = Absent, !["V9XUP.BAK"] = Absent]
     IN \/ /\ backed_up /\ disk' = [disk EXCEPT ![Here] =
                                       [dir EXCEPT ![Name] = disk[Here]["V9XUP.BAK"]]]
           /\ UNCHANGED <<cut, mishaps>>
        \/ /\ backed_up /\ Mishap /\ cut' = cut \cup {Here}
           /\ disk' = [disk EXCEPT ![Here] = dir]
        \/ /\ ~backed_up
           /\ disk' = [disk EXCEPT ![Here] = dir] /\ UNCHANGED <<cut, mishaps>>
  /\ UNCHANGED <<cwd, out, backed_up, claim, good, unbacked, works>>

\* The backup goes back, if it will; the temporary file is removed.
Rollback ==
  /\ pc = "rollback" /\ pc' = "serve" /\ write' = NoWrite
  /\ LET dir == [disk[Here] EXCEPT !["V9XUP.TMP"] = Absent]
     IN \/ /\ backed_up
           /\ disk' = [disk EXCEPT ![Here] = [dir EXCEPT ![Name] = dir["V9XUP.BAK"],
                                                         !["V9XUP.BAK"] = Absent]]
           /\ UNCHANGED <<cut, mishaps>>
        \/ /\ backed_up /\ Mishap /\ cut' = cut \cup {Here}
           /\ disk' = [disk EXCEPT ![Here] = dir]
        \/ /\ ~backed_up
           /\ disk' = [disk EXCEPT ![Here] = dir] /\ UNCHANGED <<cut, mishaps>>
  /\ UNCHANGED <<cwd, out, backed_up, claim, good, unbacked, works>>

\* The backup is removed, and the client told.
Complete ==
  /\ pc = "drop"
  /\ IF backed_up THEN Put(Here, "V9XUP.BAK", Absent) ELSE UNCHANGED disk
  /\ claim' = [sound |-> ~write.torn /\ write.home = Here,
               dir |-> write.home, name |-> Name, content |-> write.declared]
  /\ write' = NoWrite /\ Answer
  /\ UNCHANGED <<cwd, out, backed_up, good, cut, unbacked, works>>

-----------------------------------------------------------------------------
\* The machine is reset, or loses power, at any point; open files go with it.
Reset ==
  /\ Mishap /\ pc # "start"
  /\ pc' = "start" /\ cwd' = "home" /\ write' = NoWrite
  /\ cut' = IF pc \in {"promote", "rollback"} /\ backed_up THEN cut \cup {Here} ELSE cut
  /\ out' = IF out = "own" THEN "left" ELSE out
  /\ UNCHANGED <<disk, backed_up, claim, good, unbacked, works>>

Next ==
  \/ Start \/ NetFails \/ Accept \/ Hangup \/ Leaves \/ Hello \/ HelloRefused
  \/ Report \/ Look \/ Download \/ Execute \/ Run \/ NotRun \/ Stream \/ ExecuteComplete \/ OpenWrite \/ Misplaced \/ WriteChunk \/ WriteShort
  \/ Commit \/ UnBackup \/ Backup \/ BackupFails \/ Promote \/ PromoteFails
  \/ Rollback \/ Complete \/ Reset

Spec == Init /\ [][Next]_vars

-----------------------------------------------------------------------------
TypeOK ==
  /\ pc \in {"start", "listen", "ended", "hello", "serve", "hangup", "download", "run", "stream",
             "complete", "unbackup", "backup", "promote", "rollback", "drop"}
  /\ cwd \in Dir /\ cut \subseteq Dir /\ unbacked \subseteq Dir /\ backed_up \in BOOLEAN
  /\ out \in {"none", "left", "own"}
  /\ \A d \in Dir, n \in Names : disk[d][n] = Absent \/
       \A i \in DOMAIN disk[d][n] : disk[d][n][i] \in Block \cup {Spoilt}
  /\ write.open => write.path \in Path /\ write.home \in Dir
                     /\ Len(write.received) <= Len(write.declared)
  /\ works \in 0 .. MaxWorks /\ mishaps \in 0 .. MaxMishaps

\* AnswersAreTrue: an upload that the agent calls complete is in its destination,
\* whole, unless a chunk was sent again that the disk had taken in part, or the
\* current directory has moved under a relative path; and the output streamed is
\* the command's own, not what was left by one that a reset cut off.
AnswersAreTrue ==
  /\ claim.sound => disk[claim.dir][claim.name] = claim.content
  /\ pc = "stream" => out # "left"

\* LastGoodKept: what a destination held last is under its name or V9XUP.BAK,
\* whatever fails and whenever the machine is reset, in the middle of a commit too:
\* until, after that, another commit in the directory meets an existing file, and
\* begins by removing V9XUP.BAK.
LastGoodKept == \A d \in Dir \ unbacked, n \in Dest :
  good[d][n] \in {disk[d][n], disk[d]["V9XUP.BAK"]}
=============================================================================
