------------------------------- MODULE MCFiles -------------------------------
(***************************************************************************)
(* The parts that make and replace files on disk, in one run: uploads and  *)
(* downloads of the Windows agent, the DOS agent, the update that is       *)
(* staged for the next boot, and the unpacking of a release, with the      *)
(* decoder of Deflate.  They share no state; a behaviour is one of one of  *)
(* them, and the others stay as they began.  MCDos.cfg, MCStaged.cfg,      *)
(* MCPackage.cfg and MCInflate.cfg check parts alone.                      *)
(***************************************************************************)
EXTENDS FileTransfer

CONSTANTS
  Dest, Block, MaxSize, MaxWorks,     \* of the DOS agent
  MaxRelease, MaxRuns,                \* of the staged update
  MaxMishaps,                         \* of both
  Extra, Wrong,                       \* of the package
  Byte, MaxData, Gap, MaxDamaged      \* of the decoder

\* A file that is uploaded to the DOS agent has not the name of one of its own two;
\* there is a first release.
ASSUME FilesAssumption ==
  /\ Dest \cap {"V9XUP.TMP", "V9XUP.BAK"} = {}
  /\ MaxSize \in Nat /\ MaxWorks \in Nat /\ MaxMishaps \in Nat
  /\ MaxRelease \in Nat \ {0} /\ MaxRuns \in Nat

\* What a package has of extra fields is so short that no field of its directory means
\* "see zip64".
ASSUME PackageAssumption == Wrong \subseteq Nat /\ \A n \in Extra : n \in Nat /\ n <= 20000

VARIABLES
  part,        \* which of them runs
  dos_pc, cwd, dos_disk, out, write, backed_up, claim, good, cut, unbacked, works, dos_mishaps,
  nt, up, disk, run, agent, ast, boot, step, own, existing, latest, pkg, result,
  published, runs, mishaps, promise, due, slips

dos    == <<dos_pc, cwd, dos_disk, out, write, backed_up, claim, good, cut, unbacked, works,
            dos_mishaps>>
staged == <<nt, up, disk, run, agent, ast, boot, step, own, existing, latest, pkg, result,
            published, runs, mishaps, promise, due, slips>>

VARIABLES zip, changed, at, dir, found_setup, unpacked
package == <<zip, changed, at, dir, found_setup, unpacked>>

VARIABLES data, made, damage, input, capacity, pos, decoded, mode, final_block, hlit, total, lens,
          litlen, distance, status
inflate == <<data, made, damage, input, capacity, pos, decoded, mode, final_block, hlit, total,
             lens, litlen, distance, status>>

Dos    == INSTANCE DosAgent WITH pc <- dos_pc, disk <- dos_disk, mishaps <- dos_mishaps
Staged == INSTANCE StagedUpdate
Pack   == INSTANCE ReleasePackage WITH result <- unpacked
Zlib   == INSTANCE Inflate WITH out <- decoded, last <- final_block

\* A part that stays as it began has begun in one way.
FilesInit ==
  /\ part \in {"transfer", "dos", "staged", "package", "inflate"}
  /\ Init /\ Dos!Init /\ Staged!Init
  /\ part # "transfer" => final = NoFile
  /\ part # "staged"   => ~nt /\ run = "none"
  /\ IF part = "package" THEN Pack!Init
     ELSE /\ zip = "" /\ changed = FALSE /\ at = 0 /\ dir = "" /\ found_setup = FALSE
          /\ unpacked = "none"
  /\ IF part = "inflate" THEN Zlib!Init
     ELSE /\ data = <<>> /\ made = "" /\ damage = "" /\ input = <<>> /\ capacity = 0 /\ pos = 0
          /\ decoded = <<>> /\ mode = "header" /\ final_block = FALSE /\ hlit = 0 /\ total = 0
          /\ lens = <<>> /\ litlen = "" /\ distance = "" /\ status = ""

FilesNext ==
  \/ part = "transfer" /\ Next        /\ UNCHANGED <<part, dos, staged, package, inflate>>
  \/ part = "dos"      /\ Dos!Next    /\ UNCHANGED <<part, vars, staged, package, inflate>>
  \/ part = "staged"   /\ Staged!Next /\ UNCHANGED <<part, vars, dos, package, inflate>>
  \/ part = "package"  /\ Pack!Next   /\ UNCHANGED <<part, vars, dos, staged, inflate>>
  \/ part = "inflate"  /\ Zlib!Next   /\ UNCHANGED <<part, vars, dos, staged, package>>

FilesSpec == FilesInit /\ [][FilesNext]_<<vars, dos, staged, package, inflate, part>>

-----------------------------------------------------------------------------
\* A part that does not run stays as it began, and is not looked at.

\* The types of all three.
TypesOK ==
  /\ part = "transfer" => TypeOK
  /\ part = "dos"      => Dos!TypeOK
  /\ part = "staged"   => Staged!TypeOK

\* What the end of a transfer leaves: the destination is the file that was put in
\* place last, and no temporary file outlives its transfer (files.c).
Tidy == Settled /\ NoStrayTemp

\* What the DOS agent answers is so: a file it calls complete holds what the
\* client sent, the output it sends is the command's own (files_dos.c, exec_dos.c).
AnswersAreTrue == part = "dos" => Dos!AnswersAreTrue

\* A destination of the DOS agent keeps the last good file, or its backup does, also
\* after a commit that was cut short, until another one in that directory meets an
\* existing file and removes the backup (files_dos.c).
LastGoodKept == part = "dos" => Dos!LastGoodKept

\* Nothing older than the agent is staged to replace it (selfupdate.c).
StagedIsNewer == part = "staged" => Staged!StagedIsNewer

\* Whenever the power goes, the Run entry finds whole files, but for a slip
\* (setup.c, update.c, UPDATE.BAT).
CanBoot == part = "staged" => Staged!CanBoot

\* The staged release is what runs after the next boot, but for a slip
\* (selfupdate.c, UPDATE.BAT).
PromiseKept == part = "staged" => Staged!PromiseKept

\* What is unpacked of a release is the release's, whatever is wrong with the
\* package, and a package in order is unpacked (zipread.c, selfupdate.c).
Unpacks == part = "package" => Pack!Unpacks

\* What was deflated comes out of the decoder, a cut stream is never taken for
\* a whole one, and its room is never exceeded (inflate.c, vncz.c).
Inflates == part = "inflate" => Zlib!Inflates
=============================================================================
