--------------------------- MODULE MCFiles_proofs ---------------------------
(***************************************************************************)
(* The parts of MCFiles, for constants of any size: what is proved of      *)
(* transfers (FileTransfer_proofs), and here of the DOS agent and of the   *)
(* staged update, holds of a behaviour of whichever part runs.             *)
(***************************************************************************)
EXTENDS MCFiles, FileTransfer_proofs

(***************************************************************************)
(* The DOS agent, for any destinations (other than the names of its own    *)
(* two files), blocks and sizes, and any number of uploads, executions and *)
(* mishaps.                                                                *)
(***************************************************************************)
Reserved == {"V9XUP.TMP", "V9XUP.BAK"}
Committing == {"unbackup", "backup", "promote", "rollback", "drop"}

\* The files are where they are looked for, and a commit has an upload.
Upload == [open : {TRUE}, path : Dos!Path, declared : Dos!Declared, received : Seq(Block),
           home : Dos!Dir, torn : BOOLEAN]
DosFiles ==
  /\ DOMAIN dos_disk = Dos!Dir /\ \A d \in Dos!Dir : DOMAIN dos_disk[d] = Dos!Names
  /\ DOMAIN good = Dos!Dir /\ \A d \in Dos!Dir : DOMAIN good[d] = Dest
  /\ cwd \in Dos!Dir /\ backed_up \in BOOLEAN
  /\ write \in {Dos!NoWrite} \cup Upload
  /\ dos_pc \in Committing => write \in Upload

\* The destination whose only copy is the backup.
OnlyBackup(d, n) ==
  dos_pc \in {"promote", "rollback"} /\ backed_up /\ d = Dos!Here /\ n = Dos!Name

\* A commit that has removed the backup of the one before, and may remove its own.
Replacing ==
  \/ dos_pc = "backup"
  \/ dos_pc \in {"promote", "rollback", "drop"} /\ backed_up

\* In a directory where none was cut short, it is known which copy is good; where
\* one was, either may be, and none removes the backup without its being told.
GoodInv ==
  /\ DosFiles
  /\ dos_pc \in {"unbackup", "backup"} => ~backed_up
  /\ Replacing => Dos!Here \notin cut \ unbacked
  /\ \A d \in Dos!Dir \ cut, n \in Dest :
       good[d][n] = IF OnlyBackup(d, n) THEN dos_disk[d]["V9XUP.BAK"] ELSE dos_disk[d][n]
  /\ \A d \in Dos!Dir \ unbacked, n \in Dest : d \in cut =>
       good[d][n] \in {dos_disk[d][n], dos_disk[d]["V9XUP.BAK"]}

LEMMA OwnNames ==
  /\ Dest \subseteq Dos!Names /\ Reserved \subseteq Dos!Names
  /\ \A n \in Dest : n # "V9XUP.TMP" /\ n # "V9XUP.BAK"
BY FilesAssumption DEF Dos!Names, Reserved

LEMMA GoodInit == ASSUME Dos!Init PROVE GoodInv
BY OwnNames DEF Dos!Init, GoodInv, DosFiles, Dos!Dir, Committing, OnlyBackup, Replacing

\* A step that moves no destination and no backup.
LEMMA FilesStay ==
  ASSUME GoodInv, DosFiles',
         \A d \in Dos!Dir, n \in Dos!Names \ {"V9XUP.TMP"} : dos_disk'[d][n] = dos_disk[d][n],
         UNCHANGED <<good, cut, unbacked>>,
         dos_pc \notin {"promote", "rollback"},
         dos_pc' \notin {"backup", "promote", "rollback", "drop"},
         dos_pc' = "unbackup" => ~backed_up'
  PROVE  GoodInv'
BY OwnNames DEF GoodInv, OnlyBackup, Replacing, Reserved

LEMMA PathLeads ==
  ASSUME DosFiles, NEW path \in Dos!Path
  PROVE  Dos!Resolve(path) \in Dos!Dir /\ path.name \in Dest
BY DEF DosFiles, Dos!Path, Dos!Resolve, Dos!Dir

LEMMA HereIs ==
  ASSUME DosFiles, write \in Upload
  PROVE  Dos!Here \in Dos!Dir /\ Dos!Name \in Dest
BY PathLeads DEF Dos!Here, Dos!Name, Upload

LEMMA GoodStep ==
  ASSUME GoodInv, [Dos!Next]_Dos!vars
  PROVE  GoodInv'
<1>0. DosFiles
  BY DEF GoodInv
<1>1. ASSUME Dos!Start \/ Dos!NetFails \/ Dos!Accept \/ Dos!Leaves \/ Dos!Hello
             \/ Dos!HelloRefused \/ Dos!Report \/ Dos!Look
             \/ Dos!Download \/ Dos!Execute \/ Dos!Run \/ Dos!NotRun \/ Dos!Stream
             \/ Dos!ExecuteComplete \/ Dos!Misplaced
      PROVE  GoodInv'
  <2>1. /\ UNCHANGED <<dos_disk, write, backed_up, good, cut, unbacked>> /\ cwd' \in Dos!Dir
        /\ dos_pc \notin Committing /\ dos_pc' \notin Committing
    BY <1>0, <1>1
       DEF Dos!Start, Dos!NetFails, Dos!Accept, Dos!Leaves, Dos!Hello, Dos!HelloRefused,
           Dos!Report, Dos!Look, Dos!Download, Dos!Execute, Dos!Run, Dos!NotRun, Dos!Stream,
           Dos!ExecuteComplete, Dos!Misplaced, Dos!history, Dos!Answer, Committing, DosFiles
  <2>2. DosFiles'
    BY <1>0, <2>1 DEF DosFiles
  <2> QED BY <2>1, <2>2, FilesStay DEF Committing
<1>2. ASSUME Dos!Hangup PROVE GoodInv'
  <2>1. DosFiles'
    <3>1. write.open => write \in Upload
      BY <1>0 DEF DosFiles, Dos!NoWrite
    <3>2. write.open => Dos!Resolve(write.path) \in Dos!Dir
      BY <1>0, <3>1, PathLeads DEF Upload
    <3> QED BY <1>0, <1>2, <3>2 DEF Dos!Hangup, DosFiles, Dos!Put, Committing, Dos!history
  <2>2. \A d \in Dos!Dir, n \in Dos!Names \ {"V9XUP.TMP"} : dos_disk'[d][n] = dos_disk[d][n]
    BY <1>0, <1>2 DEF Dos!Hangup, DosFiles, Dos!Put
  <2> QED BY <1>2, <2>1, <2>2, FilesStay DEF Dos!Hangup, Dos!history
<1>3. ASSUME Dos!OpenWrite PROVE GoodInv'
  <2>1. PICK path \in Dos!Path, declared \in Dos!Declared :
          /\ dos_pc = "serve" /\ dos_pc' \in {"serve", "hangup"}
          /\ \/ /\ write' = [open |-> TRUE, path |-> path, declared |-> declared,
                             received |-> <<>>, home |-> Dos!Resolve(path), torn |-> FALSE]
                /\ Dos!Put(Dos!Resolve(path), "V9XUP.TMP", <<>>)
             \/ UNCHANGED <<write, dos_disk>>
          /\ UNCHANGED <<cwd, backed_up, good, cut, unbacked>>
    BY <1>3 DEF Dos!OpenWrite, Dos!Answer
  <2>2. Dos!Resolve(path) \in Dos!Dir
    BY <1>0, PathLeads
  <2>3. DosFiles'
    <3>1. <<>> \in Seq(Block)
      OBVIOUS
    <3> DEFINE new == [open |-> TRUE, path |-> path, declared |-> declared, received |-> <<>>,
                       home |-> Dos!Resolve(path), torn |-> FALSE]
    <3>2. new \in Upload
      BY <2>2, <3>1, Zenon DEF Upload
    <3>. HIDE DEF new
    <3>4. write' = write \/ write' \in Upload
      BY <2>1, <3>2 DEF new
    <3>3. DOMAIN dos_disk' = Dos!Dir /\ \A d \in Dos!Dir : DOMAIN dos_disk'[d] = Dos!Names
      BY <1>0, <2>1 DEF DosFiles, Dos!Put
    <3> QED BY <1>0, <2>1, <3>3, <3>4 DEF DosFiles, Committing
  <2>4. \A d \in Dos!Dir, n \in Dos!Names \ {"V9XUP.TMP"} : dos_disk'[d][n] = dos_disk[d][n]
    BY <1>0, <2>1 DEF DosFiles, Dos!Put
  <2> QED BY <2>1, <2>3, <2>4, FilesStay
<1>4. ASSUME Dos!WriteChunk \/ Dos!WriteShort PROVE GoodInv'
  <2>1. write \in Upload
    BY <1>0, <1>4 DEF Dos!WriteChunk, Dos!WriteShort, DosFiles, Dos!NoWrite
  <2>2. write' \in Upload
    <3>1. CASE Dos!WriteChunk
      <4>1. PICK block \in Block : write' = [write EXCEPT !.received = Append(@, block)]
        BY <3>1 DEF Dos!WriteChunk
      <4>2. write.received \in Seq(Block) /\ Append(write.received, block) \in Seq(Block)
        BY <2>1, <4>1 DEF Upload
      <4> QED BY <2>1, <4>1, <4>2 DEF Upload
    <3>2. CASE Dos!WriteShort
      BY <2>1, <3>2 DEF Dos!WriteShort, Upload
    <3> QED BY <1>4, <3>1, <3>2
  <2>3. dos_pc = "serve" /\ dos_pc' \in {"serve", "hangup"}
       /\ UNCHANGED <<cwd, backed_up, good, cut, unbacked>>
    BY <1>4 DEF Dos!WriteChunk, Dos!WriteShort, Dos!Answer, Dos!history
  <2>4. \E block : Dos!Receive(block)
    BY <1>4 DEF Dos!WriteChunk, Dos!WriteShort
  <2>5. DosFiles'
    BY <1>0, <2>2, <2>3, <2>4 DEF DosFiles, Dos!Receive, Dos!Put, Committing
  <2>6. \A d \in Dos!Dir, n \in Dos!Names \ {"V9XUP.TMP"} : dos_disk'[d][n] = dos_disk[d][n]
    BY <1>0, <2>4 DEF DosFiles, Dos!Receive, Dos!Put
  <2> QED BY <2>3, <2>5, <2>6, FilesStay
<1>5. ASSUME Dos!Commit PROVE GoodInv'
  <2>1. write \in Upload
    BY <1>0, <1>5 DEF Dos!Commit, DosFiles, Dos!NoWrite
  <2>2. dos_pc = "serve" /\ dos_pc' \in {"unbackup", "serve", "hangup"} /\ backed_up' = FALSE
        /\ (dos_pc' = "unbackup" => UNCHANGED write) /\ UNCHANGED <<cwd, good, cut, unbacked>>
        /\ write' \in {write, Dos!NoWrite}
        /\ (UNCHANGED dos_disk \/ Dos!Put(Dos!Here, "V9XUP.TMP", Dos!Absent))
    BY <1>5 DEF Dos!Commit, Dos!Answer, Dos!history
  <2>3. DosFiles'
    BY <1>0, <2>1, <2>2 DEF DosFiles, Dos!Put, Committing
  <2>4. \A d \in Dos!Dir, n \in Dos!Names \ {"V9XUP.TMP"} : dos_disk'[d][n] = dos_disk[d][n]
    BY <1>0, <2>2 DEF DosFiles, Dos!Put
  <2> QED BY <2>2, <2>3, <2>4, FilesStay
<1>6. ASSUME dos_pc \in Committing, write \in Upload, Dos!Here \in Dos!Dir, Dos!Name \in Dest,
             Dos!UnBackup \/ Dos!Backup \/ Dos!BackupFails \/ Dos!Promote \/ Dos!PromoteFails
             \/ Dos!Rollback \/ Dos!Complete
      PROVE  GoodInv'
  <2>1. UNCHANGED cwd
    BY <1>6
       DEF Dos!UnBackup, Dos!Backup, Dos!BackupFails, Dos!Promote, Dos!PromoteFails,
           Dos!Rollback, Dos!Complete
  <2>2. DosFiles'
    BY <1>0, <1>6, <2>1, OwnNames
       DEF Dos!UnBackup, Dos!Backup, Dos!BackupFails, Dos!Promote, Dos!PromoteFails,
           Dos!Rollback, Dos!Complete, DosFiles, Dos!Put, Dos!Rename, Dos!CanRename,
           Committing, Dos!history, Dos!Answer, Reserved
  <2> USE <1>0, <2>1, <2>2, <1>6, OwnNames
          DEF GoodInv, DosFiles, OnlyBackup, Replacing, Dos!history
  <2>3. CASE Dos!UnBackup
    <3>1. UNCHANGED <<good, cut, write, backed_up>> /\ Dos!Here' = Dos!Here
         /\ Dos!Name' = Dos!Name /\ ~backed_up /\ dos_pc' \in {"backup", "promote"}
      BY <2>3 DEF Dos!UnBackup, Dos!Here, Dos!Name, Dos!Resolve
    <3>2. \A d \in Dos!Dir, n \in Dest : dos_disk'[d][n] = dos_disk[d][n]
      BY <2>3 DEF Dos!UnBackup, Dos!Put
    <3>3. /\ unbacked \subseteq unbacked'
          /\ dos_pc' = "backup" => Dos!Here \notin cut \ unbacked'
          /\ \A d \in Dos!Dir \ unbacked' : d \in cut =>
               dos_disk'[d]["V9XUP.BAK"] = dos_disk[d]["V9XUP.BAK"]
      BY <2>3 DEF Dos!UnBackup, Dos!Put
    <3> QED BY <3>1, <3>2, <3>3, <2>3 DEF Dos!UnBackup
  <2>4. CASE Dos!Backup
    <3>1. UNCHANGED <<good, cut, unbacked, write>> /\ Dos!Here' = Dos!Here
         /\ Dos!Name' = Dos!Name /\ dos_pc = "backup" /\ dos_pc' = "promote" /\ backed_up'
      BY <2>4 DEF Dos!Backup, Dos!Here, Dos!Name, Dos!Resolve
    <3>2. dos_disk'[Dos!Here]["V9XUP.BAK"] = dos_disk[Dos!Here][Dos!Name]
      BY <2>4 DEF Dos!Backup, Dos!Rename, Reserved
    <3>3. \A d \in Dos!Dir, n \in Dest : d # Dos!Here \/ n # Dos!Name =>
          dos_disk'[d][n] = dos_disk[d][n]
      BY <2>4 DEF Dos!Backup, Dos!Rename
    <3>4. \A d \in Dos!Dir : d # Dos!Here => dos_disk'[d] = dos_disk[d]
      BY <2>4 DEF Dos!Backup, Dos!Rename
    <3>5. \A d \in Dos!Dir \ cut', n \in Dest :
            good'[d][n] = IF OnlyBackup(d, n)' THEN dos_disk'[d]["V9XUP.BAK"]
                                               ELSE dos_disk'[d][n]
      BY <3>1, <3>2, <3>3
    <3>6. \A d \in Dos!Dir \ unbacked', n \in Dest : d \in cut' =>
            good'[d][n] \in {dos_disk'[d][n], dos_disk'[d]["V9XUP.BAK"]}
      <4>1. Dos!Here \notin cut \ unbacked
        BY <3>1
      <4>2. SUFFICES ASSUME NEW d \in Dos!Dir \ unbacked, NEW n \in Dest, d \in cut
                     PROVE  good[d][n] \in {dos_disk'[d][n], dos_disk'[d]["V9XUP.BAK"]}
        BY <3>1
      <4>3. dos_disk'[d] = dos_disk[d]
        BY <3>4, <4>1, <4>2
      <4> QED BY <4>2, <4>3
    <3>7. Replacing' => Dos!Here' \notin cut' \ unbacked'
      BY <3>1
    <3> QED BY <3>1, <3>5, <3>6, <3>7
  <2>5. CASE Dos!BackupFails \/ Dos!Complete
    <3>1. \A d \in Dos!Dir, n \in Dest : dos_disk'[d][n] = dos_disk[d][n]
      BY <2>5 DEF Dos!BackupFails, Dos!Complete, Dos!Put
    <3>2. UNCHANGED <<good, cut, unbacked>> /\ dos_pc \in {"backup", "drop"}
         /\ dos_pc' \in {"serve", "hangup"}
      BY <2>5 DEF Dos!BackupFails, Dos!Complete, Dos!Answer
    <3>3. \A d \in Dos!Dir \ unbacked : d \in cut =>
            dos_disk'[d]["V9XUP.BAK"] = dos_disk[d]["V9XUP.BAK"]
      <4>1. CASE Dos!BackupFails
        BY <4>1 DEF Dos!BackupFails, Dos!Put
      <4>2. CASE Dos!Complete
        <5>1. backed_up => Dos!Here \notin cut \ unbacked
          BY <4>2 DEF Dos!Complete
        <5> QED BY <4>2, <5>1 DEF Dos!Complete, Dos!Put
      <4> QED BY <2>5, <4>1, <4>2
    <3> QED BY <3>1, <3>2, <3>3
  <2>6. CASE Dos!Promote
    <3>1. \A d \in Dos!Dir, n \in Dest :
            IF d = Dos!Here /\ n = Dos!Name
            THEN /\ dos_disk'[d][n] = dos_disk[Dos!Here]["V9XUP.TMP"]
                 /\ good'[d][n] = dos_disk[Dos!Here]["V9XUP.TMP"]
            ELSE dos_disk'[d][n] = dos_disk[d][n] /\ good'[d][n] = good[d][n]
      BY <2>6 DEF Dos!Promote, Dos!Rename, Reserved
    <3>2. \A d \in Dos!Dir : dos_disk'[d]["V9XUP.BAK"] = dos_disk[d]["V9XUP.BAK"]
      BY <2>6 DEF Dos!Promote, Dos!Rename, Reserved
    <3>3. UNCHANGED <<cut, unbacked, backed_up, write>> /\ Dos!Here' = Dos!Here
         /\ dos_pc = "promote" /\ dos_pc' = "drop"
      BY <2>6 DEF Dos!Promote, Dos!Here, Dos!Resolve
    <3> QED BY <3>1, <3>2, <3>3
  <2>7. CASE Dos!PromoteFails
    <3>1. Dos!Here' = Dos!Here /\ Dos!Name' = Dos!Name
      BY <2>7 DEF Dos!PromoteFails, Dos!Here, Dos!Name, Dos!Resolve
    <3> QED BY <2>7, <3>1 DEF Dos!PromoteFails
  <2>8. CASE Dos!Rollback
    <3>1. \A d \in Dos!Dir, n \in Dest : d # Dos!Here \/ n # Dos!Name =>
          dos_disk'[d][n] = dos_disk[d][n]
      BY <2>8 DEF Dos!Rollback
    <3>2. ~backed_up => dos_disk'[Dos!Here][Dos!Name] = dos_disk[Dos!Here][Dos!Name]
      BY <2>8 DEF Dos!Rollback
    <3>3. backed_up => Dos!Here \notin cut \ unbacked /\
            \/ /\ cut' = cut
               /\ dos_disk'[Dos!Here][Dos!Name] = dos_disk[Dos!Here]["V9XUP.BAK"]
            \/ /\ cut' = cut \cup {Dos!Here}
               /\ \A n \in Dos!Names \ {"V9XUP.TMP"} :
                    dos_disk'[Dos!Here][n] = dos_disk[Dos!Here][n]
      BY <2>8 DEF Dos!Rollback, Reserved
    <3>4. /\ \A d \in Dos!Dir : d # Dos!Here => dos_disk'[d] = dos_disk[d]
          /\ ~backed_up => cut' = cut /\
               dos_disk'[Dos!Here]["V9XUP.BAK"] = dos_disk[Dos!Here]["V9XUP.BAK"]
      BY <2>8 DEF Dos!Rollback, Reserved
    <3>5. UNCHANGED <<good, unbacked>> /\ dos_pc = "rollback" /\ dos_pc' = "serve"
      BY <2>8 DEF Dos!Rollback
    <3>6. /\ ~Replacing' /\ \A d \in Dos!Dir, n \in Dest : ~OnlyBackup(d, n)'
          /\ dos_pc' \notin {"unbackup", "backup"}
      BY <3>5
    <3>7. \A d \in Dos!Dir \ cut', n \in Dest : good'[d][n] = dos_disk'[d][n]
      BY <3>1, <3>2, <3>3, <3>4, <3>5
    <3>8. \A d \in Dos!Dir \ unbacked', n \in Dest : d \in cut' =>
            good'[d][n] \in {dos_disk'[d][n], dos_disk'[d]["V9XUP.BAK"]}
      <4>1. SUFFICES ASSUME NEW d \in Dos!Dir \ unbacked, NEW n \in Dest, d \in cut'
                     PROVE  good[d][n] \in {dos_disk'[d][n], dos_disk'[d]["V9XUP.BAK"]}
        BY <3>5
      <4>2. CASE d # Dos!Here
        BY <3>3, <3>4, <4>1, <4>2, <3>5
      <4>3. CASE d = Dos!Here /\ ~backed_up
        BY <3>1, <3>2, <3>4, <3>5, <4>1, <4>3
      <4>4. CASE d = Dos!Here /\ backed_up
        <5>1. d \notin cut /\ \A m \in Dos!Names \ {"V9XUP.TMP"} :
                dos_disk'[d][m] = dos_disk[d][m]
          BY <3>3, <4>1, <4>4
        <5>2. good[d][n] = IF n = Dos!Name THEN dos_disk[d]["V9XUP.BAK"] ELSE dos_disk[d][n]
          BY <3>5, <4>4, <5>1
        <5> QED BY <4>1, <5>1, <5>2 DEF Reserved
      <4> QED BY <4>2, <4>3, <4>4
    <3> QED BY <3>6, <3>7, <3>8
  <2> QED BY <2>3, <2>4, <2>5, <2>6, <2>7, <2>8, <1>6
<1>7. ASSUME Dos!UnBackup \/ Dos!Backup \/ Dos!BackupFails \/ Dos!Promote \/ Dos!PromoteFails
             \/ Dos!Rollback \/ Dos!Complete
      PROVE  GoodInv'
  <2>1. dos_pc \in Committing /\ write \in Upload
    BY <1>0, <1>7
       DEF DosFiles, Committing, Dos!UnBackup, Dos!Backup, Dos!BackupFails, Dos!Promote,
           Dos!PromoteFails, Dos!Rollback, Dos!Complete
  <2> QED BY <1>0, <1>6, <1>7, <2>1, HereIs
<1>8. ASSUME Dos!Reset PROVE GoodInv'
  <2>1. DosFiles'
    BY <1>0, <1>8 DEF Dos!Reset, DosFiles, Dos!Dir, Committing
  <2>2. \A d \in Dos!Dir \ cut', n \in Dest : ~OnlyBackup(d, n)
    BY <1>8 DEF Dos!Reset, OnlyBackup
  <2> QED BY <1>8, <2>1, <2>2 DEF Dos!Reset, GoodInv, OnlyBackup, Replacing
<1>9. ASSUME UNCHANGED Dos!vars PROVE GoodInv'
  BY <1>9
     DEF Dos!vars, Dos!history, GoodInv, DosFiles, OnlyBackup, Replacing, Dos!Here, Dos!Name,
         Dos!Resolve
<1> QED BY <1>1, <1>2, <1>3, <1>4, <1>5, <1>7, <1>8, <1>9 DEF Dos!Next

-----------------------------------------------------------------------------
(***************************************************************************)
(* What is called complete is there.  Until it is promoted the temporary   *)
(* file holds what was received, unless a chunk was spoilt; and no answer  *)
(* stands while a later upload is open.                                    *)
(***************************************************************************)
Claims ==
  {Dos!NoClaim} \cup [sound : BOOLEAN, dir : Dos!Dir, name : Dest, content : Dos!Declared]

UploadTrue ==
  write \in Upload =>
    /\ ~claim.sound
    /\ ~write.torn /\ dos_pc # "drop" => dos_disk[write.home]["V9XUP.TMP"] = write.received
    /\ dos_pc \in Committing => write.received = write.declared
    /\ dos_pc = "drop" /\ ~write.torn /\ write.home = Dos!Here =>
        dos_disk[Dos!Here][Dos!Name] = write.declared

ClaimTrue == claim.sound => dos_disk[claim.dir][claim.name] = claim.content

TrueInv ==
  /\ DosFiles /\ claim \in Claims
  /\ UploadTrue /\ ClaimTrue
  /\ dos_pc \in {"run", "stream"} => out # "left"

LEMMA TrueInit == ASSUME Dos!Init PROVE TrueInv
<1>1. DosFiles
  BY GoodInit DEF GoodInv
<1> QED BY <1>1 DEF Dos!Init, TrueInv, Claims, UploadTrue, ClaimTrue, Dos!NoClaim, Upload,
    Dos!NoWrite

LEMMA Closed == Dos!NoWrite \notin Upload
<1>1. \A u \in Upload : u.open
  BY DEF Upload
<1>2. ~Dos!NoWrite.open
  BY DEF Dos!NoWrite
<1> QED BY <1>1, <1>2

\* The claim stands while only temporary files change.
LEMMA ClaimStands ==
  ASSUME TrueInv, UNCHANGED claim,
         \A d \in Dos!Dir, n \in Dest : dos_disk'[d][n] = dos_disk[d][n]
  PROVE  claim' \in Claims /\ ClaimTrue'
<1>1. claim.sound => claim.dir \in Dos!Dir /\ claim.name \in Dest
  BY DEF TrueInv, Claims, Dos!NoClaim
<1> QED BY <1>1 DEF TrueInv, ClaimTrue

LEMMA TrueStep ==
  ASSUME GoodInv, GoodInv', TrueInv, [Dos!Next]_Dos!vars
  PROVE  TrueInv'
<1>0. DosFiles /\ DosFiles'
  BY DEF GoodInv
<1> USE OwnNames
<1>1. ASSUME Dos!Start \/ Dos!NetFails \/ Dos!Accept \/ Dos!Leaves \/ Dos!Hello
             \/ Dos!HelloRefused \/ Dos!Report \/ Dos!Look
             \/ Dos!Download \/ Dos!Execute \/ Dos!Run \/ Dos!NotRun \/ Dos!Stream
             \/ Dos!ExecuteComplete \/ Dos!Misplaced
      PROVE  TrueInv'
  <2>1. /\ UNCHANGED <<dos_disk, write, claim>>
        /\ dos_pc \notin Committing /\ dos_pc' \notin Committing
        /\ dos_pc' \in {"run", "stream"} => out' # "left"
    BY <1>1
       DEF Dos!Start, Dos!NetFails, Dos!Accept, Dos!Leaves, Dos!Hello, Dos!HelloRefused,
           Dos!Report, Dos!Look, Dos!Download, Dos!Execute, Dos!Run, Dos!NotRun, Dos!Stream,
           Dos!ExecuteComplete, Dos!Misplaced, Dos!history, Dos!Answer, Committing, TrueInv
  <2>2. claim' \in Claims /\ ClaimTrue'
    BY <2>1, ClaimStands
  <2>3. UploadTrue'
    BY <2>1 DEF TrueInv, UploadTrue, Committing
  <2> QED BY <1>0, <2>1, <2>2, <2>3 DEF TrueInv
<1>2. ASSUME Dos!Hangup PROVE TrueInv'
  <2>1. \A d \in Dos!Dir, n \in Dest : dos_disk'[d][n] = dos_disk[d][n]
    BY <1>0, <1>2 DEF Dos!Hangup, DosFiles, Dos!Put
  <2>2. claim' \in Claims /\ ClaimTrue'
    BY <1>2, <2>1, ClaimStands DEF Dos!Hangup, Dos!history
  <2>3. write' \notin Upload /\ dos_pc' = "listen"
    BY <1>2, Closed DEF Dos!Hangup
  <2> QED BY <1>0, <2>2, <2>3 DEF TrueInv, UploadTrue
<1>3. ASSUME Dos!OpenWrite PROVE TrueInv'
  <2>1. claim' = Dos!NoClaim /\ dos_pc = "serve" /\ dos_pc' \in {"serve", "hangup"}
    BY <1>3 DEF Dos!OpenWrite, Dos!Answer
  <2>2. write' \in Upload /\ ~write'.torn =>
          dos_disk'[write'.home]["V9XUP.TMP"] = write'.received
    <3>1. PICK path \in Dos!Path :
            \/ /\ write'.home = Dos!Resolve(path) /\ write'.received = <<>>
               /\ Dos!Put(Dos!Resolve(path), "V9XUP.TMP", <<>>)
            \/ UNCHANGED <<write, dos_disk>>
      BY <1>3 DEF Dos!OpenWrite
    <3>2. Dos!Resolve(path) \in Dos!Dir
      BY <1>0, PathLeads
    <3> QED BY <1>0, <2>1, <3>1, <3>2 DEF Dos!Put, DosFiles, Dos!Names, TrueInv, UploadTrue
  <2>3. ~claim'.sound /\ claim' \in Claims
    BY <2>1 DEF Dos!NoClaim, Claims
  <2> QED BY <1>0, <2>1, <2>2, <2>3 DEF TrueInv, UploadTrue, ClaimTrue, Committing
<1>4. ASSUME Dos!WriteChunk \/ Dos!WriteShort PROVE TrueInv'
  <2>0. write.open /\ dos_pc = "serve"
    BY <1>4 DEF Dos!WriteChunk, Dos!WriteShort
  <2>1. write \in Upload /\ write.home \in Dos!Dir
    <3>1. write \in Upload
      BY <1>0, <2>0 DEF DosFiles, Dos!NoWrite
    <3> QED BY <3>1 DEF Upload
  <2>2. dos_pc = "serve" /\ dos_pc' \in {"serve", "hangup"} /\ UNCHANGED claim
    BY <1>4 DEF Dos!WriteChunk, Dos!WriteShort, Dos!Answer, Dos!history
  <2>3. \A d \in Dos!Dir, n \in Dest : dos_disk'[d][n] = dos_disk[d][n]
    <3>1. \E block : Dos!Receive(block)
      BY <1>4 DEF Dos!WriteChunk, Dos!WriteShort
    <3> QED BY <1>0, <3>1 DEF Dos!Receive, Dos!Put, DosFiles
  <2>4. claim' \in Claims /\ ClaimTrue' /\ ~claim'.sound
    BY <2>1, <2>2, <2>3, ClaimStands DEF TrueInv, UploadTrue
  <2>5. ~write'.torn => dos_disk'[write'.home]["V9XUP.TMP"] = write'.received
    <3>1. CASE Dos!WriteChunk
      <4>1. PICK block \in Block : /\ write' = [write EXCEPT !.received = Append(@, block)]
                                   /\ Dos!Receive(block)
        BY <3>1 DEF Dos!WriteChunk
      <4>2. /\ write'.torn = write.torn /\ write'.home = write.home
            /\ write'.received = Append(write.received, block)
        BY <2>1, <4>1 DEF Upload
      <4>3. dos_disk'[write.home]["V9XUP.TMP"] =
              Append(dos_disk[write.home]["V9XUP.TMP"], block)
        BY <1>0, <2>1, <4>1 DEF Dos!Receive, Dos!Put, DosFiles, Dos!Names
      <4> QED BY <2>1, <2>2, <4>2, <4>3 DEF TrueInv, UploadTrue
    <3>2. CASE Dos!WriteShort
      <4>1. write'.torn
        BY <2>1, <3>2 DEF Dos!WriteShort, Upload
      <4> QED BY <4>1
    <3> QED BY <1>4, <3>1, <3>2
  <2> QED BY <1>0, <2>2, <2>4, <2>5 DEF TrueInv, UploadTrue, Committing
<1>5. ASSUME Dos!Commit PROVE TrueInv'
  <2>1. \A d \in Dos!Dir, n \in Dest : dos_disk'[d][n] = dos_disk[d][n]
    BY <1>0, <1>5 DEF Dos!Commit, DosFiles, Dos!Put
  <2>2. claim' \in Claims /\ ClaimTrue'
    BY <1>5, <2>1, ClaimStands DEF Dos!Commit, Dos!history
  <2>3. UploadTrue'
    <3>1. CASE Dos!Matches
      BY <1>5, <3>1 DEF Dos!Commit, Dos!Matches, TrueInv, UploadTrue, Committing, Dos!history
    <3>2. CASE ~Dos!Matches
      <4>1. write' \notin Upload
        BY <1>5, <3>2, Closed DEF Dos!Commit
      <4> QED BY <4>1 DEF UploadTrue
    <3> QED BY <3>1, <3>2
  <2>4. dos_pc' \notin {"run", "stream"}
    BY <1>5 DEF Dos!Commit, Dos!Answer
  <2> QED BY <1>0, <2>2, <2>3, <2>4 DEF TrueInv
<1>6. ASSUME Dos!UnBackup \/ Dos!Backup \/ Dos!Promote \/ Dos!PromoteFails PROVE TrueInv'
  <2>1. dos_pc \in Committing \ {"drop"} /\ UNCHANGED <<write, claim, cwd>>
       /\ dos_pc' \in Committing
    BY <1>6 DEF Dos!UnBackup, Dos!Backup, Dos!Promote, Dos!PromoteFails, Committing, Dos!history
  <2>2. write \in Upload /\ write.home \in Dos!Dir
    BY <1>0, <2>1 DEF DosFiles, Upload
  <2>3. Dos!Here \in Dos!Dir /\ Dos!Name \in Dest /\ Dos!Here' = Dos!Here
       /\ Dos!Name' = Dos!Name
    BY <1>0, <2>1, <2>2, HereIs DEF Dos!Here, Dos!Name, Dos!Resolve
  <2>4. /\ ~claim.sound /\ write.received = write.declared
        /\ ~write.torn => dos_disk[write.home]["V9XUP.TMP"] = write.received
    BY <2>1, <2>2 DEF TrueInv, UploadTrue
  <2>5. CASE Dos!UnBackup \/ Dos!Backup \/ Dos!PromoteFails
    <3>1. dos_disk'[write.home]["V9XUP.TMP"] = dos_disk[write.home]["V9XUP.TMP"]
      BY <1>0, <2>2, <2>3, <2>5
         DEF Dos!UnBackup, Dos!Backup, Dos!PromoteFails, Dos!Put, Dos!Rename, DosFiles,
             Dos!Names
    <3>2. dos_pc' # "drop"
      BY <2>5 DEF Dos!UnBackup, Dos!Backup, Dos!PromoteFails
    <3> QED BY <1>0, <2>1, <2>4, <3>1, <3>2 DEF TrueInv, UploadTrue, ClaimTrue, Committing
  <2>6. CASE Dos!Promote
    <3>1. dos_pc' = "drop" /\ dos_disk'[Dos!Here][Dos!Name] = dos_disk[Dos!Here]["V9XUP.TMP"]
      BY <1>0, <2>3, <2>6 DEF Dos!Promote, Dos!Rename, DosFiles, Reserved
    <3> QED BY <1>0, <2>1, <2>3, <2>4, <3>1 DEF TrueInv, UploadTrue, ClaimTrue
  <2> QED BY <1>6, <2>5, <2>6
<1>7. ASSUME Dos!BackupFails \/ Dos!Rollback \/ Dos!Reset PROVE TrueInv'
  <2>1. write' \notin Upload /\ dos_pc' \in {"serve", "start"} /\ UNCHANGED claim
    BY <1>7, Closed DEF Dos!BackupFails, Dos!Rollback, Dos!Reset, Dos!history
  <2>2. CASE Dos!BackupFails \/ Dos!Rollback
    <3>1. write \in Upload
      BY <1>0, <2>2 DEF DosFiles, Dos!BackupFails, Dos!Rollback, Committing
    <3> QED BY <1>0, <2>1, <3>1 DEF TrueInv, UploadTrue, ClaimTrue
  <2>3. CASE Dos!Reset
    BY <1>0, <2>1, <2>3 DEF Dos!Reset, TrueInv, UploadTrue, ClaimTrue
  <2> QED BY <1>7, <2>2, <2>3
<1>8. ASSUME Dos!Complete PROVE TrueInv'
  <2>1. write \in Upload /\ dos_pc = "drop"
    BY <1>0, <1>8 DEF DosFiles, Dos!Complete, Committing
  <2>2. Dos!Here \in Dos!Dir /\ Dos!Name \in Dest /\ write.home \in Dos!Dir
       /\ write.declared \in Dos!Declared
    BY <1>0, <2>1, HereIs DEF Upload
  <2>3. dos_disk'[Dos!Here][Dos!Name] = dos_disk[Dos!Here][Dos!Name]
    BY <1>0, <1>8, <2>2 DEF Dos!Complete, Dos!Put, DosFiles
  <2>4. claim'.sound => dos_disk'[claim'.dir][claim'.name] = claim'.content
    BY <1>8, <2>1, <2>3 DEF Dos!Complete, TrueInv, UploadTrue
  <2>5. claim' \in Claims
    <3>1. (~write.torn /\ write.home = Dos!Here) \in BOOLEAN
      OBVIOUS
    <3> QED BY <1>8, <2>2, <3>1 DEF Dos!Complete, Claims
  <2>6. write' \notin Upload /\ dos_pc' \notin {"run", "stream"}
    BY <1>8, Closed DEF Dos!Complete, Dos!Answer
  <2> QED BY <1>0, <2>4, <2>5, <2>6 DEF TrueInv, UploadTrue, ClaimTrue
<1>9. ASSUME UNCHANGED Dos!vars PROVE TrueInv'
  <2>1. Dos!Here' = Dos!Here /\ Dos!Name' = Dos!Name
    BY <1>9 DEF Dos!vars, Dos!Here, Dos!Name, Dos!Resolve
  <2> QED BY <1>0, <1>9, <2>1 DEF Dos!vars, Dos!history, TrueInv, UploadTrue, ClaimTrue
<1> QED BY <1>1, <1>2, <1>3, <1>4, <1>5, <1>6, <1>7, <1>8, <1>9 DEF Dos!Next

-----------------------------------------------------------------------------
(***************************************************************************)
(* The types of the DOS agent.  A chunk is appended to a file, never to    *)
(* the lack of one: the temporary file is there while an upload is open.   *)
(***************************************************************************)
DosPC == {"start", "listen", "ended", "hello", "serve", "hangup", "download", "run", "stream",
          "complete", "unbackup", "backup", "promote", "rollback", "drop"}
Written == Seq(Block \cup {Dos!Spoilt})

DosTypes ==
  /\ dos_pc \in DosPC /\ out \in {"none", "left", "own"}
  /\ cut \subseteq Dos!Dir /\ unbacked \subseteq Dos!Dir
  /\ works \in 0 .. MaxWorks /\ dos_mishaps \in 0 .. MaxMishaps
  /\ \A d \in Dos!Dir, n \in Dos!Names : dos_disk[d][n] \in Written \cup {Dos!Absent}
  /\ write \in Upload =>
       /\ Len(write.received) <= Len(write.declared)
       /\ dos_pc # "drop" => dos_disk[write.home]["V9XUP.TMP"] \in Written

LEMMA DeclaredType == \A declared \in Dos!Declared : Len(declared) \in Nat
<1> SUFFICES ASSUME NEW declared \in Dos!Declared PROVE Len(declared) \in Nat
  OBVIOUS
<1>1. PICK n \in 0 .. MaxSize : declared \in [1 .. n -> Block]
  BY DEF Dos!Declared
<1>2. declared \in Seq(Block)
  BY <1>1, FilesAssumption
<1> QED BY <1>2

LEMMA TypesInit == ASSUME Dos!Init PROVE DosTypes
<1>1. <<>> \in Written
  BY DEF Written
<1> QED BY <1>1, FilesAssumption, Closed DEF Dos!Init, DosTypes, DosPC, Dos!Dir, Dos!Names

\* Bounds, which every step keeps.
LEMMA TypesCount ==
  ASSUME DosTypes,
         UNCHANGED works \/ Dos!Work, UNCHANGED dos_mishaps \/ Dos!Mishap
  PROVE  works' \in 0 .. MaxWorks /\ dos_mishaps' \in 0 .. MaxMishaps
BY FilesAssumption DEF DosTypes, Dos!Work, Dos!Mishap

LEMMA TypesStep ==
  ASSUME GoodInv, GoodInv', DosTypes, [Dos!Next]_Dos!vars
  PROVE  DosTypes'
<1>0. DosFiles /\ DosFiles'
  BY DEF GoodInv
<1> USE OwnNames DEF Reserved
<1>1. ASSUME Dos!Start \/ Dos!NetFails \/ Dos!Accept \/ Dos!Leaves \/ Dos!Hello
             \/ Dos!HelloRefused \/ Dos!Report \/ Dos!Look \/ Dos!Download \/ Dos!Execute
             \/ Dos!Run \/ Dos!NotRun \/ Dos!Stream \/ Dos!ExecuteComplete \/ Dos!Misplaced
      PROVE  DosTypes'
  <2> USE <1>1
          DEF Dos!Start, Dos!NetFails, Dos!Accept, Dos!Leaves, Dos!Hello, Dos!HelloRefused,
              Dos!Report, Dos!Look, Dos!Download, Dos!Execute, Dos!Run, Dos!NotRun,
              Dos!Stream, Dos!ExecuteComplete, Dos!Misplaced, Dos!history, Dos!Answer
  <2>1. UNCHANGED <<dos_disk, write, cut, unbacked>> /\ dos_pc # "drop"
    OBVIOUS
  <2>2. dos_pc' \in DosPC /\ out' \in {"none", "left", "own"}
    BY DEF DosTypes, DosPC
  <2>3. works' \in 0 .. MaxWorks /\ dos_mishaps' \in 0 .. MaxMishaps
    BY TypesCount
  <2> QED BY <2>1, <2>2, <2>3 DEF DosTypes
<1>2. ASSUME Dos!Hangup PROVE DosTypes'
  <2>1. /\ write' \notin Upload /\ dos_pc' \in DosPC
        /\ UNCHANGED <<out, cut, unbacked, works, dos_mishaps>>
    BY <1>2, Closed DEF Dos!Hangup, Dos!history, DosPC
  <2>2. \A d \in Dos!Dir, n \in Dos!Names : dos_disk'[d][n] \in Written \cup {Dos!Absent}
    BY <1>0, <1>2 DEF Dos!Hangup, Dos!Put, DosFiles, DosTypes
  <2> QED BY <2>1, <2>2 DEF DosTypes
<1>3. ASSUME Dos!OpenWrite PROVE DosTypes'
  <2>1. PICK path \in Dos!Path, declared \in Dos!Declared :
          /\ dos_pc = "serve" /\ dos_pc' \in {"serve", "hangup"}
          /\ \/ /\ write' = [open |-> TRUE, path |-> path, declared |-> declared,
                             received |-> <<>>, home |-> Dos!Resolve(path), torn |-> FALSE]
                /\ Dos!Put(Dos!Resolve(path), "V9XUP.TMP", <<>>)
             \/ UNCHANGED <<write, dos_disk>>
          /\ Dos!Work /\ (UNCHANGED dos_mishaps \/ Dos!Mishap)
          /\ UNCHANGED <<out, cut, unbacked>>
    BY <1>3 DEF Dos!OpenWrite, Dos!Answer
  <2>2. Dos!Resolve(path) \in Dos!Dir /\ Len(declared) \in Nat /\ <<>> \in Written
    BY <1>0, PathLeads, DeclaredType DEF Written
  <2>3. \A d \in Dos!Dir, n \in Dos!Names : dos_disk'[d][n] \in Written \cup {Dos!Absent}
    BY <1>0, <2>1, <2>2 DEF Dos!Put, DosFiles, DosTypes
  <2>4. write' \in Upload => /\ Len(write'.received) <= Len(write'.declared)
                             /\ dos_disk'[write'.home]["V9XUP.TMP"] \in Written
    BY <1>0, <2>1, <2>2 DEF Dos!Put, DosFiles, DosTypes
  <2>5. works' \in 0 .. MaxWorks /\ dos_mishaps' \in 0 .. MaxMishaps
    BY <2>1, TypesCount
  <2> QED BY <2>1, <2>3, <2>4, <2>5 DEF DosTypes, DosPC
<1>4. ASSUME Dos!WriteChunk \/ Dos!WriteShort PROVE DosTypes'
  <2>1. write \in Upload /\ write.home \in Dos!Dir /\ dos_pc = "serve"
    <3>1. write \in Upload /\ dos_pc = "serve"
      BY <1>0, <1>4 DEF Dos!WriteChunk, Dos!WriteShort, DosFiles, Dos!NoWrite
    <3> QED BY <3>1 DEF Upload
  <2>2. PICK block \in Block \cup {Dos!Spoilt} : Dos!Receive(block)
    BY <1>4 DEF Dos!WriteChunk, Dos!WriteShort
  <2>3. dos_disk[write.home]["V9XUP.TMP"] \in Written
    BY <2>1 DEF DosTypes
  <2>4. Append(dos_disk[write.home]["V9XUP.TMP"], block) \in Written
    BY <2>2, <2>3 DEF Written
  <2>5. /\ \A d \in Dos!Dir, n \in Dos!Names : dos_disk'[d][n] \in Written \cup {Dos!Absent}
        /\ dos_disk'[write.home]["V9XUP.TMP"] \in Written
    BY <1>0, <2>1, <2>2, <2>4 DEF Dos!Receive, Dos!Put, DosFiles, DosTypes
  <2>6. write'.home = write.home /\ Len(write'.received) <= Len(write'.declared)
    <3>1. Len(write.received) < Len(write.declared) /\ Len(write.declared) \in Nat
      BY <1>4, <2>1, DeclaredType DEF Dos!WriteChunk, Dos!WriteShort, Dos!Remaining, Upload
    <3>2. write.received \in Seq(Block)
      BY <2>1 DEF Upload
    <3>3. CASE Dos!WriteChunk
      <4>1. PICK b \in Block : write' = [write EXCEPT !.received = Append(@, b)]
        BY <3>3 DEF Dos!WriteChunk
      <4>2. /\ write'.home = write.home /\ write'.declared = write.declared
            /\ write'.received = Append(write.received, b)
        BY <2>1, <4>1 DEF Upload
      <4>3. Len(Append(write.received, b)) = Len(write.received) + 1
        BY <3>2, <4>1
      <4> QED BY <3>1, <3>2, <4>2, <4>3
    <3>4. CASE Dos!WriteShort
      BY <2>1, <3>1, <3>2, <3>4 DEF Dos!WriteShort, Upload
    <3> QED BY <1>4, <3>3, <3>4
  <2>7. works' \in 0 .. MaxWorks /\ dos_mishaps' \in 0 .. MaxMishaps
    BY <1>4, TypesCount DEF Dos!WriteChunk, Dos!WriteShort, Dos!Answer
  <2>8. dos_pc' \in {"serve", "hangup"} /\ UNCHANGED <<out, cut, unbacked>>
    BY <1>4 DEF Dos!WriteChunk, Dos!WriteShort, Dos!Answer, Dos!history
  <2> QED BY <2>5, <2>6, <2>7, <2>8 DEF DosTypes, DosPC
<1>5. ASSUME Dos!Commit PROVE DosTypes'
  <2>1. /\ dos_pc = "serve" /\ dos_pc' \in {"unbackup", "serve", "hangup"}
        /\ UNCHANGED <<out, cut, unbacked>>
        /\ \/ UNCHANGED <<dos_disk, write>>
           \/ write' \notin Upload /\ Dos!Put(Dos!Here, "V9XUP.TMP", Dos!Absent)
    BY <1>5, Closed DEF Dos!Commit, Dos!Answer, Dos!history
  <2>2. works' \in 0 .. MaxWorks /\ dos_mishaps' \in 0 .. MaxMishaps
    BY <1>5, TypesCount DEF Dos!Commit, Dos!Answer
  <2>3. \A d \in Dos!Dir, n \in Dos!Names : dos_disk'[d][n] \in Written \cup {Dos!Absent}
    BY <1>0, <2>1 DEF Dos!Put, DosFiles, DosTypes
  <2> QED BY <2>1, <2>2, <2>3 DEF DosTypes, DosPC
<1>6. ASSUME Dos!UnBackup \/ Dos!Backup \/ Dos!BackupFails \/ Dos!Promote \/ Dos!PromoteFails
             \/ Dos!Rollback \/ Dos!Complete
      PROVE  DosTypes'
  <2>1. write \in Upload /\ Dos!Here \in Dos!Dir /\ Dos!Name \in Dest /\ write.home \in Dos!Dir
    <3>1. write \in Upload
      BY <1>0, <1>6
         DEF DosFiles, Committing, Dos!UnBackup, Dos!Backup, Dos!BackupFails, Dos!Promote,
             Dos!PromoteFails, Dos!Rollback, Dos!Complete
    <3> QED BY <1>0, <3>1, HereIs DEF Upload
  <2>2. works' \in 0 .. MaxWorks /\ dos_mishaps' \in 0 .. MaxMishaps
    BY <1>6, TypesCount
       DEF Dos!UnBackup, Dos!Backup, Dos!BackupFails, Dos!Promote, Dos!PromoteFails,
           Dos!Rollback, Dos!Complete, Dos!Answer
  <2>3. /\ dos_pc' \in DosPC /\ out' = out
        /\ cut' \subseteq Dos!Dir /\ unbacked' \subseteq Dos!Dir
    BY <1>6, <2>1
       DEF Dos!UnBackup, Dos!Backup, Dos!BackupFails, Dos!Promote, Dos!PromoteFails,
           Dos!Rollback, Dos!Complete, Dos!Answer, Dos!history, DosTypes, DosPC
  <2>4. \A d \in Dos!Dir, n \in Dos!Names : dos_disk'[d][n] \in Written \cup {Dos!Absent}
    BY <1>0, <1>6, <2>1
       DEF Dos!UnBackup, Dos!Backup, Dos!BackupFails, Dos!Promote, Dos!PromoteFails,
           Dos!Rollback, Dos!Complete, Dos!Put, Dos!Rename, DosFiles, DosTypes
  <2>5. write' \in Upload =>
          write' = write /\ (dos_pc' # "drop" =>
            /\ dos_pc # "drop"
            /\ dos_disk'[write.home]["V9XUP.TMP"] = dos_disk[write.home]["V9XUP.TMP"])
    BY <1>0, <1>6, <2>1, Closed
       DEF Dos!UnBackup, Dos!Backup, Dos!BackupFails, Dos!Promote, Dos!PromoteFails,
           Dos!Rollback, Dos!Complete, Dos!Put, Dos!Rename, DosFiles
  <2> QED BY <2>1, <2>2, <2>3, <2>4, <2>5 DEF DosTypes
<1>7. ASSUME Dos!Reset PROVE DosTypes'
  <2>1. write' \notin Upload /\ dos_pc' \in DosPC /\ UNCHANGED <<dos_disk, works, unbacked>>
        /\ out' \in {"none", "left", "own"}
    BY <1>7, Closed DEF Dos!Reset, DosPC, DosTypes
  <2>2. dos_mishaps' \in 0 .. MaxMishaps
    BY <1>7, TypesCount DEF Dos!Reset
  <2>3. cut' \subseteq Dos!Dir
    <3>1. CASE dos_pc \in Committing
      BY <1>0, <1>7, <3>1, HereIs DEF Dos!Reset, DosFiles, DosTypes
    <3>2. CASE dos_pc \notin Committing
      BY <1>7, <3>2 DEF Dos!Reset, Committing, DosTypes
    <3> QED BY <3>1, <3>2
  <2> QED BY <2>1, <2>2, <2>3 DEF DosTypes
<1>8. ASSUME UNCHANGED Dos!vars PROVE DosTypes'
  BY <1>8 DEF Dos!vars, Dos!history, DosTypes
<1> QED BY <1>1, <1>2, <1>3, <1>4, <1>5, <1>6, <1>7, <1>8 DEF Dos!Next

LEMMA TypesHold == ASSUME GoodInv, DosTypes PROVE Dos!TypeOK
<1>1. \A d \in Dos!Dir, n \in Dos!Names :
        dos_disk[d][n] = Dos!Absent \/
          \A i \in DOMAIN dos_disk[d][n] : dos_disk[d][n][i] \in Block \cup {Dos!Spoilt}
  BY DEF DosTypes, Written
<1>2. write.open => /\ write.path \in Dos!Path /\ write.home \in Dos!Dir
                    /\ Len(write.received) <= Len(write.declared)
  <2>1. write = Dos!NoWrite \/ write \in Upload
    BY DEF GoodInv, DosFiles
  <2>2. ~Dos!NoWrite.open
    BY DEF Dos!NoWrite
  <2>3. write \in Upload => write.path \in Dos!Path /\ write.home \in Dos!Dir
    BY DEF Upload
  <2> QED BY <2>1, <2>2, <2>3 DEF DosTypes
<1> QED BY <1>1, <1>2 DEF GoodInv, DosFiles, DosTypes, DosPC, Dos!TypeOK

-----------------------------------------------------------------------------
(***************************************************************************)
(* The staged update, for any number of releases, runs and mishaps.        *)
(***************************************************************************)
LEMMA Releases ==
  /\ 1 \in Staged!Release
  /\ Staged!Missing \notin Staged!Release /\ Staged!Torn \notin Staged!Release
  /\ Staged!Content = Staged!Release \cup {Staged!Missing, Staged!Torn}
  /\ Staged!Missing # Staged!Torn
  BY FilesAssumption DEF Staged!Release, Staged!Content, Staged!Missing, Staged!Torn

-----------------------------------------------------------------------------
(***************************************************************************)
(* What makes CanBoot inductive: who can be at work at the same time, what *)
(* a setup has checked or staged so far, and what a swap has at hand.      *)
(***************************************************************************)
WhereInv ==
  /\ ~up => boot = "done" /\ step = "idle"
  /\ boot \in Staged!BatchPC => step = "idle" /\ ~nt
  /\ boot \in Staged!BatchPC \ {"b_launch"} => run = "update"
  /\ boot = "b_launch" => run = "agent"
  /\ step = "signed" => latest \in Staged!Release
  /\ step \in {"unstage_new", "unstage_snew"} => existing
  /\ step \in {"ask", "fetch", "unpack"} \cup Staged!SetupPC => pkg \in Staged!Release

\* The agent has been replaced, so that it can be started.
Replaced == {"b_delnew", "b_delsnew", "b_register", "b_launch",
             "s_drop", "s_helper", "s_delsnew", "s_register", "s_launch"}

SwapInv ==
  /\ boot \in Replaced => disk["agent"] \in Staged!Release
  /\ boot = "s_launch" => run # "update"

\* A setup that found no agent where the Run entry wants one met a swap, which will
\* start it: the program is locked by then.
SetupStagedInv ==
  /\ existing /\ step \in {"stage_agent", "register", "keep"} => disk["snew"] \in Staged!Release
  /\ existing /\ step \in {"register", "keep"} => disk["new"] \in Staged!Release
  /\ ~existing /\ step \in {"register", "keep"} => disk["agent"] \in Staged!Release
  /\ ~existing /\ step \in Staged!SetupPC \ {"keep"} /\ run = "agent" =>
       agent # Staged!Missing \/ boot \in Staged!SwapPC

BootInv ==
  /\ Staged!CanBoot
  /\ slips = {} => SwapInv /\ SetupStagedInv
-----------------------------------------------------------------------------
(***************************************************************************)
(* What makes StagedIsNewer inductive.  No file is of a later release than *)
(* the package that is being installed, for the server announces its       *)
(* latest; and where a setup finds no agent nothing older is left staged,  *)
(* unless a swap is under way, which will put an agent there.              *)
(***************************************************************************)
AtMost(release) == \A f \in Staged!File : disk[f] \in Staged!Release => disk[f] <= release

AgesInv ==
  /\ AtMost(published)
  /\ step = "signed" => AtMost(latest)
  /\ step \in {"ask", "fetch", "unpack"} \cup Staged!SetupPC => AtMost(pkg)

\* What a swap has at hand, and what it has done.
HandoverInv ==
  /\ step \in Staged!SetupPC \ {"support"} => boot = "done"
  /\ boot \in Staged!SwapPC => disk["new"] \in Staged!Release
  /\ boot \in Staged!SwapPC \ {"s_rename", "s_copy"} => disk["agent"] \in Staged!Release
  /\ boot \in {"b_shot", "b_agent"} => disk["new"] # Staged!Missing
  /\ boot \in Staged!BatchPC \ {"b_check", "b_shot", "b_agent"} =>
       disk["agent"] # Staged!Missing
  /\ boot \in {"s_rename", "s_copy"} /\ ~nt => disk["snew"] # Staged!Missing

\* The agent is missing from an installed machine only for as long as a swap takes.
MissingInv ==
  /\ disk["agent"] = Staged!Missing =>
       \/ disk["new"] \notin Staged!Release
       \/ boot = "s_copy"
       \/ run = "update" /\ (~up \/ boot # "done")
  /\ disk["agent"] = Staged!Missing /\ disk["new"] \in Staged!Release /\ ~nt =>
       disk["snew"] # Staged!Missing
  /\ existing /\ step \in Staged!SetupPC /\ boot = "done" => disk["agent"] # Staged!Missing
  /\ ~existing /\ step \in Staged!SetupPC =>
       \/ disk["new"] \notin Staged!Release
       \/ step \notin {"register", "keep"} /\ (agent # Staged!Missing \/ boot \in Staged!SwapPC)

\* These slips do no harm to either.
Harmless == slips \subseteq {"early", "restaged"}

StagedInv ==
  /\ Staged!TypeOK /\ WhereInv /\ AgesInv
  /\ Harmless => HandoverInv /\ MissingInv /\ Staged!StagedIsNewer

-----------------------------------------------------------------------------
(***************************************************************************)
(* What makes PromiseKept inductive: no release older than the promised    *)
(* one is where it could take over.                                        *)
(***************************************************************************)
\* Nothing that is asked for is older than what was promised before.
ServerInv ==
  /\ promise <= published
  /\ step = "signed" => promise <= latest
  /\ step \in {"ask", "fetch", "unpack"} \cup Staged!SetupPC =>
      promise <= pkg /\ pkg <= published

NotOlder(f) == disk[f] \in Staged!Release => promise <= disk[f]

AgeInv ==
  /\ promise # Staged!Missing => run # "none"
  /\ NotOlder("new")
  /\ run = "agent" \/ boot \in Replaced \/ (due /\ up /\ boot = "done") => NotOlder("agent")
  /\ existing /\ step \in {"register", "keep"} => disk["new"] = pkg
  /\ ~existing /\ step \in {"register", "keep"} => disk["agent"] = pkg
  /\ step = "keep" => run = IF existing THEN "update" ELSE "agent"

PromiseInv ==
  /\ ServerInv /\ Staged!PromiseKept
  /\ slips = {} => AgeInv

UpdateInv == StagedInv /\ BootInv /\ PromiseInv

-----------------------------------------------------------------------------
(***************************************************************************)
(* Every step, first of the setup and what it downloads, then of the       *)
(* agent, of UPDATE.BAT and the swapper, and of the machine.               *)
(***************************************************************************)

\* The types, and who can be at work at the same time, whatever slips.
LEMMA BaseStep ==
  ASSUME Staged!TypeOK, WhereInv, Staged!Next
  PROVE  Staged!TypeOK' /\ WhereInv'
<1> USE Releases, FilesAssumption
        DEF Staged!TypeOK, WhereInv, Staged!Release, Staged!Content, Staged!Missing,
            Staged!Torn, Staged!Slip, Staged!File, Staged!Goto, Staged!Mishap,
            Staged!Slipped, Staged!vars, Staged!disks, Staged!setup, Staged!server,
            Staged!told, Staged!BatchPC, Staged!SwapPC, Staged!CheckPC, Staged!SetupPC
<1>1. CASE Staged!StartUpdate
  BY <1>1 DEF Staged!StartUpdate
<1>2. CASE Staged!Check
  BY <1>2
     DEF Staged!Check, Staged!CheckReply, Staged!Value, Staged!Body, Staged!UpdateFails,
         Staged!Unchanged
<1>3. CASE Staged!Signed
  BY <1>3
     DEF Staged!Signed, Staged!Body, Staged!Verified, Staged!Accepts, Staged!Newer,
         Staged!Read, Staged!Value, Staged!UpdateFails, Staged!Unchanged
<1>4. CASE Staged!Ask
  BY <1>4 DEF Staged!Ask, Staged!Unchanged
<1>5. CASE Staged!Fetch
  BY <1>5 DEF Staged!Fetch, Staged!Body, Staged!Matches, Staged!UpdateFails, Staged!Unchanged
<1>6. CASE Staged!Unpack
  <2> USE DEF Staged!Unpack, Staged!UpdateFails, Staged!Unchanged
  <2>1. CASE Staged!UpdateFails
    BY <1>6, <2>1
  <2>2. CASE Staged!Goto("support")
    BY <1>6, <2>2
  <2> QED BY <1>6, <2>1, <2>2
<1>7. CASE Staged!RunSetup
  BY <1>7 DEF Staged!RunSetup
<1>8. CASE Staged!Support
  BY <1>8 DEF Staged!Support, Staged!Advance
<1>9. CASE Staged!Settings
  BY <1>9 DEF Staged!Settings, Staged!Advance
<1>10. CASE Staged!ApplyVnc
  BY <1>10 DEF Staged!ApplyVnc, Staged!Advance
<1>11. CASE Staged!Unstage
  BY <1>11 DEF Staged!Unstage, Staged!Remove, Staged!Target
<1>12. CASE \E f \in {"agent", "shot"} : Staged!Stage(f)
  BY <1>12 DEF Staged!Stage, Staged!Target
<1>13. CASE Staged!Register
  BY <1>13 DEF Staged!Register
<1>14. CASE Staged!Keep
  <2>3. disk' \in [Staged!File -> Staged!Content]
       /\ promise' \in {Staged!Missing} \cup Staged!Release
    BY <1>14 DEF Staged!Keep
  <2>4. mishaps' \in 0 .. MaxMishaps
    BY <1>14 DEF Staged!Keep
  <2>5. slips' \subseteq slips \cup Staged!Slip
    BY <1>14 DEF Staged!Keep
  <2>1. Staged!TypeOK'
    <3> HIDE Releases, FilesAssumption
        DEF Staged!Release, Staged!Content, Staged!Missing, Staged!Slip, Staged!File
    <3> QED BY <1>14, <2>3, <2>4, <2>5 DEF Staged!Keep
  <2>2. WhereInv'
    BY <1>14 DEF Staged!Keep
  <2> QED BY <2>1, <2>2
<1>15. CASE Staged!Uninstall
  <2>1. /\ disk' \in [Staged!File -> Staged!Content] /\ run' = "none"
        /\ promise' \in {Staged!Missing} \cup Staged!Release
    BY <1>15 DEF Staged!Uninstall
  <2>2. Staged!TypeOK'
    <3> HIDE Releases, FilesAssumption
        DEF Staged!Release, Staged!Content, Staged!Missing, Staged!Slip, Staged!File
    <3> QED BY <1>15, <2>1 DEF Staged!Uninstall
  <2>3. WhereInv'
    BY <1>15 DEF Staged!Uninstall
  <2> QED BY <2>2, <2>3
<1>16. CASE Staged!Cleanup
  BY <1>16 DEF Staged!Cleanup, Staged!Remove
<1>17. CASE Staged!Restart
  BY <1>17 DEF Staged!Restart, Staged!Starts
<1>18. CASE Staged!HotUpdate
  BY <1>18 DEF Staged!HotUpdate
<1>19. CASE Staged!BatchCheck
  BY <1>19 DEF Staged!BatchCheck
<1>20. CASE Staged!BatchCopies
  <2>3. disk' \in [Staged!File -> Staged!Content]
       /\ promise' \in {Staged!Missing} \cup Staged!Release
    BY <1>20 DEF Staged!BatchCopies, Staged!BatchCopy, Staged!Fails
  <2>4. mishaps' \in 0 .. MaxMishaps
    BY <1>20 DEF Staged!BatchCopies, Staged!BatchCopy, Staged!Fails
  <2>5. slips' \subseteq slips \cup Staged!Slip
    BY <1>20 DEF Staged!BatchCopies, Staged!BatchCopy, Staged!Fails
  <2>1. Staged!TypeOK'
    <3> HIDE Releases, FilesAssumption
        DEF Staged!Release, Staged!Content, Staged!Missing, Staged!Slip, Staged!File
    <3> QED BY <1>20, <2>3, <2>4, <2>5 DEF Staged!BatchCopies, Staged!BatchCopy, Staged!Fails
  <2>2. WhereInv'
    BY <1>20 DEF Staged!BatchCopies, Staged!BatchCopy, Staged!Fails
  <2> QED BY <2>1, <2>2
<1>21. CASE Staged!BatchTidy
  BY <1>21 DEF Staged!BatchTidy, Staged!Remove
<1>22. CASE Staged!SwapRename
  BY <1>22 DEF Staged!SwapRename
<1>23. CASE Staged!SwapCopy
  <2>3. disk' \in [Staged!File -> Staged!Content]
       /\ promise' \in {Staged!Missing} \cup Staged!Release
    BY <1>23 DEF Staged!SwapCopy, Staged!Fails
  <2>4. mishaps' \in 0 .. MaxMishaps
    BY <1>23 DEF Staged!SwapCopy, Staged!Fails
  <2>5. slips' \subseteq slips \cup Staged!Slip
    BY <1>23 DEF Staged!SwapCopy, Staged!Fails
  <2>1. Staged!TypeOK'
    <3> HIDE Releases, FilesAssumption
        DEF Staged!Release, Staged!Content, Staged!Missing, Staged!Slip, Staged!File
    <3> QED BY <1>23, <2>3, <2>4, <2>5 DEF Staged!SwapCopy, Staged!Fails
  <2>2. WhereInv'
    BY <1>23 DEF Staged!SwapCopy, Staged!Fails
  <2> QED BY <2>1, <2>2
<1>24. CASE Staged!SwapFiles
  BY <1>24 DEF Staged!SwapFiles, Staged!Remove
<1>25. CASE Staged!SwapRegister
  <2>3. disk' \in [Staged!File -> Staged!Content]
       /\ promise' \in {Staged!Missing} \cup Staged!Release
    BY <1>25 DEF Staged!SwapRegister
  <2>4. mishaps' \in 0 .. MaxMishaps
    BY <1>25 DEF Staged!SwapRegister
  <2>5. slips' \subseteq slips \cup Staged!Slip
    BY <1>25 DEF Staged!SwapRegister
  <2>1. Staged!TypeOK'
    <3> HIDE Releases, FilesAssumption
        DEF Staged!Release, Staged!Content, Staged!Missing, Staged!Slip, Staged!File
    <3> QED BY <1>25, <2>3, <2>4, <2>5 DEF Staged!SwapRegister
  <2>2. WhereInv'
    BY <1>25 DEF Staged!SwapRegister
  <2> QED BY <2>1, <2>2
<1>26. CASE Staged!Launch
  BY <1>26 DEF Staged!Launch, Staged!Starts, Staged!Stays
<1>27. CASE Staged!PowerCut
  <2>3. disk' \in [Staged!File -> Staged!Content]
       /\ promise' \in {Staged!Missing} \cup Staged!Release
    BY <1>27 DEF Staged!PowerCut, Staged!Down
  <2>4. mishaps' \in 0 .. MaxMishaps
    BY <1>27 DEF Staged!PowerCut, Staged!Down
  <2>5. slips' \subseteq slips \cup Staged!Slip
    BY <1>27 DEF Staged!PowerCut, Staged!Down
  <2>1. Staged!TypeOK'
    <3> HIDE Releases, FilesAssumption
        DEF Staged!Release, Staged!Content, Staged!Missing, Staged!Slip, Staged!File
    <3> QED BY <1>27, <2>3, <2>4, <2>5 DEF Staged!PowerCut, Staged!Down
  <2>2. WhereInv'
    BY <1>27 DEF Staged!PowerCut, Staged!Down
  <2> QED BY <2>1, <2>2
<1>28. CASE Staged!Shutdown
  <2>1. disk' \in [Staged!File -> Staged!Content]
    BY <1>28 DEF Staged!Shutdown, Staged!Down
  <2>2. Staged!TypeOK'
    <3> HIDE Releases, FilesAssumption
        DEF Staged!Release, Staged!Content, Staged!Missing, Staged!Slip, Staged!File
    <3> QED BY <1>28, <2>1 DEF Staged!Shutdown, Staged!Down
  <2>3. WhereInv'
    BY <1>28 DEF Staged!Shutdown, Staged!Down
  <2> QED BY <2>2, <2>3
<1>29. CASE Staged!Boot
  BY <1>29 DEF Staged!Boot, Staged!Starts, Staged!Stays
<1>30. CASE Staged!Publish
  BY <1>30 DEF Staged!Publish
<1> QED
  BY <1>1, <1>2, <1>3, <1>4, <1>5, <1>6, <1>7, <1>8, <1>9, <1>10, <1>11, <1>12,
     <1>13, <1>14, <1>15, <1>16, <1>17, <1>18, <1>19, <1>20, <1>21, <1>22, <1>23, <1>24,
     <1>25, <1>26, <1>27, <1>28, <1>29, <1>30 DEF Staged!Next

\* The server never goes back, so nothing that a setup asks for, after it has told the
\* owner of a release, is older than that release.
LEMMA ServerStep ==
  ASSUME Staged!TypeOK, WhereInv, ServerInv, Staged!Next
  PROVE  ServerInv'
<1> USE Releases, FilesAssumption
        DEF Staged!TypeOK, WhereInv, ServerInv, Staged!Release, Staged!Content,
            Staged!Missing, Staged!Torn, Staged!Goto, Staged!Mishap, Staged!Slipped,
            Staged!vars, Staged!disks, Staged!setup, Staged!server, Staged!told,
            Staged!BatchPC, Staged!SwapPC, Staged!CheckPC, Staged!SetupPC
<1>1. CASE Staged!StartUpdate \/ Staged!Check \/ Staged!Signed
  BY <1>1
     DEF Staged!StartUpdate, Staged!Check, Staged!CheckReply, Staged!Signed, Staged!Body,
         Staged!Verified, Staged!Accepts, Staged!Newer, Staged!Read, Staged!Value,
         Staged!UpdateFails, Staged!Unchanged
<1>2. CASE Staged!Ask \/ Staged!Fetch \/ Staged!Unpack
  BY <1>2
     DEF Staged!Ask, Staged!Fetch, Staged!Unpack, Staged!Body, Staged!Matches,
         Staged!UpdateFails, Staged!Unchanged
<1>3. CASE Staged!RunSetup \/ Staged!Support \/ Staged!Settings \/ Staged!ApplyVnc
  BY <1>3 DEF Staged!RunSetup, Staged!Support, Staged!Settings, Staged!ApplyVnc, Staged!Advance
<1>4. CASE Staged!Unstage
  BY <1>4 DEF Staged!Unstage, Staged!Remove, Staged!Target
<1>5. CASE \E f \in {"agent", "shot"} : Staged!Stage(f)
  BY <1>5 DEF Staged!Stage, Staged!Target
<1>6. CASE Staged!Register \/ Staged!Keep \/ Staged!Uninstall
  BY <1>6 DEF Staged!Register, Staged!Keep, Staged!Uninstall
<1>7. CASE Staged!Cleanup \/ Staged!Restart \/ Staged!HotUpdate
  BY <1>7 DEF Staged!Cleanup, Staged!Remove, Staged!Restart, Staged!Starts, Staged!HotUpdate
<1>8. CASE Staged!BatchCheck \/ Staged!BatchTidy
  BY <1>8 DEF Staged!BatchCheck, Staged!BatchTidy, Staged!Remove
<1>9. CASE Staged!BatchCopies
  BY <1>9 DEF Staged!BatchCopies, Staged!BatchCopy, Staged!Fails
<1>10. CASE Staged!SwapRename \/ Staged!SwapCopy
  BY <1>10 DEF Staged!SwapRename, Staged!SwapCopy, Staged!Fails
<1>11. CASE Staged!SwapFiles \/ Staged!SwapRegister \/ Staged!Launch
  BY <1>11
     DEF Staged!SwapFiles, Staged!Remove, Staged!SwapRegister, Staged!Launch, Staged!Starts,
         Staged!Stays
<1>12. CASE Staged!PowerCut \/ Staged!Shutdown
  BY <1>12 DEF Staged!PowerCut, Staged!Shutdown, Staged!Down
<1>13. CASE Staged!Boot \/ Staged!Publish
  BY <1>13 DEF Staged!Boot, Staged!Publish, Staged!Starts, Staged!Stays
<1> QED
  BY <1>1, <1>2, <1>3, <1>4, <1>5, <1>6, <1>7, <1>8, <1>9, <1>10, <1>11, <1>12, <1>13
     DEF Staged!Next

\* A slip is remembered.
LEMMA SlipsStay == Staged!Next => slips \subseteq slips'
<1> SUFFICES ASSUME Staged!Next PROVE slips \subseteq slips'
  OBVIOUS
<1> USE DEF Staged!vars, Staged!disks, Staged!setup, Staged!server, Staged!told, Staged!Slipped
<1>1. CASE Staged!StartUpdate \/ Staged!Check \/ Staged!Signed
  BY <1>1
     DEF Staged!StartUpdate, Staged!Check, Staged!CheckReply, Staged!Signed, Staged!Body,
         Staged!Verified, Staged!Accepts, Staged!Newer, Staged!Read, Staged!Value,
         Staged!UpdateFails, Staged!Unchanged
<1>2. CASE Staged!Ask \/ Staged!Fetch \/ Staged!Unpack
  BY <1>2
     DEF Staged!Ask, Staged!Fetch, Staged!Unpack, Staged!Body, Staged!Matches,
         Staged!UpdateFails, Staged!Unchanged
<1>3. CASE Staged!RunSetup \/ Staged!Support \/ Staged!Settings \/ Staged!ApplyVnc
  BY <1>3 DEF Staged!RunSetup, Staged!Support, Staged!Settings, Staged!ApplyVnc, Staged!Advance
<1>4. CASE Staged!Unstage
  BY <1>4 DEF Staged!Unstage, Staged!Remove, Staged!Target
<1>5. CASE \E f \in {"agent", "shot"} : Staged!Stage(f)
  BY <1>5 DEF Staged!Stage, Staged!Target
<1>6. CASE Staged!Register \/ Staged!Keep \/ Staged!Uninstall
  BY <1>6 DEF Staged!Register, Staged!Keep, Staged!Uninstall
<1>7. CASE Staged!Cleanup \/ Staged!Restart \/ Staged!HotUpdate
  BY <1>7 DEF Staged!Cleanup, Staged!Remove, Staged!Restart, Staged!Starts, Staged!HotUpdate
<1>8. CASE Staged!BatchCheck \/ Staged!BatchTidy
  BY <1>8 DEF Staged!BatchCheck, Staged!BatchTidy, Staged!Remove
<1>9. CASE Staged!BatchCopies
  BY <1>9 DEF Staged!BatchCopies, Staged!BatchCopy, Staged!Fails
<1>10. CASE Staged!SwapRename \/ Staged!SwapCopy
  BY <1>10 DEF Staged!SwapRename, Staged!SwapCopy, Staged!Fails
<1>11. CASE Staged!SwapFiles \/ Staged!SwapRegister \/ Staged!Launch
  BY <1>11
     DEF Staged!SwapFiles, Staged!Remove, Staged!SwapRegister, Staged!Launch, Staged!Starts,
         Staged!Stays
<1>12. CASE Staged!PowerCut \/ Staged!Shutdown
  BY <1>12 DEF Staged!PowerCut, Staged!Shutdown, Staged!Down
<1>13. CASE Staged!Boot \/ Staged!Publish
  BY <1>13 DEF Staged!Boot, Staged!Publish, Staged!Starts, Staged!Stays
<1> QED
  BY <1>1, <1>2, <1>3, <1>4, <1>5, <1>6, <1>7, <1>8, <1>9, <1>10, <1>11, <1>12, <1>13
     DEF Staged!Next

\* A package in installation is of the last release that was announced or published, and
\* everything that is written is a copy of it, or of a file that was there.
LEMMA AgesStep ==
  ASSUME Staged!TypeOK, WhereInv, AgesInv, ServerInv, Staged!Next
  PROVE  AgesInv'
<1> USE Releases, FilesAssumption
        DEF Staged!TypeOK, WhereInv, AgesInv, AtMost, Staged!Release, Staged!Content,
            Staged!Missing, Staged!Torn, Staged!File, Staged!Goto, Staged!Mishap,
            Staged!Slipped, Staged!vars, Staged!disks, Staged!setup, Staged!server,
            Staged!told, Staged!BatchPC, Staged!SwapPC, Staged!CheckPC, Staged!SetupPC
<1>1. CASE Staged!StartUpdate \/ Staged!Check \/ Staged!Signed
  BY <1>1
     DEF Staged!StartUpdate, Staged!Check, Staged!CheckReply, Staged!Signed, Staged!Body,
         Staged!Verified, Staged!Accepts, Staged!Newer, Staged!Read, Staged!Value,
         Staged!UpdateFails, Staged!Unchanged
<1>2. CASE Staged!Ask \/ Staged!Fetch \/ Staged!Unpack
  BY <1>2
     DEF Staged!Ask, Staged!Fetch, Staged!Unpack, Staged!Body, Staged!Matches,
         Staged!UpdateFails, Staged!Unchanged
<1>3. CASE Staged!RunSetup \/ Staged!Support \/ Staged!Settings \/ Staged!ApplyVnc
  BY <1>3 DEF Staged!RunSetup, Staged!Support, Staged!Settings, Staged!ApplyVnc, Staged!Advance
<1>4. CASE Staged!Unstage
  BY <1>4 DEF Staged!Unstage, Staged!Remove, Staged!Target
<1>5. CASE \E f \in {"agent", "shot"} : Staged!Stage(f)
  <2>1. PICK f \in {"agent", "shot"} : Staged!Stage(f)
    BY <1>5
  <2>2. Staged!Target(f) \in Staged!File
    BY <2>1 DEF Staged!Target
  <2>3. disk' = [disk EXCEPT ![Staged!Target(f)] = pkg] \/ disk' = disk
    BY <2>1 DEF Staged!Stage
  <2>4. step \in Staged!SetupPC /\ step' \in Staged!SetupPC
       /\ UNCHANGED <<latest, pkg, published>>
    BY <2>1 DEF Staged!Stage
  <2>5. pkg <= published
    BY <2>4 DEF ServerInv
  <2>6. AtMost(published)' /\ AtMost(pkg)'
    BY <2>2, <2>3, <2>4, <2>5
  <2> QED BY <2>4, <2>6
<1>6. CASE Staged!Register \/ Staged!Keep \/ Staged!Uninstall
  <2>1. CASE Staged!Register
    BY <2>1 DEF Staged!Register
  <2>2. CASE Staged!Keep
    BY <2>2 DEF Staged!Keep, ServerInv
  <2>3. CASE Staged!Uninstall
    BY <2>3 DEF Staged!Uninstall
  <2> QED BY <1>6, <2>1, <2>2, <2>3
<1>7. CASE Staged!Cleanup \/ Staged!Restart \/ Staged!HotUpdate
  BY <1>7 DEF Staged!Cleanup, Staged!Remove, Staged!Restart, Staged!Starts, Staged!HotUpdate
<1>8. CASE Staged!BatchCheck \/ Staged!BatchTidy
  BY <1>8 DEF Staged!BatchCheck, Staged!BatchTidy, Staged!Remove
<1>9. CASE Staged!BatchCopies
  BY <1>9 DEF Staged!BatchCopies, Staged!BatchCopy, Staged!Fails
<1>10. CASE Staged!SwapRename \/ Staged!SwapCopy
  BY <1>10 DEF Staged!SwapRename, Staged!SwapCopy, Staged!Fails
<1>11. CASE Staged!SwapFiles \/ Staged!SwapRegister \/ Staged!Launch
  BY <1>11
     DEF Staged!SwapFiles, Staged!Remove, Staged!SwapRegister, Staged!Launch, Staged!Starts,
         Staged!Stays
<1>12. CASE Staged!PowerCut \/ Staged!Shutdown
  BY <1>12 DEF Staged!PowerCut, Staged!Shutdown, Staged!Down
<1>13. CASE Staged!Boot \/ Staged!Publish
  BY <1>13 DEF Staged!Boot, Staged!Publish, Staged!Starts, Staged!Stays
<1> QED
  BY <1>1, <1>2, <1>3, <1>4, <1>5, <1>6, <1>7, <1>8, <1>9, <1>10, <1>11, <1>12, <1>13
     DEF Staged!Next

\* What is staged is at hand until it has taken over, and is not older than the agent.
LEMMA HandoverStep ==
  ASSUME StagedInv, Harmless, Harmless', Staged!Next
  PROVE  HandoverInv' /\ MissingInv' /\ Staged!StagedIsNewer'
<1> USE Releases, FilesAssumption
        DEF Staged!TypeOK, WhereInv, AgesInv, AtMost, StagedInv, Harmless, HandoverInv,
            MissingInv, Staged!StagedIsNewer, Staged!Locked, Staged!Pending,
            Staged!Restaging, Staged!NoWayBack, Staged!Release, Staged!Content,
            Staged!Missing, Staged!Torn, Staged!File, Staged!Goto, Staged!Mishap,
            Staged!Slipped, Staged!vars, Staged!disks, Staged!setup, Staged!server,
            Staged!told, Staged!BatchPC, Staged!SwapPC, Staged!CheckPC, Staged!SetupPC
<1>1. CASE Staged!StartUpdate \/ Staged!Check \/ Staged!Signed
  BY <1>1
     DEF Staged!StartUpdate, Staged!Check, Staged!CheckReply, Staged!Signed, Staged!Body,
         Staged!Verified, Staged!Accepts, Staged!Newer, Staged!Read, Staged!Value,
         Staged!UpdateFails, Staged!Unchanged
<1>2. CASE Staged!Ask \/ Staged!Fetch \/ Staged!Unpack
  <2>1. CASE Staged!Ask
    BY <2>1 DEF Staged!Ask, Staged!Unchanged
  <2>2. CASE Staged!Fetch
    BY <2>2 DEF Staged!Fetch, Staged!Body, Staged!Matches, Staged!UpdateFails, Staged!Unchanged
  <2>3. CASE Staged!Unpack
    BY <2>3 DEF Staged!Unpack, Staged!UpdateFails, Staged!Unchanged
  <2> QED BY <1>2, <2>1, <2>2, <2>3
<1>3. CASE Staged!RunSetup \/ Staged!Support \/ Staged!Settings \/ Staged!ApplyVnc
  <2>1. CASE Staged!RunSetup
    BY <2>1 DEF Staged!RunSetup
  <2>2. CASE Staged!Support
    BY <2>2 DEF Staged!Support, Staged!Advance
  <2>3. CASE Staged!Settings
    BY <2>3 DEF Staged!Settings, Staged!Advance
  <2>4. CASE Staged!ApplyVnc
    BY <2>4 DEF Staged!ApplyVnc, Staged!Advance
  <2> QED BY <1>3, <2>1, <2>2, <2>3, <2>4
<1>4. CASE Staged!Unstage
  BY <1>4 DEF Staged!Unstage, Staged!Remove, Staged!Target
<1>5. CASE \E f \in {"agent", "shot"} : Staged!Stage(f)
  BY <1>5 DEF Staged!Stage, Staged!Target
<1>6. CASE Staged!Register \/ Staged!Keep \/ Staged!Uninstall
  BY <1>6 DEF Staged!Register, Staged!Keep, Staged!Uninstall
<1>7. CASE Staged!Cleanup \/ Staged!Restart \/ Staged!HotUpdate
  BY <1>7 DEF Staged!Cleanup, Staged!Remove, Staged!Restart, Staged!Starts, Staged!HotUpdate
<1>8. CASE Staged!BatchCheck \/ Staged!BatchTidy
  BY <1>8 DEF Staged!BatchCheck, Staged!BatchTidy, Staged!Remove
<1>9. CASE Staged!BatchCopies
  BY <1>9 DEF Staged!BatchCopies, Staged!BatchCopy, Staged!Fails
<1>10. CASE Staged!SwapRename \/ Staged!SwapCopy
  BY <1>10 DEF Staged!SwapRename, Staged!SwapCopy, Staged!Fails
<1>11. CASE Staged!SwapFiles \/ Staged!SwapRegister \/ Staged!Launch
  BY <1>11
     DEF Staged!SwapFiles, Staged!Remove, Staged!SwapRegister, Staged!Launch, Staged!Starts,
         Staged!Stays
<1>12. CASE Staged!PowerCut \/ Staged!Shutdown
  BY <1>12 DEF Staged!PowerCut, Staged!Shutdown, Staged!Down
<1>13. CASE Staged!Boot \/ Staged!Publish
  BY <1>13 DEF Staged!Boot, Staged!Publish, Staged!Starts, Staged!Stays
<1> QED
  BY <1>1, <1>2, <1>3, <1>4, <1>5, <1>6, <1>7, <1>8, <1>9, <1>10, <1>11, <1>12, <1>13
     DEF Staged!Next

\* A setup, UPDATE.BAT and the swapper each leave the Run entry something whole to start.
LEMMA BootStep ==
  ASSUME StagedInv, StagedInv', BootInv, slips = {}, slips' = {}, Staged!Next
  PROVE  Staged!CanBoot' /\ SwapInv' /\ SetupStagedInv'
<1>a. HandoverInv /\ HandoverInv'
  BY DEF StagedInv, Harmless
<1>b. Staged!TypeOK /\ WhereInv /\ WhereInv'
  BY DEF StagedInv
<1> USE Releases, FilesAssumption, <1>a, <1>b
        DEF BootInv, Staged!TypeOK, WhereInv, HandoverInv, Staged!CanBoot, SwapInv,
            SetupStagedInv, Staged!Restaging, Staged!NoWayBack, Staged!Locked,
            Staged!Pending, Replaced, Staged!Release, Staged!Content, Staged!Missing,
            Staged!Torn, Staged!File, Staged!Goto, Staged!Mishap, Staged!Slipped,
            Staged!vars, Staged!disks, Staged!setup, Staged!server, Staged!told,
            Staged!BatchPC, Staged!SwapPC, Staged!CheckPC, Staged!SetupPC
<1>1. CASE Staged!StartUpdate \/ Staged!Check \/ Staged!Signed
  BY <1>1
     DEF Staged!StartUpdate, Staged!Check, Staged!CheckReply, Staged!Signed, Staged!Body,
         Staged!Verified, Staged!Accepts, Staged!Newer, Staged!Read, Staged!Value,
         Staged!UpdateFails, Staged!Unchanged
<1>2. CASE Staged!Ask \/ Staged!Fetch \/ Staged!Unpack
  BY <1>2
     DEF Staged!Ask, Staged!Fetch, Staged!Unpack, Staged!Body, Staged!Matches,
         Staged!UpdateFails, Staged!Unchanged
<1>3. CASE Staged!RunSetup \/ Staged!Support \/ Staged!Settings \/ Staged!ApplyVnc
  BY <1>3 DEF Staged!RunSetup, Staged!Support, Staged!Settings, Staged!ApplyVnc, Staged!Advance
<1>4. CASE Staged!Unstage
  <2> USE <1>4 DEF Staged!Unstage, Staged!Remove, Staged!Target
  <2>1. CASE step = "unstage_new"
    BY <2>1
  <2>2. CASE step = "unstage_snew"
    BY <2>2
  <2>3. CASE step = "abandon_agent"
    BY <2>3
  <2>4. CASE step = "abandon_shot"
    BY <2>4
  <2> QED BY <2>1, <2>2, <2>3, <2>4
<1>5. CASE \E f \in {"agent", "shot"} : Staged!Stage(f)
  BY <1>5 DEF Staged!Stage, Staged!Target
<1>6. CASE Staged!Register \/ Staged!Keep \/ Staged!Uninstall
  BY <1>6 DEF Staged!Register, Staged!Keep, Staged!Uninstall
<1>7. CASE Staged!Cleanup \/ Staged!Restart \/ Staged!HotUpdate
  BY <1>7 DEF Staged!Cleanup, Staged!Remove, Staged!Restart, Staged!Starts, Staged!HotUpdate
<1>8. CASE Staged!BatchCheck \/ Staged!BatchTidy
  BY <1>8 DEF Staged!BatchCheck, Staged!BatchTidy, Staged!Remove
<1>9. CASE Staged!BatchCopies
  BY <1>9 DEF Staged!BatchCopies, Staged!BatchCopy, Staged!Fails
<1>10. CASE Staged!SwapRename \/ Staged!SwapCopy
  BY <1>10 DEF Staged!SwapRename, Staged!SwapCopy, Staged!Fails
<1>11. CASE Staged!SwapFiles \/ Staged!SwapRegister \/ Staged!Launch
  BY <1>11
     DEF Staged!SwapFiles, Staged!Remove, Staged!SwapRegister, Staged!Launch, Staged!Starts,
         Staged!Stays
<1>12. CASE Staged!PowerCut \/ Staged!Shutdown
  <2>1. CASE Staged!PowerCut
    <3>1. PICK fs \in SUBSET (Staged!Written \cup Staged!BootWrites) : Staged!Down(fs)
      BY <2>1 DEF Staged!PowerCut
    <3>2. ~Staged!Restaging /\ ~Staged!NoWayBack
      BY <2>1 DEF Staged!PowerCut
    <3>3. run = "agent" /\ ~Staged!Locked("agent") => "agent" \notin fs
      BY <3>1, <3>2 DEF Staged!Written, Staged!BootWrites, Staged!Target
    <3>4. run = "update" => "new" \notin fs /\ "snew" \notin fs
      BY <3>1, <3>2 DEF Staged!Written, Staged!BootWrites, Staged!Target
    <3>5. Staged!CanBoot'
      BY <3>1, <3>2, <3>3, <3>4 DEF Staged!Down
    <3> QED BY <3>1, <3>5 DEF Staged!Down
  <2>2. CASE Staged!Shutdown
    BY <2>2 DEF Staged!Shutdown, Staged!Down
  <2> QED BY <1>12, <2>1, <2>2
<1>13. CASE Staged!Boot \/ Staged!Publish
  BY <1>13 DEF Staged!Boot, Staged!Publish, Staged!Starts, Staged!Stays
<1> QED
  BY <1>1, <1>2, <1>3, <1>4, <1>5, <1>6, <1>7, <1>8, <1>9, <1>10, <1>11, <1>12, <1>13
     DEF Staged!Next

\* Nothing older than what was promised takes its place.
LEMMA AgeStep ==
  ASSUME StagedInv, StagedInv', BootInv, BootInv', PromiseInv, ServerInv',
         slips = {}, slips' = {}, Staged!Next
  PROVE  Staged!PromiseKept' /\ AgeInv'
<1>a. HandoverInv /\ MissingInv /\ HandoverInv' /\ MissingInv'
  BY DEF StagedInv, Harmless
<1>b. Staged!TypeOK /\ Staged!TypeOK' /\ WhereInv /\ WhereInv'
  BY DEF StagedInv
<1>c. Staged!CanBoot /\ SwapInv /\ SwapInv' /\ SetupStagedInv
  BY DEF BootInv
<1>d. ServerInv /\ AgeInv /\ Staged!PromiseKept
  BY DEF PromiseInv
<1> USE Releases, FilesAssumption, <1>a, <1>b, <1>c, <1>d
        DEF Staged!PromiseKept, Staged!Promised, ServerInv, MissingInv, AgeInv, NotOlder,
            Staged!TypeOK, WhereInv, Staged!CanBoot, HandoverInv, SwapInv, SetupStagedInv,
            Staged!Restaging, Staged!NoWayBack, Staged!Locked, Staged!Pending, Replaced,
            Staged!Release, Staged!Content, Staged!Missing, Staged!Torn, Staged!File,
            Staged!Goto, Staged!Mishap, Staged!Slipped, Staged!vars, Staged!disks,
            Staged!setup, Staged!server, Staged!told, Staged!BatchPC, Staged!SwapPC,
            Staged!CheckPC, Staged!SetupPC
<1>1. CASE Staged!StartUpdate \/ Staged!Check \/ Staged!Signed
  BY <1>1
     DEF Staged!StartUpdate, Staged!Check, Staged!CheckReply, Staged!Signed, Staged!Body,
         Staged!Verified, Staged!Accepts, Staged!Newer, Staged!Read, Staged!Value,
         Staged!UpdateFails, Staged!Unchanged
<1>2. CASE Staged!Ask \/ Staged!Fetch \/ Staged!Unpack
  BY <1>2
     DEF Staged!Ask, Staged!Fetch, Staged!Unpack, Staged!Body, Staged!Matches,
         Staged!UpdateFails, Staged!Unchanged
<1>3. CASE Staged!RunSetup \/ Staged!Support \/ Staged!Settings \/ Staged!ApplyVnc
  BY <1>3 DEF Staged!RunSetup, Staged!Support, Staged!Settings, Staged!ApplyVnc, Staged!Advance
<1>4. CASE Staged!Unstage
  BY <1>4 DEF Staged!Unstage, Staged!Remove, Staged!Target
<1>5. CASE \E f \in {"agent", "shot"} : Staged!Stage(f)
  BY <1>5 DEF Staged!Stage, Staged!Target
<1>6. CASE Staged!Register \/ Staged!Keep \/ Staged!Uninstall
  BY <1>6 DEF Staged!Register, Staged!Keep, Staged!Uninstall
<1>7. CASE Staged!Cleanup \/ Staged!Restart \/ Staged!HotUpdate
  BY <1>7 DEF Staged!Cleanup, Staged!Remove, Staged!Restart, Staged!Starts, Staged!HotUpdate
<1>8. CASE Staged!BatchCheck \/ Staged!BatchTidy
  BY <1>8 DEF Staged!BatchCheck, Staged!BatchTidy, Staged!Remove
<1>9. CASE Staged!BatchCopies
  BY <1>9 DEF Staged!BatchCopies, Staged!BatchCopy, Staged!Fails
<1>10. CASE Staged!SwapRename \/ Staged!SwapCopy
  BY <1>10 DEF Staged!SwapRename, Staged!SwapCopy, Staged!Fails
<1>11. CASE Staged!SwapFiles \/ Staged!SwapRegister \/ Staged!Launch
  BY <1>11
     DEF Staged!SwapFiles, Staged!Remove, Staged!SwapRegister, Staged!Launch, Staged!Starts,
         Staged!Stays
<1>12. CASE Staged!PowerCut \/ Staged!Shutdown
  BY <1>12 DEF Staged!PowerCut, Staged!Shutdown, Staged!Down
<1>13. CASE Staged!Boot \/ Staged!Publish
  BY <1>13 DEF Staged!Boot, Staged!Publish, Staged!Starts, Staged!Stays
<1> QED
  BY <1>1, <1>2, <1>3, <1>4, <1>5, <1>6, <1>7, <1>8, <1>9, <1>10, <1>11, <1>12, <1>13
     DEF Staged!Next

LEMMA UpdateInit == Staged!Init => UpdateInv
<1> SUFFICES ASSUME Staged!Init PROVE UpdateInv
  OBVIOUS
<1> USE Releases, FilesAssumption
        DEF Staged!Init, Staged!BatchPC, Staged!SwapPC, Staged!CheckPC, Staged!SetupPC
<1>1. Staged!TypeOK
  <2>1. disk \in [Staged!File -> Staged!Content]
       /\ agent \in {Staged!Missing} \cup Staged!Release
    OBVIOUS
  <2>2. runs \in 0 .. MaxRuns /\ mishaps \in 0 .. MaxMishaps
    OBVIOUS
  <2> QED BY <2>1, <2>2 DEF Staged!TypeOK
<1>2. WhereInv /\ ServerInv /\ AgesInv
  BY DEF WhereInv, ServerInv, AgesInv, AtMost, Staged!Release, Staged!Missing
<1>3. HandoverInv /\ MissingInv /\ Staged!StagedIsNewer
  BY DEF HandoverInv, MissingInv, Staged!StagedIsNewer, Staged!File
<1>4. Staged!CanBoot /\ SwapInv /\ SetupStagedInv
  BY DEF Staged!CanBoot, SwapInv, SetupStagedInv, Replaced, Staged!File
<1>5. Staged!PromiseKept /\ AgeInv
  BY DEF Staged!PromiseKept, Staged!Promised, AgeInv, NotOlder, Replaced, Staged!File,
         Staged!Release, Staged!Missing
<1> QED BY <1>1, <1>2, <1>3, <1>4, <1>5 DEF UpdateInv, StagedInv, BootInv, PromiseInv

LEMMA UpdateStep == UpdateInv /\ [Staged!Next]_Staged!vars => UpdateInv'
<1> SUFFICES ASSUME UpdateInv, [Staged!Next]_Staged!vars PROVE UpdateInv'
  OBVIOUS
<1> USE DEF UpdateInv
<1>1. CASE UNCHANGED Staged!vars
  <2> USE <1>1 DEF Staged!vars
  <2>1. Staged!TypeOK' /\ WhereInv' /\ AgesInv' /\ ServerInv'
    BY DEF StagedInv, PromiseInv, Staged!TypeOK, WhereInv, AgesInv, AtMost, ServerInv
  <2>2. Harmless' => HandoverInv' /\ MissingInv' /\ Staged!StagedIsNewer'
    BY DEF StagedInv, Harmless, HandoverInv, MissingInv, Staged!StagedIsNewer
  <2>3. BootInv'
    BY DEF BootInv, Staged!CanBoot, Staged!Restaging, Staged!NoWayBack, SwapInv, SetupStagedInv
  <2>4. Staged!PromiseKept' /\ (slips' = {} => AgeInv')
    BY DEF PromiseInv, Staged!PromiseKept, Staged!Promised, AgeInv, NotOlder
  <2> QED BY <2>1, <2>2, <2>3, <2>4 DEF StagedInv, PromiseInv
<1>2. CASE Staged!Next
  <2>1. slips \subseteq slips'
    BY <1>2, SlipsStay
  <2>2. Staged!TypeOK' /\ WhereInv' /\ AgesInv' /\ ServerInv'
    BY <1>2, BaseStep, AgesStep, ServerStep DEF StagedInv, PromiseInv
  <2>3. StagedInv'
    <3>1. CASE Harmless'
      BY <1>2, <2>1, <2>2, <3>1, HandoverStep DEF StagedInv, Harmless
    <3>2. CASE ~Harmless'
      BY <2>2, <3>2 DEF StagedInv
    <3> QED BY <3>1, <3>2
  <2>4. CASE slips' # {}
    BY <2>2, <2>3, <2>4 DEF BootInv, PromiseInv, Staged!CanBoot, Staged!PromiseKept
  <2>5. CASE slips' = {}
    <3>1. slips = {}
      BY <2>1, <2>5
    <3>2. BootInv'
      BY <1>2, <2>3, <2>5, <3>1, BootStep DEF BootInv
    <3>3. PromiseInv'
      BY <1>2, <2>2, <2>3, <2>5, <3>1, <3>2, AgeStep DEF PromiseInv
    <3> QED BY <2>3, <3>2, <3>3
  <2> QED BY <2>4, <2>5
<1> QED BY <1>1, <1>2 DEF Staged!vars

-----------------------------------------------------------------------------
(***************************************************************************)
(* The parts together.                                                     *)
(***************************************************************************)
\* Each part takes its own steps, and stands still in those of the others.
LEMMA PartSteps ==
  [FilesNext]_<<vars, dos, staged, package, inflate, part>> =>
    [Next]_vars /\ [Dos!Next]_Dos!vars /\ [Staged!Next]_Staged!vars
BY DEF FilesNext, dos, staged, Dos!vars, Dos!history, Staged!vars

TransferInv == FileInv /\ KeptInv /\ LatestInv
DosInv == GoodInv /\ TrueInv /\ DosTypes

LEMMA TransferStart == Init => TransferInv
<1>1. Init => KeptInv /\ LatestInv
  BY DEF Init, KeptInv, Kept, IsWhole, Alone, HasFinal, Promoting,
         LatestInv, Latest, Coming, Returning, Emptied
<1> QED BY <1>1, InitFiles DEF TransferInv

LEMMA TransferStep ==
  ASSUME ~ClientResends, ~ServerCuts, TransferInv, [Next]_vars
  PROVE  TransferInv'
BY NextFiles, NextKept, NextLatest DEF TransferInv

LEMMA DosStep == DosInv /\ [Dos!Next]_Dos!vars => DosInv'
BY GoodStep, TrueStep, TypesStep DEF DosInv

\* TypesOK: of the transfers, the DOS agent and the staged update each variable keeps
\* its type, and no upload takes in more than was announced (files.c, files_dos.c,
\* selfupdate.c, setup.c, UPDATE.BAT).
THEOREM TypesKept ==
  ASSUME ~ClientResends, ~ServerCuts
  PROVE  FilesSpec => []TypesOK
<1>1. FilesInit => TransferInv /\ DosInv /\ UpdateInv
  BY TransferStart, GoodInit, TrueInit, TypesInit, UpdateInit DEF FilesInit, DosInv
<1>2. TransferInv /\ DosInv /\ UpdateInv => TypesOK
  BY TypesHold DEF TransferInv, FileInv, DosInv, UpdateInv, StagedInv, TypesOK
<1>3. TransferInv /\ [Next]_vars => TransferInv'
  BY TransferStep
<1> QED BY <1>1, <1>2, <1>3, DosStep, UpdateStep, PartSteps, PTL DEF FilesSpec

\* Tidy: once promotions are over the destination is the file that was put in place
\* last, whatever overlapped, and no temporary file outlives its transfer
\* (v9x_promote_temp with its rollback, v9x_files_disconnect).
THEOREM TransfersTidy ==
  ASSUME ~ClientResends, ~ServerCuts
  PROVE  FilesSpec => []Tidy
<1>1. FilesInit => TransferInv
  BY TransferStart DEF FilesInit
<1>2. TransferInv => Tidy
  <2>1. FileInv => flaky \in 0 .. 2
    BY DEF FileInv, TypeOK
  <2>2. FileInv /\ LatestInv => Settled
    BY <2>1 DEF FileInv, LatestInv, Latest, Coming, Returning, Emptied, Settled, Promoting
  <2> QED BY <2>2 DEF TransferInv, FileInv, Tidy
<1>3. TransferInv /\ [Next]_vars => TransferInv'
  BY TransferStep
<1> QED BY <1>1, <1>2, <1>3, PartSteps, PTL DEF FilesSpec

\* AnswersAreTrue: a file that the DOS agent calls complete holds what its client sent,
\* unless a chunk was spoilt or the path has come to lead elsewhere, and the output it
\* streams is the command's own (v9x_file_commit and v9x_dos_execute of src/guest-dos).
THEOREM DosAnswersTrue == FilesSpec => []AnswersAreTrue
<1>1. FilesInit => DosInv
  BY GoodInit, TrueInit, TypesInit DEF FilesInit, DosInv
<1>2. DosInv => AnswersAreTrue
  BY DEF DosInv, TrueInv, ClaimTrue, AnswersAreTrue, Dos!AnswersAreTrue
<1> QED BY <1>1, <1>2, DosStep, PartSteps, PTL DEF FilesSpec

\* LastGoodKept: what a destination of the DOS agent held last is under its name or that
\* of the backup, whatever fails and whenever the machine is reset, until, after a
\* commit in that directory that was cut short, another one there meets an existing file
\* and begins by removing the backup (v9x_promote_temp of files_dos.c).
THEOREM DosBackupKept == FilesSpec => []LastGoodKept
<1>1. FilesInit => DosInv
  BY GoodInit, TrueInit, TypesInit DEF FilesInit, DosInv
<1>2. DosInv => LastGoodKept
  BY DEF DosInv, GoodInv, LastGoodKept, Dos!LastGoodKept
<1> QED BY <1>1, <1>2, DosStep, PartSteps, PTL DEF FilesSpec

\* StagedIsNewer: nothing older than the agent is staged to replace it, whatever the
\* mirror serves, whoever asks, and even if an agent that started early has deleted what
\* was staged or a later setup has not finished (selfupdate.c, v9x_install).
THEOREM StagedNeverOlder == FilesSpec => []StagedIsNewer
<1>1. FilesInit => UpdateInv
  BY UpdateInit DEF FilesInit
<1>2. UpdateInv => StagedIsNewer
  BY DEF UpdateInv, StagedInv, Harmless, StagedIsNewer, Staged!StagedIsNewer
<1> QED BY <1>1, <1>2, UpdateStep, PartSteps, PTL DEF FilesSpec

\* CanBoot: whenever the power goes, the Run entry finds a whole agent, or the whole
\* staged files, but for a slip (v9x_install, UPDATE.BAT, v9x_hotswap_run).
THEOREM AlwaysBoots == FilesSpec => []CanBoot
<1>1. FilesInit => UpdateInv
  BY UpdateInit DEF FilesInit
<1>2. UpdateInv => CanBoot
  BY DEF UpdateInv, BootInv, CanBoot
<1> QED BY <1>1, <1>2, UpdateStep, PartSteps, PTL DEF FilesSpec

\* PromiseKept: what a setup said takes over at the next restart, or something newer,
\* is what runs after it, but for a slip (selfupdate.c, UPDATE.BAT, v9x_hotswap_run).
THEOREM PromisesKept == FilesSpec => []PromiseKept
<1>1. FilesInit => UpdateInv
  BY UpdateInit DEF FilesInit
<1>2. UpdateInv => PromiseKept
  BY DEF UpdateInv, PromiseInv, PromiseKept
<1> QED BY <1>1, <1>2, UpdateStep, PartSteps, PTL DEF FilesSpec
=============================================================================
