--------------------------- MODULE ReleasePackage ---------------------------
(***************************************************************************)
(* Unpacking a release (src/common/zipread.c, and v9x_su_unpack of         *)
(* src/setup/selfupdate.c): a zip file whose records lie at offsets that   *)
(* other records name.  The file is what a packer made, or one field of it *)
(* was changed, or its end is missing.  A read at an offset where no       *)
(* record starts finds no signature; a checksum tells all contents apart.  *)
(***************************************************************************)
EXTENDS Integers, Sequences

CONSTANTS
  Extra,     \* lengths of extra fields and of the comment
  Wrong      \* numbers that a changed field may have

EndFixed     == 22
CentralFixed == 46
LocalFixed   == 30
Saturated == 65535     \* "see zip64", for fields of either width
NameMax == 64

\* The members of a release, in the package's order.
Setup  == "SETUP.EXE"
Agent  == "V9XREMOT.EXE"
Folder == "DOCS/"
Member == {Setup, Agent}
Names  == <<Folder, Setup, Agent>>
NameLength(name) == CASE name = Setup -> 9 [] name = Agent -> 12 [] name = Folder -> 5 [] OTHER -> 9
Size(name)   == CASE name = Setup -> 40 [] name = Agent -> 60 [] OTHER -> 0
Packed(name) == IF name = Setup THEN 25 ELSE Size(name)     \* SETUP.EXE is deflated
Method(name) == IF name = Setup THEN "deflate" ELSE "stored"

VARIABLES
  zip,      \* the file
  changed,  \* whether it is not as it was packed
  at,       \* the member that is next; 0 before v9x_zip_open
  dir,      \* C:\V9XREMOTE\UPDATE
  found_setup,
  result    \* "none", or what v9x_su_unpack returned: "unpacked", or 0 for two reasons
vars == <<zip, changed, at, dir, found_setup, result>>

-----------------------------------------------------------------------------
(* What a packer makes. *)

Room(i, lx)   == LocalFixed + NameLength(Names[i]) + lx + Packed(Names[i])
Record(i, cx) == CentralFixed + NameLength(Names[i]) + cx

\* Where the members and their directory entries begin, and where the last one ends.
Locals(lx) == <<0, Room(1, lx), Room(1, lx) + Room(2, lx), Room(1, lx) + Room(2, lx) + Room(3, lx)>>
Centrals(lx, cx) ==
  LET first == Locals(lx)[4]
  IN <<first, first + Record(1, cx), first + Record(1, cx) + Record(2, cx),
       first + Record(1, cx) + Record(2, cx) + Record(3, cx)>>

Packs(lx, cx, comment) ==
  [locals   |-> [i \in DOMAIN Names |->
                  [at |-> Locals(lx)[i], sig |-> TRUE, flags |-> 0, method |-> Method(Names[i]),
                   name |-> Names[i], nlen |-> NameLength(Names[i]), xlen |-> lx]],
   contents |-> [i \in DOMAIN Names |->
                  [at |-> Locals(lx)[i + 1] - Packed(Names[i]), bytes |-> Names[i]]],
   centrals |-> [i \in DOMAIN Names |->
                  [at |-> Centrals(lx, cx)[i], sig |-> TRUE, flags |-> 0,
                   method |-> Method(Names[i]), name |-> Names[i],
                   nlen |-> NameLength(Names[i]), xlen |-> cx, clen |-> 0, disk |-> 0,
                   crc |-> Names[i], csize |-> Packed(Names[i]), usize |-> Size(Names[i]),
                   loc |-> Locals(lx)[i]]],
   end      |-> [at |-> Centrals(lx, cx)[4], sig |-> TRUE, disk |-> 0, here |-> 3, total |-> 3,
                 dsize |-> Centrals(lx, cx)[4] - Locals(lx)[4], doff |-> Locals(lx)[4],
                 comment |-> comment],
   length   |-> Centrals(lx, cx)[4] + EndFixed + comment]

\* One field is changed, or a member's bytes are, or the end of the file is missing.
EndChanged(z) ==
  \/ \E f \in {"disk", "here", "total", "dsize", "doff", "comment"}, v \in Wrong :
       zip = [z EXCEPT !.end[f] = v]
  \/ zip = [z EXCEPT !.end.sig = FALSE]
  \/ \E n \in 0 .. z.length - 1 : zip = [z EXCEPT !.length = n]

CentralChanged(z, i) ==
  \/ \E f \in {"nlen", "xlen", "clen", "disk", "csize", "usize", "loc", "flags"}, v \in Wrong :
       zip = [z EXCEPT !.centrals[i][f] = v]
  \/ \E v \in {"README.TXT", "A\\B", Folder} : zip = [z EXCEPT !.centrals[i].name = v]
  \/ \E v \in {"deflate", "stored", "other"} : zip = [z EXCEPT !.centrals[i].method = v]
  \/ zip = [z EXCEPT !.centrals[i].crc = "other"]
  \/ zip = [z EXCEPT !.centrals[i].sig = FALSE]

MemberChanged(z, i) ==
  \/ \E f \in {"nlen", "xlen", "flags"}, v \in Wrong : zip = [z EXCEPT !.locals[i][f] = v]
  \/ zip = [z EXCEPT !.locals[i].name = "README.TXT"]
  \/ \E v \in {"deflate", "stored", "other"} : zip = [z EXCEPT !.locals[i].method = v]
  \/ zip = [z EXCEPT !.locals[i].sig = FALSE]
  \/ zip = [z EXCEPT !.contents[i].bytes = "other"]

ChangedFrom(z) ==
  EndChanged(z) \/ \E i \in DOMAIN Names : CentralChanged(z, i) \/ MemberChanged(z, i)

-----------------------------------------------------------------------------
(* zipread.c. *)

Error(s) == [status |-> s]

\* V9X_ZIP_FLAGS_ENCRYPTED.
Encrypted(flags) == \E bit \in {1, 64, 8192} : (flags \div bit) % 2 = 1

\* v9x_zip_read_central.
ReadCentral(file, offset, end) ==
  LET here == {i \in DOMAIN file.centrals : file.centrals[i].at = offset /\ file.centrals[i].sig}
      c    == file.centrals[CHOOSE i \in here : TRUE]
      record_length == CentralFixed + c.nlen + c.xlen + c.clen
  IN CASE offset > end \/ end - offset < CentralFixed \/ here = {} -> Error("bad_central")
       [] OTHER ->
            IF end - offset < record_length THEN Error("bad_central")
            ELSE IF c.disk # 0 THEN Error("multi_disk")
            ELSE IF Saturated \in {c.csize, c.usize, c.loc} THEN Error("zip64")
            ELSE [status |-> "ok", entry |-> c, next |-> offset + record_length]

\* v9x_zip_walk: to a record, the first being number 1, or through all of them.  What it
\* has come to after so many.
Walked(file, directory, index) ==
  LET walked[i \in 0 .. directory.count] ==
        IF i = 0 THEN [status |-> "ok", next |-> directory.offset]
        ELSE IF walked[i - 1].status # "ok" \/ i > index THEN walked[i - 1]
        ELSE ReadCentral(file, walked[i - 1].next, directory.offset + directory.size)
  IN walked

Walk(file, directory, index) ==
  LET reached == Walked(file, directory, index)[directory.count]
  IN IF /\ reached.status = "ok" /\ index > directory.count
        /\ reached.next # directory.offset + directory.size
     THEN Error("bad_central") ELSE reached

\* v9x_zip_open.  Of a file that was cut the end record is not at its end.
Open(file) ==
  LET e == file.end
      found == e.sig /\ file.length - e.at >= EndFixed /\ e.comment = file.length - e.at - EndFixed
      directory == [offset |-> e.doff, size |-> e.dsize, count |-> e.total]
  IN IF ~found THEN Error("no_end")
     ELSE IF Saturated \in {e.total, e.here, e.dsize, e.doff} THEN Error("zip64")
     ELSE IF e.disk # 0 \/ e.here # e.total THEN Error("multi_disk")
     ELSE IF e.doff > e.at \/ e.at - e.doff < e.dsize THEN Error("bad_end")
     ELSE IF Walk(file, directory, e.total + 1).status # "ok" THEN Walk(file, directory, e.total + 1)
     ELSE [status |-> "ok", directory |-> directory]

\* What is at some place of the file: a member's bytes, if just they are.
Starts(file, offset) == {i \in DOMAIN file.contents : file.contents[i].at = offset}
BytesAt(file, offset, length) ==
  LET there == {i \in Starts(file, offset) : Packed(Names[i]) = length}
  IN IF there = {} THEN "other" ELSE file.contents[CHOOSE i \in there : TRUE].bytes

\* What may come of inflating them: a whole stream comes out whole (module Inflate), and
\* what lies behind its last block is not looked at.
Inflated(file, offset, length, usize) ==
  LET whole == {i \in Starts(file, offset) : /\ Method(Names[i]) = "deflate"
                                             /\ Packed(Names[i]) <= length
                                             /\ file.contents[i].bytes # "other"}
  IN IF whole = {} THEN {Error("bad_data"), Error("bad_size"), [status |-> "ok", content |-> "other"]}
     ELSE {IF Size(Names[i]) = usize THEN [status |-> "ok", content |-> Names[i]]
           ELSE Error("bad_size") : i \in whole}

\* Mutant: the data are looked for behind as many extra bytes as the directory tells.
DataByCentral(file, directory, entry) ==
  [status |-> "ok", offset |-> entry.loc + LocalFixed + entry.nlen + entry.xlen]

\* v9x_zip_extract of an entry, up to where the data are.
DataOf(file, directory, entry) ==
  LET here == {i \in DOMAIN file.locals : file.locals[i].at = entry.loc /\ file.locals[i].sig}
      l    == file.locals[CHOOSE i \in here : TRUE]
      room == directory.offset - entry.loc
      header_length == LocalFixed + l.nlen + l.xlen
  IN IF Encrypted(entry.flags) THEN Error("encrypted")
     ELSE IF entry.method \notin {"stored", "deflate"} THEN Error("bad_method")
     ELSE IF entry.loc > directory.offset \/ room < LocalFixed \/ here = {} THEN Error("bad_local")
     ELSE IF room < header_length THEN Error("bad_local")
     ELSE IF Encrypted(l.flags) THEN Error("encrypted")
     ELSE IF l.method # entry.method THEN Error("bad_local")
     ELSE IF l.nlen # entry.nlen \/ l.name # entry.name THEN Error("name_mismatch")
     ELSE IF room - header_length < entry.csize THEN Error("bad_local")
     ELSE [status |-> "ok", offset |-> entry.loc + header_length]

\* What v9x_zip_extract may return.
Extract(file, directory, entry) ==
  LET d     == DataOf(file, directory, entry)
      unpacked == IF entry.method = "deflate" THEN Inflated(file, d.offset, entry.csize, entry.usize)
                  ELSE IF entry.csize # entry.usize THEN {Error("bad_size")}
                  ELSE {[status |-> "ok", content |-> BytesAt(file, d.offset, entry.csize)]}
      Checked(u) == IF u.status = "ok" /\ u.content # entry.crc THEN Error("bad_crc") ELSE u
  IN IF d.status # "ok" THEN {d} ELSE {Checked(u) : u \in unpacked}

\* v9x_zip_name_is_safe, of the names that occur.
NameIsSafe(name, length) == length \in 1 .. NameMax /\ name \in Member \cup {"README.TXT"}

-----------------------------------------------------------------------------
(* v9x_su_unpack. *)

Fails == result' = "refused" /\ UNCHANGED <<zip, changed, at, dir, found_setup>>

OpenPackage ==
  /\ at = 0 /\ result = "none"
  /\ IF Open(zip).status # "ok" THEN Fails
     ELSE at' = 1 /\ UNCHANGED <<zip, changed, dir, found_setup, result>>

\* A folder is passed over, wherever its record says so.
UnpackMember ==
  LET directory == Open(zip).directory
      walked == Walk(zip, directory, at)
      entry  == walked.entry
  IN /\ at \in 1 .. zip.end.total /\ result = "none"
     /\ IF walked.status # "ok" THEN Fails
        ELSE IF entry.name = Folder
        THEN at' = at + 1 /\ UNCHANGED <<zip, changed, dir, found_setup, result>>
        ELSE IF ~NameIsSafe(entry.name, entry.nlen) THEN Fails
        ELSE \E u \in Extract(zip, directory, entry) :
               IF u.status # "ok" THEN Fails
               ELSE \/ /\ dir' = [dir EXCEPT ![entry.name] = u.content]
                       /\ found_setup' = (found_setup \/ entry.name = Setup)
                       /\ at' = at + 1
                       /\ UNCHANGED <<zip, changed, result>>
                    \* v9x_su_write_file fails, with the file begun or not.
                    \/ /\ \E left \in {dir[entry.name], "torn"} : dir' = [dir EXCEPT ![entry.name] = left]
                       /\ result' = "disk"
                       /\ UNCHANGED <<zip, changed, at, found_setup>>

Unpacked ==
  /\ at > zip.end.total /\ result = "none"
  /\ result' = "unpacked"
  /\ UNCHANGED <<zip, changed, at, dir, found_setup>>

Init ==
  /\ \E lx, cx, comment \in Extra :
       LET z == Packs(lx, cx, comment) IN
       \/ zip = z /\ changed = FALSE
       \/ ChangedFrom(z) /\ zip # z /\ changed = TRUE
  /\ at = 0 /\ found_setup = FALSE /\ result = "none"
  \* An earlier update may have left its files.
  /\ \E before \in {"none", "old"} : dir = [name \in Member \cup {"README.TXT"} |-> before]

Next == OpenPackage \/ UnpackMember \/ Unpacked
Spec == Init /\ [][Next]_vars

-----------------------------------------------------------------------------
\* Whatever is wrong with a package, a file that was unpacked is one of the release's,
\* whole and under its own name, or the unpacking fails at it; the setup that is then
\* started is the release's; and a package in order is refused only by the disk.
Unpacks ==
  /\ \A name \in DOMAIN dir : \/ dir[name] \in {name, "none", "old"}
                              \/ dir[name] = "torn" /\ result = "disk"
  /\ result = "unpacked" /\ found_setup => dir[Setup] = Setup
  /\ ~changed => result # "refused"
  /\ ~changed /\ result = "unpacked" => found_setup /\ \A name \in Member : dir[name] = name
=============================================================================
