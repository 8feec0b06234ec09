------------------------ MODULE ReleasePackage_proofs ------------------------
(***************************************************************************)
(* Unpacks of a release, for any lengths of extra fields and comments and  *)
(* any numbers that a changed field may have.                              *)
(***************************************************************************)
EXTENDS MCFiles, WellFoundedInduction, TLAPS

-----------------------------------------------------------------------------
(***************************************************************************)
(* The walk through the directory.  It is a recursive function, and what   *)
(* it comes to is found by going to the first step at which it would not.  *)
(***************************************************************************)
LEMMA LeastNat ==
  ASSUME NEW T \in SUBSET Nat, T # {}
  PROVE  \E x \in T : \A y \in T : x <= y
<1> DEFINE R == {ss \in Nat \X Nat : ss[1] < ss[2]}
<1>1. IsWellFoundedOn(R, Nat)
  BY NatLessThanWellFounded DEF OpToRel
<1>2. \E x \in T : \A y \in T : ~(<<y, x>> \in R)
  <2> HIDE DEF R
  <2> QED BY <1>1, WFMin, Zenon
<1>3. PICK x \in T : \A y \in T : ~(<<y, x>> \in R)
  BY <1>2
<1>4. ASSUME NEW y \in T PROVE x <= y
  <2>1. x \in Nat /\ y \in Nat /\ <<y, x>> \in Nat \X Nat
    OBVIOUS
  <2>2. <<y, x>>[1] = y /\ <<y, x>>[2] = x
    OBVIOUS
  <2>3. ~(y < x)
    BY <1>3, <2>1, <2>2
  <2> QED BY <2>1, <2>3
<1> QED BY <1>4

\* One step of the walk, from what it has come to before.
WalkOn(directory, index, before, i) ==
  IF before.status # "ok" \/ i > index THEN before
  ELSE Pack!ReadCentral(zip, before.next, directory.offset + directory.size)

Begin(directory) == [status |-> "ok", next |-> directory.offset]

IsWalk(f, directory, index, count) ==
  f = [i \in 0 .. count |->
         IF i = 0 THEN Begin(directory) ELSE WalkOn(directory, index, f[i - 1], i)]

LEMMA WalkExists ==
  ASSUME NEW directory, NEW index, NEW count \in Nat
  PROVE  \E f : IsWalk(f, directory, index, count)
<1> DEFINE P(n) == \E f : IsWalk(f, directory, index, n)
           T == {n \in Nat : ~P(n)}
<1>1. P(0)
  <2> DEFINE f == [i \in 0 .. 0 |-> Begin(directory)]
  <2>1. IsWalk(f, directory, index, 0)
    BY DEF IsWalk
  <2> QED BY <2>1, Zenon
<1>2. ASSUME NEW n \in Nat, P(n) PROVE P(n + 1)
  <2>1. PICK f : IsWalk(f, directory, index, n)
    BY <1>2
  <2> DEFINE g == [i \in 0 .. n + 1 |->
                     IF i \in 0 .. n THEN f[i] ELSE WalkOn(directory, index, f[n], n + 1)]
  <2>2. IsWalk(g, directory, index, n + 1)
    BY <2>1 DEF IsWalk
  <2> QED BY <2>2, Zenon
<1> HIDE DEF P
<1>3. T = {}
  <2>1. SUFFICES ASSUME T # {} PROVE FALSE
    OBVIOUS
  <2>2. PICK n \in T : \A m \in T : n <= m
    BY <2>1, LeastNat
  <2> QED BY <2>2, <1>1, <1>2
<1> QED BY <1>3 DEF P

LEMMA WalkSteps ==
  ASSUME NEW directory, NEW index, directory.count \in Nat
  PROVE  LET W == Pack!Walked(zip, directory, index) IN
         /\ W[0] = Begin(directory)
         /\ \A i \in 1 .. directory.count : W[i] = WalkOn(directory, index, W[i - 1], i)
<1> DEFINE W == Pack!Walked(zip, directory, index)
<1>1. PICK f : IsWalk(f, directory, index, directory.count)
  BY WalkExists
<1>2. W = CHOOSE g : IsWalk(g, directory, index, directory.count)
  BY DEF Pack!Walked, Begin, WalkOn, IsWalk
<1> HIDE DEF W
<1>3. IsWalk(W, directory, index, directory.count)
  BY <1>1, <1>2, Zenon
<1> QED BY <1>3 DEF W, IsWalk

-----------------------------------------------------------------------------
(***************************************************************************)
(* The file.  Whatever one field of it was changed, an entry's checksum is *)
(* that of the member it names, unless it is one of the two that changed.  *)
(***************************************************************************)
Name == {Pack!Folder, Pack!Setup, Pack!Agent, "README.TXT", "A\\B"}
Sum  == {Pack!Folder, Pack!Setup, Pack!Agent, "other"}
Packing == {"deflate", "stored", "other"}
Local   == [at : Nat, sig : BOOLEAN, flags : Nat, method : Packing, name : Name, nlen : Nat,
            xlen : Nat]
Content == [at : Nat, bytes : Sum]
Central == [at : Nat, sig : BOOLEAN, flags : Nat, method : Packing, name : Name, nlen : Nat,
            xlen : Nat, clen : Nat, disk : Nat, crc : Sum, csize : Nat, usize : Nat, loc : Nat]
EndOf   == [at : Nat, sig : BOOLEAN, disk : Nat, here : Nat, total : Nat, dsize : Nat, doff : Nat,
            comment : Nat]
Zip     == [locals : [1 .. 3 -> Local], contents : [1 .. 3 -> Content],
            centrals : [1 .. 3 -> Central], end : EndOf, length : Nat]

LEMMA ThreeNames ==
  /\ DOMAIN Pack!Names = 1 .. 3
  /\ Pack!Names[1] = Pack!Folder /\ Pack!Names[2] = Pack!Setup /\ Pack!Names[3] = Pack!Agent
BY DEF Pack!Names

LEMMA Lengths ==
  /\ \A x \in Extra : x \in Nat /\ x <= 20000
  /\ \A v \in Wrong : v \in Nat
BY PackageAssumption

\* Where the records of a package are.
LEMMA Layout ==
  ASSUME NEW lx \in Extra, NEW cx \in Extra
  PROVE  /\ Pack!Locals(lx) = <<0, 35 + lx, 99 + 2 * lx, 201 + 3 * lx>>
         /\ Pack!Centrals(lx, cx) = <<201 + 3 * lx, 252 + 3 * lx + cx, 307 + 3 * lx + 2 * cx,
                                      365 + 3 * lx + 3 * cx>>
<1>1. lx \in Nat /\ cx \in Nat
  BY Lengths
<1>2. /\ Pack!Room(1, lx) = 35 + lx /\ Pack!Room(2, lx) = 64 + lx /\ Pack!Room(3, lx) = 102 + lx
      /\ Pack!Record(1, cx) = 51 + cx /\ Pack!Record(2, cx) = 55 + cx
      /\ Pack!Record(3, cx) = 58 + cx
  BY <1>1, ThreeNames DEF Pack!Room, Pack!Record, Pack!LocalFixed, Pack!CentralFixed,
     Pack!NameLength, Pack!Packed, Pack!Size, Pack!Setup, Pack!Agent, Pack!Folder
<1>3. Pack!Locals(lx) = <<0, 35 + lx, 99 + 2 * lx, 201 + 3 * lx>>
  BY <1>1, <1>2 DEF Pack!Locals
<1> QED BY <1>1, <1>2, <1>3 DEF Pack!Centrals

LEMMA NameFacts ==
  ASSUME NEW i \in 1 .. 3
  PROVE  /\ Pack!Names[i] \in Name /\ Pack!Names[i] \in Sum
         /\ Pack!NameLength(Pack!Names[i]) \in Nat
         /\ Pack!Packed(Pack!Names[i]) \in Nat /\ Pack!Packed(Pack!Names[i]) <= 60
         /\ Pack!Size(Pack!Names[i]) \in Nat /\ Pack!Method(Pack!Names[i]) \in Packing
<1>1. CASE i = 1
  BY <1>1, ThreeNames DEF Pack!NameLength, Pack!Packed, Pack!Size, Pack!Method, Pack!Setup,
     Pack!Agent, Pack!Folder, Name, Sum, Packing
<1>2. CASE i = 2
  BY <1>2, ThreeNames DEF Pack!NameLength, Pack!Packed, Pack!Size, Pack!Method, Pack!Setup,
     Pack!Agent, Pack!Folder, Name, Sum, Packing
<1>3. CASE i = 3
  BY <1>3, ThreeNames DEF Pack!NameLength, Pack!Packed, Pack!Size, Pack!Method, Pack!Setup,
     Pack!Agent, Pack!Folder, Name, Sum, Packing
<1> QED BY <1>1, <1>2, <1>3

LEMMA IsZip ==
  ASSUME NEW a \in [1 .. 3 -> Local], NEW b \in [1 .. 3 -> Content], NEW c \in [1 .. 3 -> Central],
         NEW d \in EndOf, NEW n \in Nat
  PROVE  [locals |-> a, contents |-> b, centrals |-> c, end |-> d, length |-> n] \in Zip
<1> HIDE DEF Local, Content, Central, EndOf
<1> QED BY DEF Zip

LEMMA PackedTyped ==
  ASSUME NEW lx \in Extra, NEW cx \in Extra, NEW comment \in Extra
  PROVE  Pack!Packs(lx, cx, comment) \in Zip
<1> DEFINE z == Pack!Packs(lx, cx, comment)
<1>1. lx \in Nat /\ cx \in Nat /\ comment \in Nat
  BY Lengths
<1>2. \A i \in 1 .. 3 : /\ Pack!Locals(lx)[i] \in Nat /\ Pack!Centrals(lx, cx)[i] \in Nat
                       /\ Pack!Locals(lx)[i + 1] - Pack!Packed(Pack!Names[i]) \in Nat
  BY <1>1, Layout, ThreeNames DEF Pack!Packed, Pack!Size, Pack!Setup, Pack!Agent, Pack!Folder
<1>3. /\ Pack!Centrals(lx, cx)[4] \in Nat /\ Pack!Locals(lx)[4] \in Nat
      /\ Pack!Centrals(lx, cx)[4] - Pack!Locals(lx)[4] \in Nat
      /\ Pack!Centrals(lx, cx)[4] + Pack!EndFixed + comment \in Nat
  BY <1>1, Layout DEF Pack!EndFixed
<1>4. z.locals \in [1 .. 3 -> Local]
  BY <1>1, <1>2, NameFacts, ThreeNames DEF Pack!Packs, Local
<1>5. z.contents \in [1 .. 3 -> Content]
  BY <1>1, <1>2, NameFacts, ThreeNames DEF Pack!Packs, Content
<1>6. z.centrals \in [1 .. 3 -> Central]
  BY <1>1, <1>2, NameFacts, ThreeNames DEF Pack!Packs, Central
<1>7. z.end \in EndOf
  BY <1>1, <1>3 DEF Pack!Packs, EndOf
<1>8. z = [locals |-> z.locals, contents |-> z.contents, centrals |-> z.centrals, end |-> z.end,
           length |-> z.length]
  BY DEF Pack!Packs
<1>9. z.length \in Nat
  BY <1>3 DEF Pack!Packs
<1> HIDE DEF z
<1>10. [locals |-> z.locals, contents |-> z.contents, centrals |-> z.centrals, end |-> z.end,
        length |-> z.length] \in Zip
  BY <1>4, <1>5, <1>6, <1>7, <1>9, IsZip
<1>11. z \in Zip
  BY <1>8, <1>10
<1> QED BY <1>11 DEF z

\* The directory of a file that was made from z: an entry's checksum is that of what it
\* names; or its name was changed, and nothing else; or its checksum.
Renamed(file, z, i) ==
  file.locals = z.locals /\ file.centrals[i].name \in {"README.TXT", "A\\B", Pack!Folder}
Unsummed(file, z, i) ==
  /\ file.locals = z.locals /\ file.contents = z.contents
  /\ file.centrals[i] = [z.centrals[i] EXCEPT !.crc = "other"]
DirectoryOf(file, z) ==
  /\ DOMAIN file.centrals = 1 .. 3 /\ file.end.total \in Nat
  /\ \A i \in 1 .. 3 :
       file.centrals[i].crc = file.centrals[i].name \/ Renamed(file, z, i) \/ Unsummed(file, z, i)

LEMMA ChangedDirectory ==
  ASSUME NEW z \in Zip, \A i \in 1 .. 3 : z.centrals[i].crc = z.centrals[i].name,
         zip = z \/ Pack!ChangedFrom(z)
  PROVE  DirectoryOf(zip, z)
<1>1. /\ DOMAIN z = {"locals", "contents", "centrals", "end", "length"}
      /\ z.centrals \in [1 .. 3 -> Central] /\ z.end \in EndOf
  BY DEF Zip
<1> DEFINE c == zip.centrals
<1>2. ASSUME zip.centrals = z.centrals, zip.end.total \in Nat
      PROVE  DirectoryOf(zip, z)
  BY <1>1, <1>2 DEF DirectoryOf
<1>3. ASSUME NEW i \in 1 .. 3, NEW f, f # "crc", f # "name", NEW v,
             zip = [z EXCEPT !.centrals[i][f] = v]
      PROVE  DirectoryOf(zip, z)
  BY <1>1, <1>3 DEF DirectoryOf, Central, EndOf
<1>4. ASSUME NEW i \in 1 .. 3, NEW v \in {"README.TXT", "A\\B", Pack!Folder},
             zip = [z EXCEPT !.centrals[i].name = v]
      PROVE  DirectoryOf(zip, z)
  BY <1>1, <1>4 DEF DirectoryOf, Renamed, Central, EndOf
<1>5. ASSUME NEW i \in 1 .. 3, zip = [z EXCEPT !.centrals[i].crc = "other"]
      PROVE  DirectoryOf(zip, z)
  BY <1>1, <1>5 DEF DirectoryOf, Unsummed, Central, EndOf
<1>6. ASSUME NEW f, f # "total", NEW v, zip = [z EXCEPT !.end[f] = v] PROVE DirectoryOf(zip, z)
  BY <1>1, <1>2, <1>6 DEF EndOf
<1>7. ASSUME NEW v \in Nat, zip = [z EXCEPT !.end["total"] = v] PROVE DirectoryOf(zip, z)
  BY <1>1, <1>2, <1>7 DEF EndOf
<1>8. ASSUME NEW f \in {"locals", "contents", "length"}, NEW v, zip = [z EXCEPT ![f] = v]
      PROVE  DirectoryOf(zip, z)
  BY <1>1, <1>2, <1>8 DEF EndOf
<1>9. CASE zip = z
  BY <1>1, <1>2, <1>9 DEF EndOf
<1>10. ASSUME Pack!EndChanged(z) PROVE DirectoryOf(zip, z)
  <2> HIDE DEF DirectoryOf
  <2>1. ASSUME NEW f \in {"disk", "here", "total", "dsize", "doff", "comment"}, NEW v \in Wrong,
               zip = [z EXCEPT !.end[f] = v]
        PROVE  DirectoryOf(zip, z)
    BY <1>6, <1>7, <2>1, Lengths
  <2>2. ASSUME zip = [z EXCEPT !.end.sig = FALSE] PROVE DirectoryOf(zip, z)
    BY <1>6, <2>2
  <2>3. ASSUME NEW n, zip = [z EXCEPT !.length = n] PROVE DirectoryOf(zip, z)
    BY <1>8, <2>3
  <2> QED BY <1>10, <2>1, <2>2, <2>3 DEF Pack!EndChanged
<1>11. ASSUME NEW i \in 1 .. 3, Pack!CentralChanged(z, i) PROVE DirectoryOf(zip, z)
  <2> HIDE DEF DirectoryOf
  <2>1. ASSUME NEW f, f # "crc", f # "name", NEW v, zip = [z EXCEPT !.centrals[i][f] = v]
        PROVE  DirectoryOf(zip, z)
    BY <1>3, <2>1
  <2>2. ASSUME NEW v, zip = [z EXCEPT !.centrals[i].method = v] PROVE DirectoryOf(zip, z)
    BY <2>1, <2>2
  <2>3. ASSUME zip = [z EXCEPT !.centrals[i].sig = FALSE] PROVE DirectoryOf(zip, z)
    BY <2>1, <2>3
  <2> QED BY <1>4, <1>5, <1>11, <2>1, <2>2, <2>3 DEF Pack!CentralChanged
<1>12. ASSUME NEW i \in 1 .. 3, Pack!MemberChanged(z, i) PROVE DirectoryOf(zip, z)
  <2> HIDE DEF DirectoryOf
  <2>1. ASSUME NEW f, NEW v, zip = [z EXCEPT !.locals[i][f] = v] PROVE DirectoryOf(zip, z)
    BY <1>1, <1>2, <2>1 DEF EndOf
  <2>2. ASSUME NEW v, \/ zip = [z EXCEPT !.locals[i].name = v]
                     \/ zip = [z EXCEPT !.locals[i].method = v]
                     \/ zip = [z EXCEPT !.locals[i].sig = v]
                     \/ zip = [z EXCEPT !.contents[i].bytes = v]
        PROVE  DirectoryOf(zip, z)
    BY <1>1, <1>2, <2>2 DEF EndOf
  <2> QED BY <1>12, <2>1, <2>2 DEF Pack!MemberChanged
<1>13. CASE Pack!ChangedFrom(z)
  BY <1>10, <1>11, <1>12, <1>13, ThreeNames DEF Pack!ChangedFrom
<1> QED BY <1>9, <1>13

-----------------------------------------------------------------------------
(***************************************************************************)
(* Extraction.                                                             *)
(***************************************************************************)
LEMMA Members ==
  /\ Pack!NameLength(Pack!Setup) = 9 /\ Pack!NameLength(Pack!Agent) = 12
  /\ Pack!NameLength(Pack!Folder) = 5
  /\ Pack!Packed(Pack!Setup) = 25 /\ Pack!Packed(Pack!Agent) = 60 /\ Pack!Packed(Pack!Folder) = 0
  /\ Pack!Size(Pack!Setup) = 40 /\ Pack!Size(Pack!Agent) = 60 /\ Pack!Size(Pack!Folder) = 0
  /\ Pack!Method(Pack!Setup) = "deflate" /\ Pack!Method(Pack!Agent) = "stored"
  /\ Pack!Method(Pack!Folder) = "stored"
BY DEF Pack!NameLength, Pack!Packed, Pack!Size, Pack!Method, Pack!Setup, Pack!Agent, Pack!Folder

LEMMA LocalParts ==
  ASSUME NEW lx \in Extra, NEW cx \in Extra, NEW comment \in Extra, NEW k \in 1 .. 3
  PROVE  LET z == Pack!Packs(lx, cx, comment) IN
         /\ DOMAIN z.locals = 1 .. 3 /\ DOMAIN z.contents = 1 .. 3
         /\ z.locals[k].at = Pack!Locals(lx)[k] /\ z.locals[k].sig
         /\ z.locals[k].flags = 0 /\ z.locals[k].method = Pack!Method(Pack!Names[k])
         /\ z.locals[k].name = Pack!Names[k] /\ z.locals[k].xlen = lx
         /\ z.locals[k].nlen = Pack!NameLength(Pack!Names[k])
         /\ z.contents[k].at = Pack!Locals(lx)[k + 1] - Pack!Packed(Pack!Names[k])
         /\ z.contents[k].bytes = Pack!Names[k]
BY ThreeNames DEF Pack!Packs

\* The local header that an entry of the package leads to is its own, and its data
\* begin where they were packed.
LEMMA DataFound ==
  ASSUME NEW lx \in Extra, NEW cx \in Extra, NEW comment \in Extra,
         zip.locals = Pack!Packs(lx, cx, comment).locals,
         NEW directory, NEW i \in 1 .. 3, NEW entry, entry.loc = Pack!Locals(lx)[i],
         Pack!DataOf(zip, directory, entry).status = "ok"
  PROVE  Pack!DataOf(zip, directory, entry).offset = Pack!Locals(lx)[i + 1] - Pack!Packed(Pack!Names[i])
<1> DEFINE here == {k \in DOMAIN zip.locals : zip.locals[k].at = entry.loc /\ zip.locals[k].sig}
           l    == zip.locals[CHOOSE k \in here : TRUE]
<1>1. lx \in Nat
  BY Lengths
<1>2. \A k \in 1 .. 3 : Pack!Locals(lx)[k] = Pack!Locals(lx)[i] => k = i
  BY <1>1, Layout
<1>3. here = {i}
  <2>1. DOMAIN zip.locals = 1 .. 3
    BY LocalParts
  <2>2. \A k \in 1 .. 3 : zip.locals[k].at = Pack!Locals(lx)[k] /\ zip.locals[k].sig
    BY LocalParts
  <2> HIDE DEF l
  <2> QED BY <1>2, <2>1, <2>2
<1>4. l = zip.locals[i]
  <2>1. (CHOOSE k \in here : TRUE) = i
    BY <1>3
  <2> QED BY <2>1
<1> HIDE DEF here, l
<1>5. Pack!DataOf(zip, directory, entry).offset = entry.loc + (Pack!LocalFixed + l.nlen + l.xlen)
  BY DEF Pack!DataOf, Pack!Error, here, l
<1>6. l.nlen = Pack!NameLength(Pack!Names[i]) /\ l.xlen = lx
  BY <1>4, LocalParts
<1> HIDE DEF l
<1>7. Pack!Locals(lx) = <<0, 35 + lx, 99 + 2 * lx, 201 + 3 * lx>>
  BY Layout
<1>8. Pack!DataOf(zip, directory, entry).offset
        = Pack!Locals(lx)[i] + (30 + Pack!NameLength(Pack!Names[i]) + lx)
  BY <1>5, <1>6 DEF Pack!LocalFixed
<1>9. CASE i = 1
  BY ONLY <1>1, <1>7, <1>8, <1>9, Members, ThreeNames
<1>10. CASE i = 2
  BY ONLY <1>1, <1>7, <1>8, <1>10, Members, ThreeNames
<1>11. CASE i = 3
  BY ONLY <1>1, <1>7, <1>8, <1>11, Members, ThreeNames
<1> QED BY <1>9, <1>10, <1>11

\* What is found there.
LEMMA StoredFound ==
  ASSUME NEW lx \in Extra, NEW cx \in Extra, NEW comment \in Extra,
         zip.contents = Pack!Packs(lx, cx, comment).contents
  PROVE  Pack!BytesAt(zip, Pack!Locals(lx)[4] - 60, 60) = Pack!Agent
<1> DEFINE there == {k \in Pack!Starts(zip, Pack!Locals(lx)[4] - 60) : Pack!Packed(Pack!Names[k]) = 60}
<1>1. there = {3}
  BY LocalParts, Members, ThreeNames DEF Pack!Starts
<1>2. (CHOOSE k \in there : TRUE) = 3
  BY <1>1
<1>3. zip.contents[3].bytes = Pack!Agent
  BY LocalParts, ThreeNames
<1> QED BY <1>1, <1>2, <1>3 DEF Pack!BytesAt

LEMMA DeflatedFound ==
  ASSUME NEW lx \in Extra, NEW cx \in Extra, NEW comment \in Extra,
         zip.contents = Pack!Packs(lx, cx, comment).contents
  PROVE  Pack!Inflated(zip, Pack!Locals(lx)[3] - 25, 25, 40) = {[status |-> "ok", content |-> Pack!Setup]}
<1> DEFINE whole == {k \in Pack!Starts(zip, Pack!Locals(lx)[3] - 25) :
                       /\ Pack!Method(Pack!Names[k]) = "deflate"
                       /\ Pack!Packed(Pack!Names[k]) <= 25 /\ zip.contents[k].bytes # "other"}
<1>1. whole = {2}
  BY LocalParts, Members, ThreeNames DEF Pack!Starts, Pack!Setup
<1> HIDE DEF whole
<1>2. {IF Pack!Size(Pack!Names[k]) = 40 THEN [status |-> "ok", content |-> Pack!Names[k]]
       ELSE Pack!Error("bad_size") : k \in whole} = {[status |-> "ok", content |-> Pack!Setup]}
  BY <1>1, Members, ThreeNames
<1>3. whole # {}
  BY <1>1
<1> QED BY <1>2, <1>3 DEF Pack!Inflated, whole

\* An entry in order: the member comes out of it, and nothing else.
LEMMA MemberExtracted ==
  ASSUME NEW lx \in Extra, NEW cx \in Extra, NEW comment \in Extra,
         zip.locals = Pack!Packs(lx, cx, comment).locals,
         zip.contents = Pack!Packs(lx, cx, comment).contents,
         NEW directory, NEW i \in {2, 3}, NEW entry,
         entry.loc = Pack!Locals(lx)[i], entry.method = Pack!Method(Pack!Names[i]),
         entry.csize = Pack!Packed(Pack!Names[i]), entry.usize = Pack!Size(Pack!Names[i]),
         NEW u \in Pack!Extract(zip, directory, entry)
  PROVE  /\ u.status = "ok" => u.content = Pack!Names[i] /\ entry.crc = Pack!Names[i]
         /\ entry.crc = Pack!Names[i] /\ Pack!DataOf(zip, directory, entry).status = "ok" =>
              u.status = "ok"
<1> DEFINE d == Pack!DataOf(zip, directory, entry)
           fits == [status |-> "ok", content |-> Pack!Names[i]]
<1>1. CASE d.status # "ok"
  BY <1>1 DEF Pack!Extract
<1>2. CASE d.status = "ok"
  <2>1. d.offset = Pack!Locals(lx)[i + 1] - Pack!Packed(Pack!Names[i])
    BY <1>2, DataFound
  <2>2. (IF entry.method = "deflate" THEN Pack!Inflated(zip, d.offset, entry.csize, entry.usize)
         ELSE IF entry.csize # entry.usize THEN {Pack!Error("bad_size")}
         ELSE {[status |-> "ok", content |-> Pack!BytesAt(zip, d.offset, entry.csize)]}) = {fits}
    <3>1. CASE i = 2
      BY <2>1, <3>1, DeflatedFound, Members, ThreeNames
    <3>2. CASE i = 3
      BY <2>1, <3>2, StoredFound, Members, ThreeNames
    <3> QED BY <3>1, <3>2
  <2> HIDE DEF d
  <2>3. u = IF fits.status = "ok" /\ fits.content # entry.crc THEN Pack!Error("bad_crc") ELSE fits
    BY <1>2, <2>2 DEF Pack!Extract, d
  <2> QED BY <1>2, <2>3 DEF Pack!Error, d
<1> QED BY <1>1, <1>2

\* Whatever was changed: what comes out of an entry is the member that it names.
LEMMA OnlyNamed ==
  ASSUME NEW lx \in Extra, NEW cx \in Extra, NEW comment \in Extra,
         DirectoryOf(zip, Pack!Packs(lx, cx, comment)),
         NEW directory, NEW i \in 1 .. 3, zip.centrals[i].name # Pack!Folder,
         NEW u \in Pack!Extract(zip, directory, zip.centrals[i]), u.status = "ok"
  PROVE  u.content = zip.centrals[i].name
<1> DEFINE z == Pack!Packs(lx, cx, comment)
           entry == zip.centrals[i]
<1>1. u.content = entry.crc /\ Pack!DataOf(zip, directory, entry).status = "ok"
  BY DEF Pack!Extract, Pack!Error
<1>2. CASE Renamed(zip, z, i)
  <2>1. PICK k \in DOMAIN zip.locals : zip.locals[k].name = entry.name
    BY <1>1 DEF Pack!DataOf, Pack!Error
  <2>2. DOMAIN zip.locals = 1 .. 3 /\ \A j \in 1 .. 3 : zip.locals[j].name = Pack!Names[j]
    BY <1>2, LocalParts DEF Renamed
  <2>3. entry.name \in {Pack!Folder, Pack!Setup, Pack!Agent}
    BY <2>1, <2>2, ThreeNames
  <2> QED BY <1>2, <2>3 DEF Renamed, Pack!Setup, Pack!Agent, Pack!Folder
<1>3. CASE Unsummed(zip, z, i)
  <2>1. /\ entry.loc = Pack!Locals(lx)[i] /\ entry.method = Pack!Method(Pack!Names[i])
        /\ entry.csize = Pack!Packed(Pack!Names[i]) /\ entry.usize = Pack!Size(Pack!Names[i])
        /\ entry.name = Pack!Names[i] /\ entry.crc = "other"
    BY <1>3, ThreeNames DEF Unsummed, Pack!Packs
  <2>2. i \in {2, 3}
    BY <2>1, ThreeNames
  <2>3. zip.locals = z.locals /\ zip.contents = z.contents /\ u \in Pack!Extract(zip, directory, entry)
    BY <1>3 DEF Unsummed
  <2> HIDE DEF entry, z
  <2>4. entry.crc = Pack!Names[i]
    BY <2>1, <2>2, <2>3, MemberExtracted DEF z
  <2> QED BY <2>1, <2>2, <2>4, ThreeNames DEF Pack!Setup, Pack!Agent
<1> QED BY <1>1, <1>2, <1>3 DEF DirectoryOf

-----------------------------------------------------------------------------
(***************************************************************************)
(* What a walk comes to: an entry of the directory, if to anything; and in *)
(* a package in order to the one that was asked for.                       *)
(***************************************************************************)
LEMMA WalkFinds ==
  ASSUME NEW directory, directory.count \in Nat, NEW index \in 1 .. directory.count,
         Pack!Walk(zip, directory, index).status = "ok"
  PROVE  \E i \in DOMAIN zip.centrals : Pack!Walk(zip, directory, index).entry = zip.centrals[i]
<1> DEFINE W == Pack!Walked(zip, directory, index)
           Found(r) == \E i \in DOMAIN zip.centrals : r.entry = zip.centrals[i]
           T == {j \in 1 .. directory.count : W[j].status = "ok" /\ ~Found(W[j])}
<1>1. W[0] = Begin(directory) /\ \A j \in 1 .. directory.count : W[j] = WalkOn(directory, index, W[j - 1], j)
  BY WalkSteps
<1>2. ASSUME NEW offset, NEW end, Pack!ReadCentral(zip, offset, end).status = "ok"
      PROVE  Found(Pack!ReadCentral(zip, offset, end))
  <2> DEFINE here == {i \in DOMAIN zip.centrals : zip.centrals[i].at = offset /\ zip.centrals[i].sig}
             c    == zip.centrals[CHOOSE i \in here : TRUE]
  <2>1. here # {} /\ Pack!ReadCentral(zip, offset, end).entry = c
    BY <1>2 DEF Pack!ReadCentral, Pack!Error
  <2>2. (CHOOSE i \in here : TRUE) \in here
    BY <2>1, Zenon
  <2>3. (CHOOSE i \in here : TRUE) \in DOMAIN zip.centrals
    BY <2>2
  <2> QED BY <2>1, <2>3
<1> HIDE DEF W, Found
<1>3. T = {}
  <2>1. SUFFICES ASSUME T # {} PROVE FALSE
    OBVIOUS
  <2>2. T \in SUBSET Nat
    OBVIOUS
  <2>3. PICK j \in T : \A k \in T : j <= k
    BY <2>1, <2>2, LeastNat
  <2>4. j \in 1 .. directory.count /\ W[j].status = "ok" /\ ~Found(W[j])
    BY <2>3
  <2>5. W[j] = W[j - 1] \/ Found(W[j])
    BY <1>1, <1>2, <2>4 DEF WalkOn
  <2>6. CASE j = 1
    BY <1>1, <1>2, <2>4, <2>6 DEF WalkOn, Begin
  <2>7. CASE j > 1
    <3>1. j - 1 \in T
      BY <2>4, <2>5, <2>7
    <3> QED BY <2>3, <2>4, <3>1
  <2> QED BY <2>4, <2>6, <2>7
<1>4. Pack!Walk(zip, directory, index) = W[directory.count]
  BY DEF Pack!Walk, Pack!Error, W
<1>5. Found(W[directory.count])
  BY <1>3, <1>4
<1> QED BY <1>4, <1>5 DEF Found

Directory(lx, cx) ==
  [offset |-> 201 + 3 * lx, size |-> 164 + 3 * cx, count |-> 3]

LEMMA CentralParts ==
  ASSUME NEW lx \in Extra, NEW cx \in Extra, NEW comment \in Extra, NEW k \in 1 .. 3
  PROVE  LET z == Pack!Packs(lx, cx, comment) IN
         /\ DOMAIN z.centrals = 1 .. 3
         /\ z.centrals[k].at = Pack!Centrals(lx, cx)[k] /\ z.centrals[k].sig
         /\ z.centrals[k].flags = 0 /\ z.centrals[k].method = Pack!Method(Pack!Names[k])
         /\ z.centrals[k].name = Pack!Names[k] /\ z.centrals[k].crc = Pack!Names[k]
         /\ z.centrals[k].nlen = Pack!NameLength(Pack!Names[k])
         /\ z.centrals[k].xlen = cx /\ z.centrals[k].clen = 0 /\ z.centrals[k].disk = 0
         /\ z.centrals[k].csize = Pack!Packed(Pack!Names[k])
         /\ z.centrals[k].usize = Pack!Size(Pack!Names[k])
         /\ z.centrals[k].loc = Pack!Locals(lx)[k]
BY ThreeNames DEF Pack!Packs

\* What a step of the walk comes to.
Reached(file, lx, cx, k) ==
  [status |-> "ok", entry |-> file.centrals[k], next |-> Pack!Centrals(lx, cx)[k + 1]]

LEMMA ReadInOrder ==
  ASSUME NEW lx \in Extra, NEW cx \in Extra, NEW comment \in Extra,
         zip = Pack!Packs(lx, cx, comment), NEW k \in 1 .. 3
  PROVE  Pack!ReadCentral(zip, Pack!Centrals(lx, cx)[k], 365 + 3 * lx + 3 * cx) =
           Reached(zip, lx, cx, k)
<1> DEFINE offset == Pack!Centrals(lx, cx)[k]
           end  == 365 + 3 * lx + 3 * cx
           here == {i \in DOMAIN zip.centrals : zip.centrals[i].at = offset /\ zip.centrals[i].sig}
           c    == zip.centrals[CHOOSE i \in here : TRUE]
<1>1. lx \in Nat /\ cx \in Nat /\ lx <= 20000 /\ cx <= 20000
  BY Lengths
<1>2. here = {k}
  <2>1. DOMAIN zip.centrals = 1 .. 3
    BY CentralParts
  <2>2. \A i \in 1 .. 3 : zip.centrals[i].at = Pack!Centrals(lx, cx)[i] /\ zip.centrals[i].sig
    BY CentralParts
  <2>3. \A i \in 1 .. 3 : Pack!Centrals(lx, cx)[i] = offset => i = k
    BY <1>1, Layout
  <2> HIDE DEF c, offset
  <2> QED BY <2>1, <2>2, <2>3 DEF offset
<1>3. c = zip.centrals[k]
  <2>1. (CHOOSE i \in here : TRUE) = k
    BY <1>2
  <2> QED BY <2>1
<1>4. /\ c.nlen = Pack!NameLength(Pack!Names[k]) /\ c.xlen = cx /\ c.clen = 0 /\ c.disk = 0
      /\ c.csize = Pack!Packed(Pack!Names[k]) /\ c.usize = Pack!Size(Pack!Names[k])
      /\ c.loc = Pack!Locals(lx)[k]
  BY <1>3, CentralParts
<1>5. /\ ~(offset > end \/ end - offset < Pack!CentralFixed \/ here = {})
      /\ end - offset >= Pack!CentralFixed + c.nlen + c.xlen + c.clen
      /\ offset + (Pack!CentralFixed + c.nlen + c.xlen + c.clen) = Pack!Centrals(lx, cx)[k + 1]
  <2> HIDE DEF here, c
  <2>1. here # {}
    BY <1>2
  <2> QED BY <1>1, <1>4, <2>1, Layout, Members, ThreeNames DEF Pack!CentralFixed
<1>6. Pack!Saturated \notin {c.csize, c.usize, c.loc}
  <2> HIDE DEF here, c
  <2> QED BY <1>1, <1>4, Layout, Members, ThreeNames DEF Pack!Saturated
<1>7. Pack!CentralFixed + c.nlen + c.xlen + c.clen \in Nat /\ end \in Nat /\ offset \in Nat
  <2> HIDE DEF here, c
  <2> QED BY <1>1, <1>4, Layout, Members, ThreeNames DEF Pack!CentralFixed
<1>8. ~(end - offset < Pack!CentralFixed + c.nlen + c.xlen + c.clen)
  <2> HIDE DEF here, c
  <2> QED BY <1>5, <1>7
<1> QED BY <1>3, <1>4, <1>5, <1>6, <1>8, Zenon DEF Pack!ReadCentral, Reached

LEMMA WalkInOrder ==
  ASSUME NEW lx \in Extra, NEW cx \in Extra, NEW comment \in Extra,
         zip = Pack!Packs(lx, cx, comment), NEW index \in 1 .. 4
  PROVE  LET w == Pack!Walk(zip, Directory(lx, cx), index) IN
         w.status = "ok" /\ (index <= 3 => w.entry = zip.centrals[index])
<1> DEFINE d == Directory(lx, cx)
           W == Pack!Walked(zip, d, index)
           last == IF index <= 3 THEN index ELSE 3
           At(j) == Reached(zip, lx, cx, j)
<1>1. lx \in Nat /\ cx \in Nat
  BY Lengths
<1>2. /\ d.count = 3 /\ d.offset = Pack!Centrals(lx, cx)[1]
      /\ d.offset + d.size = 365 + 3 * lx + 3 * cx /\ d.offset + d.size = Pack!Centrals(lx, cx)[4]
  BY <1>1, Layout DEF Directory
<1>3. W[0] = Begin(d) /\ \A j \in 1 .. 3 : W[j] = WalkOn(d, index, W[j - 1], j)
  BY <1>2, WalkSteps
<1>4. \A k \in 1 .. 3 : Pack!ReadCentral(zip, Pack!Centrals(lx, cx)[k], d.offset + d.size) = At(k)
  <2> TAKE k \in 1 .. 3
  <2>1. Pack!ReadCentral(zip, Pack!Centrals(lx, cx)[k], 365 + 3 * lx + 3 * cx) = At(k)
    BY ReadInOrder
  <2> HIDE DEF d
  <2> QED BY <1>2, <2>1
<1> HIDE DEF d, W
<1>5. W[1] = At(1)
  BY <1>2, <1>3, <1>4 DEF WalkOn, Begin, Reached
<1>6. W[2] = IF index >= 2 THEN At(2) ELSE At(1)
  BY <1>3, <1>4, <1>5 DEF WalkOn, Reached
<1>7. W[3] = At(last)
  BY <1>3, <1>4, <1>6 DEF WalkOn, Reached
<1>8. Pack!Walk(zip, d, index) = At(last)
  BY <1>2, <1>7 DEF Pack!Walk, W, Reached
<1> QED BY <1>8 DEF d, Reached

LEMMA OpenInOrder ==
  ASSUME NEW lx \in Extra, NEW cx \in Extra, NEW comment \in Extra,
         zip = Pack!Packs(lx, cx, comment)
  PROVE  Pack!Open(zip) = [status |-> "ok", directory |-> Directory(lx, cx)] /\ zip.end.total = 3
<1> DEFINE e == zip.end
<1>1. /\ lx \in Nat /\ cx \in Nat /\ comment \in Nat
      /\ lx <= 20000 /\ cx <= 20000
  BY Lengths
<1>2. /\ e.at = 365 + 3 * lx + 3 * cx /\ e.sig /\ e.disk = 0 /\ e.here = 3 /\ e.total = 3
      /\ e.dsize = 164 + 3 * cx /\ e.doff = 201 + 3 * lx /\ e.comment = comment
      /\ zip.length = e.at + 22 + comment
  BY <1>1, Layout DEF Pack!Packs, Pack!EndFixed
<1> HIDE DEF e
<1>3. /\ zip.length - e.at >= Pack!EndFixed /\ e.comment = zip.length - e.at - Pack!EndFixed
      /\ Pack!Saturated \notin {e.total, e.here, e.dsize, e.doff}
      /\ ~(e.doff > e.at \/ e.at - e.doff < e.dsize)
  BY <1>1, <1>2 DEF Pack!EndFixed, Pack!Saturated
<1>4. [offset |-> e.doff, size |-> e.dsize, count |-> e.total] = Directory(lx, cx)
  BY <1>2 DEF Directory
<1>5. Pack!Walk(zip, Directory(lx, cx), e.total + 1).status = "ok"
  <2>1. e.total + 1 = 4
    BY <1>2
  <2> QED BY <2>1, WalkInOrder
<1> QED BY <1>2, <1>3, <1>4, <1>5 DEF Pack!Open, e

\* A package in order: each of its members comes out whole.
LEMMA ExtractInOrder ==
  ASSUME NEW lx \in Extra, NEW cx \in Extra, NEW comment \in Extra,
         zip = Pack!Packs(lx, cx, comment), NEW i \in {2, 3},
         NEW u \in Pack!Extract(zip, Directory(lx, cx), zip.centrals[i])
  PROVE  u.status = "ok" /\ u.content = Pack!Names[i]
<1> DEFINE d == Directory(lx, cx)
           entry == zip.centrals[i]
           here == {k \in DOMAIN zip.locals : zip.locals[k].at = entry.loc /\ zip.locals[k].sig}
           l    == zip.locals[CHOOSE k \in here : TRUE]
<1>1. lx \in Nat /\ cx \in Nat
  BY Lengths
<1>2. /\ entry.loc = Pack!Locals(lx)[i] /\ entry.method = Pack!Method(Pack!Names[i])
      /\ entry.csize = Pack!Packed(Pack!Names[i]) /\ entry.usize = Pack!Size(Pack!Names[i])
      /\ entry.crc = Pack!Names[i] /\ entry.name = Pack!Names[i] /\ entry.flags = 0
      /\ entry.nlen = Pack!NameLength(Pack!Names[i])
  BY CentralParts
<1> HIDE DEF entry
<1>3. here = {i}
  <2>1. DOMAIN zip.locals = 1 .. 3
    BY LocalParts
  <2>2. \A k \in 1 .. 3 : zip.locals[k].at = Pack!Locals(lx)[k] /\ zip.locals[k].sig
    BY LocalParts
  <2>3. \A k \in 1 .. 3 : Pack!Locals(lx)[k] = Pack!Locals(lx)[i] => k = i
    BY <1>1, Layout
  <2> HIDE DEF l
  <2> QED BY <1>2, <2>1, <2>2, <2>3
<1>4. l = zip.locals[i]
  <2>1. (CHOOSE k \in here : TRUE) = i
    BY <1>3
  <2> QED BY <2>1
<1>5. /\ l.flags = 0 /\ l.method = entry.method /\ l.name = entry.name /\ l.nlen = entry.nlen
      /\ l.xlen = lx
  BY <1>2, <1>4, LocalParts
<1>6. here # {}
  BY <1>3
<1> HIDE DEF here, l
<1>7. /\ ~Pack!Encrypted(entry.flags) /\ ~Pack!Encrypted(l.flags)
      /\ entry.method \in {"stored", "deflate"}
  BY <1>2, <1>5, Members, ThreeNames DEF Pack!Encrypted
<1>8. /\ ~(entry.loc > d.offset \/ d.offset - entry.loc < Pack!LocalFixed)
      /\ ~(d.offset - entry.loc < Pack!LocalFixed + l.nlen + l.xlen)
      /\ ~(d.offset - entry.loc - (Pack!LocalFixed + l.nlen + l.xlen) < entry.csize)
  BY <1>1, <1>2, <1>5, Layout, Members, ThreeNames DEF Directory, Pack!LocalFixed
<1> HIDE DEF d
<1>9. Pack!DataOf(zip, d, entry).status = "ok"
  BY <1>5, <1>6, <1>7, <1>8 DEF Pack!DataOf, here, l
<1>10. u \in Pack!Extract(zip, d, entry)
  BY DEF d, entry
<1> QED BY <1>2, <1>9, <1>10, MemberExtracted

-----------------------------------------------------------------------------
(***************************************************************************)
(* The invariant: where the unpacking is in a package in order.            *)
(***************************************************************************)
Unpackable == Pack!Member \cup {"README.TXT"}

Arrived ==
  \E lx, cx, comment \in Extra :
    /\ DirectoryOf(zip, Pack!Packs(lx, cx, comment))
    /\ ~changed => zip = Pack!Packs(lx, cx, comment)

\* What is in the folder, and that a setup which was found is the release's.
FolderInv ==
  /\ DOMAIN dir = Unpackable
  /\ \A name \in Unpackable : \/ dir[name] \in {name, "none", "old"}
                              \/ dir[name] = "torn" /\ unpacked = "disk"
  /\ unpacked # "disk" /\ found_setup => dir[Pack!Setup] = Pack!Setup

\* How far the unpacking of a package in order has come.
ProgressInv ==
  ~changed /\ unpacked # "disk" =>
    /\ unpacked # "refused" /\ at <= 4
    /\ at > 2 => found_setup
    /\ at > 3 => dir[Pack!Agent] = Pack!Agent
    /\ unpacked = "unpacked" => at = 4

UnpackInv ==
  /\ Arrived /\ at \in Nat /\ changed \in BOOLEAN /\ found_setup \in BOOLEAN
  /\ at > 0 => Pack!Open(zip).status = "ok"
  /\ FolderInv /\ ProgressInv

LEMMA UnpackInit == Pack!Init => UnpackInv
<1> SUFFICES ASSUME Pack!Init PROVE UnpackInv
  OBVIOUS
<1>1. Arrived
  <2>1. PICK lx \in Extra, cx \in Extra, comment \in Extra :
          \/ zip = Pack!Packs(lx, cx, comment) /\ changed = FALSE
          \/ Pack!ChangedFrom(Pack!Packs(lx, cx, comment)) /\ changed = TRUE
    BY DEF Pack!Init
  <2> DEFINE z == Pack!Packs(lx, cx, comment)
  <2>2. z \in Zip /\ \A i \in 1 .. 3 : z.centrals[i].crc = z.centrals[i].name
    BY PackedTyped, CentralParts
  <2>3. zip = z \/ Pack!ChangedFrom(z)
    BY <2>1
  <2> HIDE DEF z
  <2>4. DirectoryOf(zip, z)
    BY <2>2, <2>3, ChangedDirectory
  <2> QED BY <2>1, <2>4 DEF Arrived, z
<1>2. DOMAIN dir = Unpackable /\ \A name \in Unpackable : dir[name] \in {"none", "old"}
  BY DEF Pack!Init, Unpackable
<1>3. changed \in BOOLEAN /\ at = 0 /\ found_setup = FALSE /\ unpacked = "none"
  BY DEF Pack!Init
<1>4. FolderInv
  BY <1>2, <1>3 DEF FolderInv
<1>5. ProgressInv
  BY <1>3 DEF ProgressInv
<1>6. at \in Nat /\ ~(at > 0)
  BY <1>3
<1> QED BY <1>1, <1>3, <1>4, <1>5, <1>6, Zenon DEF UnpackInv

LEMMA UnpackSafe == UnpackInv => Pack!Unpacks
BY DEF UnpackInv, FolderInv, ProgressInv, Pack!Unpacks, Unpackable, Pack!Member, Pack!Setup,
   Pack!Agent

LEMMA UnpackStep ==
  ASSUME UnpackInv, [Pack!Next]_Pack!vars
  PROVE  UnpackInv'
<1>1. ASSUME zip' = zip, changed' = changed
      PROVE  Arrived' /\ Pack!Open(zip)' = Pack!Open(zip)
  <2>1. Pack!Open(zip)' = Pack!Open(zip)
    BY <1>1
  <2>2. Arrived
    BY DEF UnpackInv
  <2>3. Arrived'
    BY <1>1, <2>2, Zenon DEF Arrived
  <2> QED BY <2>1, <2>3
<1>2. /\ Arrived /\ at \in Nat /\ changed \in BOOLEAN /\ found_setup \in BOOLEAN
      /\ at > 0 => Pack!Open(zip).status = "ok"
      /\ FolderInv /\ ProgressInv
  BY DEF UnpackInv
<1>3. ASSUME ~changed
      PROVE  \E lx, cx, comment \in Extra :
               /\ zip = Pack!Packs(lx, cx, comment) /\ zip.end.total = 3
               /\ Pack!Open(zip) = [status |-> "ok", directory |-> Directory(lx, cx)]
  BY <1>2, <1>3, OpenInOrder DEF Arrived
\* Only a package that is not as it was packed is refused.
<1>4. ASSUME Pack!Fails, changed, unpacked = "none" PROVE UnpackInv'
  <2>1. unpacked' = "refused" /\ UNCHANGED <<zip, changed, at, dir, found_setup>>
    BY <1>4 DEF Pack!Fails
  <2>2. FolderInv'
    BY <1>2, <1>4, <2>1 DEF FolderInv
  <2>3. ProgressInv'
    BY <1>4, <2>1 DEF ProgressInv
  <2> QED BY <1>1, <1>2, <2>1, <2>2, <2>3 DEF UnpackInv
<1>5. CASE Pack!OpenPackage
  <2>1. CASE Pack!Open(zip).status # "ok"
    <3>1. changed
      BY <1>3, <2>1
    <3>2. Pack!Fails /\ unpacked = "none"
      BY <1>5, <2>1 DEF Pack!OpenPackage
    <3> QED BY <1>4, <3>1, <3>2, Zenon
  <2>2. CASE Pack!Open(zip).status = "ok"
    BY <1>1, <1>2, <1>5, <2>2 DEF Pack!OpenPackage, UnpackInv, FolderInv, ProgressInv
  <2> QED BY <2>1, <2>2
<1>6. CASE Pack!UnpackMember
  <2> DEFINE directory == Pack!Open(zip).directory
             walked    == Pack!Walk(zip, directory, at)
             entry     == walked.entry
  <2>1. at \in 1 .. zip.end.total /\ unpacked = "none"
    BY <1>6 DEF Pack!UnpackMember
  <2>2. Pack!Open(zip).status = "ok"
    BY <1>2, <2>1
  <2>3. directory.count = zip.end.total /\ zip.end.total \in Nat
    BY <1>2, <2>2 DEF Pack!Open, Pack!Error, Arrived, DirectoryOf
  \* What the package in order has there.
  <2>4. ASSUME ~changed
        PROVE  /\ walked.status = "ok" /\ entry.name = Pack!Names[at]
               /\ entry.nlen = Pack!NameLength(Pack!Names[at])
               /\ at # 1 => \A u \in Pack!Extract(zip, directory, entry) : u.status = "ok"
    <3>1. PICK lx \in Extra, cx \in Extra, comment \in Extra :
            /\ zip = Pack!Packs(lx, cx, comment) /\ zip.end.total = 3
            /\ Pack!Open(zip) = [status |-> "ok", directory |-> Directory(lx, cx)]
      BY <1>3, <2>4
    <3>2. directory = Directory(lx, cx) /\ at \in 1 .. 3
      BY <2>1, <3>1
    <3>3. walked.status = "ok" /\ entry = zip.centrals[at]
      BY <3>1, <3>2, WalkInOrder
    <3>4. at # 1 => \A u \in Pack!Extract(zip, directory, entry) : u.status = "ok"
      BY <3>1, <3>2, <3>3, ExtractInOrder
    <3> QED BY <3>1, <3>2, <3>3, <3>4, CentralParts
  <2>5. ASSUME ~changed, at # 1
        PROVE  entry.name \in Pack!Member /\ Pack!NameIsSafe(entry.name, entry.nlen)
    BY <1>3, <2>1, <2>4, <2>5, Members, ThreeNames DEF Pack!NameIsSafe, Pack!NameMax, Pack!Member
  <2>6. CASE walked.status # "ok"
    <3>1. Pack!Fails
      BY <1>6, <2>6 DEF Pack!UnpackMember
    <3> QED BY <1>4, <2>1, <2>4, <2>6, <3>1, Zenon
  <2>7. CASE walked.status = "ok" /\ entry.name = Pack!Folder
    <3>1. at' = at + 1 /\ UNCHANGED <<zip, changed, dir, found_setup, unpacked>>
      BY <1>6, <2>7 DEF Pack!UnpackMember
    <3>2. ~changed => at = 1
      BY <2>5, <2>7 DEF Pack!Member, Pack!Folder, Pack!Setup, Pack!Agent
    <3>3. FolderInv' /\ ProgressInv' /\ at' \in Nat
      BY <1>2, <3>1, <3>2 DEF FolderInv, ProgressInv
    <3> QED BY <1>1, <1>2, <2>2, <3>1, <3>3 DEF UnpackInv
  <2>8. CASE /\ walked.status = "ok" /\ entry.name # Pack!Folder
             /\ ~Pack!NameIsSafe(entry.name, entry.nlen)
    <3>1. Pack!Fails
      BY <1>6, <2>8 DEF Pack!UnpackMember
    <3>2. changed
      BY <2>1, <2>4, <2>5, <2>8, ThreeNames
    <3> QED BY <1>4, <2>1, <3>1, <3>2, Zenon
  <2>9. CASE /\ walked.status = "ok" /\ entry.name # Pack!Folder
             /\ Pack!NameIsSafe(entry.name, entry.nlen)
    <3>1. PICK u \in Pack!Extract(zip, directory, entry) :
            IF u.status # "ok" THEN Pack!Fails
            ELSE \/ /\ dir' = [dir EXCEPT ![entry.name] = u.content]
                    /\ found_setup' = (found_setup \/ entry.name = Pack!Setup)
                    /\ at' = at + 1
                    /\ UNCHANGED <<zip, changed, unpacked>>
                 \/ /\ \E left \in {dir[entry.name], "torn"} : dir' = [dir EXCEPT ![entry.name] = left]
                    /\ unpacked' = "disk"
                    /\ UNCHANGED <<zip, changed, at, found_setup>>
      BY <1>6, <2>9 DEF Pack!UnpackMember
    <3>2. CASE u.status # "ok"
      <4>1. changed \/ at = 1
        BY <2>4, <3>2
      <4>2. changed
        BY <2>4, <2>9, <4>1, ThreeNames
      <4> QED BY <1>4, <2>1, <3>1, <3>2, <4>2, Zenon
    <3>3. entry.name \in Unpackable
      BY <2>9 DEF Pack!NameIsSafe, Unpackable
    <3>4. CASE /\ u.status = "ok" /\ dir' = [dir EXCEPT ![entry.name] = u.content]
               /\ found_setup' = (found_setup \/ entry.name = Pack!Setup)
               /\ at' = at + 1
               /\ UNCHANGED <<zip, changed, unpacked>>
      <4>1. u.content = entry.name
        <5>1. PICK i \in DOMAIN zip.centrals : entry = zip.centrals[i]
          BY <2>1, <2>3, <2>9, WalkFinds
        <5>2. PICK lx \in Extra, cx \in Extra, comment \in Extra :
                DirectoryOf(zip, Pack!Packs(lx, cx, comment))
          BY <1>2 DEF Arrived
        <5>3. i \in 1 .. 3
          BY <5>2 DEF DirectoryOf
        <5> HIDE DEF directory, entry
        <5> QED BY <2>9, <3>1, <3>4, <5>1, <5>2, <5>3, OnlyNamed
      <4> HIDE DEF entry, directory
      <4>2. FolderInv'
        BY <1>2, <2>1, <3>3, <3>4, <4>1 DEF FolderInv
      <4>3. ProgressInv'
        <5>1. ~changed => zip.end.total = 3 /\ entry.name = Pack!Names[at]
          BY <1>3, <2>4 DEF entry
        <5> SUFFICES ASSUME ~changed
                     PROVE  /\ at + 1 <= 4
                            /\ at + 1 > 2 => found_setup'
                            /\ at + 1 > 3 => dir'[Pack!Agent] = Pack!Agent
          BY <2>1, <3>4 DEF ProgressInv
        <5>2. at \in 1 .. 3 /\ unpacked = "none"
          BY <2>1, <5>1
        <5>3. at > 2 => found_setup
          BY <1>2, <5>2 DEF ProgressInv
        <5>4. at = 2 => entry.name = Pack!Setup
          BY <5>1, ThreeNames
        <5>5. at = 3 => entry.name = Pack!Agent
          BY <5>1, ThreeNames
        <5>6. at = 3 => dir'[Pack!Agent] = Pack!Agent
          BY <1>2, <3>3, <3>4, <4>1, <5>5 DEF FolderInv
        <5>7. found_setup \/ at = 2 => found_setup'
          BY <3>4, <5>4, Zenon
        <5>8. at > 2 \/ at = 2 => found_setup'
          BY <5>3, <5>7, Zenon
        <5> QED BY <5>2, <5>6, <5>8
      <4>4. at' \in Nat /\ found_setup' \in BOOLEAN
        BY <1>2, <3>4
      <4> QED BY <1>1, <1>2, <2>2, <3>4, <4>2, <4>3, <4>4 DEF UnpackInv
    <3>5. CASE /\ \E left \in {dir[entry.name], "torn"} : dir' = [dir EXCEPT ![entry.name] = left]
               /\ unpacked' = "disk"
               /\ UNCHANGED <<zip, changed, at, found_setup>>
      <4> HIDE DEF entry
      <4>1. FolderInv'
        BY <1>2, <2>1, <3>3, <3>5 DEF FolderInv
      <4>2. ProgressInv'
        BY <3>5 DEF ProgressInv
      <4> QED BY <1>1, <1>2, <3>5, <4>1, <4>2 DEF UnpackInv
    <3> QED BY <3>1, <3>2, <3>4, <3>5
  <2> QED BY <2>6, <2>7, <2>8, <2>9
<1>7. CASE Pack!Unpacked
  <2>1. ~changed => zip.end.total = 3
    BY <1>3
  <2>2. at' = at /\ found_setup' = found_setup /\ dir' = dir /\ zip' = zip /\ changed' = changed
    BY <1>7 DEF Pack!Unpacked
  <2>3. unpacked = "none" /\ unpacked' = "unpacked" /\ at > zip.end.total
    BY <1>7 DEF Pack!Unpacked
  <2>4. FolderInv'
    BY <1>2, <2>2, <2>3 DEF FolderInv
  <2>5. ProgressInv'
    BY <1>2, <2>1, <2>2, <2>3 DEF ProgressInv
  <2> QED BY <1>1, <1>2, <2>2, <2>4, <2>5 DEF UnpackInv
<1>8. CASE UNCHANGED Pack!vars
  BY <1>1, <1>2, <1>8 DEF Pack!vars, UnpackInv, FolderInv, ProgressInv
<1> QED BY <1>5, <1>6, <1>7, <1>8 DEF Pack!Next

-----------------------------------------------------------------------------
(***************************************************************************)
(* The theorem.                                                            *)
(***************************************************************************)
\* Unpacks: whatever one field, one member or the end of a release's package has
\* become, what v9x_su_unpack leaves in the folder is the release's or what was there
\* before, a SETUP.EXE that it reports is the release's own, and a package in order is
\* never refused and is unpacked whole (v9x_zip_open, v9x_zip_walk, v9x_zip_extract,
\* v9x_su_unpack).
THEOREM PackageUnpacks == FilesSpec => []Unpacks
<1> DEFINE Inv == part = "package" => UnpackInv
<1>1. FilesInit => Inv
  BY UnpackInit DEF FilesInit
<1>2. ASSUME Inv, [FilesNext]_<<vars, dos, staged, package, inflate, part>>
      PROVE  Inv'
  <2>1. part' = part
    BY <1>2 DEF FilesNext
  <2>2. ASSUME part = "package" PROVE UnpackInv'
    <3>1. Pack!Next \/ UNCHANGED package
      BY <1>2, <2>2 DEF FilesNext
    <3>2. [Pack!Next]_Pack!vars
      BY <3>1 DEF package, Pack!vars
    <3> QED BY <1>2, <2>2, <3>2, UnpackStep
  <2> QED BY <2>1, <2>2
<1>3. Inv => Unpacks
  BY UnpackSafe DEF Unpacks
<1> HIDE DEF Inv
<1> QED BY <1>1, <1>2, <1>3, PTL DEF FilesSpec
=============================================================================
