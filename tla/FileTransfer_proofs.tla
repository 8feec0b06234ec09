------------------------ MODULE FileTransfer_proofs -------------------------
(***************************************************************************)
(* Proofs about FileTransfer, for any number of connections, of transfers  *)
(* and of blocks per file.                                                 *)
(***************************************************************************)
EXTENDS FileTransfer, TLAPS

(***************************************************************************)
(* The invariant.  NeverCorrupt follows a file from its first block to its *)
(* promotion: an open upload's temporary file holds what the running CRC   *)
(* covers, a download's holds the blocks in order, and what is promoted is *)
(* whole.  NoStrayTemp needs to know that a promotion of an upload has     *)
(* closed it, and that a promotion that is cleaning up has no temporary    *)
(* file left.                                                              *)
(***************************************************************************)
HasTemp(c, t) == temp[c][t] # NoFile

GatheredAt(c) ==
  /\ open[c] => HasTemp(c, "PART")
  /\ open[c] /\ ~failed[c] => temp[c]["PART"].data = received[c]
  /\ pc[c] = "fetch" =>
       /\ HasTemp(c, "DLPART")
       /\ Len(temp[c]["DLPART"].data) <= Blocks
       /\ \A i \in 1 .. Len(temp[c]["DLPART"].data) : temp[c]["DLPART"].data[i] = i
  /\ pc[c] \in Promoting \ {"clean"} => IsWhole(temp[c][source[c]])
  /\ pc[c] = "clean" => ~HasTemp(c, source[c])
  /\ pc[c] \in Promoting /\ source[c] = "PART" => ~open[c]

Gathered == \A c \in Conn : GatheredAt(c)

WholeFiles == NeverCorrupt /\ (backup = NoFile \/ IsWhole(backup))

FileInv == TypeOK /\ Gathered /\ WholeFiles /\ NoStrayTemp

\* What the sender meant to send fills a file.
LEMMA WholeType == Whole \in Seq(0 .. Blocks) /\ Len(Whole) = Blocks
<1>1. \A i \in 1 .. Blocks : i \in 0 .. Blocks
  BY TransferAssumption
<1> QED
  BY <1>1, TransferAssumption DEF Whole

\* Writing one temporary file leaves the others alone.
LEMMA SetTempType ==
  ASSUME temp \in [Conn -> [Temp -> File \cup {NoFile}]],
         NEW c \in Conn, NEW t \in Temp, NEW f \in File \cup {NoFile}, SetTemp(c, t, f)
  PROVE  /\ temp' \in [Conn -> [Temp -> File \cup {NoFile}]]
         /\ temp'[c][t] = f
         /\ \A d \in Conn, u \in Temp : d # c \/ u # t => temp'[d][u] = temp[d][u]
  BY DEF SetTemp

\* So does appending a block to one, which keeps it a file.
LEMMA StoreType ==
  ASSUME temp \in [Conn -> [Temp -> File \cup {NoFile}]],
         NEW c \in Conn, NEW t \in Temp, NEW block \in 0 .. Blocks,
         HasTemp(c, t), Store(c, t, block)
  PROVE  /\ temp' \in [Conn -> [Temp -> File \cup {NoFile}]]
         /\ temp'[c][t] \in File
         /\ temp[c][t].data \in Seq(0 .. Blocks)
         /\ temp'[c][t].data = Append(temp[c][t].data, block)
         /\ \A d \in Conn, u \in Temp : d # c \/ u # t => temp'[d][u] = temp[d][u]
<1> DEFINE f == [temp[c][t] EXCEPT !.data = Append(@, block)]
<1>1. temp[c][t] \in File
  BY DEF HasTemp
<1>2. PICK m \in 0 .. MaxTransfers, d \in Seq(0 .. Blocks) : temp[c][t] = [from |-> m, data |-> d]
  BY <1>1, Zenon DEF File
<1>3. f = [from |-> m, data |-> Append(d, block)] /\ temp[c][t].data = d
  <2>1. temp[c][t].data = d
    BY ONLY <1>2
  <2>2. f = [[from |-> m, data |-> d] EXCEPT !.data = Append(d, block)]
    BY ONLY <1>2, <2>1, Zenon
  <2>3. [[from |-> m, data |-> d] EXCEPT !.data = Append(d, block)]
          = [from |-> m, data |-> Append(d, block)]
    <3>1. \A x, y, z : [[from |-> x, data |-> y] EXCEPT !.data = z] = [from |-> x, data |-> z]
      BY ONLY TRUE
    <3> QED BY ONLY <3>1, Zenon
  <2> QED BY ONLY <2>1, <2>2, <2>3, Zenon
<1>4. /\ f \in File /\ f.data = Append(temp[c][t].data, block)
      /\ temp[c][t].data \in Seq(0 .. Blocks)
  <2>1. Append(d, block) \in Seq(0 .. Blocks)
    BY <1>2
  <2> QED
    BY <1>2, <1>3, <2>1 DEF File
<1> HIDE DEF f
<1>5. temp' = [temp EXCEPT ![c][t] = f]
  BY DEF Store, f
<1> QED
  BY <1>2, <1>4, <1>5

\* A connection's step leaves what the others have staged alone.
LEMMA OthersGathered ==
  ASSUME FileInv, NEW c \in Conn, GatheredAt(c)',
         \A d \in Conn, t \in Temp : d # c => temp'[d][t] = temp[d][t],
         \A d \in Conn : d # c =>
           /\ pc'[d] = pc[d] /\ open'[d] = open[d] /\ failed'[d] = failed[d]
           /\ received'[d] = received[d] /\ source'[d] = source[d]
  PROVE  Gathered'
<1> SUFFICES ASSUME NEW d \in Conn, d # c PROVE GatheredAt(d)'
  BY DEF Gathered
<1>1. source[d] \in Temp /\ "PART" \in Temp /\ "DLPART" \in Temp
  BY DEF FileInv, TypeOK, Temp
<1> QED
  BY <1>1 DEF FileInv, Gathered, GatheredAt, HasTemp, IsWhole

\* The count of failed renames stays in its range.
LEMMA CountType ==
  ASSUME flaky \in 0 .. 2, NEW could, CountIf(could)
  PROVE  flaky' \in 0 .. 2
  BY DEF CountIf

\* The initial files are whole and nothing is staged.
LEMMA InitFiles == Init => FileInv
<1> SUFFICES ASSUME Init PROVE FileInv
  OBVIOUS
<1>1. [from |-> 0, data |-> Whole] \in File
  BY WholeType, TransferAssumption DEF File
<1>2. TypeOK
  <2>1. temp \in [Conn -> [Temp -> File \cup {NoFile}]] /\ source \in [Conn -> Temp]
    BY DEF Init, Temp
  <2>2. received \in [Conn -> Seq(0 .. Blocks)]
    BY DEF Init
  <2>3. 0 \in 0 .. MaxTransfers /\ 0 \in 0 .. 2
    BY TransferAssumption
  <2> QED
    BY <1>1, <2>1, <2>2, <2>3 DEF Init, TypeOK, Promoting
<1>3. Gathered
  BY DEF Init, Gathered, GatheredAt, Promoting
<1>4. WholeFiles
  BY DEF Init, WholeFiles, NeverCorrupt, IsWhole
<1>5. NoStrayTemp
  BY DEF Init, NoStrayTemp, Temp
<1> QED
  BY <1>2, <1>3, <1>4, <1>5 DEF FileInv

\* An upload keeps its temporary file in step with what it has counted, up to the
\* commit that compares the two.
LEMMA UploadKeeps ==
  ASSUME FileInv, ~ClientResends, NEW c \in Conn,
         OpenWrite(c) \/ WriteChunk(c) \/ WriteFails(c) \/ Commit(c) \/ Disconnect(c)
  PROVE  FileInv'
<1> USE TransferAssumption DEF FileInv, Goto, hist
<1>a. "PART" \in Temp /\ "DLPART" \in Temp /\ NoFile \in File \cup {NoFile}
  BY DEF Temp
<1>1. CASE OpenWrite(c)
  <2> DEFINE f == [from |-> started', data |-> <<>>]
  <2>1. started' \in 0 .. MaxTransfers
    BY <1>1 DEF OpenWrite, TypeOK
  <2>2. f \in File /\ f.data = <<>>
    BY <2>1 DEF File
  <2>3. f # NoFile
    BY <2>2
  <2>4. SetTemp(c, "PART", f)
    BY <1>1 DEF OpenWrite
  <2> HIDE DEF f
  <2>5. /\ temp' \in [Conn -> [Temp -> File \cup {NoFile}]]
        /\ temp'[c]["PART"] = f
        /\ \A d \in Conn, u \in Temp : d # c \/ u # "PART" => temp'[d][u] = temp[d][u]
    BY <1>a, <2>2, <2>4, SetTempType DEF TypeOK
  <2>6. TypeOK'
    <3>1. received' \in [Conn -> Seq(0 .. Blocks)]
      BY <1>1 DEF OpenWrite, TypeOK
    <3> QED
      BY <1>1, <2>1, <2>5, <3>1 DEF OpenWrite, TypeOK
  <2>7. Gathered'
    <3>1. GatheredAt(c)'
      BY <1>1, <1>a, <2>2, <2>3, <2>5 DEF OpenWrite, Gathered, GatheredAt, HasTemp, TypeOK, Promoting
    <3> QED
      BY <1>1, <2>5, <3>1, OthersGathered DEF OpenWrite, TypeOK
  <2>8. WholeFiles' /\ NoStrayTemp'
    BY <1>1, <1>a, <2>5 DEF OpenWrite, WholeFiles, NeverCorrupt, IsWhole, NoStrayTemp, TypeOK, Promoting
  <2> QED
    BY <2>6, <2>7, <2>8
<1>2. CASE WriteChunk(c)
  <2>1. HasTemp(c, "PART")
    BY <1>2 DEF WriteChunk, Gathered, GatheredAt
  <2>2. PICK block \in 0 .. Blocks :
          /\ Store(c, "PART", block)
          /\ received' = [received EXCEPT ![c] = Append(@, block)]
    <3>1. Len(received[c]) \in Nat
      BY DEF TypeOK
    <3>2. \A block \in {0, Len(received[c]) + 1} : Len(received[c]) < Blocks => block \in 0 .. Blocks
      BY <3>1
    <3> QED
      BY <1>2, <3>2 DEF WriteChunk
  <2>3. /\ temp' \in [Conn -> [Temp -> File \cup {NoFile}]]
        /\ temp'[c]["PART"] \in File
        /\ temp'[c]["PART"].data = Append(temp[c]["PART"].data, block)
        /\ \A d \in Conn, u \in Temp : d # c \/ u # "PART" => temp'[d][u] = temp[d][u]
    BY <1>a, <2>1, <2>2, StoreType DEF TypeOK
  <2>4. TypeOK'
    <3>1. received[c] \in Seq(0 .. Blocks) /\ Append(received[c], block) \in Seq(0 .. Blocks)
      BY DEF TypeOK
    <3>2. received' \in [Conn -> Seq(0 .. Blocks)]
      BY <2>2, <3>1 DEF TypeOK
    <3> QED
      BY <1>2, <2>3, <3>2 DEF WriteChunk, TypeOK
  <2>5. Gathered'
    <3>1. temp'[c]["PART"] # NoFile /\ received'[c] = Append(received[c], block)
      BY <2>2, <2>3 DEF TypeOK
    <3>2. GatheredAt(c) /\ pc'[c] = "idle" /\ open[c] /\ open' = open /\ failed' = failed
      BY <1>2 DEF WriteChunk, Gathered
    <3>3. ~failed[c] => temp[c]["PART"].data = received[c]
      BY <3>2 DEF GatheredAt
    <3>4. GatheredAt(c)'
      BY ONLY <2>3, <3>1, <3>2, <3>3 DEF GatheredAt, HasTemp, Promoting
    <3> QED
      BY <1>2, <2>2, <2>3, <3>4, OthersGathered DEF WriteChunk, TypeOK
  <2>6. WholeFiles'
    BY <1>2 DEF WriteChunk, WholeFiles, NeverCorrupt, IsWhole
  <2>7. NoStrayTemp'
    <3>1. /\ UNCHANGED <<crashed, pc, open, source>> /\ open[c]
          /\ \A d \in Conn : /\ d # c => temp'[d]["PART"] = temp[d]["PART"]
                            /\ temp'[d]["DLPART"] = temp[d]["DLPART"]
      BY <1>2, <1>a, <2>3 DEF WriteChunk
    <3> QED BY <3>1 DEF NoStrayTemp
  <2> QED
    BY <2>4, <2>5, <2>6, <2>7
<1>3. CASE WriteFails(c)
  <2>1. HasTemp(c, "PART")
    BY <1>3 DEF WriteFails, Gathered, GatheredAt
  <2>2. /\ temp' \in [Conn -> [Temp -> File \cup {NoFile}]]
        /\ temp'[c]["PART"] # NoFile
        /\ \A d \in Conn, u \in Temp : d # c \/ u # "PART" => temp'[d][u] = temp[d][u]
    <3>1. CASE temp' = temp
      BY <2>1, <3>1 DEF TypeOK, HasTemp
    <3>2. CASE Store(c, "PART", 0)
      BY <1>a, <2>1, <3>2, StoreType DEF TypeOK
    <3> QED
      BY <1>3, <3>1, <3>2 DEF WriteFails
  <2>3. TypeOK'
    BY <1>3, <2>2 DEF WriteFails, TypeOK
  <2>4. Gathered'
    <3>1. /\ pc'[c] = "idle" /\ open[c] /\ open' = open /\ failed'[c]
      BY <1>3 DEF WriteFails, TypeOK
    <3>2. GatheredAt(c)'
      BY ONLY <2>2, <3>1 DEF GatheredAt, HasTemp, Promoting
    <3>3. \A d \in Conn : d # c =>
            /\ pc'[d] = pc[d] /\ open'[d] = open[d] /\ failed'[d] = failed[d]
            /\ received'[d] = received[d] /\ source'[d] = source[d]
      BY <1>3 DEF WriteFails, TypeOK
    <3> HIDE DEF FileInv
    <3> QED
      BY <2>2, <3>2, <3>3, OthersGathered
  <2>5. WholeFiles'
    BY <1>3 DEF WriteFails, WholeFiles, NeverCorrupt, IsWhole
  <2>6. NoStrayTemp'
    <3>1. /\ UNCHANGED <<crashed, pc, open, source>> /\ open[c]
          /\ \A d \in Conn : /\ d # c => temp'[d]["PART"] = temp[d]["PART"]
                            /\ temp'[d]["DLPART"] = temp[d]["DLPART"]
      BY <1>3, <1>a, <2>2 DEF WriteFails
    <3> QED BY <3>1 DEF NoStrayTemp
  <2> QED
    BY <2>3, <2>4, <2>5, <2>6
<1>4. CASE Commit(c)
  <2>1. CASE received[c] = Whole /\ StartPromotion(c, "PART") /\ temp' = temp
    <3>1. TypeOK'
      BY <1>4, <1>a, <2>1 DEF Commit, StartPromotion, TypeOK, Promoting
    <3>2. Gathered'
      BY <1>4, <2>1 DEF Commit, StartPromotion, Gathered, GatheredAt, HasTemp, TypeOK, Promoting, IsWhole
    <3>3. WholeFiles' /\ NoStrayTemp'
      BY <1>4, <2>1 DEF Commit, StartPromotion, WholeFiles, NeverCorrupt, IsWhole,
                        NoStrayTemp, TypeOK, Promoting
    <3> QED
      BY <3>1, <3>2, <3>3
  <2>2. CASE SetTemp(c, "PART", NoFile) /\ pc' = pc /\ NoPromotion
    <3>1. /\ temp' \in [Conn -> [Temp -> File \cup {NoFile}]]
          /\ temp'[c]["PART"] = NoFile
          /\ \A d \in Conn, u \in Temp : d # c \/ u # "PART" => temp'[d][u] = temp[d][u]
      BY <1>a, <2>2, SetTempType DEF TypeOK
    <3>2. TypeOK'
      BY <1>4, <2>2, <3>1 DEF Commit, NoPromotion, TypeOK
    <3>3. Gathered'
      BY <1>4, <1>a, <2>2, <3>1 DEF Commit, NoPromotion, Gathered, GatheredAt, HasTemp, TypeOK, Promoting, IsWhole
    <3>4. WholeFiles' /\ NoStrayTemp'
      BY <1>4, <1>a, <2>2, <3>1 DEF Commit, NoPromotion, WholeFiles, NeverCorrupt, IsWhole,
                                   NoStrayTemp, TypeOK
    <3> QED
      BY <3>2, <3>3, <3>4
  <2> QED
    BY <1>4, <2>1, <2>2 DEF Commit
<1>5. CASE Disconnect(c)
  <2>1. /\ temp' \in [Conn -> [Temp -> File \cup {NoFile}]]
        /\ temp'[c]["PART"] = NoFile
        /\ \A d \in Conn, u \in Temp : d # c \/ u # "PART" => temp'[d][u] = temp[d][u]
    BY <1>5, <1>a, SetTempType DEF Disconnect, TypeOK
  <2>2. TypeOK'
    BY <1>5, <2>1 DEF Disconnect, TypeOK
  <2>3. Gathered'
    BY <1>5, <1>a, <2>1 DEF Disconnect, Gathered, GatheredAt, HasTemp, TypeOK, Promoting, IsWhole
  <2>4. WholeFiles' /\ NoStrayTemp'
    BY <1>5, <1>a, <2>1 DEF Disconnect, WholeFiles, NeverCorrupt, IsWhole, NoStrayTemp, TypeOK
  <2> QED
    BY <2>2, <2>3, <2>4
<1> QED
  BY <1>1, <1>2, <1>3, <1>4, <1>5

\* A download that ends because all of the body has come has a whole file.
LEMMA DownloadKeeps ==
  ASSUME FileInv, ~ServerCuts, NEW c \in Conn,
         Download(c) \/ Fetch(c) \/ BodyEnds(c) \/ FetchFails(c)
  PROVE  FileInv'
<1> USE TransferAssumption DEF FileInv, Goto, hist
<1>a. "PART" \in Temp /\ "DLPART" \in Temp /\ NoFile \in File \cup {NoFile}
  BY DEF Temp
<1>1. CASE Download(c)
  <2> DEFINE f == [from |-> started', data |-> <<>>]
  <2>1. started' \in 0 .. MaxTransfers
    BY <1>1 DEF Download, TypeOK
  <2>2. f \in File /\ f.data = <<>>
    BY <2>1 DEF File
  <2>3. f # NoFile
    BY <2>2
  <2>4. SetTemp(c, "DLPART", f)
    BY <1>1 DEF Download
  <2> HIDE DEF f
  <2>5. /\ temp' \in [Conn -> [Temp -> File \cup {NoFile}]]
        /\ temp'[c]["DLPART"] = f
        /\ \A d \in Conn, u \in Temp : d # c \/ u # "DLPART" => temp'[d][u] = temp[d][u]
    BY <1>a, <2>2, <2>4, SetTempType DEF TypeOK
  <2>6. TypeOK'
    BY <1>1, <2>1, <2>5 DEF Download, TypeOK
  <2>7. Gathered'
    <3>1. Len(temp'[c]["DLPART"].data) = 0 /\ Blocks >= 0
      BY <2>2, <2>5
    <3>2. /\ pc'[c] = "fetch" /\ temp'[c]["DLPART"] # NoFile
          /\ UNCHANGED <<temp[c]["PART"], open, failed, received>>
      BY <1>1, <1>a, <2>3, <2>5 DEF Download, TypeOK
    <3>3. GatheredAt(c)'
      BY <3>1, <3>2 DEF Gathered, GatheredAt, HasTemp, Promoting
    <3> QED
      BY <1>1, <2>5, <3>3, OthersGathered DEF Download, TypeOK
  <2>8. WholeFiles' /\ NoStrayTemp'
    BY <1>1, <1>a, <2>5 DEF Download, WholeFiles, NeverCorrupt, IsWhole, NoStrayTemp, TypeOK, Promoting
  <2> QED
    BY <2>6, <2>7, <2>8
<1>2. CASE Fetch(c)
  <2> DEFINE d0 == temp[c]["DLPART"].data
  <2>1. HasTemp(c, "DLPART") /\ Len(d0) + 1 \in 0 .. Blocks
    BY <1>2, <1>a DEF Fetch, Gathered, GatheredAt, HasTemp, TypeOK, File
  <2>2. /\ temp' \in [Conn -> [Temp -> File \cup {NoFile}]]
        /\ temp'[c]["DLPART"] \in File
        /\ d0 \in Seq(0 .. Blocks)
        /\ temp'[c]["DLPART"].data = Append(d0, Len(d0) + 1)
        /\ \A d \in Conn, u \in Temp : d # c \/ u # "DLPART" => temp'[d][u] = temp[d][u]
    BY <1>2, <1>a, <2>1, StoreType DEF Fetch, TypeOK
  <2>3. TypeOK'
    BY <1>2, <2>2 DEF Fetch, conns, TypeOK
  <2>4. /\ Len(temp'[c]["DLPART"].data) <= Blocks
        /\ \A i \in 1 .. Len(temp'[c]["DLPART"].data) : temp'[c]["DLPART"].data[i] = i
    <3>1. \A i \in 1 .. Len(d0) : d0[i] = i
      BY <1>2 DEF Fetch, Gathered, GatheredAt
    <3> QED BY ONLY <2>1, <2>2, <3>1
  <2>5. Gathered'
    <3>1. GatheredAt(c)'
      <4>1. /\ pc[c] = "fetch" /\ pc' = pc /\ open' = open /\ failed' = failed
            /\ received' = received /\ GatheredAt(c) /\ temp'[c]["PART"] = temp[c]["PART"]
        BY <1>2, <1>a, <2>2 DEF Fetch, conns, Gathered
      <4>2. temp'[c]["DLPART"] # NoFile
        BY <2>2
      <4> QED BY ONLY <2>4, <4>1, <4>2 DEF GatheredAt, HasTemp, Promoting
    <3> QED
      BY <1>2, <2>2, <3>1, OthersGathered DEF Fetch, conns
  <2>6. WholeFiles' /\ NoStrayTemp'
    BY <1>2, <1>a, <2>2 DEF Fetch, conns, WholeFiles, NeverCorrupt, IsWhole, NoStrayTemp, TypeOK
  <2> QED
    BY <2>3, <2>5, <2>6
<1>3. CASE BodyEnds(c)
  <2> DEFINE d0 == temp[c]["DLPART"].data
  <2>1. d0 \in Seq(0 .. Blocks) /\ Len(d0) = Blocks
    BY <1>3, <1>a DEF BodyEnds, Gathered, GatheredAt, HasTemp, TypeOK, File
  <2>2. \A i \in 1 .. Blocks : d0[i] = i
    BY <1>3, <2>1 DEF BodyEnds, Gathered, GatheredAt
  <2>3. d0 = Whole
    BY <2>1, <2>2 DEF Whole
  <2>4. IsWhole(temp[c]["DLPART"])
    BY <1>3, <2>3 DEF BodyEnds, Gathered, GatheredAt, HasTemp, IsWhole
  <2>5. TypeOK'
    BY <1>3, <1>a DEF BodyEnds, StartPromotion, files, TypeOK, Promoting
  <2>6. Gathered'
    BY <1>3, <2>4 DEF BodyEnds, StartPromotion, files, Gathered, GatheredAt, HasTemp, TypeOK, Promoting, IsWhole
  <2>7. WholeFiles' /\ NoStrayTemp'
    BY <1>3 DEF BodyEnds, StartPromotion, files, WholeFiles, NeverCorrupt, IsWhole,
                NoStrayTemp, TypeOK, Promoting
  <2> QED
    BY <2>5, <2>6, <2>7
<1>4. CASE FetchFails(c)
  <2>1. /\ temp' \in [Conn -> [Temp -> File \cup {NoFile}]]
        /\ temp'[c]["DLPART"] = NoFile
        /\ \A d \in Conn, u \in Temp : d # c \/ u # "DLPART" => temp'[d][u] = temp[d][u]
    BY <1>4, <1>a, SetTempType DEF FetchFails, TypeOK
  <2>2. TypeOK'
    BY <1>4, <2>1 DEF FetchFails, TypeOK
  <2>3. Gathered'
    BY <1>4, <1>a, <2>1 DEF FetchFails, Gathered, GatheredAt, HasTemp, TypeOK, Promoting, IsWhole
  <2>4. WholeFiles' /\ NoStrayTemp'
    BY <1>4, <1>a, <2>1 DEF FetchFails, WholeFiles, NeverCorrupt, IsWhole, NoStrayTemp, TypeOK, Promoting
  <2> QED
    BY <2>2, <2>3, <2>4
<1> QED
  BY <1>1, <1>2, <1>3, <1>4

\* The calls of v9x_promote_temp: what is put in place, moved away or back is
\* whole, and every way out takes the temporary file with it.
LEMMA PromoteKeeps ==
  ASSUME FileInv, NEW c \in Conn, Promote(c)
  PROVE  FileInv'
<1> USE DEF FileInv, Goto, hist
<1>a. source[c] \in Temp /\ NoFile \in File \cup {NoFile}
  BY DEF TypeOK
<1>b. ASSUME SetTemp(c, source[c], NoFile)
      PROVE  /\ temp' \in [Conn -> [Temp -> File \cup {NoFile}]]
             /\ temp'[c][source[c]] = NoFile
             /\ \A d \in Conn, u \in Temp : d # c \/ u # source[c] => temp'[d][u] = temp[d][u]
  BY <1>a, <1>b, SetTempType DEF TypeOK
<1>1. CASE Attributes(c) \/ Unbackup(c) \/ Clean(c)
  <2> USE <1>1 DEF Attributes, Unbackup, Clean, files
  <2>1. TypeOK'
    BY DEF TypeOK, Promoting
  <2>2. Gathered'
    BY DEF Gathered, GatheredAt, HasTemp, TypeOK, Promoting, IsWhole
  <2>3. WholeFiles'
    BY DEF WholeFiles, NeverCorrupt, IsWhole
  <2>4. NoStrayTemp'
    BY DEF NoStrayTemp, Gathered, GatheredAt, HasTemp, TypeOK, Promoting, Temp
  <2> QED
    BY <2>1, <2>2, <2>3, <2>4
<1>2. CASE Away(c)
  <2> USE <1>2 DEF Away, CanMoveAway
  <2>1. TypeOK'
    BY DEF TypeOK, Promoting
  <2>2. Gathered'
    BY DEF Gathered, GatheredAt, HasTemp, TypeOK, Promoting, IsWhole
  <2>3. WholeFiles'
    BY DEF WholeFiles, NeverCorrupt, IsWhole
  <2>4. NoStrayTemp'
    BY DEF NoStrayTemp, TypeOK, Promoting
  <2> QED
    BY <2>1, <2>2, <2>3, <2>4
<1>3. CASE AwayFails(c)
  <2> USE <1>3, <1>b DEF AwayFails
  <2>1. TypeOK'
    BY CountType DEF TypeOK, Promoting
  <2>2. Gathered'
    <3>1. GatheredAt(c)'
      BY DEF Gathered, GatheredAt, HasTemp, TypeOK, Promoting, Temp
    <3> QED
      BY <3>1, OthersGathered DEF TypeOK
  <2>3. WholeFiles' /\ NoStrayTemp'
    BY DEF WholeFiles, NeverCorrupt, IsWhole, NoStrayTemp, TypeOK, Promoting, Temp
  <2> QED
    BY <2>1, <2>2, <2>3
<1>4. CASE Place(c)
  <2> USE <1>4, <1>b DEF Place
  <2>1. IsWhole(final') /\ final' \in File
    BY <1>a DEF Gathered, GatheredAt, TypeOK, Promoting, IsWhole
  <2>2. placed' \in 0 .. MaxTransfers
    BY <2>1 DEF File
  <2>3. TypeOK'
    BY <2>1, <2>2 DEF TypeOK, Promoting
  <2>4. Gathered'
    <3>1. GatheredAt(c)'
      BY DEF Gathered, GatheredAt, HasTemp, TypeOK, Promoting, Temp
    <3> QED
      BY <3>1, OthersGathered DEF TypeOK
  <2>5. WholeFiles' /\ NoStrayTemp'
    BY <2>1 DEF WholeFiles, NeverCorrupt, IsWhole, NoStrayTemp, TypeOK, Promoting, Temp
  <2> QED
    BY <2>3, <2>4, <2>5
<1>5. CASE PlaceFails(c)
  <2>1. CASE backedUp[c]
    <3> USE <1>5, <2>1 DEF PlaceFails
    <3>1. TypeOK'
      BY CountType DEF TypeOK, Promoting
    <3>2. Gathered'
      BY DEF Gathered, GatheredAt, HasTemp, TypeOK, Promoting, IsWhole
    <3>3. WholeFiles' /\ NoStrayTemp'
      BY DEF WholeFiles, NeverCorrupt, IsWhole, NoStrayTemp, TypeOK, Promoting
    <3> QED
      BY <3>1, <3>2, <3>3
  <2>2. CASE ~backedUp[c]
    <3> USE <1>5, <1>b, <2>2 DEF PlaceFails
    <3>1. TypeOK'
      BY CountType DEF TypeOK, Promoting
    <3>2. Gathered'
      <4>1. GatheredAt(c)'
        BY DEF Gathered, GatheredAt, HasTemp, TypeOK, Promoting, Temp
      <4>2. \A d \in Conn, t \in Temp : d # c => temp'[d][t] = temp[d][t]
        BY DEF Temp
      <4>3. \A d \in Conn : d # c => pc'[d] = pc[d]
        BY DEF TypeOK
      <4> QED
        BY <4>1, <4>2, <4>3, OthersGathered
    <3>3. WholeFiles' /\ NoStrayTemp'
      BY DEF WholeFiles, NeverCorrupt, IsWhole, NoStrayTemp, TypeOK, Promoting, Temp
    <3> QED
      BY <3>1, <3>2, <3>3
  <2> QED
    BY <2>1, <2>2
<1>6. CASE Rollback(c)
  <2> USE <1>6, <1>b DEF Rollback, CanRollback
  <2>1. TypeOK'
    BY CountType DEF TypeOK, Promoting
  <2>2. Gathered'
    <3>1. GatheredAt(c)'
      BY DEF Gathered, GatheredAt, HasTemp, TypeOK, Promoting, Temp
    <3> QED
      BY <3>1, OthersGathered DEF TypeOK
  <2>3. WholeFiles' /\ NoStrayTemp'
    BY DEF WholeFiles, NeverCorrupt, IsWhole, NoStrayTemp, TypeOK, Promoting, Temp
  <2> QED
    BY <2>1, <2>2, <2>3
<1> QED
  BY <1>1, <1>2, <1>3, <1>4, <1>5, <1>6 DEF Promote

\* Reading the destination, and going down, change no file.
LEMMA OthersKeep ==
  ASSUME FileInv, (\E c \in Conn : OpenRead(c) \/ EndRead(c)) \/ Crash
  PROVE  FileInv'
<1> USE DEF FileInv, Goto, hist, files
<1>1. CASE \E c \in Conn : OpenRead(c) \/ EndRead(c)
  <2> USE <1>1 DEF OpenRead, EndRead
  <2>1. TypeOK'
    BY DEF TypeOK
  <2>2. Gathered'
    BY DEF Gathered, GatheredAt, HasTemp, TypeOK, Promoting, IsWhole
  <2>3. WholeFiles' /\ NoStrayTemp'
    BY DEF WholeFiles, NeverCorrupt, IsWhole, NoStrayTemp, TypeOK, Promoting
  <2> QED
    BY <2>1, <2>2, <2>3
<1>2. CASE Crash
  <2> USE <1>2 DEF Crash
  <2>1. TypeOK'
    BY DEF TypeOK
  <2>2. Gathered' /\ WholeFiles' /\ NoStrayTemp'
    BY DEF Gathered, GatheredAt, WholeFiles, NeverCorrupt, IsWhole, NoStrayTemp, Promoting
  <2> QED
    BY <2>1, <2>2
<1> QED
  BY <1>1, <1>2

\* Every step keeps the invariant.
LEMMA NextFiles ==
  ASSUME FileInv, ~ClientResends, ~ServerCuts, [Next]_vars
  PROVE  FileInv'
<1>1. CASE UNCHANGED vars
  BY <1>1 DEF FileInv, TypeOK, Gathered, GatheredAt, HasTemp, WholeFiles, NeverCorrupt, IsWhole,
              NoStrayTemp, vars, files, conns, hist
<1> QED
  BY <1>1, UploadKeeps, DownloadKeeps, PromoteKeeps, OthersKeep DEF Next

-----------------------------------------------------------------------------
(***************************************************************************)
(* A version survives.  While promotions do not overlap there is at most   *)
(* one, and there is a destination file whenever that one is about to      *)
(* delete the backup or to move the destination away.                      *)
(***************************************************************************)
Alone == \A c, d \in Conn : pc[c] \in Promoting /\ pc[d] \in Promoting => c = d

HasFinal == \A c \in Conn : pc[c] \in {"unbackup", "away", "clean"} => final # NoFile

KeptInv == Kept /\ (~overlapped => Alone /\ HasFinal)

\* A step that neither changes the files nor begins or advances a promotion.
LEMMA KeptSame ==
  ASSUME KeptInv, UNCHANGED <<final, backup, placed, overlapped>>,
         \A d \in Conn : pc'[d] \in Promoting => pc'[d] = pc[d]
  PROVE  KeptInv'
  BY DEF KeptInv, Kept, IsWhole, Alone, HasFinal, Promoting

\* A promotion begins: it is alone, or overlaps.
LEMMA KeptStart ==
  ASSUME KeptInv, TypeOK, NEW c \in Conn, NEW t, pc[c] \notin Promoting,
         StartPromotion(c, t), UNCHANGED <<final, backup, placed>>
  PROVE  KeptInv'
<1>1. /\ pc' = [pc EXCEPT ![c] = "attributes"]
      /\ overlapped' = (overlapped \/ \E d \in Conn \ {c} : pc[d] \in Promoting)
  BY DEF StartPromotion, Goto
<1>2. Kept'
  BY <1>1 DEF KeptInv, Kept, IsWhole, TypeOK
<1>3. ASSUME ~overlapped' PROVE Alone' /\ HasFinal'
  BY <1>1, <1>3 DEF KeptInv, Alone, HasFinal, Promoting, TypeOK
<1> QED
  BY <1>2, <1>3 DEF KeptInv

\* A promotion's call keeps a version, and it stays the only one.
LEMMA KeptPromote ==
  ASSUME KeptInv, FileInv, NEW c \in Conn, Promote(c)
  PROVE  KeptInv'
<1>1. /\ pc[c] \in Promoting /\ overlapped' = overlapped
      /\ pc' \in [Conn -> Promoting \cup {"idle", "fetch", "read"}]
      /\ \A d \in Conn : d # c => pc'[d] = pc[d]
  BY DEF Promote, Attributes, Unbackup, Away, AwayFails, Place, PlaceFails, Rollback, Clean,
         Goto, Promoting, FileInv, TypeOK, hist
<1>2. ~overlapped => Alone'
  BY <1>1 DEF KeptInv, Alone
<1>3. ASSUME ~overlapped, HasFinal, Alone, Kept PROVE Kept' /\ HasFinal'
  <2>1. \A d \in Conn : d # c => pc'[d] \notin Promoting
    BY <1>1, <1>3 DEF Alone
  <2>2. \A d \in Conn : d # c => pc'[d] \notin {"unbackup", "away", "clean"}
    BY <2>1 DEF Promoting
  <2> USE <1>3, <2>2 DEF FileInv, Kept, HasFinal, IsWhole, Goto, hist, files
  <2>3. CASE Attributes(c)
    BY <2>3 DEF Attributes, TypeOK
  <2>4. CASE Unbackup(c)
    BY <2>4 DEF Unbackup, TypeOK, WholeFiles, NeverCorrupt
  <2>5. CASE Away(c)
    BY <2>5 DEF Away, CanMoveAway, TypeOK, WholeFiles, NeverCorrupt
  <2>6. CASE AwayFails(c)
    BY <2>6 DEF AwayFails, TypeOK
  <2>7. CASE Place(c)
    BY <2>7 DEF Place, TypeOK, Gathered, GatheredAt, Promoting
  <2>8. CASE PlaceFails(c)
    BY <2>8 DEF PlaceFails, TypeOK
  <2>9. CASE Rollback(c)
    BY <2>9 DEF Rollback, CanRollback, TypeOK
  <2>10. CASE Clean(c)
    BY <2>10 DEF Clean, TypeOK, WholeFiles, NeverCorrupt
  <2> QED
    BY <2>3, <2>4, <2>5, <2>6, <2>7, <2>8, <2>9, <2>10 DEF Promote
<1> QED
  BY <1>1, <1>2, <1>3 DEF KeptInv, Kept

\* Every step leaves a whole version somewhere.
LEMMA NextKept ==
  ASSUME KeptInv, FileInv, [Next]_vars
  PROVE  KeptInv'
<1> USE DEF FileInv
<1>1. CASE UNCHANGED vars
  BY <1>1, KeptSame DEF vars, files, conns, hist
<1>2. CASE Crash
  BY <1>2, KeptSame DEF Crash, files, Promoting
<1>3. ASSUME NEW c \in Conn,
             \/ OpenWrite(c) \/ WriteChunk(c) \/ WriteFails(c) \/ Disconnect(c)
             \/ Download(c) \/ Fetch(c) \/ FetchFails(c) \/ OpenRead(c) \/ EndRead(c)
      PROVE  KeptInv'
  <2>1. UNCHANGED <<final, backup, placed, overlapped>>
    BY <1>3 DEF OpenWrite, WriteChunk, WriteFails, Disconnect, Download, Fetch, FetchFails,
                OpenRead, EndRead, files, hist
  <2>2. \A d \in Conn : pc'[d] \in Promoting => pc'[d] = pc[d]
    BY <1>3 DEF OpenWrite, WriteChunk, WriteFails, Disconnect, Download, Fetch, FetchFails,
                OpenRead, EndRead, conns, Goto, TypeOK, Promoting
  <2> QED
    BY <2>1, <2>2, KeptSame
<1>4. ASSUME NEW c \in Conn, Commit(c) \/ BodyEnds(c)
      PROVE  KeptInv'
  <2>1. /\ pc[c] \notin Promoting
        /\ UNCHANGED <<final, backup, placed>>
    BY <1>4 DEF Commit, BodyEnds, Promoting, files
  <2>2. CASE \E t : StartPromotion(c, t)
    BY <2>1, <2>2, KeptStart
  <2>3. CASE pc' = pc /\ NoPromotion
    BY <2>1, <2>3, KeptSame DEF NoPromotion
  <2> QED
    BY <1>4, <2>2, <2>3 DEF Commit, BodyEnds
<1> QED
  BY <1>1, <1>2, <1>3, <1>4, KeptPromote DEF Next

-----------------------------------------------------------------------------
(***************************************************************************)
(* The destination settles.  A file in the destination is always the one   *)
(* put in place last, and so is the backup while there is no destination.  *)
(* What is left to show is that the destination does not stay empty: some  *)
(* promotion is about to place its file, if no rename has failed for       *)
(* reasons of its own, however promotions overlap; and if none overlap,    *)
(* one that can still go back will, once.                                  *)
(***************************************************************************)
Latest ==
  /\ final # NoFile => final.from = placed
  /\ final = NoFile /\ backup # NoFile => backup.from = placed

Emptied == ~crashed /\ placed # NoFile /\ final = NoFile

Coming == Emptied /\ flaky = 0 => \E c \in Conn : pc[c] = "place"

Returning == Emptied /\ ~overlapped /\ flaky <= 1 =>
  /\ backup # NoFile
  /\ \E c \in Conn : (pc[c] = "place" /\ backedUp[c]) \/ (pc[c] = "rollback" /\ flaky = 1)

LatestInv == Latest /\ Coming /\ Returning

\* A step that changes no file and leaves alone who is to place or to go back.
LEMMA LatestSame ==
  ASSUME LatestInv, UNCHANGED <<final, backup, placed, flaky>>,
         crashed => crashed', overlapped => overlapped',
         \A d \in Conn : pc[d] \in {"place", "rollback"} =>
                           pc'[d] = pc[d] /\ backedUp'[d] = backedUp[d]
  PROVE  LatestInv'
<1>1. Latest'
  BY DEF LatestInv, Latest
<1>2. Coming'
  BY DEF LatestInv, Coming, Emptied
<1>3. Returning'
  <2> SUFFICES ASSUME Emptied', ~overlapped', flaky' <= 1
               PROVE  backup' # NoFile /\ \E c \in Conn :
                        \/ pc'[c] = "place" /\ backedUp'[c]
                        \/ pc'[c] = "rollback" /\ flaky' = 1
    BY DEF Returning
  <2>1. backup # NoFile
    BY DEF LatestInv, Returning, Emptied
  <2>2. PICK c \in Conn : (pc[c] = "place" /\ backedUp[c]) \/ (pc[c] = "rollback" /\ flaky = 1)
    BY DEF LatestInv, Returning, Emptied
  <2> QED
    BY <2>1, <2>2
<1> QED
  BY <1>1, <1>2, <1>3 DEF LatestInv

\* A promotion's call.
LEMMA LatestPromote ==
  ASSUME LatestInv, KeptInv, FileInv, NEW c \in Conn, Promote(c)
  PROVE  LatestInv'
<1> USE DEF FileInv, LatestInv, Goto, files, hist
<1>1. /\ pc[c] \in Promoting /\ overlapped' = overlapped /\ crashed' = crashed
      /\ pc' \in [Conn -> Promoting \cup {"idle", "fetch", "read"}]
      /\ \A d \in Conn : d # c => pc'[d] = pc[d] /\ backedUp'[d] = backedUp[d]
  BY DEF Promote, Attributes, Unbackup, Away, AwayFails, Place, PlaceFails, Rollback, Clean,
         Promoting, TypeOK
<1>2. ASSUME ~overlapped, NEW d \in Conn, pc[d] \in Promoting PROVE d = c
  BY <1>1, <1>2 DEF KeptInv, Alone
<1>3. flaky \in 0 .. 2
  BY DEF TypeOK
<1>4. CASE Attributes(c)
  <2>1. Latest'
    BY <1>4 DEF Attributes, Latest
  <2>2. Coming'
    BY <1>1, <1>4 DEF Attributes, Coming, Emptied
  <2>3. Returning'
    BY <1>1, <1>2, <1>4 DEF Attributes, Returning, Emptied, Promoting
  <2> QED
    BY <2>1, <2>2, <2>3
<1>5. CASE Unbackup(c)
  <2>1. Latest'
    BY <1>5 DEF Unbackup, Latest
  <2>2. Coming'
    BY <1>1, <1>5 DEF Unbackup, Coming, Emptied
  <2>3. Returning'
    BY <1>1, <1>2, <1>5 DEF Unbackup, Returning, Emptied, Promoting
  <2> QED
    BY <2>1, <2>2, <2>3
<1>6. CASE Away(c)
  <2>1. /\ backup' = final /\ final # NoFile /\ final' = NoFile /\ placed' = placed
        /\ pc'[c] = "place" /\ backedUp'[c] = TRUE
    BY <1>6 DEF Away, CanMoveAway, TypeOK
  <2>2. Latest'
    BY <2>1 DEF Latest
  <2>3. Coming' /\ Returning'
    BY <2>1 DEF Coming, Returning
  <2> QED
    BY <2>2, <2>3
<1>7. CASE AwayFails(c)
  <2>1. /\ UNCHANGED <<final, backup, placed>>
        /\ flaky' = flaky \/ (CanMoveAway /\ flaky' = flaky + 1)
        /\ pc[c] = "away"
    BY <1>3, <1>7 DEF AwayFails, CountIf
  <2>2. CASE final # NoFile
    BY <2>1, <2>2 DEF Latest, Coming, Returning, Emptied
  <2>3. CASE final = NoFile
    <3>1. flaky' = flaky
      BY <2>1, <2>3 DEF CanMoveAway
    <3>2. \A d \in Conn : pc[d] \in {"place", "rollback"} =>
            pc'[d] = pc[d] /\ backedUp'[d] = backedUp[d]
      BY <1>1, <2>1
    <3> QED
      BY <1>1, <2>1, <3>1, <3>2, LatestSame
  <2> QED
    BY <2>2, <2>3
<1>8. CASE Place(c)
  <2>1. placed' = final'.from /\ final' # NoFile
    BY <1>8 DEF Place, Gathered, GatheredAt, IsWhole, Promoting
  <2> QED
    BY <2>1 DEF Latest, Coming, Returning, Emptied
<1>9. CASE PlaceFails(c)
  <2>1. /\ UNCHANGED <<final, backup, placed>> /\ pc[c] = "place"
        /\ CountIf(final = NoFile)
        /\ backedUp[c] => pc'[c] = "rollback"
    BY <1>9 DEF PlaceFails, TypeOK
  <2>2. CASE final # NoFile
    BY <2>1, <2>2 DEF Latest, Coming, Returning, Emptied
  <2>3. CASE final = NoFile
    <3>1. (flaky = 0 /\ flaky' = 1) \/ flaky' = 2
      BY <1>3, <2>1, <2>3 DEF CountIf
    <3>2. Latest' /\ Coming'
      BY <2>1, <3>1 DEF Latest, Coming
    <3>3. Returning'
      <4> SUFFICES ASSUME Emptied', ~overlapped', flaky' <= 1
                   PROVE  backup' # NoFile /\ pc'[c] = "rollback" /\ flaky' = 1
        BY DEF Returning
      <4>1. Emptied /\ ~overlapped /\ flaky = 0
        BY <1>1, <2>1, <3>1 DEF Emptied
      <4>2. backup # NoFile
        BY <4>1 DEF Returning
      <4>3. PICK d \in Conn : (pc[d] = "place" /\ backedUp[d]) \/ (pc[d] = "rollback" /\ flaky = 1)
        BY <4>1 DEF Returning
      <4>4. d = c
        BY <1>2, <4>1, <4>3 DEF Promoting
      <4> QED
        BY <2>1, <3>1, <4>1, <4>2, <4>3, <4>4
    <3> QED
      BY <3>2, <3>3
  <2> QED
    BY <2>2, <2>3
<1>10. CASE Rollback(c)
  <2>0. pc[c] = "rollback" /\ placed' = placed
    BY <1>10 DEF Rollback
  <2>1. CASE CanRollback /\ final' = backup
    BY <2>0, <2>1 DEF CanRollback, Latest, Coming, Returning, Emptied
  <2>2. CASE CountIf(CanRollback) /\ UNCHANGED <<final, backup>>
    <3>1. CASE final # NoFile
      BY <2>0, <2>2, <3>1 DEF Latest, Coming, Returning, Emptied
    <3>2. CASE final = NoFile /\ backup = NoFile
      <4>1. flaky' = flaky
        BY <2>2, <3>2 DEF CountIf, CanRollback
      <4>2. Coming'
        BY <1>1, <2>0, <2>2, <4>1 DEF Coming, Emptied
      <4> QED
        BY <1>1, <2>0, <2>2, <3>2, <4>1, <4>2 DEF Latest, Returning, Emptied
    <3>3. CASE final = NoFile /\ backup # NoFile
      <4>1. (flaky = 0 /\ flaky' = 1) \/ flaky' = 2
        BY <1>3, <2>2, <3>3 DEF CountIf, CanRollback
      <4>2. Latest' /\ Coming'
        BY <2>0, <2>2, <4>1 DEF Latest, Coming
      <4>3. Returning'
        <5> SUFFICES ASSUME Emptied', ~overlapped', flaky' <= 1
                     PROVE  FALSE
          BY DEF Returning
        <5>1. Emptied /\ ~overlapped /\ flaky = 0
          BY <1>1, <2>0, <2>2, <4>1 DEF Emptied
        <5>2. PICK d \in Conn : (pc[d] = "place" /\ backedUp[d]) \/ (pc[d] = "rollback" /\ flaky = 1)
          BY <5>1 DEF Returning
        <5> QED
          BY <1>2, <2>0, <5>1, <5>2 DEF Promoting
      <4> QED
        BY <4>2, <4>3
    <3> QED
      BY <3>1, <3>2, <3>3
  <2> QED
    BY <1>10, <2>1, <2>2 DEF Rollback
<1>11. CASE Clean(c)
  <2>1. Latest'
    BY <1>11 DEF Clean, Latest
  <2>2. Coming'
    BY <1>1, <1>11 DEF Clean, Coming, Emptied
  <2>3. Returning'
    BY <1>1, <1>2, <1>11 DEF Clean, Returning, Emptied, Promoting
  <2> QED
    BY <2>1, <2>2, <2>3
<1> QED
  BY <1>4, <1>5, <1>6, <1>7, <1>8, <1>9, <1>10, <1>11 DEF Promote

\* Every step keeps the destination settled, or on its way to be.
LEMMA NextLatest ==
  ASSUME LatestInv, KeptInv, FileInv, [Next]_vars
  PROVE  LatestInv'
<1> USE DEF FileInv
<1>1. CASE UNCHANGED vars
  BY <1>1, LatestSame DEF vars, files, conns, hist
<1>2. CASE Crash
  BY <1>2 DEF Crash, files, LatestInv, Latest, Coming, Returning, Emptied
<1>3. ASSUME NEW c \in Conn,
             \/ OpenWrite(c) \/ WriteChunk(c) \/ WriteFails(c) \/ Disconnect(c)
             \/ Download(c) \/ Fetch(c) \/ FetchFails(c) \/ OpenRead(c) \/ EndRead(c)
      PROVE  LatestInv'
  <2>1. UNCHANGED <<final, backup, placed, flaky, backedUp, crashed, overlapped>>
    BY <1>3 DEF OpenWrite, WriteChunk, WriteFails, Disconnect, Download, Fetch, FetchFails,
                OpenRead, EndRead, files, hist, conns
  <2>2. \A d \in Conn : pc[d] \in {"place", "rollback"} => pc'[d] = pc[d]
    BY <1>3 DEF OpenWrite, WriteChunk, WriteFails, Disconnect, Download, Fetch, FetchFails,
                OpenRead, EndRead, conns, Goto, TypeOK
  <2> QED
    BY <2>1, <2>2, LatestSame
<1>4. ASSUME NEW c \in Conn, Commit(c) \/ BodyEnds(c)
      PROVE  LatestInv'
  <2>1. /\ pc[c] \in {"idle", "fetch"}
        /\ UNCHANGED <<final, backup, placed, flaky, crashed>>
    BY <1>4 DEF Commit, BodyEnds, files
  <2>2. /\ overlapped => overlapped'
        /\ \A d \in Conn : d # c => pc'[d] = pc[d] /\ backedUp'[d] = backedUp[d]
    BY <1>4 DEF Commit, BodyEnds, StartPromotion, NoPromotion, Goto, TypeOK
  <2> QED
    BY <2>1, <2>2, LatestSame
<1> QED
  BY <1>1, <1>2, <1>3, <1>4, LatestPromote DEF Next

-----------------------------------------------------------------------------
\* TypeOK: however transfers, failures and crashes interleave, every file and
\* every counter stays within its type; nothing is put in place that is not there.
THEOREM TypeCorrect ==
  ASSUME ~ClientResends, ~ServerCuts
  PROVE  Spec => []TypeOK
<1>1. FileInv /\ [Next]_vars => FileInv'
  BY NextFiles
<1>2. FileInv => TypeOK
  BY DEF FileInv
<1> QED
  BY InitFiles, <1>1, <1>2, PTL DEF Spec

\* NeverCorrupt: as long as clients give up after a failed write and servers send
\* what they announced, the destination is never anything but a whole file,
\* however many connections upload, download and promote to it at once.
THEOREM DestinationWhole ==
  ASSUME ~ClientResends, ~ServerCuts
  PROVE  Spec => []NeverCorrupt
<1>1. FileInv /\ [Next]_vars => FileInv'
  BY NextFiles
<1>2. FileInv => NeverCorrupt
  BY DEF FileInv, WholeFiles
<1> QED
  BY InitFiles, <1>1, <1>2, PTL DEF Spec

\* NoStrayTemp: v9x_promote_temp, FILE_COMMIT, v9x_files_disconnect and a failed
\* download leave no temporary file that no transfer is using.
THEOREM NothingStray ==
  ASSUME ~ClientResends, ~ServerCuts
  PROVE  Spec => []NoStrayTemp
<1>1. FileInv /\ [Next]_vars => FileInv'
  BY NextFiles
<1>2. FileInv => NoStrayTemp
  BY DEF FileInv
<1> QED
  BY InitFiles, <1>1, <1>2, PTL DEF Spec

\* Kept: as long as no two promotions overlap, v9x_promote_temp always leaves a
\* whole version in the destination or in its backup, whatever fails and whenever
\* the machine goes down.
THEOREM VersionKept ==
  ASSUME ~ClientResends, ~ServerCuts
  PROVE  Spec => []Kept
<1>1. Init => KeptInv
  BY DEF Init, KeptInv, Kept, IsWhole, Alone, HasFinal, Promoting
<1>2. FileInv /\ KeptInv /\ [Next]_vars => FileInv' /\ KeptInv'
  BY NextFiles, NextKept
<1>3. KeptInv => Kept
  BY DEF KeptInv
<1> QED
  BY InitFiles, <1>1, <1>2, <1>3, PTL DEF Spec

\* Settled: once promotions are over, the destination is the file put in place last:
\* however they overlapped if no rename failed for reasons of its own, and even if one
\* did as long as none overlapped (v9x_promote_temp, with its rollback).
THEOREM DestinationSettles ==
  ASSUME ~ClientResends, ~ServerCuts
  PROVE  Spec => []Settled
<1>1. Init => KeptInv /\ LatestInv
  BY DEF Init, KeptInv, Kept, IsWhole, Alone, HasFinal, Promoting,
         LatestInv, Latest, Coming, Returning, Emptied
<1>2. FileInv /\ KeptInv /\ LatestInv /\ [Next]_vars => FileInv' /\ KeptInv' /\ LatestInv'
  BY NextFiles, NextKept, NextLatest
<1>3. FileInv /\ LatestInv => Settled
  <2>1. TypeOK => flaky \in 0 .. 2
    BY DEF TypeOK
  <2> QED
    BY <2>1 DEF FileInv, LatestInv, Latest, Coming, Returning, Emptied, Settled, Promoting
<1> QED
  BY InitFiles, <1>1, <1>2, <1>3, PTL DEF Spec
=============================================================================
