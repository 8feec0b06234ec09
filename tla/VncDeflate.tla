----------------------------- MODULE VncDeflate -----------------------------
(***************************************************************************)
(* The zlib encoder of ZRLE (src/guest/vncz.c): greedy matches with one    *)
(* candidate per hash of three bytes, fixed Huffman codes (RFC 1951), and  *)
(* a sync flush after every rectangle.  A stream is a sequence of bits, in *)
(* the order in which RFC 1951 3.1.1 packs them into bytes.                *)
(***************************************************************************)
EXTENDS Integers, Sequences, FiniteSets, SequencesExt, FiniteSetsExt

length_base   == <<3, 4, 5, 6, 7, 8, 9, 10, 11, 13, 15, 17, 19, 23, 27, 31,
                   35, 43, 51, 59, 67, 83, 99, 115, 131, 163, 195, 227, 258>>
length_extra  == <<0, 0, 0, 0, 0, 0, 0, 0, 1, 1, 1, 1, 2, 2, 2, 2,
                   3, 3, 3, 3, 4, 4, 4, 4, 5, 5, 5, 5, 0>>
distance_base == <<1, 2, 3, 4, 5, 7, 9, 13, 17, 25, 33, 49, 65, 97, 129, 193, 257, 385, 513,
                   769, 1025, 1537, 2049, 3073, 4097, 6145, 8193, 12289, 16385, 24577>>
distance_extra == <<0, 0, 0, 0, 1, 1, 2, 2, 3, 3, 4, 4, 5, 5, 6, 6,
                    7, 7, 8, 8, 9, 9, 10, 10, 11, 11, 12, 12, 13, 13>>
EndOfBlock == 256
HashBits   == 12

\* vnc_bits_put: the low bits first; vnc_bits_code: the high bits first.
Put(value, count)  == [i \in 1 .. count |-> (value \div 2 ^ (i - 1)) % 2]
Code(code, count)  == Reverse(Put(code, count))

\* vnc_symbol: the fixed code.
Symbol(s) ==
  CASE s < 144              -> Code(48 + s, 8)
    [] s \in 144 .. 255     -> Code(400 + s - 144, 9)
    [] s \in 256 .. 279     -> Code(s - 256, 7)
    [] s >= 280             -> Code(192 + s - 280, 8)

\* A match as its two symbols with their extra bits, each a pair <<value, count>>.
Slot(base, n) == Max({i \in DOMAIN base : base[i] <= n})
LengthSlot(length) == Slot(length_base, length)
DistanceSlot(distance) == Slot(distance_base, distance)

Literal(b) == [symbol |-> b, length |-> 1, distance |-> 0]
Match(length, distance) ==
  [symbol |-> 256 + LengthSlot(length), length |-> length, distance |-> distance]

LengthBits(t)   == Put(t.length - length_base[LengthSlot(t.length)],
                       length_extra[LengthSlot(t.length)])
DistanceBits(t) == Put(t.distance - distance_base[DistanceSlot(t.distance)],
                       distance_extra[DistanceSlot(t.distance)])

\* vnc_match, or the literal.
TokenBits(t) ==
  IF t.distance = 0 THEN Symbol(t.symbol)
  ELSE Symbol(t.symbol) \o LengthBits(t)
         \o Code(DistanceSlot(t.distance) - 1, 5) \o DistanceBits(t)

\* vnc_hash3 of the three bytes at a place, as its bits: an exclusive or, cut to 12.
Hash(in, at) ==
  LET first == Put(in[at] * 256 + in[at + 1], HashBits)
      third == Put(in[at + 2] * 16, HashBits)
  IN [i \in 1 .. HashBits |-> (first[i] + third[i]) % 2]

\* The latest place with the same hash, of those behind: what head[hash] holds.
Candidates(in, at) ==
  {p \in 1 .. at - 1 : p + 2 <= Len(in) /\ at + 2 <= Len(in) /\ Hash(in, p) = Hash(in, at)}

Run(in, from, at) ==
  LET limit == IF Len(in) - at + 1 > 258 THEN 258 ELSE Len(in) - at + 1
      differ == {r \in 0 .. limit - 1 : in[from + r] # in[at + r]}
  IN IF differ = {} THEN limit ELSE Min(differ)

\* What goes out for the place that is reached.
TokenAt(in, at) ==
  LET from == IF Candidates(in, at) = {} THEN 0 ELSE Max(Candidates(in, at))
      run  == IF from # 0 /\ at - from <= 32768 THEN Run(in, from, at) ELSE 0
  IN IF run >= 3 THEN Match(run, at - from) ELSE Literal(in[at])

\* The loop of vnc_deflate_sync: a place inside a match is passed over.
Tokens(in) ==
  LET Step(done, at) ==
        IF at < done.next THEN done
        ELSE LET t == TokenAt(in, at)
             IN [next |-> at + t.length, tokens |-> Append(done.tokens, t)]
  IN FoldLeft(Step, [next |-> 1, tokens |-> <<>>], [i \in 1 .. Len(in) |-> i]).tokens

ToByte(bits) == bits \o [i \in 1 .. (8 - (Len(bits) % 8)) % 8 |-> 0]

\* vnc_deflate_sync: one block that is not the last, and an empty stored one.
SyncBits(in, first) ==
  LET head   == IF first THEN Put(120, 8) \o Put(1, 8) ELSE <<>>
      tokens == Tokens(in)
      block  == head \o Put(0, 1) \o Put(1, 2)
                  \o FlattenSeq([i \in DOMAIN tokens |-> TokenBits(tokens[i])])
                  \o Symbol(EndOfBlock) \o Put(0, 3)
  IN ToByte(block) \o Put(0, 16) \o Put(65535, 16)

\* vnc_deflate_bound, for which vnc_zout has room.
Bound(length) == length + (length \div 8) + 16
=============================================================================
