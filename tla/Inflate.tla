------------------------------ MODULE Inflate -------------------------------
(***************************************************************************)
(* The Deflate decoder (src/common/inflate.c), a block, a code length or a *)
(* symbol at a step, on what compressors make of some data: stored blocks, *)
(* the fixed codes, codes of their own, in blocks that end anywhere, and   *)
(* the stream of the VNC server, which is never finished.  A stream may be *)
(* cut after any byte or have a bit of it changed.                         *)
(***************************************************************************)
EXTENDS VncDeflate

CONSTANTS
  Byte,        \* the bytes that occur
  MaxData,     \* the longest data of all kinds
  Gap,         \* the lengths of runs in longer data
  MaxDamaged   \* the longest data whose stream is damaged

VARIABLES
  data, made, damage,   \* what was compressed, how, and what became of it
  input, capacity,      \* the arguments
  pos,                  \* the bits taken, those buffered left out
  out,                  \* the output so far
  mode,                 \* "header", "lengths", "symbols", "done"
  last,                 \* final_block
  hlit, total, lens,    \* of a dynamic block: how many lengths, and those read
  litlen, distance,     \* the two codes
  status
vars == <<data, made, damage, input, capacity, pos, out, mode, last, hlit, total, lens,
          litlen, distance, status>>

Statuses == {"running", "ok", "truncated", "bad_block", "bad_stored", "bad_lengths",
             "bad_code", "bad_distance", "output_full"}

-----------------------------------------------------------------------------
(* The tables and the codes. *)

inflate_length_base ==
  <<3, 4, 5, 6, 7, 8, 9, 10, 11, 13, 15, 17, 19, 23, 27, 31,
    35, 43, 51, 59, 67, 83, 99, 115, 131, 163, 195, 227, 258>>
inflate_length_extra ==
  <<0, 0, 0, 0, 0, 0, 0, 0, 1, 1, 1, 1, 2, 2, 2, 2, 3, 3, 3, 3, 4, 4, 4, 4, 5, 5, 5, 5, 0>>
inflate_distance_base ==
  <<1, 2, 3, 4, 5, 7, 9, 13, 17, 25, 33, 49, 65, 97, 129, 193, 257, 385, 513, 769, 1025,
    1537, 2049, 3073, 4097, 6145, 8193, 12289, 16385, 24577>>
inflate_distance_extra ==
  <<0, 0, 0, 0, 1, 1, 2, 2, 3, 3, 4, 4, 5, 5, 6, 6, 7, 7, 8, 8, 9, 9, 10, 10, 11, 11,
    12, 12, 13, 13>>
inflate_clen_order == <<16, 17, 18, 0, 8, 7, 9, 6, 10, 5, 11, 4, 12, 3, 13, 2, 14, 1, 15>>
MaxBits == 15

\* v9x_inflate_build: the canonical code of a sequence of lengths, symbol 0 first, or
\* BadCode if it has too many or too few words.
BadCode == [count |-> <<>>, first |-> <<>>, index |-> <<>>, symbol |-> <<>>]
Build(lengths, allow_single) ==
  LET n == Len(lengths)
      count == [l \in 1 .. MaxBits |-> Cardinality({s \in 1 .. n : lengths[s] = l})]
      used  == Cardinality({s \in 1 .. n : lengths[s] # 0})
      left[l \in 0 .. MaxBits] == IF l = 0 THEN 1 ELSE 2 * left[l - 1] - count[l]
      \* v9x_inflate_decode: the first word of each length, and where its symbols start.
      first[l \in 1 .. MaxBits] == IF l = 1 THEN 0 ELSE 2 * (first[l - 1] + count[l - 1])
      index[l \in 1 .. MaxBits] == IF l = 1 THEN 0 ELSE index[l - 1] + count[l - 1]
      over   == \E l \in 1 .. MaxBits : left[l] < 0
      short  == left[MaxBits] > 0
      single == used = 0 \/ (used = 1 /\ count[1] = 1)
  IN IF over \/ (short /\ ~(allow_single /\ single)) THEN BadCode
     ELSE [count |-> count, first |-> first, index |-> index,
           symbol |-> FlattenSeq([l \in 1 .. MaxBits |->
                        SelectSeq([s \in 1 .. n |-> s - 1], LAMBDA s : lengths[s + 1] = l)])]

\* v9x_inflate_bits, without the taking.
Has(at, count)  == at + count <= Len(input)
Bits(at, count) == FoldLeft(LAMBDA v, i : v + input[at + i] * 2 ^ (i - 1), 0,
                            [i \in 1 .. count |-> i])

\* v9x_inflate_decode: the symbol at a place, its status, and the place behind it.
Decode(code, at) ==
  LET word(l) == FoldLeft(LAMBDA v, i : 2 * v + input[at + i], 0, [i \in 1 .. l |-> i])
      Hit(l)  == code.count[l] > 0 /\ word(l) - code.first[l] \in 0 .. code.count[l] - 1
      room    == IF Len(input) - at < MaxBits THEN Len(input) - at ELSE MaxBits
      hits    == {l \in 1 .. room : Hit(l)}
      l       == Min(hits)
  IN IF hits # {}
     THEN [status |-> "ok", at |-> at + l,
           symbol |-> code.symbol[code.index[l] + word(l) - code.first[l] + 1]]
     ELSE [status |-> IF room < MaxBits THEN "truncated" ELSE "bad_code",
           at |-> at + room, symbol |-> 0]

\* v9x_inflate_fixed.
FixedLengths == [s \in 1 .. 288 |-> CASE s - 1 < 144           -> 8
                                      [] s - 1 \in 144 .. 255  -> 9
                                      [] s - 1 \in 256 .. 279  -> 7
                                      [] s - 1 >= 280          -> 8]
FixedLitlen   == Build(FixedLengths, FALSE)
FixedDistance == Build([s \in 1 .. 32 |-> 5], FALSE)

-----------------------------------------------------------------------------
(* The decoder. *)

NoCode == BadCode

Stop(s) ==
  /\ status' = s /\ mode' = "done"
  /\ UNCHANGED <<pos, out, last, hlit, total, lens, litlen, distance>>

Symbols(at, lit, dist) ==
  /\ mode' = "symbols" /\ pos' = at
  /\ litlen' = lit /\ distance' = dist
  /\ hlit' = 0 /\ total' = 0 /\ lens' = <<>>
  /\ UNCHANGED <<out, status>>

\* A block has ended: the next one, or all is done.
BlockEnd(at, final) ==
  /\ pos' = at
  /\ mode' = IF final THEN "done" ELSE "header"
  /\ status' = IF final THEN "ok" ELSE status
  /\ litlen' = NoCode /\ distance' = NoCode
  /\ UNCHANGED <<hlit, total, lens>>

\* v9x_inflate_stored, from the byte boundary on.
Stored(at, final) ==
  LET start == at + ((8 - (at % 8)) % 8)
      length == Bits(start, 16)
  IN IF ~Has(start, 32) THEN Stop("truncated")
     ELSE IF length # 65535 - Bits(start + 16, 16) THEN Stop("bad_stored")
     ELSE IF ~Has(start + 32, 8 * length) THEN Stop("truncated")
     ELSE IF capacity - Len(out) < length THEN Stop("output_full")
     ELSE /\ out' = out \o [i \in 1 .. length |-> Bits(start + 32 + 8 * (i - 1), 8)]
          /\ last' = final
          /\ BlockEnd(start + 32 + 8 * length, final)

\* v9x_inflate_dynamic, as far as the code of the code lengths.
DynamicHeader(at, final) ==
  LET Clen(n) == [s \in 1 .. 19 |->
                    LET places == {i \in 1 .. n : inflate_clen_order[i] = s - 1}
                    IN IF places = {} THEN 0 ELSE Bits(at + 14 + 3 * (Min(places) - 1), 3)]
      lit   == Bits(at, 5) + 257
      dist  == Bits(at + 5, 5) + 1
      clens == Bits(at + 10, 4) + 4
      code  == Build(Clen(clens), FALSE)
  IN IF ~Has(at, 14) THEN Stop("truncated")
     ELSE IF lit > 286 THEN Stop("bad_block")
     ELSE IF ~Has(at + 14, 3 * clens) THEN Stop("truncated")
     ELSE IF code = BadCode THEN Stop("bad_lengths")
     ELSE /\ mode' = "lengths" /\ pos' = at + 14 + 3 * clens
          /\ hlit' = lit /\ total' = lit + dist /\ lens' = <<>>
          /\ distance' = code /\ litlen' = NoCode /\ last' = final
          /\ UNCHANGED <<out, status>>

\* v9x_inflate_with_state: the header of a block.
Header ==
  /\ mode = "header"
  /\ IF ~Has(pos, 3) THEN Stop("truncated")
     ELSE LET type == Bits(pos + 1, 2)
              final == Bits(pos, 1) = 1
          IN \/ type = 0 /\ Stored(pos + 3, final)
             \/ type = 1 /\ Symbols(pos + 3, FixedLitlen, FixedDistance) /\ last' = final
             \/ type = 2 /\ DynamicHeader(pos + 3, final)
             \/ type = 3 /\ Stop("bad_block")

\* The lengths have been read: the two codes.
Codes ==
  LET lit  == Build(SubSeq(lens, 1, hlit), FALSE)
      dist == Build(SubSeq(lens, hlit + 1, total), TRUE)
  IN IF lens[EndOfBlock + 1] = 0 \/ lit = BadCode \/ dist = BadCode THEN Stop("bad_lengths")
     ELSE Symbols(pos, lit, dist) /\ UNCHANGED last

\* A code length, or a repeat of the one before or of zeros.
CodeLength ==
  LET d == Decode(distance, pos)
      extra == CASE d.symbol = 16 -> 2 [] d.symbol = 17 -> 3 [] OTHER -> 7
      base  == IF d.symbol = 18 THEN 11 ELSE 3
      repeat == base + Bits(d.at, extra)
      Add(n, length, at) ==
        /\ lens' = lens \o [i \in 1 .. n |-> length]
        /\ pos' = at
        /\ UNCHANGED <<out, mode, last, hlit, total, litlen, distance, status>>
  IN IF d.status # "ok" THEN Stop(d.status)
     ELSE IF d.symbol < 16 THEN Add(1, d.symbol, d.at)
     ELSE IF d.symbol = 16 /\ lens = <<>> THEN Stop("bad_lengths")
     ELSE IF ~Has(d.at, extra) THEN Stop("truncated")
     ELSE IF repeat > total - Len(lens) THEN Stop("bad_lengths")
     ELSE Add(repeat, IF d.symbol = 16 THEN Last(lens) ELSE 0, d.at + extra)

Lengths ==
  /\ mode = "lengths"
  /\ IF Len(lens) < total THEN CodeLength ELSE Codes

\* Mutant: the bytes are taken before any of them is written.
CopiedAtOnce(from, length) ==
  out \o [i \in 1 .. length |-> IF from + i <= Len(out) THEN out[from + i] ELSE 0]

\* A copy, byte by byte: it may read what it has written.
Copied(from, length) ==
  FoldLeft(LAMBDA o, i : Append(o, o[from + i]), out, [i \in 1 .. length |-> i])

\* A length and a distance, from the place behind the length's symbol.
CopyMatch(slot, at) ==
  LET length == inflate_length_base[slot] + Bits(at, inflate_length_extra[slot])
      behind == at + inflate_length_extra[slot]
      d      == Decode(distance, behind)
      dslot  == d.symbol + 1
      dist   == inflate_distance_base[dslot] + Bits(d.at, inflate_distance_extra[dslot])
  IN IF ~Has(at, inflate_length_extra[slot]) THEN Stop("truncated")
     ELSE IF d.status # "ok" THEN Stop(d.status)
     ELSE IF dslot > 30 THEN Stop("bad_distance")
     ELSE IF ~Has(d.at, inflate_distance_extra[dslot]) THEN Stop("truncated")
     ELSE IF dist > Len(out) THEN Stop("bad_distance")
     ELSE IF capacity - Len(out) < length THEN Stop("output_full")
     ELSE /\ out' = Copied(Len(out) - dist, length)
          /\ pos' = d.at + inflate_distance_extra[dslot]
          /\ UNCHANGED <<mode, last, hlit, total, lens, litlen, distance, status>>

\* v9x_inflate_codes: a literal, the end of the block, or a match.
InflateSymbol ==
  LET d == Decode(litlen, pos) IN
  /\ mode = "symbols"
  /\ IF d.status # "ok" THEN Stop(d.status)
     ELSE IF d.symbol = EndOfBlock
     THEN BlockEnd(d.at, last) /\ UNCHANGED <<out, last>>
     ELSE IF d.symbol > EndOfBlock
     THEN IF d.symbol - EndOfBlock > 29 THEN Stop("bad_code") ELSE CopyMatch(d.symbol - EndOfBlock, d.at)
     ELSE IF Len(out) >= capacity THEN Stop("output_full")
     ELSE /\ out' = Append(out, d.symbol) /\ pos' = d.at
          /\ UNCHANGED <<mode, last, hlit, total, lens, litlen, distance, status>>

-----------------------------------------------------------------------------
(* What compressors make.  A block is one of the kinds, of some of the tokens. *)

\* What tokens stand for, when so much has come before.
Expand(before, tokens) ==
  LET Add(o, t) == IF t.distance = 0 THEN Append(o, t.symbol)
                   ELSE FoldLeft(LAMBDA p, i : Append(p, p[Len(p) + 1 - t.distance]), o,
                                 [i \in 1 .. t.length |-> i])
  IN FoldLeft(Add, before, tokens)

\* RFC 1951 3.2.2: the words of one length follow each other, after all the shorter ones.
CodeWord(lengths, s) ==
  LET before == {t \in DOMAIN lengths : \/ lengths[t] < lengths[s]
                                        \/ lengths[t] = lengths[s] /\ t < s}
  IN Code(FoldSet(LAMBDA t, v : v + 2 ^ (lengths[s] - lengths[t]), 0, before), lengths[s])

\* Lengths 1, 2, 3 ... for the symbols that occur, the last two of them of one length.
Comb(used) ==
  [s \in used |-> LET rank == Cardinality({t \in used : t <= s})
                  IN IF rank = Cardinality(used) /\ rank > 1 THEN rank - 1 ELSE rank]
InFull(lengths, n) == [s \in 1 .. n |-> IF s - 1 \in DOMAIN lengths THEN lengths[s - 1] ELSE 0]

ClenLengths == [s \in 0 .. 18 |-> IF s <= 12 THEN 4 ELSE 5]

\* The code lengths, with repeats wherever they can be had.
Repeats(l, n) ==
  LET word == CodeWord(ClenLengths, l)
      repeats[m \in 0 .. n] ==
        CASE m = 0                -> <<>>
          [] l = 0 /\ m >= 138    -> CodeWord(ClenLengths, 18) \o Put(127, 7) \o repeats[m - 138]
          [] l = 0 /\ m \in 11 .. 137 -> CodeWord(ClenLengths, 18) \o Put(m - 11, 7)
          [] l = 0 /\ m \in 3 .. 10   -> CodeWord(ClenLengths, 17) \o Put(m - 3, 3)
          [] l # 0 /\ m \in 4 .. 7    -> word \o CodeWord(ClenLengths, 16) \o Put(m - 4, 2)
          [] OTHER                -> word \o repeats[m - 1]
  IN repeats[n]

LengthBitsOf(lengths) ==
  LET n      == Len(lengths)
      starts == SelectSeq([i \in 1 .. n |-> i], LAMBDA i : i = 1 \/ lengths[i] # lengths[i - 1])
      Behind(k) == IF k = Len(starts) THEN n + 1 ELSE starts[k + 1]
  IN FlattenSeq([k \in DOMAIN starts |-> Repeats(lengths[starts[k]], Behind(k) - starts[k])])

\* What the tokens are with these code lengths.
Coded(tokens, lits, dists) ==
  LET Of(t) == IF t.distance = 0 THEN CodeWord(lits, t.symbol)
               ELSE CodeWord(lits, t.symbol) \o LengthBits(t)
                      \o CodeWord(dists, DistanceSlot(t.distance) - 1) \o DistanceBits(t)
  IN FlattenSeq([i \in DOMAIN tokens |-> Of(tokens[i])]) \o CodeWord(lits, EndOfBlock)

\* The header of a dynamic block, for codes of so many symbols.
CodeBits(lits, hl, dists, hd) ==
  Put(hl - 257, 5) \o Put(hd - 1, 5) \o Put(15, 4)
    \o FlattenSeq([i \in 1 .. 19 |-> Put(ClenLengths[inflate_clen_order[i]], 3)])
    \o LengthBitsOf(InFull(lits, hl) \o InFull(dists, hd))

DynamicBits(tokens) ==
  LET symbols == {tokens[i].symbol : i \in DOMAIN tokens} \cup {EndOfBlock}
      slots   == {DistanceSlot(tokens[i].distance) - 1 :
                    i \in {j \in DOMAIN tokens : tokens[j].distance # 0}}
      OfBlock(used, lits, dists) ==
        CodeBits(lits, 1 + Max(used), dists, 1 + Max(slots \cup {0})) \o Coded(tokens, lits, dists)
  IN OfBlock(symbols, Comb(IF tokens = <<>> THEN {0, EndOfBlock} ELSE symbols), Comb(slots))

StoredBits(bytes) ==
  Put(Len(bytes), 16) \o Put(65535 - Len(bytes), 16)
    \o FlattenSeq([i \in DOMAIN bytes |-> Put(bytes[i], 8)])

\* One more block behind what there is.
AddBlock(bits, kind, before, tokens, final) ==
  LET head == bits \o Put(IF final THEN 1 ELSE 0, 1)
      After(all) == SubSeq(all, Len(before) + 1, Len(all))
  IN CASE kind = "stored"  -> ToByte(head \o Put(0, 2)) \o StoredBits(After(Expand(before, tokens)))
       [] kind = "fixed"   -> head \o Put(1, 2)
                                \o FlattenSeq([i \in DOMAIN tokens |-> TokenBits(tokens[i])])
                                \o Symbol(EndOfBlock)
       [] kind = "dynamic" -> head \o Put(2, 2) \o DynamicBits(tokens)

\* The stream of two blocks, the first one of k tokens, or of one.
Kind == {"stored", "fixed", "dynamic"}
Zipped(d, how) ==
  LET tokens == Tokens(d)
      front  == SubSeq(tokens, 1, how.k)
      back   == SubSeq(tokens, how.k + 1, Len(tokens))
      first  == IF how.one THEN <<>> ELSE AddBlock(<<>>, how.kinds[1], <<>>, front, FALSE)
  IN ToByte(AddBlock(first, how.kinds[2], Expand(<<>>, front), back, TRUE))

\* Two rectangles of the VNC server; the viewer has taken off the zlib header.
Synced(d, k) ==
  LET first == SyncBits(SubSeq(d, 1, k), TRUE)
  IN SubSeq(first, 17, Len(first)) \o SyncBits(SubSeq(d, k + 1, Len(d)), FALSE)

Short == UNION {[1 .. n -> Byte] : n \in 0 .. MaxData}
Long  == {<<b, 0, b>> \o [i \in 1 .. n |-> 0] \o <<b, 0, b>> : n \in Gap, b \in Byte \ {0}}

One == {[one |-> TRUE, k |-> 0, kinds |-> <<kind, kind>>] : kind \in Kind}
How(d) == One \cup [one : {FALSE}, k : 0 .. Len(Tokens(d)), kinds : Kind \X Kind]
SyncHow(K) == [one : {FALSE}, k : K, kinds : {<<"sync", "sync">>}]

Stream(d, how) == [data |-> d, made |-> how, bits |-> Zipped(d, how)]
Synchronised(d, how) == [data |-> d, made |-> how, bits |-> Synced(d, how.k)]
Streams ==
  UNION {{Stream(d, how) : how \in How(d)} : d \in Short} \cup {Stream(d, how) : d \in Long, how \in One}
    \cup UNION {{Synchronised(d, how) : how \in SyncHow(0 .. Len(d))} : d \in Short}
    \cup {Synchronised(d, how) : d \in Long, how \in SyncHow({3})}

Whole == <<"whole", 0>>
Init ==
  /\ \E s \in Streams :
       /\ data = s.data /\ made = s.made
       /\ \/ damage = Whole /\ input = s.bits
          \/ /\ Len(data) <= MaxDamaged /\ made \in One
             /\ \/ \E n \in 0 .. (Len(s.bits) \div 8) - 1 :
                     damage = <<"cut", n>> /\ input = SubSeq(s.bits, 1, 8 * n)
                \/ \E i \in 1 .. Len(s.bits) :
                     damage = <<"changed", i>> /\ input = [s.bits EXCEPT ![i] = 1 - @]
  /\ capacity = Len(data)
  /\ pos = 0 /\ out = <<>> /\ mode = "header" /\ status = "running"
  /\ last = FALSE /\ hlit = 0 /\ total = 0 /\ lens = <<>>
  /\ litlen = NoCode /\ distance = NoCode

Next ==
  /\ Header \/ Lengths \/ InflateSymbol
  /\ UNCHANGED <<data, made, damage, input, capacity>>

Spec == Init /\ [][Next]_vars

-----------------------------------------------------------------------------
\* What was compressed comes out: whichever blocks it was put in, all of it and
\* nothing else, and after each rectangle of the VNC server all that it holds.  Of a
\* stream that was cut only a beginning comes out, and it is not taken for whole; and
\* nothing makes the decoder write more than it was given room for.
Inflates ==
  /\ Len(out) <= capacity
  /\ damage[1] # "changed" => IsPrefix(out, data)
  /\ mode = "done" =>
       CASE damage[1] = "cut"     -> status = "truncated"
         [] damage[1] = "changed" -> status \in Statuses \ {"running"}
         [] damage[1] = "whole"   ->
              /\ out = data
              /\ status = IF made.kinds[1] = "sync" THEN "truncated" ELSE "ok"
              /\ Len(input) - pos < 8
=============================================================================
