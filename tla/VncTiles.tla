------------------------------ MODULE VncTiles ------------------------------
(***************************************************************************)
(* How the VNC server packs the tiles of a rectangle (src/guest/vnc.c):    *)
(* Hextile, where a tile may lean on the colours of the one before it, and *)
(* ZRLE, where the smallest of five forms is chosen by sizes that are      *)
(* worked out beforehand.  The viewer unpacks them as RFC 6143 says.       *)
(*                                                                         *)
(* A tile maps its places <<column, row>> to colours.  What is sent is a   *)
(* record of the fields of the wire format; bytes are counted, and written *)
(* out where the code packs bits or long runs into them.                   *)
(***************************************************************************)
EXTENDS Integers, Sequences, FiniteSets, SequencesExt, FiniteSetsExt

CONSTANTS
  Colour,      \* positive numbers
  TileArea,    \* the tiles have this many pixels, in every shape
  PixelBytes,  \* vnc_pixel_bytes, or vnc_cpixel_bytes: those that occur
  MaxPalette,  \* 127: the most colours that palette RLE can address
  MaxPacked,   \* 16: the most colours of a packed palette
  LongRun      \* 255: a byte of a run length that is followed by another

NoColour == 0

VARIABLES
  bytes,   \* of a pixel, as this viewer chose
  enc,     \* vnc_hex_bg and vnc_hex_fg, or NoColour where they are not valid
  dec,     \* the same two of the viewer
  tile,    \* what was read of vnc_prev and sent
  shown,   \* what the viewer makes of it
  sent     \* how many bytes a ZRLE tile took
vars == <<bytes, enc, dec, tile, shown, sent>>

NoTile == <<>>
Fresh  == [bg |-> NoColour, fg |-> NoColour]
Shape  == {shape \in (1 .. TileArea) \X (1 .. TileArea) : shape[1] * shape[2] = TileArea}
Tile   == UNION {[(0 .. shape[1] - 1) \X (0 .. shape[2] - 1) -> Colour] : shape \in Shape}

Width(t)   == 1 + Max({p[1] : p \in DOMAIN t})
Height(t)  == 1 + Max({p[2] : p \in DOMAIN t})
Colours(t) == {t[p] : p \in DOMAIN t}

\* Row by row.
Place(t, i) == <<(i - 1) % Width(t), (i - 1) \div Width(t)>>
Pixels(t)   == [i \in 1 .. TileArea |-> t[Place(t, i)]]

Init ==
  /\ bytes \in PixelBytes
  /\ enc = Fresh /\ dec = Fresh
  /\ tile = NoTile /\ shown = NoTile /\ sent = 0

-----------------------------------------------------------------------------
(* Hextile. *)

\* The larger of the row-first and the column-first growth from a place.
Grow(free, x, y, w, h) ==
  LET Full(a, b) == (x .. x + a - 1) \X (y .. y + b - 1) \subseteq free
      Widest(b)  == Max({a \in 1 .. w - x : Full(a, b)})
      Tallest(a) == Max({b \in 1 .. h - y : Full(a, b)})
      wide  == Widest(1)
      tall  == Tallest(1)
      rows  == <<wide, Tallest(wide)>>
      columns == <<Widest(tall), tall>>
  IN IF columns[1] * columns[2] > rows[1] * rows[2] THEN columns ELSE rows

Inside(r) == (r.x .. r.x + r.size[1] - 1) \X (r.y .. r.y + r.size[2] - 1)

\* The places that are not background, covered by rectangles of one colour.
Cover(t, bg, done, p) ==
  LET free == {q \in DOMAIN t \ done.covered : t[q] = t[p]}
      rect == [x |-> p[1], y |-> p[2], size |-> Grow(free, p[1], p[2], Width(t), Height(t)),
               colour |-> t[p]]
  IN IF t[p] = bg \/ p \in done.covered THEN done
     ELSE [covered |-> done.covered \cup Inside(rect), rects |-> Append(done.rects, rect)]
Subrects(t, bg) ==
  LET done[i \in 0 .. TileArea] == IF i = 0 THEN [covered |-> {}, rects |-> <<>>]
                                   ELSE Cover(t, bg, done[i - 1], Place(t, i))
  IN done[TileArea].rects

\* -1 of vnc_hextile_subrects; a subrect is two bytes and, unless all have the
\* foreground's colour, a pixel.
TooMany(t, rects, mono) ==
  LET per == IF mono THEN 2 ELSE 2 + bytes
  IN Len(rects) > 255 \/ Len(rects) * per >= TileArea * bytes

\* The background: of the first colour and the second one, that which occurs more.
Background(t) ==
  LET first  == t[<<0, 0>>]
      others == {i \in 1 .. TileArea : Pixels(t)[i] # first}
      second == Pixels(t)[Min(others)]
      Count(c) == Cardinality({p \in DOMAIN t : t[p] = c})
  IN IF others # {} /\ Count(second) > Count(first) THEN second ELSE first

\* The fields of a tile: NoColour is a colour that is not specified.
RawTile(t)  == [raw |-> TRUE, pixels |-> t, bg |-> NoColour, fg |-> NoColour,
                coloured |-> FALSE, rects |-> <<>>]
Specify(c, known) == IF known = c THEN NoColour ELSE c

\* vnc_encode_hextile_tile: what is sent, and the colours that then hold.
HextileTile(t) ==
  LET bg    == Background(t)
      mono  == Cardinality(Colours(t)) = 2
      fg    == IF mono THEN CHOOSE c \in Colours(t) : c # bg ELSE NoColour
      rects == Subrects(t, bg)
      Fields(foreground, coloured) ==
        [raw |-> FALSE, pixels |-> NoTile, bg |-> Specify(bg, enc.bg), fg |-> foreground,
         coloured |-> coloured, rects |-> rects]
  IN CASE Cardinality(Colours(t)) = 1 ->
            [msg |-> Fields(NoColour, FALSE), enc |-> [enc EXCEPT !.bg = bg]]
       [] Cardinality(Colours(t)) > 1 /\ TooMany(t, rects, mono) ->
            [msg |-> RawTile(t), enc |-> Fresh]
       [] OTHER ->
            [msg |-> Fields(IF mono THEN Specify(fg, enc.fg) ELSE NoColour, ~mono),
             enc |-> [bg |-> bg, fg |-> fg]]

\* The viewer: a colour that is not specified is that of the tile before, unless that
\* tile was raw or, for the foreground, had colours of its own.
ShowHextile(msg, places) ==
  LET bg == IF msg.bg # NoColour THEN msg.bg ELSE dec.bg
      fg == IF msg.fg # NoColour THEN msg.fg ELSE dec.fg
      At(p) == {i \in DOMAIN msg.rects : p \in Inside(msg.rects[i])}
      Of(i) == IF msg.coloured THEN msg.rects[i].colour ELSE fg
  IN IF msg.raw THEN [shown |-> msg.pixels, dec |-> Fresh]
     ELSE [shown |-> [p \in places |-> IF At(p) = {} THEN bg ELSE Of(Max(At(p)))],
           dec   |-> [bg |-> bg, fg |-> IF msg.coloured THEN NoColour ELSE fg]]

\* Mutant: the colours of before a raw tile are taken to hold after it.
SendHextileKeeps(t) ==
  LET e == HextileTile(t)
      d == ShowHextile(e.msg, DOMAIN t)
  IN /\ enc' = IF e.msg.raw THEN enc ELSE e.enc
     /\ dec' = d.dec /\ shown' = d.shown /\ tile' = t /\ sent' = 0
     /\ UNCHANGED bytes

SendHextile(t) ==
  LET e == HextileTile(t)
      d == ShowHextile(e.msg, DOMAIN t)
  IN /\ enc' = e.enc
     /\ dec' = d.dec /\ shown' = d.shown /\ tile' = t /\ sent' = 0
     /\ UNCHANGED bytes

\* vnc_encode_hextile: no colours hold at the start of a rectangle.
Rectangle ==
  /\ tile = NoTile
  /\ enc' = Fresh /\ dec' = Fresh
  /\ UNCHANGED <<bytes, tile, shown, sent>>

-----------------------------------------------------------------------------
(* ZRLE. *)

\* The runs of a tile, row after row.
Extend(runs, c) ==
  IF runs # <<>> /\ Last(runs).colour = c THEN [runs EXCEPT ![Len(runs)].length = @ + 1]
  ELSE Append(runs, [colour |-> c, length |-> 1])
Runs(t) ==
  LET runs[i \in 0 .. TileArea] == IF i = 0 THEN <<>> ELSE Extend(runs[i - 1], Pixels(t)[i])
  IN runs[TileArea]

\* vnc_zpalette_index: the colours in the order of their first run.
Add(palette, c) == IF c \in Range(palette) THEN palette ELSE Append(palette, c)
Palette(t) ==
  LET palette[i \in 0 .. TileArea] == IF i = 0 THEN <<>> ELSE Add(palette[i - 1], Pixels(t)[i])
  IN palette[TileArea]
IndexIn(palette, c) == CHOOSE i \in DOMAIN palette : palette[i] = c

Total(sizes) ==
  LET total[i \in 0 .. Len(sizes)] == IF i = 0 THEN 0 ELSE total[i - 1] + sizes[i]
  IN total[Len(sizes)]

\* vnc_zput_run_length, vnc_zrun_bytes.
RunLength(n) ==
  [i \in 1 .. ((n - 1) \div LongRun) + 1 |->
     IF i <= (n - 1) \div LongRun THEN LongRun ELSE (n - 1) % LongRun]
RunBytes(n)   == ((n - 1) \div LongRun) + 1
RunOf(length) == 1 + Total(length)

\* A row of a packed palette: the indices from the high bits down, the last byte filled up.
IndexBits(palette) == IF Len(palette) <= 2 THEN 1 ELSE IF Len(palette) <= 4 THEN 2 ELSE 4
Put(done, index, bits) ==
  LET byte == done.byte * 2 ^ bits + index
  IN IF done.filled + bits = 8 THEN [out |-> Append(done.out, byte), byte |-> 0, filled |-> 0]
     ELSE [out |-> done.out, byte |-> byte, filled |-> done.filled + bits]
PackRow(row, bits) ==
  LET done[x \in 0 .. Len(row)] == IF x = 0 THEN [out |-> <<>>, byte |-> 0, filled |-> 0]
                                   ELSE Put(done[x - 1], row[x], bits)
      all == done[Len(row)]
  IN IF all.filled = 0 THEN all.out ELSE Append(all.out, all.byte * 2 ^ (8 - all.filled))

\* The forms, each with the size that it is thought to take after the first byte.
Raw(t) == [form |-> "raw", palette |-> <<>>, data |-> Pixels(t), size |-> TileArea * bytes]

PlainRle(runs) ==
  [form |-> "plain_rle", palette |-> <<>>,
   data |-> [i \in DOMAIN runs |-> <<runs[i].colour>> \o RunLength(runs[i].length)],
   size |-> Total([i \in DOMAIN runs |-> bytes + RunBytes(runs[i].length)])]

PaletteRle(runs, palette) ==
  LET Entry(r) == LET index == IndexIn(palette, r.colour) - 1
                  IN IF r.length = 1 THEN <<index>> ELSE <<index + 128>> \o RunLength(r.length)
  IN [form |-> "palette_rle", palette |-> palette, data |-> [i \in DOMAIN runs |-> Entry(runs[i])],
      size |-> Len(palette) * bytes
                 + Total([i \in DOMAIN runs |-> IF runs[i].length = 1 THEN 1
                                                ELSE 1 + RunBytes(runs[i].length)])]

Packed(t, palette) ==
  LET Row(y) == [x \in 1 .. Width(t) |-> IndexIn(palette, t[<<x - 1, y - 1>>]) - 1]
  IN [form |-> "packed", palette |-> palette,
      data |-> [y \in 1 .. Height(t) |-> PackRow(Row(y), IndexBits(palette))],
      size |-> Len(palette) * bytes
                 + Height(t) * ((Width(t) * IndexBits(palette) + 7) \div 8)]

\* vnc_encode_zrle_tile: a palette of one; or the smallest of the forms that can be had,
\* the first of them where several are.
ZrleTile(t) ==
  LET runs    == Runs(t)
      palette == Palette(t)
      forms   == (IF Len(palette) <= MaxPacked THEN <<Packed(t, palette)>> ELSE <<>>)
                   \o (IF Len(palette) <= MaxPalette THEN <<PaletteRle(runs, palette)>> ELSE <<>>)
                   \o <<PlainRle(runs), Raw(t)>>
      best    == Min({forms[i].size : i \in DOMAIN forms})
  IN IF Len(palette) = 1 THEN [form |-> "solid", palette |-> palette, data |-> <<>>, size |-> bytes]
     ELSE forms[Min({i \in DOMAIN forms : forms[i].size = best})]

\* What it takes on the wire.
Length(msg) ==
  1 + Len(msg.palette) * bytes
    + (CASE msg.form \in {"packed", "palette_rle"} -> Total([i \in DOMAIN msg.data |-> Len(msg.data[i])])
         [] msg.form = "plain_rle" -> Total([i \in DOMAIN msg.data |-> bytes + Len(msg.data[i]) - 1])
         [] OTHER -> Len(msg.data) * bytes)

\* The viewer.
Unpack(msg, w, places) ==
  LET bits == IndexBits(msg.palette)
      Field(row, x) == (row[((x * bits) \div 8) + 1] \div (2 ^ (8 - bits - ((x * bits) % 8)))) % (2 ^ bits)
      ColourOf(run) == IF msg.form = "plain_rle" THEN run[1] ELSE msg.palette[(run[1] % 128) + 1]
      Times(run)  == IF msg.form = "palette_rle" /\ run[1] < 128 THEN 1 ELSE RunOf(Tail(run))
      all == FlattenSeq([i \in DOMAIN msg.data |->
                           [j \in 1 .. Times(msg.data[i]) |-> ColourOf(msg.data[i])]])
  IN CASE msg.form = "solid"  -> [p \in places |-> msg.palette[1]]
       [] msg.form = "raw"    -> [p \in places |-> msg.data[p[2] * w + p[1] + 1]]
       [] msg.form = "packed" -> [p \in places |-> msg.palette[Field(msg.data[p[2] + 1], p[1]) + 1]]
       [] OTHER               -> [p \in places |-> all[p[2] * w + p[1] + 1]]

SendZrle(t) ==
  LET msg == ZrleTile(t) IN
  /\ shown' = Unpack(msg, Width(t), DOMAIN t)
  /\ sent' = Length(msg) /\ tile' = t
  /\ UNCHANGED <<bytes, enc, dec>>

\* The viewer has drawn it; the next tile.
Drawn ==
  /\ tile # NoTile
  /\ tile' = NoTile /\ shown' = NoTile /\ sent' = 0
  /\ UNCHANGED <<bytes, enc, dec>>

Next ==
  \/ Rectangle
  \/ tile = NoTile /\ \E t \in Tile : SendHextile(t)
  \/ tile = NoTile /\ \E t \in Tile : SendZrle(t)
  \/ Drawn

Spec == Init /\ [][Next]_vars

-----------------------------------------------------------------------------
\* The viewer shows every tile as it was read, whichever tiles came before it in the
\* rectangle; and no ZRLE tile takes more than a raw one, for which vnc_zraw has room.
TilesArrive ==
  /\ shown = tile
  /\ tile # NoTile => sent <= TileArea * bytes + 1
=============================================================================
