---------------------------- MODULE LayerCodec ----------------------------
(***************************************************************************)
(* The colours, the infrared value and the extra bytes of the points of a  *)
(* chunk: field_rgb14, field_nir14 and field_byte14.  They share how the   *)
(* last value of a scanner channel is found and replaced, which is not how *)
(* field_point14 does it.                                                  *)
(***************************************************************************)
EXTENDS PointCodec

Half == 2 ^ HalfBits
Lo(v) == v % Half
Hi(v) == v \div Half
\* utils::clamp<uint8_t>(), and a division that rounds to zero.
Clamp(v) == IF v < 0 THEN 0 ELSE IF v >= Half THEN Half - 1 ELSE v
Halved(v) == IF v < 0 THEN -((-v) \div 2) ELSE v \div 2

-----------------------------------------------------------------------------
(* The channels of a layer: the last value of each, those that have one,   *)
(* and the current one.                                                    *)

NewLayer(ch, value) == [last |-> [c \in Channels |-> value], have |-> {ch}, channel |-> ch]

\* The channel whose last value a new one replaces.  The old one, when a
\* channel that has a value follows another.  (compress())
Replaced(layer, ch) == IF ch \in layer.have THEN layer.channel ELSE ch
\* Fault: the decompressor's new channel replaces its own value.
RestoredOwn(layer, ch) == ch
\* (decompress())
Restored(layer, ch) == IF ch # layer.channel /\ ch \notin layer.have THEN ch ELSE layer.channel
LastOf(layer) == layer.last[layer.channel]
Kept14(layer, ch, where, value) ==
    [layer EXCEPT !.last[where] = value, !.have = @ \cup {ch}, !.channel = ch]

-----------------------------------------------------------------------------
(* Rgb14: [r, g, b].                                                       *)

RgbUsed(ch)    == Symbol(<<"rgb", ch, "used", 0>>, 128)
RgbDiff(ch, i) == Symbol(<<"rgb", ch, "diff", i>>, Half)

\* color_diff_bits_1_4()
ColorBits(color, last) ==
    UNION {When(Lo(color[f]) # Lo(last[f]), <<f, "lo">>) \cup When(Hi(color[f]) # Hi(last[f]), <<f, "hi">>)
            : f \in {"r", "g", "b"}}
    \cup When(color.g # color.r \/ color.b # color.r, <<"rgb", "color">>)

\* compress(): the corrections, in the order in which they are written.
RgbItems(ch, color, last) ==
    LET bits == ColorBits(color, last)
        Diff(f, H(_)) == H(color[f]) - H(last[f])
        dlo  == IF <<"r", "lo">> \in bits THEN Diff("r", Lo) ELSE 0
        dhi  == IF <<"r", "hi">> \in bits THEN Diff("r", Hi) ELSE 0
        \* Only the change of green that is written counts for blue.
        blo  == Halved(dlo + Diff("g", Lo))
        bhi  == Halved(dhi + Diff("g", Hi))
        If(bit, i, v) == IF bit \in bits THEN <<Item(RgbDiff(ch, i), v % Half)>> ELSE <<>>
    IN  <<Item(RgbUsed(ch), bits)>>
        \o If(<<"r", "lo">>, 0, dlo) \o If(<<"r", "hi">>, 1, dhi)
        \o IF <<"rgb", "color">> \notin bits THEN <<>>
           ELSE If(<<"g", "lo">>, 2, Lo(color.g) - Clamp(dlo + Lo(last.g)))
                \o If(<<"b", "lo">>, 4, Lo(color.b) - Clamp(blo + Lo(last.b)))
                \o If(<<"g", "hi">>, 3, Hi(color.g) - Clamp(dhi + Hi(last.g)))
                \o If(<<"b", "hi">>, 5, Hi(color.b) - Clamp(bhi + Hi(last.b)))

\* decompress(), of a stream that has a size, part by part.  s: the streams, the
\* bits, and the parts so far; those that are not read are the last color's.
RgbParts == << <<"r", "lo">>, <<"r", "hi">>, <<"g", "lo">>, <<"b", "lo">>, <<"g", "hi">>, <<"b", "hi">> >>
RgbPredicted(s, f, half) ==
    LET Diff(g) == s.got[<<g, half>>] - s.last[<<g, half>>] IN
    CASE f = "r" -> s.last[<<f, half>>]
      [] f = "g" -> Clamp(Diff("r") + s.last[<<f, half>>])
      [] f = "b" -> Clamp(Halved(Diff("r") + Diff("g")) + s.last[<<f, half>>])
RgbModel == <<0, 1, 2, 4, 3, 5>>
ReadRgbPart(s, i) ==
    LET part == RgbParts[i]
        t    == Take(s.d, "rgb", RgbDiff(s.ch, RgbModel[i]))
    IN  IF part \notin s.bits \/ (i > 2 /\ <<"rgb", "color">> \notin s.bits) THEN s
        ELSE [s EXCEPT !.d = t.d, !.got[part] = (t.sym + RgbPredicted(s, part[1], part[2])) % Half]
ColorOf(s) ==
    LET Whole(f) == s.got[<<f, "hi">>] * Half + s.got[<<f, "lo">>] IN
    [d |-> s.d, sym |-> [f \in {"r", "g", "b"} |-> Whole(IF <<"rgb", "color">> \in s.bits THEN f ELSE "r")]]
ReadRgb(d, ch, last) ==
    LET used  == Take(d, "rgb", RgbUsed(ch))
        parts == [p \in Range(RgbParts) |-> IF p[2] = "lo" THEN Lo(last[p[1]]) ELSE Hi(last[p[1]])]
    IN  ColorOf(FoldLeft(ReadRgbPart, [d |-> used.d, ch |-> ch, bits |-> IF used.d.lost THEN {} ELSE used.sym,
                                       last |-> parts, got |-> parts], <<1, 2, 3, 4, 5, 6>>))

-----------------------------------------------------------------------------
(* Nir14, and Byte14: a sequence of bytes, with a stream for each.         *)

NirUsed(ch)     == Symbol(<<"nir", ch, "used", 0>>, 4)
NirDiff(ch, i)  == Symbol(<<"nir", ch, "diff", i>>, Half)
ByteDiff(ch, i) == Symbol(<<"byte", ch, "diff", i>>, Half)
ByteStream(i)   == "byte" \o ToString(i)

NirBits(nir, last) == When(Lo(nir) # Lo(last), "lo") \cup When(Hi(nir) # Hi(last), "hi")
NirItems(ch, nir, last) ==
    LET bits == NirBits(nir, last) IN
    <<Item(NirUsed(ch), bits)>>
    \o (IF "lo" \in bits THEN <<Item(NirDiff(ch, 0), (Lo(nir) - Lo(last)) % Half)>> ELSE <<>>)
    \o (IF "hi" \in bits THEN <<Item(NirDiff(ch, 1), (Hi(nir) - Hi(last)) % Half)>> ELSE <<>>)
ReadNir(d, ch, last) ==
    LET used == Take(d, "nir", NirUsed(ch))
        bits == IF used.d.lost THEN {} ELSE used.sym
        Part14(e, bit, i, old) ==
            IF bit \notin bits THEN Kept(e, old)
            ELSE LET t == Take(e, "nir", NirDiff(ch, i)) IN [t EXCEPT !.sym = (@ + old) % Half]
        lo   == Part14(used.d, "lo", 0, Lo(last))
        hi   == Part14(lo.d, "hi", 1, Hi(last))
    IN  [sym |-> hi.sym * Half + lo.sym, d |-> hi.d]

ByteItems(ch, i, byte, last) == <<Item(ByteDiff(ch, i), (byte - last) % Half)>>
\* decompress(): each byte from its stream, when that has a size.
ReadBytes(d, ch, last) ==
    LET from[i \in 0..Len(last)] ==
            IF i = 0 THEN [sym |-> <<>>, d |-> d]
            ELSE LET before == from[i - 1]
                     t == IF ByteStream(i) \in d.valid
                          THEN Take(before.d, ByteStream(i), ByteDiff(ch, i)) ELSE Kept(before.d, 0)
                 IN  [sym |-> Append(before.sym, (last[i] + t.sym) % Half), d |-> t.d]
    IN  from[Len(last)]
=============================================================================
