---------------------------- MODULE IntDecoder ----------------------------
(***************************************************************************)
(* lazperf's decompressor.hpp: the integer that IntCoder has put into      *)
(* items, read back from whatever has them: the bytes of a decoder, or one *)
(* of the streams of a chunk.                                              *)
(***************************************************************************)
EXTENDS IntCoder

\* Read(d, stream, want): the next item of a source d, as [sym, d].
CONSTANT Read(_, _, _)

\* readCorrector(): [c, k, d].
Found(c, k, d) == [c |-> c, k |-> k, d |-> d]
Moved(v, k)    == IF v >= 2 ^ (k - 1) THEN v + 1 ELSE v - (2 ^ k - 1)
ReadLow(high, stream, k) ==
    IF k <= HighBits THEN Found(Moved(high.sym, k), k, high.d)
    ELSE LET low == Read(high.d, stream, Raw(k - HighBits))
         IN  Found(Moved(high.sym * 2 ^ (k - HighBits) + low.sym, k), k, low.d)
ReadRest(head, stream, name) ==
    IF head.sym = 0 THEN LET bit == Read(head.d, stream, ZeroItem(name)) IN Found(bit.sym, 0, bit.d)
    ELSE IF head.sym = IntBits THEN Found(-(2 ^ (IntBits - 1)), IntBits, head.d)
    ELSE ReadLow(Read(head.d, stream, HighItem(name, head.sym)), stream, head.sym)
ReadCorrector(d, stream, name, bits, context) ==
    ReadRest(Read(d, stream, KItem(name, bits, context)), stream, name)

\* decompress(): the range is added or taken off once.
Corrected(pred, c, bits) ==
    IF bits = IntBits THEN Signed(pred + c, bits)
    ELSE IF pred + c < 0 THEN pred + c + 2 ^ bits
    ELSE IF pred + c >= 2 ^ bits THEN pred + c - 2 ^ bits ELSE pred + c
Predicted(r, pred, bits) == [sym |-> Corrected(pred, r.c, bits), k |-> r.k, d |-> r.d]
ReadInt(d, stream, name, bits, context, pred) ==
    Predicted(ReadCorrector(d, stream, name, bits, context), pred, bits)
=============================================================================
