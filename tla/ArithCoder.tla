---------------------------- MODULE ArithCoder ----------------------------
(***************************************************************************)
(* lazperf's arithmetic coder: encoder.hpp, decoder.hpp and the adaptive   *)
(* models of model.hpp, exact but for the widths of the words.             *)
(*                                                                         *)
(* What is coded is a sequence of items: a symbol or a bit under a model,  *)
(* or raw bits.  A coder keeps the models it has met; an encoder appends   *)
(* bytes to its output, a decoder reads them.                              *)
(***************************************************************************)
EXTENDS Integers, Sequences, SequencesExt, TLC

CONSTANTS
    WordBits, ByteBits,     \* 32 and 8
    SymbolShift, BitShift,  \* DM__LengthShift and BM__LengthShift, 15 and 13
    RawBits, ShortBits      \* raw bits that are written at once, 19, and a short's, 16
ASSUME CoderAssumption ==
    /\ WordBits % ByteBits = 0 /\ WordBits <= 29
    /\ BitShift < SymbolShift /\ SymbolShift < WordBits - ByteBits
    /\ 0 < ShortBits /\ ShortBits <= RawBits /\ RawBits < WordBits - ByteBits

Word      == 2 ^ WordBits
Byte      == 2 ^ ByteBits
MinLength == 2 ^ (WordBits - ByteBits)
Lesser(m, n) == IF m < n THEN m ELSE n

\* An item that is to be read, and one that is written.
Symbol(id, size) == [kind |-> "symbol", id |-> id, size |-> size]
Bit(id)          == [kind |-> "bit", id |-> id, size |-> 2]
Raw(bits)        == [kind |-> "raw", id |-> <<>>, size |-> bits]
Item(want, sym)  == [want |-> want, sym |-> sym]

-----------------------------------------------------------------------------
(* models::arithmetic and models::arithmetic_bit.                          *)

\* below[s]: the share of the symbols before s, of 2 ^ SymbolShift.
Updated(m) ==
    LET halve  == m.total + m.cycle > 2 ^ SymbolShift
        counts == IF halve THEN [s \in DOMAIN m.counts |-> (m.counts[s] + 1) \div 2] ELSE m.counts
        sum[s \in 0..Len(counts)] == IF s = 0 THEN 0 ELSE sum[s - 1] + counts[s]
        total  == IF halve THEN sum[Len(counts)] ELSE m.total + m.cycle
        scale  == 2 ^ (WordBits - 1) \div total
        cycle  == Lesser((5 * m.cycle) \div 4, 8 * (Len(counts) + 6))
    IN  [counts |-> counts, total |-> total, cycle |-> cycle, left |-> cycle,
         below |-> [s \in 0..(Len(counts) - 1) |-> (scale * sum[s]) \div 2 ^ (WordBits - 1 - SymbolShift)]]
NewSymbolModel(size) ==
    [Updated([counts |-> [s \in 1..size |-> 1], total |-> 0, cycle |-> size])
        EXCEPT !.cycle = (size + 6) \div 2, !.left = (size + 6) \div 2]
SymbolSeen(m, s) ==
    LET n == [m EXCEPT !.counts[s + 1] = @ + 1, !.left = @ - 1] IN IF n.left = 0 THEN Updated(n) ELSE n

NewBitModel == [zeros |-> 1, count |-> 2, prob |-> 2 ^ (BitShift - 1), cycle |-> 4, left |-> 4]
BitUpdated(m) ==
    LET halve == m.count + m.cycle > 2 ^ BitShift
        zeros == IF halve THEN (m.zeros + 1) \div 2 ELSE m.zeros
        half  == (m.count + m.cycle + 1) \div 2
        count == IF ~halve THEN m.count + m.cycle ELSE IF zeros = half THEN half + 1 ELSE half
        cycle == Lesser((5 * m.cycle) \div 4, 64)
    IN  [zeros |-> zeros, count |-> count, cycle |-> cycle, left |-> cycle,
         prob |-> (zeros * (2 ^ (WordBits - 1) \div count)) \div 2 ^ (WordBits - 1 - BitShift)]
BitSeen(m, b) ==
    LET n == [m EXCEPT !.zeros = @ + 1 - b, !.left = @ - 1] IN IF n.left = 0 THEN BitUpdated(n) ELSE n

Model(coder, want) ==
    IF want.id \in DOMAIN coder.models THEN coder.models[want.id]
    ELSE IF want.kind = "bit" THEN NewBitModel ELSE NewSymbolModel(want.size)
\* A coder after an item.
Learnt(coder, want, sym) ==
    IF want.kind = "raw" THEN coder
    ELSE LET m == Model(coder, want) IN
         [coder EXCEPT !.models = (want.id :> (IF want.kind = "bit" THEN BitSeen(m, sym)
                                               ELSE SymbolSeen(m, sym))) @@ @]

-----------------------------------------------------------------------------
(* The interval: what an item leaves of one of a length, as the offset of  *)
(* its part and the length of that.                                        *)

Part(coder, want, sym) ==
    CASE want.kind = "bit" ->
            LET x == Model(coder, want).prob * (coder.length \div 2 ^ BitShift)
            IN  IF sym = 0 THEN <<0, x>> ELSE <<x, coder.length - x>>
      [] want.kind = "symbol" ->
            LET below == Model(coder, want).below
                unit  == coder.length \div 2 ^ SymbolShift
            IN  IF sym = want.size - 1 THEN <<below[sym] * unit, coder.length - below[sym] * unit>>
                ELSE <<below[sym] * unit, below[sym + 1] * unit - below[sym] * unit>>
      [] want.kind = "raw" ->
            LET unit == coder.length \div 2 ^ want.size IN <<sym * unit, unit>>

\* renorm_enc_interval() and renorm_dec_interval(): the bytes that move on.
Shifts(length) == CHOOSE n \in 0..(WordBits \div ByteBits) :
    length * Byte ^ n >= MinLength /\ \A i \in 0..(n - 1) : length * Byte ^ i < MinLength

-----------------------------------------------------------------------------
(* encoders::arithmetic.                                                   *)

NewEncoder == [base |-> 0, length |-> Word - 1, out |-> <<>>, models |-> <<>>]

\* Fault: the carry stops at the last byte.
CarriedOnce(out) == [out EXCEPT ![Len(out)] = (@ + 1) % Byte]
\* propagate_carry()
Carried(out) ==
    LET i == CHOOSE j \in DOMAIN out : out[j] # Byte - 1 /\ \A h \in (j + 1)..Len(out) : out[h] = Byte - 1
    IN  [j \in DOMAIN out |-> IF j < i THEN out[j] ELSE IF j = i THEN out[j] + 1 ELSE 0]

\* The base moves up, with a carry when it wraps, and the interval becomes shorter.
Narrowed(e, offset, length) ==
    LET out   == IF e.base + offset >= Word THEN Carried(e.out) ELSE e.out
        base  == (e.base + offset) % Word
        n     == Shifts(length)
        bytes == [i \in 1..n |-> (base \div 2 ^ (WordBits - i * ByteBits)) % Byte]
    IN  [e EXCEPT !.base = (base % 2 ^ (WordBits - n * ByteBits)) * Byte ^ n,
                  !.length = length * Byte ^ n, !.out = out \o bytes]

\* encodeSymbol(), encodeBit() and writeBits(), which writes many bits in two parts.
EncodeOne(e, item) ==
    LET part == Part(e, item.want, item.sym)
    IN  Learnt(Narrowed(e, part[1], part[2]), item.want, item.sym)
Encode(e, item) ==
    IF item.want.kind = "raw" /\ item.want.size > RawBits
    THEN EncodeOne(EncodeOne(e, Item(Raw(ShortBits), item.sym % 2 ^ ShortBits)),
                   Item(Raw(item.want.size - ShortBits), item.sym \div 2 ^ ShortBits))
    ELSE EncodeOne(e, item)

\* done(): the last bytes, and zeros for the bytes that the decoder is ahead.
Done(e) ==
    LET long == e.length > 2 * MinLength
        last == IF long THEN Narrowed(e, MinLength, MinLength \div 2)
                ELSE Narrowed(e, MinLength \div 2, MinLength \div (2 * Byte))
    IN  last.out \o (IF long THEN <<0, 0, 0>> ELSE <<0, 0>>)

-----------------------------------------------------------------------------
(* decoders::arithmetic.  A byte after the last is read as zero, and noted.*)

ByteAt(in, i) == IF i <= Len(in) THEN in[i] ELSE 0
Advanced(d, n) ==
    LET value[i \in 0..n] == IF i = 0 THEN d.value ELSE value[i - 1] * Byte + ByteAt(d.in, d.at + i)
    IN  [d EXCEPT !.value = value[n], !.at = @ + n]
\* readInitBytes()
NewDecoder(in) ==
    Advanced([value |-> 0, length |-> Word - 1, in |-> in, at |-> 0, models |-> <<>>],
             WordBits \div ByteBits)
ReadPastEnd(d) == d.at > Len(d.in)

\* decodeSymbol(), decodeBit() and readBits(): [sym, d].
SymbolAt(d, want) ==
    LET first(s) == Part(d, want, s)[1] IN
    IF want.kind = "raw" THEN d.value \div (d.length \div 2 ^ want.size)
    ELSE CHOOSE s \in 0..(want.size - 1) :
            first(s) <= d.value /\ (s < want.size - 1 => d.value < first(s + 1))
Within(d, part) ==
    LET n == Shifts(part[2]) IN
    [Advanced([d EXCEPT !.value = @ - part[1]], n) EXCEPT !.length = part[2] * Byte ^ n]
Seen(d, want, sym) == [sym |-> sym, d |-> Learnt(Within(d, Part(d, want, sym)), want, sym)]
DecodeOne(d, want) == Seen(d, want, SymbolAt(d, want))
\* Of raw bits in two parts, the second is the high one.
Joined(low, high) == [sym |-> high.sym * 2 ^ ShortBits + low.sym, d |-> high.d]
WithHigh(low, bits) == Joined(low, DecodeOne(low.d, Raw(bits)))
Decode(d, want) ==
    IF want.kind = "raw" /\ want.size > RawBits
    THEN WithHigh(DecodeOne(d, Raw(ShortBits)), want.size - ShortBits)
    ELSE DecodeOne(d, want)
=============================================================================
