----------------------------- MODULE IntCoder -----------------------------
(***************************************************************************)
(* lazperf's compressor.hpp: an integer, coded as the difference from a    *)
(* prediction, the corrector, in up to three items: the number k of its    *)
(* bits, its high bits, and the rest of them.  IntDecoder reads it.        *)
(***************************************************************************)
EXTENDS ArithCoder

CONSTANTS
    IntBits,    \* of an int32_t
    HighBits    \* bits_high, 8
ASSUME IntAssumption == 0 < HighBits /\ HighBits < IntBits

\* A number in two's complement.
Signed(n, bits) == ((n + 2 ^ (bits - 1)) % 2 ^ bits) - 2 ^ (bits - 1)

\* The number of bits of the corrector, adjusted for a power of two.
K(c) == CHOOSE k \in 0..IntBits :
    LET n == IF c <= 0 THEN -c ELSE c - 1 IN n < 2 ^ k /\ (k > 0 => n >= 2 ^ (k - 1))

\* The integer compressors and decompressors have a name, and bits that are
\* those of an int, or fewer for unsigned values.
KItem(name, bits, context) == Symbol(name \o <<"k", context>>, bits + 1)
HighItem(name, k) == Symbol(name \o <<"corrector", k>>, IF k <= HighBits THEN 2 ^ k ELSE 2 ^ HighBits)
ZeroItem(name)    == Bit(name \o <<"corrector0", 0>>)

\* compress() folds the difference into the range of the bits.
Corrector(pred, real, bits) == Signed(real - pred, bits)

\* writeCorrector()
IntItems(name, bits, context, c) ==
    LET k == K(c)
        v == IF c < 0 THEN c + 2 ^ k - 1 ELSE c - 1
    IN  <<Item(KItem(name, bits, context), k)>>
        \o IF k = 0 THEN <<Item(ZeroItem(name), c)>>
           ELSE IF k = IntBits THEN <<>>    \* the least int: k says it all
           ELSE IF k <= HighBits THEN <<Item(HighItem(name, k), v)>>
           ELSE <<Item(HighItem(name, k), v \div 2 ^ (k - HighBits)),
                  Item(Raw(k - HighBits), v % 2 ^ (k - HighBits))>>
=============================================================================
