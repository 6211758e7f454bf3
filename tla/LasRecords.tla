---------------------------- MODULE LasRecords ----------------------------
(***************************************************************************)
(* lazperf/header and lazperf/vlr: the records of a LAS file, each as the  *)
(* widths in bytes of the fields that its write() puts and its read() gets *)
(* in this order, and the size the program takes it to have when it works  *)
(* out where things are.                                                   *)
(***************************************************************************)
EXTENDS Integers, Sequences, SequencesExt

Bytes(widths) == FoldSeq(+, 0, widths)
Times(n, w)   == [i \in 1..n |-> w]

-----------------------------------------------------------------------------
(* The headers of LAS 1.2, 1.3 and 1.4.                                    *)

Header12 == <<4, 2, 2, 16, 1, 1, 32, 32, 2, 2, 2, 4, 4, 1, 2, 4>> \o Times(5, 4) \o Times(12, 8)
Header13 == Header12 \o <<8>>
Header14 == Header13 \o <<8, 4, 8>> \o Times(15, 8)

HeaderSize(minor) == CASE minor = 2 -> 227 [] minor = 3 -> 235 [] minor = 4 -> 375 [] OTHER -> 0

\* The bytes of a point without its extra bytes; the upper bits of a format
\* that is marked as compressed do not count.
BaseCount(format) ==
    CASE format % 16 = 0 -> 20 [] format % 16 = 1 -> 28
      [] format % 16 = 2 -> 26 [] format % 16 = 3 -> 34
      [] format % 16 = 6 -> 30 [] format % 16 = 7 -> 36
      [] format % 16 = 8 -> 38 [] OTHER -> 0
EbCount(format, recordLength) ==
    IF BaseCount(format) = 0 THEN 0 ELSE recordLength - BaseCount(format)

-----------------------------------------------------------------------------
(* Variable length records: what comes before one, and the four kinds.     *)

VlrHeader  == <<2, 16, 2, 2, 32>>
EvlrHeader == <<2, 16, 2, 8, 32>>
VlrHeaderSize  == 54
EvlrHeaderSize == 60

\* The compressed items of a point, and the bytes of each.
LazItems(format, ebCount) ==
    LET extra(type) == IF ebCount > 0 THEN <<<<type, ebCount>>>> ELSE <<>>
    IN  IF format \in 0..5
        THEN <<<<"point10", 20>>>>
             \o (IF format \in {1, 3} THEN <<<<"gpstime", 8>>>> ELSE <<>>)
             \o (IF format \in {2, 3} THEN <<<<"rgb12", 6>>>> ELSE <<>>)
             \o extra("byte")
        ELSE IF format \in 6..8
        THEN <<<<"point14", 30>>>>
             \o (IF format = 7 THEN <<<<"rgb14", 6>>>> ELSE <<>>)
             \o (IF format = 8 THEN <<<<"rgbnir14", 8>>>> ELSE <<>>)
             \o extra("byte14")
        ELSE <<>>
LazVlr(items)     == <<2, 2, 1, 1, 2, 4, 4, 8, 8, 2>> \o Times(3 * Len(items), 2)
LazVlrSize(items) == 34 + 6 * Len(items)

\* The compressor a reader expects for a point format.
Compressor(format) == IF format <= 5 THEN 2 ELSE 3

EbField       == <<2, 1, 1, 32, 4>> \o Times(15, 8) \o <<32>>
EbVlrSize(n)  == 192 * n

CopcInfo     == Times(5, 8) \o Times(2, 8) \o Times(2, 8) \o Times(11, 8)
CopcInfoSize == 160

\* An entry of the hierarchy: key, offset, byte size and point count.
Entry     == Times(4, 4) \o <<8, 4, 4>>
EntrySize == 32

-----------------------------------------------------------------------------
\* The fields fill every record to its last byte, and the items of a
\* compressed point make up the point.
ASSUME RecordsAreFull ==
    /\ Bytes(Header12) = HeaderSize(2) /\ Bytes(Header13) = HeaderSize(3)
    /\ Bytes(Header14) = HeaderSize(4)
    /\ Bytes(VlrHeader) = VlrHeaderSize /\ Bytes(EvlrHeader) = EvlrHeaderSize
    /\ Bytes(EbField) = EbVlrSize(1) /\ Bytes(CopcInfo) = CopcInfoSize
    /\ Bytes(Entry) = EntrySize
    /\ \A format \in (0..3) \cup (6..8), eb \in 0..3 :
        LET items == LazItems(format, eb) IN
        /\ Bytes(LazVlr(items)) = LazVlrSize(items)
        /\ Bytes([i \in 1..Len(items) |-> items[i][2]]) = BaseCount(format) + eb
=============================================================================
