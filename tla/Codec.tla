------------------------------- MODULE Codec -------------------------------
(***************************************************************************)
(* What lazperf promises untwine: a reader gets the points of a chunk, and *)
(* the chunk table, back as they were written.                             *)
(*                                                                         *)
(* A job is a chunk of points of one format, which a point compressor      *)
(* writes (lazperf.cpp) and a decompressor reads, or a table of chunks.    *)
(* The two ends share nothing but what is written.                         *)
(***************************************************************************)
EXTENDS LayerCodec

CONSTANTS
    PointJobs,  \* [format, pool, most]: points are drawn from the pool, at most so many
    TableJobs   \* [pool, most]: entries of a chunk table

VARIABLES
    job,
    chosen,     \* what was given to the compressor
    writer,     \* the compressor
    output,     \* what it has written when it is done and is not read yet
    reader,     \* the decompressor
    decoded     \* what it returned
vars == <<job, chosen, writer, output, reader, decoded>>

NoOutput  == [written |-> FALSE, read |-> FALSE]
AllRead(n) == [written |-> TRUE, read |-> TRUE, count |-> n]
NoReader  == [lost |-> FALSE]
OfPoints  == job \in PointJobs
ByteCount(point) == Len(point.bytes)

-----------------------------------------------------------------------------
(* A chunk of points.                                                      *)

\* The streams of a chunk, in the order of the sizes and the data.
ByteStreams(n) == [i \in 1..n |-> ByteStream(i)]
Streams(format, n) ==
    Point14Streams \o (IF format >= 7 THEN <<"rgb">> ELSE <<>>)
                   \o (IF format = 8 THEN <<"nir">> ELSE <<>>) \o ByteStreams(n)

\* A writer or a reader after the first point, which both have as it is.
\* The layers are given the channel of the first point.
Started(point) ==
    LET ch == point.fixed.channel IN
    [chans |-> [c \in Channels |-> IF c = ch THEN Begun(NewChannel, point.fixed) ELSE NewChannel],
     channel |-> ch,
     rgb |-> NewLayer(ch, point.rgb), nir |-> NewLayer(ch, point.nir), byte |-> NewLayer(ch, point.bytes)]

NewWriter(format, point) ==
    Started(point) @@ [first |-> point, count |-> 1, valid |-> {"xy", "z"},
                       streams |-> [s \in Range(Streams(format, ByteCount(point))) |-> <<>>]]

\* compress() of the point compressors.  The layers are given the channel of a
\* point that changes it, and otherwise 0.
Written(w, format, point) ==
    LET p14   == EncodePoint(w.chans, w.channel, point.fixed)
        ch    == IF point.fixed.channel # w.channel THEN point.fixed.channel ELSE 0
        bytes == [i \in 1..ByteCount(point) |->
                    ByteItems(ch, i, point.bytes[i], LastOf(w.byte)[i])]
        Items(s) ==
            CASE s = "rgb" -> RgbItems(ch, point.rgb, LastOf(w.rgb))
              [] s = "nir" -> NirItems(ch, point.nir, LastOf(w.nir))
              [] \E i \in DOMAIN bytes : s = ByteStream(i) ->
                    bytes[CHOOSE i \in DOMAIN bytes : s = ByteStream(i)]
              [] OTHER -> p14.items[s]
    IN  [w EXCEPT
            !.count = @ + 1, !.chans = p14.chans, !.channel = point.fixed.channel,
            !.streams = [s \in DOMAIN @ |-> @[s] \o Items(s)],
            !.valid = @ \cup p14.valid
                \cup When(ColorBits(point.rgb, LastOf(w.rgb)) # {}, "rgb")
                \cup When(NirBits(point.nir, LastOf(w.nir)) # {}, "nir")
                \cup {ByteStream(i) : i \in {j \in DOMAIN bytes : point.bytes[j] # LastOf(w.byte)[j]}},
            !.rgb = Kept14(@, ch, Replaced(@, ch), point.rgb),
            !.nir = Kept14(@, ch, Replaced(@, ch), point.nir),
            !.byte = Kept14(@, ch, Replaced(@, ch), point.bytes)]

\* done(): the sizes and the data of the streams.  One that was never made valid
\* has no size; the others end with what encoder.done() adds.
Flushed(w, format) ==
    LET order == Streams(format, ByteCount(w.first))
        Of(s) == IF s \in w.valid THEN w.streams[s] \o <<"end">> ELSE <<>>
    IN  [written |-> TRUE, read |-> FALSE, first |-> w.first, count |-> w.count,
         sizes |-> [i \in DOMAIN order |-> Len(Of(order[i]))],
         data |-> FlattenSeq([i \in DOMAIN order |-> Of(order[i])])]

\* decompress() for the first point: readSizes() and readData().
NewPointReader(chunk, format) ==
    LET order == Streams(format, ByteCount(chunk.first))
        start[i \in 0..Len(order)] == IF i = 0 THEN 0 ELSE start[i - 1] + chunk.sizes[i]
        Of(i) == SubSeq(chunk.data, start[i - 1] + 1, start[i])
    IN  Started(chunk.first) @@
        [valid |-> {order[i] : i \in {j \in DOMAIN order : chunk.sizes[j] # 0}},
         streams |-> [s \in Range(order) |->
            LET got == Of(CHOOSE i \in DOMAIN order : order[i] = s)
            IN  IF got = <<>> THEN <<>> ELSE Front(got)],
         lost |-> FALSE]

\* decompress() for a later one: [point, d].
ReadLayers(d, p14) ==
    LET ch  == p14.arg
        rgb == IF "rgb" \in d.valid THEN ReadRgb(p14.d, ch, LastOf(d.rgb)) ELSE Kept(p14.d, LastOf(d.rgb))
        nir == IF "nir" \in d.valid THEN ReadNir(rgb.d, ch, LastOf(d.nir)) ELSE Kept(rgb.d, LastOf(d.nir))
        byte == ReadBytes(nir.d, ch, LastOf(d.byte))
        Next14(layer, valid, value) ==
            IF valid THEN Kept14(layer, ch, Restored(layer, ch), value) ELSE layer
    IN  [point |-> [fixed |-> p14.p, rgb |-> rgb.sym, nir |-> nir.sym, bytes |-> byte.sym],
         d |-> [byte.d EXCEPT
                    !.rgb = Next14(@, "rgb" \in d.valid, rgb.sym),
                    !.nir = Next14(@, "nir" \in d.valid, nir.sym),
                    !.byte = Next14(@, TRUE, byte.sym)]]
ReadPoint(d) == ReadLayers(d, DecodePoint(d))

-----------------------------------------------------------------------------
(* The chunk table: for every chunk its count of points and its size, each *)
(* predicted from the chunk before.  (compress_chunk_table() in lazperf.cpp*)
(* and parseChunkTable() in readers.cpp)                                   *)

Table == <<"table", 0>>
TableItems(before, chunk) ==
    IntItems(Table, IntBits, 0, Corrector(before.count, chunk.count, IntBits))
    \o IntItems(Table, IntBits, 1, Corrector(before.size, chunk.size, IntBits))
\* What reads the table, as bytes of a decoder.
Decoded(d, stream, want) == Decode(d, want)
FromBytes == INSTANCE IntDecoder WITH Read <- Decoded
ChunkOf(count, size) == [chunk |-> [count |-> count.sym, size |-> size.sym], d |-> size.d]
ReadSize(count, before) == ChunkOf(count, FromBytes!ReadInt(count.d, Table, Table, IntBits, 1, before.size))
ReadChunk(d, before)    == ReadSize(FromBytes!ReadInt(d, Table, Table, IntBits, 0, before.count), before)
NoChunk == [count |-> 0, size |-> 0]
-----------------------------------------------------------------------------

Init ==
    /\ job \in PointJobs \cup TableJobs
    /\ chosen = <<>> /\ decoded = <<>> /\ output = NoOutput /\ reader = NoReader
    /\ writer = IF OfPoints THEN <<>> ELSE NewEncoder

\* point_compressor::compress()
Compress ==
    /\ OfPoints /\ ~output.written /\ Len(chosen) < job.most
    /\ \E p \in job.pool :
        /\ chosen' = Append(chosen, p)
        /\ writer' = IF chosen = <<>> THEN NewWriter(job.format, p) ELSE Written(writer, job.format, p)
    /\ UNCHANGED <<job, output, reader, decoded>>

\* point_compressor::done(), and the compressor is gone.
Finish ==
    /\ OfPoints /\ ~output.written /\ chosen # <<>>
    /\ output' = Flushed(writer, job.format) /\ writer' = <<>>
    /\ UNCHANGED <<job, chosen, reader, decoded>>

\* point_decompressor::decompress()
Decompress ==
    /\ OfPoints /\ output.written /\ Len(decoded) < output.count
    /\ IF ~output.read
       THEN reader' = NewPointReader(output, job.format) /\ decoded' = <<output.first>>
       ELSE LET r == ReadPoint(reader)
            IN  reader' = r.d /\ decoded' = Append(decoded, r.point)
    /\ output' = AllRead(output.count)
    /\ UNCHANGED <<job, chosen, writer>>

\* compress_chunk_table(): an entry, and the end.
AddEntry ==
    /\ ~OfPoints /\ ~output.written /\ Len(chosen) < job.most
    /\ \E c \in job.pool :
        /\ chosen' = Append(chosen, c)
        /\ writer' = FoldLeft(Encode, writer, TableItems(IF chosen = <<>> THEN NoChunk ELSE Last(chosen), c))
    /\ UNCHANGED <<job, output, reader, decoded>>
FinishTable ==
    /\ ~OfPoints /\ ~output.written
    /\ output' = [written |-> TRUE, read |-> FALSE, bytes |-> Done(writer), count |-> Len(chosen)] /\ writer' = <<>>
    /\ UNCHANGED <<job, chosen, reader, decoded>>

\* parseChunkTable()
ReadEntry ==
    /\ ~OfPoints /\ output.written /\ Len(decoded) < output.count
    /\ LET r == ReadChunk(IF decoded = <<>> THEN NewDecoder(output.bytes) ELSE reader,
                          IF decoded = <<>> THEN NoChunk ELSE Last(decoded))
       IN  reader' = r.d /\ decoded' = Append(decoded, r.chunk)
    /\ output' = AllRead(output.count)
    /\ UNCHANGED <<job, chosen, writer>>

Next == Compress \/ Finish \/ Decompress \/ AddEntry \/ FinishTable \/ ReadEntry
Spec == Init /\ [][Next]_vars

-----------------------------------------------------------------------------

\* Without the attributes that the format does not have.
OfFormat(p) == [p EXCEPT !.rgb = IF job.format >= 7 THEN @ ELSE 0, !.nir = IF job.format = 8 THEN @ ELSE 0]

\* The decompressor returns the points that were compressed, in their order,
\* whatever channels, times and colours follow each other; it asks for no item
\* under another model than the one it was written under; and when it has
\* returned them all, it has used up every stream.  (point14, rgb14, nir14 and
\* byte14 keep the contexts of the scanner channels in step by writing every
\* update twice, once in compress() and once in decompress().)
PointsDecode ==
    OfPoints =>
        /\ ~reader.lost
        /\ Len(decoded) <= Len(chosen)
        /\ \A i \in DOMAIN decoded : OfFormat(decoded[i]) = OfFormat(chosen[i])
        /\ decoded # <<>> /\ Len(decoded) = Len(chosen) =>
            \A s \in DOMAIN reader.streams : reader.streams[s] = <<>>

\* The table is read as it was written, from the bytes of the arithmetic coder
\* and no others: parseChunkTable() asks for no byte after the last, where the
\* next part of the file begins.
TableDecodes ==
    ~OfPoints =>
        /\ Len(decoded) <= Len(chosen)
        /\ \A i \in DOMAIN decoded : decoded[i] = chosen[i]
        /\ decoded # <<>> => ~ReadPastEnd(reader)
=============================================================================
