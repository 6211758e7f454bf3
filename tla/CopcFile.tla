----------------------------- MODULE CopcFile -----------------------------
(***************************************************************************)
(* The output file: bu/CopcSupport, which keeps what will be its header,   *)
(* chunk table and hierarchy, the chunks that bu/Processor compresses, and *)
(* how a reader (lazperf/readers, and a client of the hierarchy) finds the *)
(* points again.                                                           *)
(*                                                                         *)
(* A file is a set of regions [at, len, what, val]: len bytes that hold    *)
(* the value val of the kind what.  Bytes written over a part of a region  *)
(* destroy it.                                                             *)
(***************************************************************************)
EXTENDS Prep, LasRecords, TLC

CONSTANTS
    LevelBreak, MinHierarchySize,   \* of CopcSupport: when a subtree gets a page of its own
    WktSize                         \* the length of the spatial reference
ASSUME CopcAssumption == WktSize \in Nat /\ LevelBreak \in Nat \ {0}

Region(at, len, what, val) == [at |-> at, len |-> len, what |-> what, val |-> val]
Put(file, r) == {s \in file : s.at + s.len <= r.at \/ r.at + r.len <= s.at} \cup {r}
PutAll(file, regions) == FoldSeq(LAMBDA r, f : Put(f, r), file, regions)
\* A reader at a place, for a kind: a set of one value, or of none.
Get(file, at, len, what) == {r.val : r \in {s \in file : s.at = at /\ s.len = len /\ s.what = what}}

-----------------------------------------------------------------------------
(* Statistics of a set of points: the extent and the returns.  (bu/Stats)  *)

NoStats == [n |-> 0, min |-> <<>>, max |-> <<>>, returns |-> [i \in 1..15 |-> 0]]
Returns(points, i) == Cardinality({p \in points : "ReturnNumber" \in DOMAIN p.data
                                                  /\ p.data["ReturnNumber"] = i})
StatsOf(points) ==
    IF points = {} THEN NoStats
    ELSE [n       |-> Cardinality(points),
          min     |-> [a \in Axes |-> Least({p.data[a] : p \in points})],
          max     |-> [a \in Axes |-> Greatest({p.data[a] : p \in points})],
          returns |-> [i \in 1..15 |-> Returns(points, i)]]
\* Fault: the extent of the second is not merged.
MergeCounts(s, t) ==
    IF s.n = 0 THEN t ELSE [s EXCEPT !.n = @ + t.n, !.returns = [i \in 1..15 |-> @[i] + t.returns[i]]]
\* Stats::merge()
Merge(s, t) ==
    IF s.n = 0 THEN t ELSE IF t.n = 0 THEN s
    ELSE [n       |-> s.n + t.n,
          min     |-> [a \in Axes |-> Least({s.min[a], t.min[a]})],
          max     |-> [a \in Axes |-> Greatest({s.max[a], t.max[a]})],
          returns |-> [i \in 1..15 |-> s.returns[i] + t.returns[i]]]

-----------------------------------------------------------------------------
(* Processor: a point of the output.                                       *)

Field(data, d, absent) == IF d \in DOMAIN data THEN data[d] ELSE absent
Steps(info, data, a)   == (data[a] - info.offset[a]) \div info.scale[a]
\* converter() throws for a coordinate that is no int32_t.
Fits(info, data) == \A a \in Axes : Steps(info, data, a) \in (-IntMax - 1)..IntMax

Written(format) ==
    (LasDims \ (Coords \cup {"Red", "Green", "Blue", "Infrared"})) \cup {Bits}
    \cup (IF format \in {7, 8} THEN {"Red", "Green", "Blue"} ELSE {})
    \cup (IF format = 8 THEN {"Infrared"} ELSE {})
Absent(d) == IF d = Bits THEN {} ELSE IF d \in {"ReturnNumber", "NumberOfReturns"} THEN 1 ELSE 0
\* fillPointBuf()
LasPoint(info, p) ==
    [of |-> p.of,
     data |-> [d \in Axes \cup Written(info.format) \cup ExtraDims(info.dims) |->
                IF d \in Axes THEN Steps(info, p.data, d)
                ELSE IF d \in Written(info.format) THEN Field(p.data, d, Absent(d)) ELSE p.data[d]]]

-----------------------------------------------------------------------------
(* CopcSupport.                                                            *)

ExtraByteSize(info) == 2 * Cardinality(ExtraDims(info.dims))
LazSize(info)       == LazVlrSize(LazItems(info.format, ExtraByteSize(info)))
\* The records after the header, in the order of writeHeader(), with their sizes.
VlrList(info) ==
    <<<<"copc", CopcInfoSize>>, <<"laszip", LazSize(info)>>, <<"wkt", WktSize>>>>
    \o (IF ExtraByteSize(info) = 0 THEN <<>>
        ELSE <<<<"eb", EbVlrSize(Cardinality(ExtraDims(info.dims)))>>>>)

\* Fault: the record of the extra bytes is forgotten.
PointOffsetNoEb(info) ==
    HeaderSize(4) + 3 * VlrHeaderSize + CopcInfoSize + LazSize(info) + WktSize
\* The constructor works out where the points begin, before a record is written.
PointOffset(info) ==
    HeaderSize(4) + VlrHeaderSize + CopcInfoSize + VlrHeaderSize + LazSize(info)
    + VlrHeaderSize + WktSize
    + (IF EbCount(info.format + 128, BaseCount(info.format) + ExtraByteSize(info)) = 0 THEN 0
       ELSE VlrHeaderSize + EbVlrSize(Cardinality(ExtraDims(info.dims))))

NewCopc(info) ==
    [pointPos |-> PointOffset(info) + 8, chunkTable |-> <<>>, hierarchy |-> <<>>, pointCount |-> 0,
     evlrOffset |-> 0, rootOffset |-> 0, rootSize |-> 0]

\* newChunk()
NewChunk(copc, k, size, count) ==
    LET entry  == IF count = 0 THEN [offset |-> 0, size |-> 0, count |-> 0]
                  ELSE [offset |-> copc.pointPos, size |-> size, count |-> count]
        logged == [j \in DOMAIN copc.hierarchy \cup {k} |->
                    IF j = k THEN entry ELSE copc.hierarchy[j]]
    IN  IF count = 0 THEN [copc EXCEPT !.hierarchy = logged]
        ELSE [copc EXCEPT !.pointPos = @ + size,
                          !.chunkTable = Append(@, [count |-> count, size |-> size]),
                          !.pointCount = @ + count,
                          !.hierarchy = logged]

\* writeChunkTable(): its place, its header, and the compressed table, of some size.
TableRegions(copc, at, size) ==
    <<Region(at, 8, "place", copc.pointPos),
      Region(copc.pointPos, 8, "table header", Len(copc.chunkTable)),
      Region(copc.pointPos + 8, size, "table", copc.chunkTable)>>

-----------------------------------------------------------------------------
(* writeHierarchy(): emitRoot() and emitChildren().  A page holds the      *)
(* entry of its root and of the voxels below, up to those that have pages  *)
(* of their own: LevelBreak levels down, if enough voxels lie below.       *)

Below(tree, k) == {j \in tree : j # k /\ k \in Ancestors(j)}
PageRoots(tree) ==
    {Root} \cup {k \in tree : k.level % LevelBreak = 0 /\ Cardinality(Below(tree, k)) > MinHierarchySize}
\* The root of the page that refers to k from above.
Above(tree, k) ==
    CHOOSE r \in PageRoots(tree) \cap Ancestors(k) :
        \A q \in PageRoots(tree) \cap Ancestors(k) : q.level <= r.level
PageKeys(tree, r) == {r} \cup {k \in tree \ {Root} : Above(tree, k) = r}

\* A page is written after the pages below it, so orders are from below.
Orders(tree) ==
    LET roots == PageRoots(tree) IN
    {s \in [1..Cardinality(roots) -> roots] :
        /\ IsInjective(s)
        /\ \A i, j \in DOMAIN s : s[i] \in Below(tree, s[j]) => i < j}

Place(tree, order, from) ==
    [r \in PageRoots(tree) |-> LET i == CHOOSE i \in DOMAIN order : order[i] = r IN
        from + EntrySize * FoldSeq(+, 0, [j \in 1..(i - 1) |-> Cardinality(PageKeys(tree, order[j]))])]
PageSize(tree, r) == EntrySize * Cardinality(PageKeys(tree, r))
Page(copc, tree, at, r) ==
    {LET to == IF k \in PageRoots(tree) \ {r}
               THEN [offset |-> at[k], size |-> PageSize(tree, k), count |-> -1]
               ELSE copc.hierarchy[k]
     IN  [key |-> k, offset |-> to.offset, size |-> to.size, count |-> to.count]
        : k \in PageKeys(tree, r)}
HierarchyRegions(copc, tree, order) ==
    LET from == copc.evlrOffset + EvlrHeaderSize
        at   == Place(tree, order, from)
        all  == FoldSeq(+, 0, [i \in DOMAIN order |-> PageSize(tree, order[i])])
    IN  [i \in DOMAIN order |-> Region(at[order[i]], PageSize(tree, order[i]), "page",
                                       Page(copc, tree, at, order[i]))]
        \o <<Region(copc.evlrOffset, EvlrHeaderSize, "evlr header", all)>>

-----------------------------------------------------------------------------
(* updateHeader() and writeHeader().                                       *)

Header(info, copc, stats) ==
    [minor |-> 4, headerSize |-> HeaderSize(4), pointOffset |-> PointOffset(info),
     format |-> info.format + 128,
     recordLength |-> BaseCount(info.format) + ExtraByteSize(info),
     vlrCount |-> IF ExtraByteSize(info) = 0 THEN 3 ELSE 4,
     evlrCount |-> 1, evlrOffset |-> copc.evlrOffset, pointCount |-> copc.pointCount,
     scale |-> info.scale, offset |-> info.offset,
     min |-> stats.min, max |-> stats.max, returns |-> stats.returns]
\* The center, doubled, and twice half the size, that of the first axis.
CopcVlr(info, copc) ==
    [center2 |-> [a \in Axes |-> info.bounds[a].max + info.bounds[a].min],
     size |-> Side(info.bounds, IF "X" \in Axes THEN "X" ELSE CHOOSE a \in Axes : TRUE),
     rootOffset |-> copc.rootOffset, rootSize |-> copc.rootSize]
VlrValue(info, copc, kind) ==
    IF kind = "copc" THEN CopcVlr(info, copc)
    ELSE IF kind = "laszip" THEN [compressor |-> Compressor(info.format),
                                  items |-> LazItems(info.format, ExtraByteSize(info))]
    ELSE IF kind = "eb" THEN ExtraDims(info.dims) ELSE "wkt"
HeaderRegions(info, copc, stats) ==
    LET vlrs  == VlrList(info)
        at(i) == HeaderSize(4) + FoldSeq(+, 0, [j \in 1..(i - 1) |-> VlrHeaderSize + vlrs[j][2]])
    IN  <<Region(0, Bytes(Header14), "header", Header(info, copc, stats))>>
        \o [i \in DOMAIN vlrs |-> Region(at(i), Bytes(VlrHeader), "vlr header",
                                         [kind |-> vlrs[i][1], length |-> vlrs[i][2]])]
        \o [i \in DOMAIN vlrs |-> Region(at(i) + VlrHeaderSize, vlrs[i][2], vlrs[i][1],
                                         VlrValue(info, copc, vlrs[i][1]))]

-----------------------------------------------------------------------------
(* lazperf's reader::basic_file.                                           *)

HeaderOf(file) == Get(file, 0, HeaderSize(4), "header")
\* parseVLRs(): each record's kind and place; a place without a record ends it.
VlrsOf(file, h) ==
    LET next[i \in 0..h.vlrCount] ==
            IF i = 0 THEN [at |-> h.headerSize, found |-> {}]
            ELSE LET v == Get(file, next[i - 1].at, VlrHeaderSize, "vlr header") IN
                 [at |-> next[i - 1].at + VlrHeaderSize + FoldSet(LAMBDA w, n : n + w.length, 0, v),
                  found |-> next[i - 1].found \cup
                      {<<w.kind, next[i - 1].at + VlrHeaderSize, w.length>> : w \in v}]
    IN  next[h.vlrCount].found
VlrOf(file, h, kind) ==
    UNION {Get(file, v[2], v[3], kind) : v \in {w \in VlrsOf(file, h) : w[1] = kind}}

\* parseChunkTable(), then readPoint() to the end: the chunks follow each other.
LinearPoints(file, h) ==
    LET laz   == {v \in VlrOf(file, h, "laszip") :
                    /\ v.compressor = Compressor(h.format % 64)
                    /\ v.items = LazItems(h.format % 64, EbCount(h.format, h.recordLength))}
        place == Get(file, h.pointOffset, 8, "place")
        table == UNION {UNION {{r.val : r \in {s \in file : s.at = p + 8 /\ s.what = "table"
                                                            /\ Len(s.val) = n}}
                               : n \in Get(file, p, 8, "table header")} : p \in place}
        Start(t, i) == h.pointOffset + 8 + FoldSeq(+, 0, [j \in 1..(i - 1) |-> t[j].size])
        Chunk(t, i) == {c \in Get(file, Start(t, i), t[i].size, "chunk") : Len(c) = t[i].count}
    IN  IF laz = {} THEN <<>>
        ELSE FoldSet(LAMBDA t, s : s \o FoldSeq(LAMBDA c, r : c \o r, <<>>,
                        [i \in DOMAIN t |-> FoldSet(LAMBDA c, r : c \o r, <<>>, Chunk(t, i))]),
                     <<>>, table)

\* A client that reads the hierarchy from its root page: the chunks by voxel.
PagesOf(file, c) ==
    LET Entries(pages) == UNION {UNION Get(file, p[1], p[2], "page") : p \in pages}
        from[n \in Nat] ==
            IF n = 0 THEN {<<c.rootOffset, c.rootSize>>}
            ELSE from[n - 1] \cup
                 {<<e.offset, e.size>> : e \in {d \in Entries(from[n - 1]) : d.count = -1}}
    IN  from[Cardinality({r \in file : r.what = "page"})]
EntriesOf(file, c) ==
    UNION {{e \in UNION Get(file, p[1], p[2], "page") : e.count > 0} : p \in PagesOf(file, c)}
NodePoints(file, e) ==
    UNION {Range(s) : s \in {t \in Get(file, e.offset, e.size, "chunk") : Len(t) = e.count}}
=============================================================================
