---------------------------- MODULE PointCodec ----------------------------
(***************************************************************************)
(* The compression of a chunk of points of the formats 6 to 8: lazperf's   *)
(* field_point14, field_rgb14, field_nir14 and field_byte14, and the point *)
(* compressors of lazperf.cpp that put them together.                      *)
(*                                                                         *)
(* Every field is coded under models chosen by the context of its scanner  *)
(* channel, into a stream of its own.  A stream is here the queue of its   *)
(* items: the arithmetic coder gives an item back if it is asked for it    *)
(* under the model it was put under, which ArithCoder shows.  Reading in   *)
(* any other way yields a wrong item, and says so in "lost".               *)
(***************************************************************************)
EXTENDS IntCoder

CONSTANTS
    ShortInt,           \* the bits of a uint16_t
    HalfBits,           \* the bits of a uint8_t, of which two make a uint16_t
    ReturnMap,          \* number_return_map_6ctx
    MaxXYBits, MaxZBits,        \* 20 and 18: the greatest contexts for y and z
    Multi, MultiMinus, TagLimit \* 500, 10 and 10: for multiples of the time's step
ASSUME CodecAssumption ==
    /\ HalfBits * 2 = ShortInt /\ ShortInt < IntBits
    /\ MaxXYBits % 2 = 0 /\ MaxZBits % 2 = 0 /\ TagLimit < Multi /\ 1 < TagLimit

Channels == 0..3
Returns  == 0..15
Even(n)  == n - (n % 2)

When(condition, name) == IF condition THEN {name} ELSE {}

-----------------------------------------------------------------------------
(* utils::streaming_median.                                                *)

NewMedian == [values |-> <<0, 0, 0, 0, 0>>, high |-> TRUE]
Median5(m) == m.values[3]
MedianOf(medians, context) == IF context \in DOMAIN medians THEN medians[context] ELSE NewMedian
WithDiff(m, v) ==
    [values |-> SortSeq(Append(IF m.high THEN Front(m.values) ELSE Tail(m.values), v), <),
     high   |-> IF m.high THEN v < Median5(m) ELSE ~(Median5(m) < v)]
WithDiffOf(medians, context, v) == (context :> WithDiff(MedianOf(medians, context), v)) @@ medians

-----------------------------------------------------------------------------
(* The state of a channel (ChannelCtx), and streams.                       *)

NewChannel ==
    [have |-> FALSE, last |-> <<>>, lastZ |-> [i \in 0..7 |-> 0], lastI |-> [i \in 0..7 |-> 0],
     x |-> <<>>, y |-> <<>>,     \* the medians of the contexts that were met
     seq |-> 0, next |-> 0, times |-> [i \in 0..3 |-> 0], diffs |-> [i \in 0..3 |-> 0],
     extremes |-> [i \in 0..3 |-> 0], timeChange |-> FALSE]
\* What a channel begins with: its first point, or the last of another channel.
Begun(c, p) ==
    [c EXCEPT !.have = TRUE, !.last = p, !.lastZ = [i \in 0..7 |-> p.z],
              !.lastI = [i \in 0..7 |-> p.intensity], !.times[0] = p.time]

-----------------------------------------------------------------------------
(* A stream, which gives an item back if it is asked for it under the      *)
(* model it was put under.                                                 *)

Take(d, stream, want) ==
    IF d.streams[stream] # <<>> /\ Head(d.streams[stream]).want = want
    THEN [sym |-> Head(d.streams[stream]).sym, d |-> [d EXCEPT !.streams[stream] = Tail(@)]]
    ELSE [sym |-> 0, d |-> [d EXCEPT !.lost = TRUE]]
FromStream == INSTANCE IntDecoder WITH Read <- Take

-----------------------------------------------------------------------------
(* Contexts that the compressor and the decompressor compute from what     *)
(* both know: number_return_level_8ctx, and that of a class.               *)

Level8(n, r) == Lesser(IF n < r THEN r - n ELSE n - r, 7)
IntensityContext(n, r, dt) ==
    (IF dt THEN 1 ELSE 0) + (IF r >= n THEN 2 ELSE 0) + (IF r = 1 THEN 4 ELSE 0)
ClassContext(last, n, r) == <<r = 1 /\ r >= n, last.class % 32>>
ChangeContext(prev) == <<prev.last.r = 1, prev.last.r >= prev.last.n, prev.timeChange>>
\* The contexts of y and z, from the bits that x, or x and y, took.
BitsContext(bits, limit, n) == <<Lesser(Even(bits), limit), n = 1>>

-----------------------------------------------------------------------------
(* The time of a point: four sequences, each with its last time and step.  *)

\* Round to the nearest; a half away from zero.
Quotient(n, d) ==
    LET a == IF n < 0 THEN -n ELSE n
        b == IF d < 0 THEN -d ELSE d
        q == (2 * a + b) \div (2 * b)
    IN  IF (n < 0) = (d < 0) THEN q ELSE -q
Upper(time) == Signed(time \div 2 ^ IntBits, IntBits)
Lower(time) == time % 2 ^ IntBits
\* writeInt() and readInt(), which are two shorts.
LowItem     == Raw(IntBits)
Times(m, step) == Signed(m * step, IntBits)

\* After an extreme difference; the fourth in a row becomes the step.
Extreme(c, diff) ==
    IF c.extremes[c.seq] >= 3 THEN [c EXCEPT !.extremes[c.seq] = 0, !.diffs[c.seq] = diff]
    ELSE [c EXCEPT !.extremes[c.seq] = @ + 1]
NewSequence(c, time) ==
    LET s == (c.next + 1) % 4 IN
    [c EXCEPT !.seq = s, !.next = s, !.diffs[s] = 0, !.extremes[s] = 0, !.times[s] = time]

ZeroDiff(ch) == Symbol(<<"time0", ch, "symbol", 0>>, 5)
MultiDiff(ch) == Symbol(<<"timeN", ch, "symbol", 0>>, Multi + MultiMinus + 5)
TimeInt(ch, tag, pred, real) == IntItems(<<"time", ch>>, IntBits, tag, Corrector(pred, real, IntBits))

\* encodeGpsTime() for a time in reach of the channel's sequence: [items, c].
EncodeNear(ch, c, time) ==
    LET diff  == time - c.times[c.seq]
        step  == c.diffs[c.seq]
        there == [c EXCEPT !.times[c.seq] = time]
        multi == Quotient(diff, step)
        Coded(sym, times, tag) ==
            <<Item(MultiDiff(ch), sym)>> \o TimeInt(ch, tag, Times(times, step), diff)
    IN  IF step = 0
        THEN [items |-> <<Item(ZeroDiff(ch), 0)>> \o TimeInt(ch, 0, 0, diff),
              c |-> [there EXCEPT !.diffs[c.seq] = diff, !.extremes[c.seq] = 0]]
        ELSE IF multi = 1 THEN [items |-> Coded(1, 1, 1), c |-> [there EXCEPT !.extremes[c.seq] = 0]]
        ELSE IF multi \in 2..(Multi - 1)
        THEN [items |-> Coded(multi, multi, IF multi < TagLimit THEN 2 ELSE 3), c |-> there]
        ELSE IF multi >= Multi THEN [items |-> Coded(Multi, Multi, 4), c |-> Extreme(there, diff)]
        ELSE IF multi = 0 THEN [items |-> Coded(0, 0, 7), c |-> Extreme(there, diff)]
        ELSE IF multi > -MultiMinus THEN [items |-> Coded(Multi - multi, multi, 5), c |-> there]
        ELSE [items |-> Coded(Multi + MultiMinus, -MultiMinus, 6), c |-> Extreme(there, diff)]
\* encodeGpsTime(): in the channel's sequence, in another, or in a new one.
EncodeTime(ch, c, time) ==
    LET near == {i \in 0..3 : LET d == time - c.times[(c.seq + i) % 4] IN d = Signed(d, IntBits)}
        idx  == CHOOSE i \in near : \A j \in near : i <= j
        Switch(i) == IF c.diffs[c.seq] = 0 THEN Item(ZeroDiff(ch), i + 1)
                     ELSE Item(MultiDiff(ch), Multi + MultiMinus + 1 + i)
        other == EncodeNear(ch, [c EXCEPT !.seq = (@ + idx) % 4], time)
    IN  IF near = {}
        THEN [items |-> <<Switch(0)>> \o TimeInt(ch, 8, Upper(c.times[c.seq]), Upper(time))
                        \o <<Item(LowItem, Lower(time))>>,
              c |-> NewSequence(c, time)]
        ELSE IF idx = 0 THEN EncodeNear(ch, c, time)
        ELSE [items |-> <<Switch(idx)>> \o other.items, c |-> other.c]

\* decodeGpsTime(): [sym, d, c], from a symbol for the channel's sequence.
FullTime == Multi + MultiMinus + 1
TimeSymbol(d, ch, c) == Take(d, "time", IF c.diffs[c.seq] = 0 THEN ZeroDiff(ch) ELSE MultiDiff(ch))
\* The time moves by the number that was read.
Later(r, c)          == [sym |-> c.times[c.seq] + r.sym, d |-> r.d, c |-> [c EXCEPT !.times[c.seq] = @ + r.sym]]
LaterByStep(r, c)    == Later(r, [c EXCEPT !.diffs[c.seq] = r.sym, !.extremes[c.seq] = 0])
LaterByExtreme(r, c) == Later(r, Extreme(c, r.sym))
Fresh(time, d, c)    == [sym |-> time, d |-> d, c |-> NewSequence(c, time)]
ReadFresh(high, c) ==
    LET low == Take(high.d, "time", LowItem)
    IN  Fresh((high.sym % 2 ^ IntBits) * 2 ^ IntBits + low.sym, low.d, c)
ReadNear(m, ch, c) ==
    LET step == c.diffs[c.seq]
        Int14(tag, pred) == FromStream!ReadInt(m.d, "time", <<"time", ch>>, IntBits, tag, pred)
    IN  IF m.sym = (IF step = 0 THEN 1 ELSE FullTime)
        THEN ReadFresh(Int14(8, Upper(c.times[c.seq])), c)
        ELSE IF step = 0 THEN LaterByStep(Int14(0, 0), c)
        ELSE IF m.sym = 1 THEN Later(Int14(1, step), [c EXCEPT !.extremes[c.seq] = 0])
        ELSE IF m.sym = 0 THEN LaterByExtreme(Int14(7, 0), c)
        ELSE IF m.sym < Multi THEN Later(Int14(IF m.sym < TagLimit THEN 2 ELSE 3, Times(m.sym, step)), c)
        ELSE IF m.sym = Multi THEN LaterByExtreme(Int14(4, Times(Multi, step)), c)
        ELSE IF Multi - m.sym > -MultiMinus THEN Later(Int14(5, Times(Multi - m.sym, step)), c)
        ELSE LaterByExtreme(Int14(6, Times(-MultiMinus, step)), c)
\* A symbol that changes the sequence comes before one that does not.
ReadSequence(m, ch, c) ==
    LET same == IF c.diffs[c.seq] = 0 THEN 1 ELSE FullTime
        k    == [c EXCEPT !.seq = (@ + m.sym - same) % 4]
    IN  IF m.sym <= same THEN ReadNear(m, ch, c) ELSE ReadNear(TimeSymbol(m.d, ch, k), ch, k)
ReadTime(d, ch, c) == ReadSequence(TimeSymbol(d, ch, c), ch, c)

-----------------------------------------------------------------------------
(* Point14: the streams of the fields of every point.                      *)

Point14Streams == <<"xy", "z", "class", "flags", "intensity", "angle", "user", "source", "time">>

Changed(ch, prev)  == Symbol(<<"changed", ch, "symbol", ChangeContext(prev)>>, 128)
Channel(ch)        == Symbol(<<"channel", ch, "symbol", 0>>, 3)
Number(ch, n)      == Symbol(<<"number", ch, "symbol", n>>, 16)
Return(ch, r)      == Symbol(<<"return", ch, "symbol", r>>, 16)
ReturnSame(ch)     == Symbol(<<"returnSame", ch, "symbol", 0>>, 13)
Class(ch, context) == Symbol(<<"class", ch, "symbol", context>>, 256)
Flags(ch, flags)   == Symbol(<<"flags", ch, "symbol", flags>>, 64)
User(ch, user)     == Symbol(<<"user", ch, "symbol", user \div 4>>, 256)

\* Point14Compressor::compress() after the first point: what goes to the streams,
\* the streams that become valid, and the channels.  A set is the symbol that has
\* these bits.
EncodePoint(chans, prevCh, p) ==
    LET sc   == p.channel
        prev == chans[prevCh]
        c    == IF chans[sc].have THEN chans[sc] ELSE Begun(chans[sc], prev.last)
        q    == c.last
        up   == p.r = (q.r + 1) % 16
        down == p.r = (q.r + 15) % 16
        misc == p.r # q.r /\ ~up /\ ~down
        dt   == p.time # q.time
        changes == When(up \/ misc, "plus") \cup When(down \/ misc, "minus")
                   \cup When(p.n # q.n, "number") \cup When(p.angle # q.angle, "angle")
                   \cup When(dt, "time") \cup When(p.source # q.source, "source")
                   \cup When(sc # prevCh, "channel")
        rn   == IF ~misc THEN <<>>
                ELSE IF dt THEN <<Item(Return(sc, q.r), p.r)>>
                ELSE <<Item(ReturnSame(sc), (p.r - q.r + 14) % 16)>>
        m    == <<ReturnMap[<<p.n, p.r>>], dt>>
        dx   == Signed(p.x - q.x, IntBits)
        dy   == Signed(p.y - q.y, IntBits)
        cx   == Corrector(Median5(MedianOf(c.x, m)), dx, IntBits)
        cy   == Corrector(Median5(MedianOf(c.y, m)), dy, IntBits)
        lev  == Level8(p.n, p.r)
        cz   == Corrector(c.lastZ[lev], p.z, IntBits)
        i    == <<p.r = 1, p.r >= p.n, dt>>
        li   == IntensityContext(p.n, p.r, dt)
        t    == IF dt THEN EncodeTime(sc, c, p.time) ELSE [items |-> <<>>, c |-> c]
        items == [s \in Range(Point14Streams) |->
            CASE s = "xy" ->
                    <<Item(Changed(prevCh, prev), changes)>>
                    \o (IF sc = prevCh THEN <<>> ELSE <<Item(Channel(prevCh), (sc - prevCh + 3) % 4)>>)
                    \o (IF p.n = q.n THEN <<>> ELSE <<Item(Number(sc, q.n), p.n)>>)
                    \o rn
                    \o IntItems(<<"x", sc>>, IntBits, p.n = 1, cx)
                    \o IntItems(<<"y", sc>>, IntBits, BitsContext(K(cx), MaxXYBits, p.n), cy)
              [] s = "z" ->
                    IntItems(<<"z", sc>>, IntBits, BitsContext((K(cx) + K(cy)) \div 2, MaxZBits, p.n), cz)
              [] s = "class" -> <<Item(Class(sc, ClassContext(q, p.n, p.r)), p.class)>>
              [] s = "flags" -> <<Item(Flags(sc, q.flags), p.flags)>>
              [] s = "intensity" ->
                    IntItems(<<"intensity", sc>>, ShortInt, <<i[1], i[2]>>,
                             Corrector(c.lastI[li], p.intensity, ShortInt))
              [] s = "angle" ->
                    IF p.angle = q.angle THEN <<>>
                    ELSE IntItems(<<"angle", sc>>, ShortInt, dt, Corrector(q.angle, p.angle, ShortInt))
              [] s = "user" -> <<Item(User(sc, q.user), p.user)>>
              [] s = "source" ->
                    IF p.source = q.source THEN <<>>
                    ELSE IntItems(<<"source", sc>>, ShortInt, 0, Corrector(q.source, p.source, ShortInt))
              [] s = "time" -> t.items]
    IN  [items |-> items,
         valid |-> {s \in {"class", "flags", "intensity", "angle", "user", "source", "time"} : p[s] # q[s]},
         chans |-> [chans EXCEPT ![sc] =
            [t.c EXCEPT !.last = p, !.timeChange = dt, !.lastZ[lev] = p.z, !.lastI[li] = p.intensity,
                        !.x = WithDiffOf(@, m, dx), !.y = WithDiffOf(@, m, dy)]]]

\* Point14Decompressor::decompress() after the first point: its reads, in their
\* order, each of which sets a field of the channel's last point.  d: the streams;
\* prev, c: the old and the new channel; kx, ky: the bits that x and y took.
Kept(d, value) == [sym |-> value, d |-> d]
Now(s)         == s.c.last
With(s, field, t)   == [s EXCEPT !.d = t.d, !.c.last[field] = t.sym]
WithChanges(s, t)   == [s EXCEPT !.d = t.d, !.changes = IF t.d.lost THEN {} ELSE t.sym]
InChannel(s, d, ch) ==
    LET c == IF d.chans[ch].have THEN d.chans[ch] ELSE Begun(d.chans[ch], s.prev.last)
    IN  [s EXCEPT !.d = d, !.ch = ch, !.c = [c EXCEPT !.last.channel = ch]]
WithX(s, context, t) ==
    [s EXCEPT !.d = t.d, !.kx = t.k, !.c.last.x = Signed(@ + t.sym, IntBits),
              !.c.x = WithDiffOf(@, context, t.sym)]
WithY(s, context, t) ==
    [s EXCEPT !.d = t.d, !.ky = t.k, !.c.last.y = Signed(@ + t.sym, IntBits),
              !.c.y = WithDiffOf(@, context, t.sym)]
WithZ(s, level, t)         == [With(s, "z", t) EXCEPT !.c.lastZ[level] = t.sym]
WithIntensity(s, level, t) == [With(s, "intensity", t) EXCEPT !.c.lastI[level] = t.sym]
WithTime(s, t)             == [s EXCEPT !.d = t.d, !.c = [t.c EXCEPT !.last.time = t.sym]]

ReadChannel(s) ==
    LET t == Take(s.d, "xy", Channel(s.ch)) IN InChannel(s, t.d, (s.prev.last.channel + t.sym + 1) % 4)
ReadReturn(s) ==
    LET q    == Now(s).r
        Same(t) == [t EXCEPT !.sym = (q + @ + 2) % 16]
    IN  IF {"plus", "minus"} \subseteq s.changes
        THEN IF "time" \in s.changes THEN Take(s.d, "xy", Return(s.ch, q))
             ELSE Same(Take(s.d, "xy", ReturnSame(s.ch)))
        ELSE Kept(s.d, IF "plus" \in s.changes THEN (q + 1) % 16
                       ELSE IF "minus" \in s.changes THEN (q + 15) % 16 ELSE q)
ReadField(s, field) ==
    LET q  == Now(s)
        dt == "time" \in s.changes
        m  == <<ReturnMap[<<q.n, q.r>>], dt>>
    IN
    CASE field = "changes" -> WithChanges(s, Take(s.d, "xy", Changed(s.ch, s.prev)))
      [] field = "channel" -> IF "channel" \in s.changes THEN ReadChannel(s) ELSE InChannel(s, s.d, s.ch)
      [] field = "number" ->
            IF "number" \in s.changes THEN With(s, "n", Take(s.d, "xy", Number(s.ch, q.n))) ELSE s
      [] field = "return" -> With(s, "r", ReadReturn(s))
      [] field = "x" ->
            WithX(s, m, FromStream!ReadInt(s.d, "xy", <<"x", s.ch>>, IntBits, q.n = 1, Median5(MedianOf(s.c.x, m))))
      [] field = "y" ->
            WithY(s, m, FromStream!ReadInt(s.d, "xy", <<"y", s.ch>>, IntBits, BitsContext(s.kx, MaxXYBits, q.n),
                                    Median5(MedianOf(s.c.y, m))))
      [] field = "z" ->
            WithZ(s, Level8(q.n, q.r),
                  FromStream!ReadInt(s.d, "z", <<"z", s.ch>>, IntBits, BitsContext((s.kx + s.ky) \div 2, MaxZBits, q.n),
                              s.c.lastZ[Level8(q.n, q.r)]))
      [] field = "class" -> With(s, "class", Take(s.d, "class", Class(s.ch, ClassContext(q, q.n, q.r))))
      [] field = "flags" -> With(s, "flags", Take(s.d, "flags", Flags(s.ch, q.flags)))
      [] field = "intensity" ->
            WithIntensity(s, IntensityContext(q.n, q.r, dt),
                FromStream!ReadInt(s.d, "intensity", <<"intensity", s.ch>>, ShortInt, <<q.r = 1, q.r >= q.n>>,
                            s.c.lastI[IntensityContext(q.n, q.r, dt)]))
      [] field = "angle" ->
            LET t == FromStream!ReadInt(s.d, "angle", <<"angle", s.ch>>, ShortInt, dt, q.angle)
            IN  With(s, "angle", [t EXCEPT !.sym = Signed(@, ShortInt)])
      [] field = "user" -> With(s, "user", Take(s.d, "user", User(s.ch, q.user)))
      [] field = "source" ->
            With(s, "source", FromStream!ReadInt(s.d, "source", <<"source", s.ch>>, ShortInt, 0, q.source))
      [] field = "time" -> WithTime(s, ReadTime(s.d, s.ch, s.c))

\* A field is left as it was if its stream has no size, or if it is no change.
FieldIsRead(s, field) ==
    CASE field \in {"z", "class", "flags", "intensity", "user"} -> field \in s.d.valid
      [] field \in {"angle", "source", "time"} -> field \in s.changes
      [] OTHER -> TRUE
ReadNext(s, field) == IF FieldIsRead(s, field) THEN ReadField(s, field) ELSE s
FieldsInOrder == <<"changes", "channel", "number", "return", "x", "y", "z", "class", "flags", "intensity",
                   "angle", "user", "source", "time">>
Settled(s) ==
    [p |-> Now(s),
     arg |-> IF "channel" \in s.changes THEN s.ch ELSE 0,
     d |-> [s.d EXCEPT !.channel = s.ch,
                       !.chans[s.ch] = [s.c EXCEPT !.timeChange = "time" \in s.changes]]]
DecodePoint(d) ==
    LET prev == d.chans[d.channel] IN
    Settled(FoldLeft(ReadNext, [d |-> d, prev |-> prev, ch |-> d.channel, c |-> prev, changes |-> {},
                                kx |-> 0, ky |-> 0], FieldsInOrder))
=============================================================================
