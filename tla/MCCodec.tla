------------------------------ MODULE MCCodec ------------------------------
(***************************************************************************)
(* Chunks of at most five points, seven when only the time changes, and    *)
(* chunk tables of at most five entries.  The words are narrower than in   *)
(* the code, 10 bits for an int, so that a few numbers reach every case:   *)
(* overflow, raw bits in one and two parts, carries, the limits of the     *)
(* multiples of the time's step.                                           *)
(***************************************************************************)
EXTENDS Codec

\* The corner of number_return_map_6ctx that the points below reach.
MCReturnMap ==
    LET rows == << <<0, 1, 2, 3, 4, 5>>, <<1, 0, 1, 3, 3, 3>>, <<2, 1, 2, 4, 4, 4>>,
                   <<3, 3, 4, 5, 4, 4>>, <<4, 3, 4, 4, 5, 4>>, <<5, 3, 4, 4, 4, 5>> >>
    IN  [nr \in (0..5) \X (0..5) |-> rows[nr[1] + 1][nr[2] + 1]]

Plain == [x |-> 3, y |-> 4, z |-> 5, n |-> 1, r |-> 1, channel |-> 0, class |-> 2, flags |-> 0,
          intensity |-> 7, angle |-> 0, user |-> 1, source |-> 1, time |-> 100]
Point(fixed, r, g, b, nir, bytes) ==
    [fixed |-> fixed, rgb |-> [r |-> r, g |-> g, b |-> b], nir |-> nir, bytes |-> bytes]

\* Scanner channels, each with a colour, and one of them with two.
AtChannel(ch) == [Plain EXCEPT !.channel = ch, !.z = 5 + ch, !.x = 3 * ch]
ChannelPool == {
    Point(AtChannel(0), 9, 9, 9, 3, <<1, 2>>), Point(AtChannel(1), 11, 60, 2, 3, <<1, 5>>),
    Point(AtChannel(1), 9, 9, 9, 3, <<1, 2>>), Point(AtChannel(2), 57, 14, 33, 44, <<7, 2>>)}

\* Returns, the other fields, and coordinates at the ends of their range.
FieldPool == {
    Point(f, 1, 1, 1, 0, <<>>) : f \in {
        Plain,
        [Plain EXCEPT !.n = 5, !.r = 2, !.x = 511, !.y = -512, !.z = -512, !.class = 6, !.flags = 3],
        [Plain EXCEPT !.n = 5, !.r = 5, !.x = -1, !.y = 40, !.angle = -32, !.intensity = 63, !.time = 101],
        [Plain EXCEPT !.n = 5, !.r = 1, !.channel = 3, !.user = 9, !.source = 40, !.angle = 5, !.z = 511]}}

AtTimes(times) == {Point([Plain EXCEPT !.time = t], 1, 1, 1, 0, <<>>) : t \in times}
MCPointJobs == {
    [format |-> 8, pool |-> ChannelPool, most |-> 5],
    [format |-> 7, pool |-> FieldPool, most |-> 4],
    \* Steps of 1 that 300 is an extreme multiple of, forwards and backwards.
    [format |-> 6, pool |-> AtTimes({100, 101, 400}), most |-> 7],
    \* Small multiples, and times that need a second sequence, or a third.
    [format |-> 6, pool |-> AtTimes({0, 10, 30, 40, 700, 9000}), most |-> 4]}

Chunks == {[count |-> 1, size |-> 40], [count |-> 300, size |-> 7], [count |-> 2, size |-> 511]}
MCTableJobs == {[pool |-> Chunks, most |-> 5]}
=============================================================================
