----------------------------- MODULE MCOutput -----------------------------
(* Two axes, few points: LAS files of both kinds, whole and in parts, and   *)
(* others; scales, offsets and dimensions that agree and that do not; a     *)
(* coordinate no integer holds; a list of dimensions that filterDims() gets *)
(* through with, and one that it does not.                                  *)
EXTENDS Output

P(x, z)        == "X" :> x @@ "Z" :> z
Las(version, dims, scale, offset, points) ==
    [las |-> TRUE, version |-> version, dims |-> <<"X", "Z">> \o dims,
     scale |-> scale, offset |-> offset, points |-> points]
Other(dims, points) ==
    [las |-> FALSE, version |-> 0, dims |-> <<"X", "Z">> \o dims, scale |-> P(0, 0), offset |-> P(0, 0),
     points |-> points]
Job(inputs) == [inputs |-> inputs, dimNames |-> {}, doCube |-> TRUE, level |-> -1, fileLimit |-> 9]

Class(c, b) == "Classification" :> c @@ "Withheld" :> b @@ "ReturnNumber" :> 2 - b
Old   == Las(12, <<"ReturnNumber", "Classification", "Withheld">>, P(1, 1), P(0, 0),
             <<P(0, 0) @@ Class(12, 0), P(3, 1) @@ Class(37, 1), P(9, 2) @@ Class(2, 1)>>)
Color(c) == "Red" :> c @@ "FOO" :> c + 1 @@ "ScanChannel" :> 3
New   == Las(14, <<"Red", "FOO", "ScanChannel">>, P(3, 3), P(1, 1), <<P(0, 3) @@ Color(1), P(11, 2) @@ Color(2)>>)
Fine  == Las(14, <<"Infrared">>, P(2, 3), P(0, 4), <<P(4, 2) @@ "Infrared" :> 5, P(6, 1) @@ "Infrared" :> 6>>)
Text  == Other(<<"FOO", "UserData">>,
               <<P(0, 7) @@ "FOO" :> 1 @@ "UserData" :> 4, P(45, 9) @@ "FOO" :> 2 @@ "UserData" :> 3>>)
Far   == Las(14, <<>>, P(1, 1), P(300, 0), <<P(290, 0)>>)

MCJobs == {
    Job(<<Old>>), Job(<<New, Text>>), Job(<<Fine, New>>), Job(<<Text>>), Job(<<Far, Fine>>),
    [Job(<<Old>>) EXCEPT !.doCube = FALSE, !.level = 2],
    [Job(<<New, Fine>>) EXCEPT !.fileLimit = 1],
    [Job(<<Text>>) EXCEPT !.dimNames = {"UserData"}],
    [Job(<<New>>) EXCEPT !.dimNames = {"Red"}]}
MCAxes  == {"X", "Z"}
MCUpper == {"X", "Y", "Z", "FOO"}
=============================================================================
