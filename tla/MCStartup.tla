------------------------------ MODULE MCStartup ------------------------------
(* Instances of Startup for TLC: two accounts, two servers.                 *)
EXTENDS Startup

Repeat(n, x) == [i \in 1..n |-> x]

\* An empty database, to be seeded.
MCEmptyPast == [rows |-> <<>>, start |-> <<100, 100>>, legacy |-> 0]

\* The first user falls to the floor and stays there for a review, the second
\* stands between; the last rows were written by a release that had the column.
MCFloorRows ==
    << <<2, "good">> >> \o Repeat(11, <<1, "bad">>)
        \o << <<2, "bad">>, <<1, "good">>, <<2, "medium">>, <<2, "bad">> >>

MCFloorPast(legacy) == [rows |-> MCFloorRows, start |-> <<100, 100>>, legacy |-> legacy]

\* A past of seeded users: the first stood at the ceiling when reviewed.
MCSeededPast ==
    [rows |-> << <<1, "good">>, <<2, "bad">> >>, start |-> <<300, 90>>, legacy |-> 2]

\* The same, by a release that had the column: the first review records a true 0.
MCCeilingPast == [MCSeededPast EXCEPT !.legacy = 0]

MCPasts == {MCCeilingPast, MCEmptyPast, MCFloorPast(16), MCFloorPast(12), MCSeededPast}
MCSeededOnly == {MCSeededPast}

=============================================================================
