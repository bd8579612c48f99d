--------------------------- MODULE MCBookExchange ---------------------------
(* Instances of BookExchange for TLC.                                       *)
EXTENDS BookExchange, TLC

CONSTANTS algebra, physics, r1, r2

\* An empty table, and the mirrored pair of open posts that both seeds insert.
MCEmpty == [p \in Post |-> NoPost]
MCPair(b, c) == [MCEmpty EXCEPT ![1] = Row(b, c, "open", 0), ![2] = Row(c, b, "open", 0)]
MCBoards == {MCEmpty, MCPair(algebra, physics), MCPair(physics, algebra)}

\* The requests are alike, and so are the titles.
MCSymmetry == Permutations({r1, r2}) \cup Permutations({algebra, physics})

=============================================================================
