----------------------------- MODULE MCPbftIndex -----------------------------
(* Two forks at one height, an older block, and a committed state of that  *)
(* block.  The files are short, or have three states: the two of one block *)
(* in either order, the forks in either order, and the newest block first  *)
(* or last.                                                                *)
EXTENDS PbftIndex

Older     == [id |-> 1, num |-> 1, flag |-> FALSE]
Committed == [id |-> 1, num |-> 1, flag |-> TRUE]
Fork      == [id |-> 2, num |-> 2, flag |-> FALSE]
OtherFork == [id |-> 3, num |-> 2, flag |-> FALSE]

MCStates == {Older, Committed, Fork, OtherFork}

MCDumps == {<<>>, <<Committed>>,
            <<Older, Committed, Fork>>, <<Committed, Older, OtherFork>>,
            <<Fork, OtherFork, Older>>, <<OtherFork, Fork, Committed>>}

=============================================================================
