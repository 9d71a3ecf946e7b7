---------------------------- MODULE MCForkdbRead ----------------------------
(* Every fork database of up to MaxSize blocks from number FirstNum on,    *)
(* with any of them as head, and the empty one; command lines with ranges  *)
(* that begin before, in and after it.                                     *)
EXTENDS ForkdbRead

CONSTANTS MaxSize, FirstNum

\* Block 1 is the root; the predecessor of another one is an older one.
Parents(size) == {p \in [2..size -> 1..size] : \A i \in 2..size : p[i] < i}

\* How far block i is from the root.
Depth(p, i) ==
    LET up[j \in Nat] == IF j = 1 THEN 0 ELSE 1 + up[p[j]] IN up[i]

Node(p, i) == [num |-> FirstNum + Depth(p, i), id |-> i,
               prev |-> IF i = 1 THEN 0 ELSE p[i]]

MCDatabases ==
    {[blocks |-> {}, head |-> NoBlock]} \cup
    UNION {UNION {{[blocks |-> {Node(p, i) : i \in 1..size}, head |-> Node(p, h)] :
                    h \in 1..size} : p \in Parents(size)} : size \in 1..MaxSize}

Whole == [first |-> 1, last |-> UintMod - 1, info |-> FALSE,
          packFrom |-> 0, interval |-> 2]

MCRequests ==
    {[Whole EXCEPT !.first = f, !.last = l] :
        f \in {0, 1, FirstNum, FirstNum + 1, UintMod - 1}, l \in {FirstNum, FirstNum + 1, UintMod - 1}}
    \cup {[Whole EXCEPT !.packFrom = f, !.interval = i] :
        f \in {1, FirstNum, FirstNum + 1}, i \in {0, 1, UintMod - 1}}
    \cup {[Whole EXCEPT !.info = TRUE]}

=============================================================================
