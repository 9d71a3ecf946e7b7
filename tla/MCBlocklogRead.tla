--------------------------- MODULE MCBlocklogRead ---------------------------
(* Command lines for TLC: ranges that begin at 0, in the middle or beyond  *)
(* the chain and end in the middle or at the default; packing from the     *)
(* middle with intervals from one to the largest.                          *)
EXTENDS BlocklogRead

NoOptions == [first |-> 1, last |-> UintMod - 1, info |-> FALSE, array |-> FALSE, toFile |-> FALSE,
              extra |-> "none", packFrom |-> 0, interval |-> 2]

MCRequests ==
    {[NoOptions EXCEPT !.first = f, !.last = l] : f \in {0, 1, 3}, l \in {2, 3, UintMod - 1}}
    \cup {[NoOptions EXCEPT !.extra = "trx"]}
    \cup {[NoOptions EXCEPT !.array = TRUE, !.extra = e, !.toFile = t] :
             e \in {"none", "trx"}, t \in BOOLEAN}
    \cup {[NoOptions EXCEPT !.info = TRUE]}
    \cup {[NoOptions EXCEPT !.packFrom = f, !.interval = i] : f \in {1, 2}, i \in {1, 2, UintMod - 1}}
    \cup {[NoOptions EXCEPT !.array = TRUE, !.extra = "header"]}

=============================================================================
