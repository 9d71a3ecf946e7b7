--------------------------- MODULE MCNodeCommands ---------------------------
(* A local network, one with remote hosts, one without a bios node and one *)
(* with more nodes than two digits tell apart; every list of up to three   *)
(* node numbers or hosts, some of them twice or unknown.                   *)
EXTENDS NodeCommands

Bios == [bios |-> TRUE, num |-> 0]
N(i) == [bios |-> FALSE, num |-> i]

Here  == [name |-> 1, public |-> 2, local |-> TRUE, instances |-> <<Bios, N(0), N(1)>>]
There == [name |-> 3, public |-> 3, local |-> FALSE, instances |-> <<N(2), N(0)>>]
Last  == [name |-> 4, public |-> 1, local |-> FALSE, instances |-> <<N(1)>>]

MCNetworks == {<<Here>>, <<There, Last>>,
               <<[There EXCEPT !.instances = <<N(1)>>], [Here EXCEPT !.instances = <<N(0), Bios, N(2)>>]>>,
               <<[Here EXCEPT !.instances = <<N(0), N(1), N(2), N(3)>>]>>}

Lists(S) == UNION {[1..n -> S] : n \in 1..3}

Nothing == [nodes |-> 3, specific |-> <<>>, bounce |-> NoList, down |-> NoList, roll |-> <<1>>]

Args(n, a) == [num |-> n, arg |-> a]

Numbers == {[all |-> FALSE, nums |-> l] : l \in Lists(0..3)}

All == [all |-> TRUE, nums |-> <<>>]

MCCommandLines ==
    [nodes : {3}, specific : {<<>>, <<Args(1, 7)>>, <<Args(0, 7), Args(1, 8), Args(0, 9)>>},
     bounce : Numbers \cup {All}, down : {NoList, All}, roll : {<<1>>}]
    \cup {[Nothing EXCEPT !.down = l] : l \in Numbers \cup {All}}
    \cup {[Nothing EXCEPT !.roll = l] : l \in Lists(1..5)}
    \cup {[Nothing EXCEPT !.specific = <<Args(3, 7)>>]}

=============================================================================
