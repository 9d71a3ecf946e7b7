---------------------------- MODULE MCNodeConfig ----------------------------
(* Every network of up to MaxNodes nodes and every place of the bios node, *)
(* on one host; networks of up to SmallNodes on one or more hosts with     *)
(* either plugin; and the lists of up to three modes for one network.      *)
EXTENDS NodeConfig

CONSTANTS MaxNodes, SmallNodes

MCCases ==
    {c \in [shape : {"ring", "star", "mesh"}, total : 2..MaxNodes, bios : 0..MaxNodes - 1] :
        c.bios < c.total}

Pair == [shape |-> "ring", total |-> 3, bios |-> 0]

ModeLists == UNION {[1..k -> Modes] : k \in 0..3}

MCSetups ==
    [net : MCCases, perHost : {MaxNodes}, plugin : {"net"}, modes : {<<"any">>}]
    \cup [net : {c \in MCCases : c.total <= SmallNodes}, perHost : {1, 2, 3, SmallNodes},
          plugin : {"net", "bnet"}, modes : {<<"any">>}]
    \cup [net : {Pair}, perHost : {2}, plugin : {"net", "bnet"}, modes : ModeLists]

=============================================================================
