----------------------------- MODULE MCTopology -----------------------------
(* Topology for TLC: every network of up to MaxNodes nodes, with the bios  *)
(* node first as define_network puts it on a local host, or anywhere as a  *)
(* server file may have it.                                                *)
EXTENDS Topology

CONSTANT MaxNodes

SmallCases ==
    {c \in [shape : {"ring", "star", "mesh"}, total : 2..MaxNodes, bios : 0..MaxNodes - 1] :
        c.bios < c.total}

LocalStars ==
    [shape : {"star"}, total : 2..MaxNodes, bios : {0}]

=============================================================================
