-------------------------- MODULE MCNodeAllocation --------------------------
(* NodeAllocation for TLC: small option values, and server files with the  *)
(* bios node on either kind of host, twice or nowhere, and idle servers;   *)
(* and so many producers that their names have two and three letters that  *)
(* are digits.                                                             *)
EXTENDS NodeAllocation

CONSTANTS MaxOption, MaxProducers

Srv(i, b) == [instances |-> i, hasBios |-> b]

Inventory(prod, nonprod) == [servers |-> prod \o nonprod, prodServers |-> Len(prod)]

Inventories ==
    { Inventory(<<Srv(2, TRUE)>>, <<Srv(1, FALSE)>>),
      Inventory(<<Srv(2, FALSE)>>, <<Srv(2, TRUE)>>),
      Inventory(<<Srv(1, FALSE), Srv(3, TRUE)>>, <<Srv(1, FALSE)>>),
      Inventory(<<Srv(2, FALSE), Srv(1, FALSE)>>, <<>>),
      Inventory(<<Srv(1, TRUE), Srv(2, TRUE)>>, <<Srv(2, FALSE)>>),
      Inventory(<<Srv(2, FALSE)>>, <<Srv(0, FALSE), Srv(3, TRUE)>>),
      Inventory(<<Srv(0, TRUE), Srv(2, FALSE)>>, <<Srv(0, FALSE), Srv(2, FALSE)>>),
      Inventory(<<Srv(1, TRUE), Srv(2, FALSE)>>, <<Srv(0, FALSE), Srv(0, FALSE)>>),
      Inventory(<<Srv(3, TRUE)>>, <<>>) }

MCRequests ==
    [nodes : 0..MaxOption, pnodes : 0..MaxOption, producers : 0..MaxProducers,
     perHost : 0..2, servers : {<<>>}, prodServers : {0}]
    \cup
    {[nodes |-> 1, pnodes |-> 1, producers |-> p, perHost |-> 0,
      servers |-> i.servers, prodServers |-> i.prodServers] :
        p \in 0..MaxProducers, i \in Inventories}
    \cup
    [nodes : {2}, pnodes : {2}, producers : {26, 27, 28, 480, 700}, perHost : {0},
     servers : {<<>>}, prodServers : {0}]

=============================================================================
