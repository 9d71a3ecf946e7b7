--------------------------- MODULE NodeAllocation ---------------------------
(***************************************************************************)
(* How eosio-launcher2 turns its options into a network: initialize and    *)
(* load_servers settle how many nodes there are, define_network places     *)
(* them on hosts and gives them ports, bind_nodes deals the producers out  *)
(* to them.  One action is one round of a loop of the code.                *)
(*                                                                         *)
(* A node is named "bios" or by its number; hosts are numbered in the      *)
(* order of the bindings, so a sequence of nodes in the order of their     *)
(* creation is the order in which bind_nodes and aliases have them.  A     *)
(* server list is the producer hosts of the file followed by the others.   *)
(***************************************************************************)
EXTENDS Integers, Sequences, FiniteSetsExt, SequencesExt

CONSTANTS
    Requests,   \* the command lines: options and server file
    MaxNodes,   \* bound on the nodes of a network
    P2PBase,    \* host_def::base_p2p_port
    HttpBase,   \* host_def::base_http_port
    BiosGap,    \* how far below them the ports of the bios node are
    PortMod     \* ports are uint16_t

Server == [instances : Nat, hasBios : BOOLEAN]

Request == [nodes : Nat, pnodes : Nat, producers : Nat, perHost : Nat,
            servers : Seq(Server), prodServers : Nat]

(* The first prodServers of a server list are its producer hosts; and the  *)
(* producer_number of the code, 32 bits wide, can count the producers.     *)
ASSUME RequestsAssumption ==
    \A r \in Requests :
        /\ r \in Request
        /\ r.prodServers <= Len(r.servers)
        /\ r.producers \div 65536 < 65536

(* A host has room for its nodes between the ports it starts from: with    *)
(* the ports of the code, for 888 of them.                                 *)
ASSUME PortsAssumption ==
    /\ MaxNodes \in Nat /\ P2PBase \in Nat /\ HttpBase \in Nat
    /\ BiosGap \in Nat /\ PortMod \in Nat
    /\ 0 < BiosGap /\ BiosGap <= HttpBase
    /\ HttpBase + MaxNodes <= P2PBase - BiosGap
    /\ P2PBase + MaxNodes <= PortMod

VARIABLES
    pc,
    req,            \* the options
    prodNodes,      \* prod_nodes
    totalNodes,     \* total_nodes
    perHost,        \* per_host
    placed,         \* the nodes, in the order of aliases
    nextNode,       \* next_node
    hostNdx,        \* host_ndx, one more than the number of the last host
    hostCount,      \* p2p_count and http_count of the last host
    phCount,        \* ph_count
    share,          \* the producers of each node that bind_nodes has bound
    extra,          \* extra of bind_nodes
    bound,          \* i of bind_nodes
    producerNumber  \* producer_number

vars == <<pc, req, prodNodes, totalNodes, perHost, placed, nextNode, hostNdx,
          hostCount, phCount, share, extra, bound, producerNumber>>

sizes   == <<req, prodNodes, totalNodes, perHost>>
placing == <<placed, nextNode, hostNdx, hostCount, phCount>>
binding == <<share, extra, bound, producerNumber>>

-----------------------------------------------------------------------------
Init ==
    /\ pc = "initialize"
    /\ req \in Requests
    /\ prodNodes = 0
    /\ totalNodes = 0
    /\ perHost = 0
    /\ placed = <<>>
    /\ nextNode = 0
    /\ hostNdx = 0
    /\ hostCount = 0
    /\ phCount = 0
    /\ share = <<>>
    /\ extra = 0
    /\ bound = 0
    /\ producerNumber = 0

\* How many nodes the first n servers of a list are to run.
Instances(list, n) ==
    LET sum[k \in 0..Len(list)] ==
            IF k = 0 THEN 0 ELSE sum[k - 1] + list[k].instances
    IN  sum[n]

\* Mutant: the bios node is not counted.
AskedProdNodes_WithoutBios ==
    IF req.servers = <<>> THEN req.pnodes
                          ELSE Instances(req.servers, req.prodServers)

\* prod_nodes and total_nodes before they are adjusted to each other: the
\* options with one more for the bios node, or what load_servers counts.
AskedProdNodes ==
    IF req.servers = <<>> THEN req.pnodes + 1
                          ELSE Instances(req.servers, req.prodServers)

AskedTotalNodes ==
    IF req.servers = <<>> THEN req.nodes + 1
                          ELSE Instances(req.servers, Len(req.servers))

Initialize ==
    /\ pc = "initialize"
    /\ prodNodes' = IF AskedProdNodes > req.producers + 1 THEN req.producers
                                                          ELSE AskedProdNodes
    /\ totalNodes' = IF prodNodes' > AskedTotalNodes THEN prodNodes'
                                                     ELSE AskedTotalNodes
    /\ totalNodes' <= MaxNodes
    /\ perHost' = IF req.servers = <<>> THEN req.perHost ELSE 1
    /\ pc' = "define_network"
    /\ UNCHANGED <<req, placing, binding>>

-----------------------------------------------------------------------------
\* assign_name and set_host: slot is the count of nodes the host had before.
NewNode(isBios, host, slot) ==
    [bios |-> isBios, num |-> nextNode, host |-> host, slot |-> slot]

Place(isBios, host, slot) ==
    /\ placed' = Append(placed, NewNode(isBios, host, slot))
    /\ nextNode' = IF isBios THEN nextNode ELSE nextNode + 1
    /\ hostCount' = IF isBios THEN slot ELSE slot + 1

\* Mutant: the bios node starts at the base itself.
p2p_port_BiosAtBase(n) == (P2PBase + n.slot) % PortMod

p2p_port(n) == IF n.bios THEN (P2PBase - BiosGap) % PortMod
                         ELSE (P2PBase + n.slot) % PortMod

http_port(n) == IF n.bios THEN (HttpBase - BiosGap) % PortMod
                          ELSE (HttpBase + n.slot) % PortMod

(* Mutant: the loop runs to total_nodes inclusive. *)
PlaceOnLocalHost_OneMore ==
    /\ pc = "define_network"
    /\ perHost = 0
    /\ Len(placed) <= MaxNodes
    /\ Place(placed = <<>>, 0, hostCount)
    /\ hostNdx' = 1
    /\ UNCHANGED <<pc, sizes, phCount, binding>>

(* per_host == 0: every node on the local host, the first is the bios node *)
PlaceOnLocalHost ==
    /\ pc = "define_network"
    /\ perHost = 0
    /\ Len(placed) < totalNodes
    /\ Place(placed = <<>>, 0, hostCount)
    /\ hostNdx' = 1
    /\ UNCHANGED <<pc, sizes, phCount, binding>>

\* The server with an index of host_ndx; past the list they are invented.
ServerAt(ndx) ==
    IF ndx < Len(req.servers) THEN req.servers[ndx + 1]
    ELSE [instances |-> 1, hasBios |-> FALSE]

(* The first node of a host, which may be the bios node. *)
PlaceOnNewHost ==
    /\ pc = "define_network"
    /\ perHost # 0
    /\ Len(placed) < totalNodes
    /\ phCount = 0
    /\ Place(ServerAt(hostNdx).hasBios, hostNdx, 0)
    /\ phCount' = ServerAt(hostNdx).instances - 1
    /\ hostNdx' = hostNdx + 1
    /\ UNCHANGED <<pc, sizes, binding>>

PlaceOnSameHost ==
    /\ pc = "define_network"
    /\ perHost # 0
    /\ Len(placed) < totalNodes
    /\ phCount # 0
    /\ Place(FALSE, hostNdx - 1, hostCount)
    /\ phCount' = phCount - 1
    /\ UNCHANGED <<pc, sizes, hostNdx, binding>>

-----------------------------------------------------------------------------
(***************************************************************************)
(* Names of producers: twelve letters, 0 for a.  The last ones are the     *)
(* digits of the number to the base of 26, as many as it has; those before *)
(* are left as they were.                                                  *)
(***************************************************************************)
defproducera == <<3, 4, 5, 15, 17, 14, 3, 20, 2, 4, 17, 0>>

defpraaaaaaa == <<3, 4, 5, 15, 17, 0, 0, 0, 0, 0, 0, 0>>

\* Mutant: the letters before the digits are never reset.
Template_Legacy(number) == defproducera

Template(number) == IF number > 26 THEN defpraaaaaaa ELSE defproducera

producer_name(number) ==
    LET left[k \in 0..11] == IF k = 0 THEN number ELSE left[k - 1] \div 26
    IN  [p \in 1..12 |-> IF p = 12 \/ left[12 - p] > 0 THEN left[12 - p] % 26
                        ELSE Template(number)[p]]

-----------------------------------------------------------------------------
\* Mutant: the bios node is taken for one that produces.
NonBios_CountsBios == prodNodes

NonBios == prodNodes - 1

StartBinding ==
    /\ pc = "define_network"
    /\ Len(placed) = totalNodes
    /\ prodNodes >= 2
    /\ extra' = req.producers % NonBios
    /\ pc' = "bind_nodes"
    /\ UNCHANGED <<sizes, placing, share, bound, producerNumber>>

(* exit (10): insufficient prod_nodes *)
RefuseToBind ==
    /\ pc = "define_network"
    /\ Len(placed) = totalNodes
    /\ prodNodes < 2
    /\ pc' = "exit"
    /\ UNCHANGED <<sizes, placing, binding>>

\* Mutant: the remainder is forgotten.
Count_NoExtra ==
    IF bound >= NonBios THEN 0 ELSE req.producers \div NonBios

\* How many producers the next node gets.
Count ==
    IF bound >= NonBios THEN 0
    ELSE req.producers \div NonBios + (IF extra > 0 THEN 1 ELSE 0)

(* A node that is not the bios node gets the next producers. *)
BindNode ==
    /\ pc = "bind_nodes"
    /\ Len(share) < Len(placed)
    /\ ~placed[Len(share) + 1].bios
    /\ share' = Append(share, [first |-> producerNumber, count |-> Count])
    /\ producerNumber' = producerNumber + Count
    /\ extra' = IF bound < NonBios /\ extra > 0 THEN extra - 1 ELSE extra
    /\ bound' = bound + 1
    /\ UNCHANGED <<pc, sizes, placing>>

(* The bios node gets the producer eosio alone. *)
BindBios ==
    /\ pc = "bind_nodes"
    /\ Len(share) < Len(placed)
    /\ placed[Len(share) + 1].bios
    /\ share' = Append(share, [first |-> producerNumber, count |-> 0])
    /\ UNCHANGED <<pc, sizes, placing, producerNumber, extra, bound>>

Finish ==
    /\ pc = "bind_nodes"
    /\ Len(share) = Len(placed)
    /\ pc' = "bound"
    /\ UNCHANGED <<sizes, placing, binding>>

Next ==
    \/ Initialize
    \/ PlaceOnLocalHost
    \/ PlaceOnNewHost
    \/ PlaceOnSameHost
    \/ StartBinding
    \/ RefuseToBind
    \/ BindNode
    \/ BindBios
    \/ Finish

Spec == Init /\ [][Next]_vars

-----------------------------------------------------------------------------
Node == [bios : BOOLEAN, num : Nat, host : Nat, slot : Nat]

TypeOK ==
    /\ pc \in {"initialize", "define_network", "bind_nodes", "bound", "exit"}
    /\ req \in Requests
    /\ prodNodes \in Nat
    /\ totalNodes \in 0..MaxNodes
    /\ perHost \in Nat
    /\ placed \in Seq(Node)
    /\ Len(placed) <= MaxNodes
    /\ nextNode \in Nat
    /\ hostNdx \in Nat
    /\ hostCount \in Nat
    /\ phCount \in Int
    /\ phCount # 0 => hostNdx > 0
    /\ share \in Seq([first : Nat, count : Nat])
    /\ extra \in Nat
    /\ bound \in Nat
    /\ producerNumber \in Nat

(* No two nodes of a host get a port in common, p2p or http, bios or not:  *)
(* the four ranges that set_host draws from do not run into one another.   *)
PortsDistinct ==
    \A a, b \in DOMAIN placed :
        a # b /\ placed[a].host = placed[b].host =>
            {p2p_port(placed[a]), http_port(placed[a])} \cap
            {p2p_port(placed[b]), http_port(placed[b])} = {}

BiosNodes == {k \in DOMAIN placed : placed[k].bios}

Producing == {k \in DOMAIN share : share[k].count > 0}

\* The numbers of the producers of a node.
Dealt(k) == share[k].first .. share[k].first + share[k].count - 1

(* bind_nodes deals every producer to exactly one node, without gaps, when *)
(* the network has at most one bios node: the remainder of the division is *)
(* used up before the nodes that produce are.                              *)
EveryProducerOnce ==
    pc = "bound" /\ Cardinality(BiosNodes) <= 1 =>
        \A p \in 0..req.producers - 1 :
            Cardinality({k \in Producing : p \in Dealt(k)}) = 1

(* The producers are spread evenly over as many nodes as may produce.      *)
ProducersBalanced ==
    pc = "bound" /\ Cardinality(BiosNodes) <= 1 =>
        /\ \A j, k \in Producing : share[j].count <= share[k].count + 1
        /\ Cardinality(Producing) = Min({NonBios, req.producers})

(* Every producer is dealt to one node, and every node has its share.      *)
ProducersDealt == EveryProducerOnce /\ ProducersBalanced

\* The names of the producers of all nodes.
ProducerNames == UNION {{producer_name(p) : p \in Dealt(k)} : k \in Producing}

(* No two producers of a network have the same name, and the first 26 have *)
(* the names defproducera to defproducerz.                                 *)
NamesIdentify ==
    pc = "bound" /\ Cardinality(BiosNodes) <= 1 =>
        /\ Cardinality(ProducerNames) = req.producers
        /\ \A letter \in 0..Min({req.producers, 26}) - 1 :
              [defproducera EXCEPT ![12] = letter] \in ProducerNames

(* With a server file, the nodes that produce run on producer hosts.       *)
ProducersOnProducerHosts ==
    req.servers # <<>> /\ Cardinality(BiosNodes) <= 1 =>
        \A k \in Producing : placed[k].host < req.prodServers

\* The first server that is said to run no node (the length of the list and
\* one when there is none).
FirstIdle(list) ==
    Min({k \in 1..Len(list) : list[k].instances = 0} \cup {Len(list) + 1})

(* Every server before the first idle one runs as many nodes as it is said *)
(* to.  The idle one is given a node all the same if any are left, which   *)
(* takes ph_count below zero, and so it is never full: all nodes of the    *)
(* servers after it end up there, and those servers run none.              *)
ServersFilled ==
    pc = "bound" =>
        \A k \in DOMAIN req.servers :
            Cardinality({j \in DOMAIN placed : placed[j].host = k - 1}) =
                IF k < FirstIdle(req.servers) THEN req.servers[k].instances
                ELSE IF k = FirstIdle(req.servers)
                THEN Instances(req.servers, Len(req.servers)) - Instances(req.servers, k)
                ELSE 0

(* The network is laid out as the server file has it.                      *)
ServersHonoured == ProducersOnProducerHosts /\ ServersFilled

(* How many nodes of a local network produce: --pnodes of them, or one     *)
(* less than there are producers when there are not producers enough, for  *)
(* prod_nodes is then set to the producers and still counts the bios node. *)
ProducingAsked ==
    IF req.pnodes <= req.producers THEN req.pnodes ELSE req.producers - 1

(* Without hosts and servers: a bios node, the first, and as many others   *)
(* as --nodes and those that produce ask for.                              *)
LocalNetworkAsAsked ==
    pc = "bound" /\ req.servers = <<>> /\ req.perHost = 0 =>
        /\ BiosNodes = {1}
        /\ Len(placed) = 1 + Max({req.nodes, ProducingAsked})
        /\ Cardinality(Producing) = ProducingAsked

=============================================================================
