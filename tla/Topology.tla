------------------------------ MODULE Topology ------------------------------
(***************************************************************************)
(* The three built-in shapes of eosio-launcher2: make_ring, make_star and  *)
(* make_mesh give each node the list of the peers it connects to.  They    *)
(* walk over the indices of aliases with next_ndx and skip_ndx, which pass *)
(* over the bios node.                                                     *)
(*                                                                         *)
(* A node is named by the index it has in aliases at the start; make_star  *)
(* holds a reference into aliases and assigns through it, so aliases is a  *)
(* variable.  One action is one round of a loop over i (or, in the star,   *)
(* of the loops inside).  There is one bios node.                          *)
(***************************************************************************)
EXTENDS Integers, Sequences, FiniteSets

CONSTANT Cases      \* the networks: shape, total_nodes, place of the bios node

Case == [shape : {"ring", "star", "mesh"}, total : Nat, bios : Nat]

ASSUME CasesAssumption ==
    Cases \subseteq Case /\ \A c \in Cases : c.total >= 2 /\ c.bios < c.total

VARIABLES
    pc,
    net,            \* the network to connect
    aliases,        \* launcher_def::aliases
    peers,          \* tn_node_def::peers of each node
    peersToFrom,    \* peers_to_from of make_star and make_mesh
    i,              \* index of the outer loop
    current,        \* current_name of make_star
    l,              \* index of the loop over links, or over the peers in a mesh
    ndx,            \* index of the peer under consideration
    slot            \* the index in aliases that the reference peer is bound to

vars == <<pc, net, aliases, peers, peersToFrom, i, current, l, ndx, slot>>

star == <<aliases, current, l, ndx, slot>>

-----------------------------------------------------------------------------
total == net.total

non_bios == total - 1

Names == 0..total - 1

is_bios_ndx(n) == aliases[n] = net.bios

start_ndx == IF is_bios_ndx(0) THEN 1 ELSE 0

\* next_ndx: where n moves to, and whether it came round (there is one bios
\* node, so the recursion of the code is at most one deep).
\* Mutant: it is not passed over.
Step_ToBios(n) == n + 1

Step(n) == IF n + 1 < total /\ is_bios_ndx(n + 1) THEN n + 2 ELSE n + 1

next_ndx(n) == IF Step(n) = total THEN start_ndx ELSE Step(n)

\* Mutant: the end behind a trailing bios node goes unnoticed.
ComesRound_NotOverBios(n) == n + 1 = total

ComesRound(n) == Step(n) = total

\* skip_ndx: at most total - 2 attempts to leave the bios node and from.
skip_ndx(from, offset) ==
    LET try[k \in Nat] ==
            IF k = 0 THEN (from + offset) % total
            ELSE LET n == try[k - 1]
                 IN  IF is_bios_ndx(n) \/ n = from THEN next_ndx(n) ELSE n
    IN  try[IF total > 2 THEN total - 2 ELSE 0]

-----------------------------------------------------------------------------
Shaped == IF net.shape = "star" /\ non_bios < 4 THEN "ring" ELSE net.shape

Init ==
    /\ net \in Cases
    /\ pc = IF Shaped = "ring" /\ non_bios < 2 THEN "done" ELSE Shaped
    /\ aliases = [n \in Names |-> n]
    /\ peers = [n \in Names |-> <<>>]
    /\ peersToFrom = [n \in Names |-> {}]
    /\ i = IF net.bios = 0 THEN 1 ELSE 0
    /\ current = i
    /\ l = 1
    /\ ndx = i
    /\ slot = i

Connect(a, b) == peers' = [peers EXCEPT ![a] = Append(@, b)]

(* make_ring with more than two nodes *)
RingNode ==
    /\ pc = "ring"
    /\ non_bios > 2
    /\ Connect(aliases[i], aliases[next_ndx(i)])
    /\ i' = next_ndx(i)
    /\ pc' = IF ComesRound(i) THEN "done" ELSE pc
    /\ UNCHANGED <<net, peersToFrom, star>>

(* make_ring with two nodes *)
RingPair ==
    /\ pc = "ring"
    /\ non_bios = 2
    /\ LET n0 == aliases[start_ndx]
           n1 == aliases[next_ndx(start_ndx)]
       IN  peers' = [peers EXCEPT ![n0] = Append(@, n1), ![n1] = Append(@, n0)]
    /\ pc' = "done"
    /\ UNCHANGED <<net, peersToFrom, i, star>>

\* peers_to_from[peer].count(name) < 2; a set counts 0 or 1.
NotEstablished(name, peer) ==
    Cardinality(peersToFrom[peer] \cap {name}) < 2

(* A round of the inner loop of make_mesh, with l for its j *)
MeshPeer ==
    /\ pc = "mesh"
    /\ l < non_bios
    /\ LET name == aliases[i]
           peer == aliases[skip_ndx(i, l)]
       IN  IF NotEstablished(name, peer)
           THEN /\ Connect(name, peer)
                /\ peersToFrom' = [peersToFrom EXCEPT ![name] = @ \cup {peer}]
           ELSE UNCHANGED <<peers, peersToFrom>>
    /\ l' = l + 1
    /\ UNCHANGED <<pc, net, aliases, i, current, ndx, slot>>

MeshNextNode ==
    /\ pc = "mesh"
    /\ l >= non_bios
    /\ i' = next_ndx(i)
    /\ l' = 1
    /\ pc' = IF ComesRound(i) THEN "done" ELSE pc
    /\ UNCHANGED <<net, aliases, peers, peersToFrom, current, ndx, slot>>

-----------------------------------------------------------------------------
\* static_cast<size_t>(sqrt(n))
isqrt(n) == CHOOSE r \in 0..n : r * r <= n /\ n < (r + 1) * (r + 1)

links == IF non_bios > 12 THEN isqrt(non_bios) + 2 ELSE 3

\* The least gap from the first guess on that does not divide non_bios.
gap ==
    LET first == IF non_bios > 6 THEN 3 ELSE (non_bios - links) \div 2 + 1
        fits(g) == g >= first /\ non_bios % g # 0
    IN  CHOOSE g \in 1..non_bios + 1 : fits(g) /\ \A h \in 1..g - 1 : ~fits(h)

(* A round of the loop over the links: the reference peer is bound. *)
StarPick ==
    /\ pc = "star"
    /\ l <= links
    /\ ndx' = skip_ndx(ndx, l * gap)
    /\ slot' = ndx'
    /\ pc' = "check"
    /\ UNCHANGED <<net, aliases, peers, peersToFrom, i, current, l>>

IsPeer(p) == \E k \in DOMAIN peers[current] : peers[current][k] = p

(* The node has that peer already: ndx moves on, and the name it arrives   *)
(* at is assigned through the reference.                                   *)
StarMoveOn ==
    /\ pc = "check"
    /\ IsPeer(aliases[slot])
    /\ ndx' = IF next_ndx(ndx) = i THEN next_ndx(i) ELSE next_ndx(ndx)
    /\ aliases' = [aliases EXCEPT ![slot] = aliases[ndx']]
    /\ UNCHANGED <<pc, net, peers, peersToFrom, i, current, l, slot>>

StarConnect ==
    /\ pc = "check"
    /\ ~IsPeer(aliases[slot])
    /\ IF NotEstablished(current, aliases[slot])
       THEN /\ Connect(current, aliases[slot])
            /\ peersToFrom' = [peersToFrom EXCEPT ![current] = @ \cup {aliases[slot]}]
       ELSE UNCHANGED <<peers, peersToFrom>>
    /\ l' = l + 1
    /\ pc' = "star"
    /\ UNCHANGED <<net, aliases, i, current, ndx, slot>>

StarNextNode ==
    /\ pc = "star"
    /\ l > links
    /\ i' = next_ndx(i)
    /\ pc' = IF ComesRound(i) THEN "done" ELSE pc
    /\ current' = aliases[i']
    /\ ndx' = i'
    /\ l' = 1
    /\ UNCHANGED <<net, aliases, peers, peersToFrom, slot>>

Terminating == pc = "done" /\ UNCHANGED vars

Next ==
    \/ Terminating
    \/ RingNode
    \/ RingPair
    \/ MeshPeer
    \/ MeshNextNode
    \/ StarPick
    \/ StarMoveOn
    \/ StarConnect
    \/ StarNextNode

Spec == Init /\ [][Next]_vars

(* The program runs on by itself. *)
FairSpec == Spec /\ WF_vars(Next)

-----------------------------------------------------------------------------
Nodes == Names \ {net.bios}

PeerSet(n) == {peers[n][k] : k \in DOMAIN peers[n]}

Linked(a, b) == a \in PeerSet(b) \/ b \in PeerSet(a)

\* The nodes reached from S along connections, either way.
Reach(S) ==
    LET grow[k \in Nat] ==
            IF k = 0 THEN S
            ELSE LET R == grow[k - 1]
                 IN  R \cup {b \in Nodes \ R : \E a \in R : Linked(a, b)}
    IN  grow[total]

TypeOK ==
    /\ pc \in {"ring", "star", "check", "mesh", "done"}
    /\ net \in Cases
    /\ aliases \in [Names -> Names]
    /\ peers \in [Names -> Seq(Names)]
    /\ peersToFrom \in [Names -> SUBSET Names]
    /\ {i, ndx, slot, current} \subseteq Names
    /\ l \in 1..links + total

(* A ring or mesh connects all the nodes but bios with one another.        *)
RingAndMeshConnect ==
    pc = "done" /\ Shaped # "star" =>
        \A n \in Nodes : Reach({n}) = Nodes

(* A ring is one cycle: every node has one peer and is the peer of one.    *)
RingIsCycle ==
    pc = "done" /\ Shaped = "ring" /\ non_bios >= 2 =>
        \A n \in Nodes :
            /\ Len(peers[n]) = 1
            /\ Cardinality({m \in Nodes : n \in PeerSet(m)}) = 1

(* In a mesh every two nodes are connected.                                *)
MeshIsComplete ==
    pc = "done" /\ Shaped = "mesh" =>
        \A a, b \in Nodes : a # b => Linked(a, b)

(* The bios node takes part in no connection, whichever place it has in    *)
(* aliases and whatever make_star does to them.                            *)
BiosStaysOut ==
    peers[net.bios] = <<>> /\ \A n \in Nodes : net.bios \notin PeerSet(n)

(* No node of a ring or mesh is its own peer.                              *)
NoSelfPeer ==
    Shaped # "star" => \A n \in Nodes : n \notin PeerSet(n)

(* The walk of a ring or mesh over the nodes ends where it began, wherever *)
(* the bios node is: no node is given its peers a second time.             *)
NoSecondRound ==
    Shaped # "star" =>
        \A n \in Nodes :
            Len(peers[n]) <= IF Shaped = "ring" THEN 1 ELSE non_bios - 1

(* A ring is one cycle and a mesh complete.                                *)
ShapeComplete ==
    /\ RingAndMeshConnect /\ RingIsCycle /\ MeshIsComplete
    /\ NoSelfPeer /\ NoSecondRound

(* What the help text of --nodes says: so many nodes are configured, for   *)
(* any number of them.                                                     *)
NetworkConfigured == <>(pc = "done")

=============================================================================
