----------------------------- MODULE MerklePath -----------------------------
(***************************************************************************)
(* The merkle paths of incremental_merkle.cpp.  Block n of the simulated   *)
(* chain holds the incremental merkle tree of the ids of the blocks before *)
(* it; the tree is all that is left of the blocks up to Base.  The program *)
(* fills the chain and then, for every anchor block and every block before *)
(* it, collects the path from the block to the root of a full subtree of   *)
(* the anchor's tree, reading the trees of other blocks on the way, and    *)
(* verifies it.                                                            *)
(*                                                                         *)
(* Nodes of the tree are named by layer and index as in the code: layer 1  *)
(* are the leaves, indices start from 1.                                   *)
(***************************************************************************)
EXTENDS IncrementalMerkle

CONSTANTS
    BaseDepth,      \* log2 of the leaves of the first tree
    ChainLength,    \* sim_chain_length
    FirstAnchor,    \* anchor_start_num, as an offset from the first block
    LastAnchor,     \* anchor_end_num, as an offset
    FirstFrom       \* start_block_num, as an offset

Base == two[BaseDepth]     \* the leaves of the first tree: 16384

ASSUME OffsetsAssumption ==
    /\ BaseDepth \in Nat \ {0} /\ ChainLength \in Nat
    /\ {FirstFrom, FirstAnchor, LastAnchor} \subseteq Nat
    /\ FirstFrom < FirstAnchor
    /\ FirstAnchor <= LastAnchor /\ LastAnchor <= ChainLength

VARIABLES
    sim_chain,      \* the blocks from number Base + 1 on
    pc,
    from,           \* from_block_num
    anchor,         \* anchor_block_num
    root,           \* full_root_layer, full_root_index and full_root_value
    positions,      \* what is left of position_path
    result,         \* the path
    verdict         \* what verify_merkle_path says of it

vars == <<sim_chain, pc, from, anchor, root, positions, result, verdict>>

-----------------------------------------------------------------------------
First == Base + 1       \* sim_chain.front().block_num

Known == First..First + Len(sim_chain) - 1

\* get_block_id_by_num and get_inc_merkle_by_block_num of a known block.
block_id(num) == sim_chain[num - Base].id

inc_merkle(num) == sim_chain[num - Base].merkle

\* The full subtrees that end in one of the first layers.
Ones(n, layers) == Cardinality({k \in 0..layers - 1 : Bit(n, k) = 1})

\* The active node that is the root of a full subtree in a layer.
ActiveAt(m, layer) == m.active[1 + Ones(m.count, layer - 1)]

get_inc_merkle_layer_left_node(m, layer) ==
    IF m.count = 0 \/ layer >= max_depth(m.count) THEN Nothing
    ELSE IF layer = 1 THEN Last(m.active)
    ELSE IF Bit(m.count, layer - 1) = 1 THEN ActiveAt(m, layer)
    ELSE Nothing

\* The leaves under the last node of a layer, when that is a full subtree.
LastFull(m, layer) ==
    LET width == two[layer - 1]
        last == (m.count \div width) * width
    IN  IF Bit(m.count, layer - 1) = 1 THEN last - width + 1..last ELSE {}

\* get_inc_merkle_full_branch_root_cover_from
FullRoot(num, m) ==
    LET layer == CHOOSE k \in 1..max_depth(m.count) :
                    num \in LastFull(m, k) /\ \A j \in 1..k - 1 : num \notin LastFull(m, j)
    IN  [layer |-> layer, index |-> m.count \div two[layer - 1], value |-> ActiveAt(m, layer)]

\* The index of the node above a leaf in a layer, and of the node beside it.
Above(num, layer) == (num + two[layer - 1] - 1) \div two[layer - 1]

Beside(index) == IF index % 2 = 1 THEN index + 1 ELSE index - 1

\* get_merkle_path_positions_to_layer_in_full_branch
PathPositions(num, layer) ==
    [k \in 1..layer - 1 |->
        [layer |-> k + 1,
         index |-> IF k + 1 < layer THEN Beside(Above(num, k + 1)) ELSE Above(num, layer)]]

\* get_merkle_node_value_in_full_sub_branch: the left node of a pair is in
\* the tree of the block that the path is for, or first in the tree of the
\* block after its last leaf; the right one is hashed from its last leaf.
InReference(m, p) == get_inc_merkle_layer_left_node(m, p.layer) # Nothing

\* Mutant: as if layers were counted from 0.
BlockRead_LayerFromZero(p) == p.index * two[p.layer] + (p.index % 2)

BlockRead(p) == p.index * two[p.layer - 1] + (p.index % 2)

BlocksRead(m, p) == IF p.index % 2 = 1 /\ InReference(m, p) THEN {} ELSE {BlockRead(p)}

\* The digests of a path bear a mark in their top bit; the first two and the
\* last have none.
Digest(value, side) == [value |-> value, side |-> side]

\* A value hashed with digests that are at its sides, upwards.
HashUp(value, digests) ==
    LET up[k \in 0..Len(digests)] ==
            IF k = 0 THEN value
            ELSE IF digests[k].side = "left" THEN Hash(digests[k].value, up[k - 1])
            ELSE Hash(up[k - 1], digests[k].value)
    IN  up[Len(digests)]

\* The node of a layer whose last leaf is block num.
RightNode(num, layer) ==
    HashUp(block_id(num), [k \in 1..layer - 1 |-> Digest(inc_merkle(num).active[k], "left")])

\* Mutant: the left node is not looked for in another tree.
NodeValue_ReferenceOnly(m, p) ==
    IF p.index % 2 = 1 THEN get_inc_merkle_layer_left_node(m, p.layer)
    ELSE RightNode(BlockRead(p), p.layer)

NodeValue(m, p) ==
    IF p.index % 2 = 0 THEN RightNode(BlockRead(p), p.layer)
    ELSE IF InReference(m, p) THEN get_inc_merkle_layer_left_node(m, p.layer)
    ELSE Head(inc_merkle(BlockRead(p)).active)

\* Mutant: the loop ends one digest early.
verify_merkle_path_StopsEarly(path) ==
    IF path = <<>> THEN FALSE
    ELSE IF Len(path) = 1 THEN TRUE
    ELSE Last(path).value = HashUp(Hash(path[1].value, path[2].value),
                                   SubSeq(path, 3, Len(path) - 2))

verify_merkle_path(path) ==
    IF path = <<>> THEN FALSE
    ELSE IF Len(path) = 1 THEN TRUE
    ELSE Last(path).value = HashUp(Hash(path[1].value, path[2].value),
                                   SubSeq(path, 3, Len(path) - 1))

\* One layer of inc_merkle_verify, of which index is the last node.
VerifyLayer(m, s, index) ==
    IF index % 2 = 1
    THEN IF s.top = Nothing
         THEN [top |-> Hash(m.active[s.next], m.active[s.next]), next |-> s.next + 1]
         ELSE [top |-> Hash(s.top, s.top), next |-> s.next]
    ELSE IF s.top = Nothing THEN s
         ELSE [top |-> Hash(m.active[s.next], s.top), next |-> s.next + 1]

\* Mutant: the index moves up as in append, rounded down.
inc_merkle_verify_RoundsDown(m) ==
    LET depth == max_depth(m.count) - 1
        layer[k \in 0..depth] ==
            IF k = 0 THEN [top |-> Nothing, next |-> 1]
            ELSE VerifyLayer(m, layer[k - 1], m.count \div two[k - 1])
    IN  Len(m.active) = 1 \/ layer[depth].top = get_root(m)

inc_merkle_verify(m) ==
    LET depth == max_depth(m.count) - 1
        layer[k \in 0..depth] ==
            IF k = 0 THEN [top |-> Nothing, next |-> 1]
            ELSE VerifyLayer(m, layer[k - 1], Above(m.count, k))
    IN  Len(m.active) = 1 \/ layer[depth].top = get_root(m)

-----------------------------------------------------------------------------
NoRoot == [layer |-> 0, index |-> 0, value |-> Nothing]

Init ==
    /\ sim_chain = <<[id |-> Leaf(First),
                      merkle |-> [count |-> Base, active |-> <<Leaf(0)>>]]>>
    /\ pc = "fill"
    /\ from = First + FirstFrom
    /\ anchor = First + FirstAnchor
    /\ root = NoRoot
    /\ positions = <<>>
    /\ result = <<>>
    /\ verdict = FALSE

PushBlock ==
    /\ pc = "fill"
    /\ Len(sim_chain) <= ChainLength
    /\ LET back == Last(sim_chain)
       IN  sim_chain' = Append(sim_chain,
                [id |-> Leaf(First + Len(sim_chain)), merkle |-> append(back.merkle, back.id)])
    /\ UNCHANGED <<pc, from, anchor, root, positions, result, verdict>>

StartTest ==
    /\ pc = "fill"
    /\ Len(sim_chain) > ChainLength
    /\ pc' = "root"
    /\ UNCHANGED <<sim_chain, from, anchor, root, positions, result, verdict>>

(* The root of the path, and the positions on the way to it; when they do  *)
(* not end at the root the path stays empty.                               *)
FindRoot ==
    /\ pc = "root"
    /\ root' = FullRoot(from, inc_merkle(anchor))
    /\ LET p == PathPositions(from, root'.layer)
       IN  IF root'.layer = 1
           THEN pc' = "top" /\ positions' = <<>>
           ELSE /\ positions' = Front(p)
                /\ pc' = IF Last(p).index = root'.index THEN "pair" ELSE "verify"
    /\ UNCHANGED <<sim_chain, from, anchor, result, verdict>>

\* The two leaves of the pair that a block is in.
Pair(num) == IF num % 2 = 1 THEN <<num, num + 1>> ELSE <<num - 1, num>>

(* Reading a block that the chain does not have is an index out of bounds. *)
AddPair ==
    /\ pc = "pair"
    /\ IF \A k \in 1..2 : Pair(from)[k] \in Known
       THEN /\ result' = [k \in 1..2 |-> Digest(block_id(Pair(from)[k]), "none")]
            /\ pc' = "path"
       ELSE /\ pc' = "outside"
            /\ UNCHANGED result
    /\ UNCHANGED <<sim_chain, from, anchor, root, positions, verdict>>

AddSibling ==
    /\ pc = "path"
    /\ positions # <<>>
    /\ LET p == Head(positions)
           m == inc_merkle(from)
           side == IF p.index % 2 = 1 THEN "left" ELSE "right"
       IN  IF BlocksRead(m, p) \subseteq Known
           THEN /\ result' = Append(result, Digest(NodeValue(m, p), side))
                /\ UNCHANGED pc
           ELSE /\ pc' = "outside"
                /\ UNCHANGED result
    /\ positions' = Tail(positions)
    /\ UNCHANGED <<sim_chain, from, anchor, root, verdict>>

AddRoot ==
    /\ \/ pc = "top"
       \/ pc = "path" /\ positions = <<>>
    /\ result' = Append(result, Digest(root.value, "none"))
    /\ pc' = "verify"
    /\ UNCHANGED <<sim_chain, from, anchor, root, positions, verdict>>

Verify ==
    /\ pc = "verify"
    /\ verdict' = verify_merkle_path(result)
    /\ pc' = "verified"
    /\ UNCHANGED <<sim_chain, from, anchor, root, positions, result>>

NextFrom ==
    /\ pc = "verified"
    /\ from < anchor - 1
    /\ from' = from + 1
    /\ pc' = "root"
    /\ result' = <<>>
    /\ verdict' = FALSE
    /\ UNCHANGED <<sim_chain, anchor, root, positions>>

NextAnchor ==
    /\ pc = "verified"
    /\ from = anchor - 1
    /\ anchor < First + LastAnchor
    /\ anchor' = anchor + 1
    /\ from' = First + FirstFrom
    /\ pc' = "root"
    /\ result' = <<>>
    /\ verdict' = FALSE
    /\ UNCHANGED <<sim_chain, root, positions>>

Return ==
    /\ pc = "verified"
    /\ from = anchor - 1
    /\ anchor = First + LastAnchor
    /\ UNCHANGED vars

Next ==
    \/ PushBlock
    \/ StartTest
    \/ FindRoot
    \/ AddPair
    \/ AddSibling
    \/ AddRoot
    \/ Verify
    \/ NextFrom
    \/ NextAnchor
    \/ Return

Spec == Init /\ [][Next]_vars

-----------------------------------------------------------------------------
\* The merkle tree by definition: the digest of a node all of whose leaves
\* there are.  Of the first Base leaves only the root is known.
RefDigest[layer \in Nat \ {0}] ==
    [index \in Nat \ {0} |->
        IF layer = BaseDepth + 1 /\ index = 1 THEN Leaf(0)
        ELSE IF layer = 1 THEN Leaf(index)
        ELSE Hash(RefDigest[layer - 1][2 * index - 1], RefDigest[layer - 1][2 * index])]

TypeOK ==
    /\ Len(sim_chain) \in 1..ChainLength + 1
    /\ \A k \in DOMAIN sim_chain : sim_chain[k].merkle.count = Base + k - 1
    /\ pc \in {"fill", "root", "pair", "path", "top", "verify", "verified", "outside"}
    /\ from < anchor
    /\ {from, anchor} \subseteq First..First + LastAnchor
    /\ \A k \in DOMAIN result : result[k].side \in {"left", "right", "none"}

(* Every path that the program collects verifies.                          *)
PathVerifies == pc = "verified" => verdict

(* Every digest that is put on a path is that of the sibling of the node   *)
(* above the block in its layer, whichever block's tree it was read from,  *)
(* and is marked with its side.                                            *)
SiblingsExact ==
    \A k \in DOMAIN result :
        result[k].side # "none" =>
            LET sibling == Beside(Above(from, k - 1))
            IN  /\ result[k].value = RefDigest[k - 1][sibling]
                /\ result[k].side = IF sibling % 2 = 1 THEN "left" ELSE "right"

(* A path ends with the root of a full subtree that is over the block and  *)
(* is an active node of the anchor's tree.                                 *)
RootCoversBlock ==
    pc = "verified" =>
        /\ Above(from, root.layer) = root.index
        /\ root.index * two[root.layer - 1] < anchor
        /\ Last(result).value = RefDigest[root.layer][root.index]

(* A path consists of the right digests, those of the siblings and that of *)
(* the root.                                                               *)
PathExact == SiblingsExact /\ RootCoversBlock

(* Collecting a path reads no block before the first or after the last of  *)
(* the chain, and all indices are in their ranges.                         *)
ReadsInChain == TypeOK /\ pc # "outside"

(* inc_merkle_verify accepts the tree of every block.                      *)
TreesVerify ==
    \A k \in DOMAIN sim_chain : inc_merkle_verify(sim_chain[k].merkle)

=============================================================================
