-------------------------- MODULE IncrementalMerkle --------------------------
(***************************************************************************)
(* The incremental merkle tree of the eosio library, as incremental_merkle *)
(* of this repository uses it: a count of leaves and the active nodes,     *)
(* which are the roots of the full subtrees from the right to the left     *)
(* and, unless there is only one of those, the root.  External code.       *)
(*                                                                         *)
(* A digest is a term: a leaf is <<n>>, the hash of a canonical pair is    *)
(* the pair.  Hashes are taken to be free of collisions.                   *)
(***************************************************************************)
EXTENDS Integers, Sequences, FiniteSets, SequencesExt

\* digest_type()
Nothing == <<>>

Leaf(n) == <<n>>

\* digest_type::hash(make_canonical_pair(left, right))
Hash(left, right) == <<left, right>>

\* 1 << k
two[k \in Nat] == IF k = 0 THEN 1 ELSE 2 * two[k - 1]

\* (n >> k) & 1
Bit(n, k) == (n \div two[k]) % 2

\* calcluate_max_depth: the layers of a tree of n leaves
max_depth(n) ==
    IF n = 0 THEN 0
    ELSE 1 + (CHOOSE d \in 0..n : two[d] >= n /\ (d = 0 \/ two[d - 1] < n))

\* get_root()
get_root(m) == IF m.count > 0 THEN Last(m.active) ELSE Nothing

\* append(): a new leaf is collapsed with what is left of it, upwards; a left
\* node without a right one is kept, and paired with itself from there on.
Collapse(m, s, k) ==
    IF Bit(m.count, k) = 0
    THEN [top |-> Hash(s.top, s.top),
          partial |-> TRUE,
          keep |-> IF s.partial THEN s.keep ELSE Append(s.keep, s.top),
          next |-> s.next]
    ELSE [top |-> Hash(m.active[s.next], s.top),
          partial |-> s.partial,
          keep |-> IF s.partial THEN Append(s.keep, m.active[s.next]) ELSE s.keep,
          next |-> s.next + 1]

append(m, digest) ==
    LET depth == max_depth(m.count + 1) - 1
        start == [top |-> digest, partial |-> FALSE, keep |-> <<>>, next |-> 1]
        layer[k \in 0..depth] == IF k = 0 THEN start ELSE Collapse(m, layer[k - 1], k - 1)
        end == layer[depth]
    IN  [count |-> m.count + 1, active |-> Append(end.keep, end.top)]

=============================================================================
