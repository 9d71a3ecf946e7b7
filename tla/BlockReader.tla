----------------------------- MODULE BlockReader -----------------------------
(***************************************************************************)
(* What a program that prints a range of a node's blocks promises while    *)
(* the node keeps working: it goes through the range in order and without  *)
(* a gap, and every block it takes is at that moment a block of the node's *)
(* chain.  The chain is a set of numbered blocks.  The node may change     *)
(* anything in it but the blocks up to the last irreversible one.          *)
(***************************************************************************)
EXTENDS Integers, Sequences

CONSTANT Block      \* what a chain is made of: records with a num

VARIABLES
    chain,          \* the blocks of the node
    final,          \* the number of the last irreversible one
    range,          \* what was asked for: first and last
    out,            \* what was taken
    reading

Irreversible == {b \in chain : b.num <= final}

Init ==
    /\ chain \subseteq Block
    /\ final \in Nat
    /\ range \in [first : Nat, last : Int]
    /\ out = <<>>
    /\ ~reading

(* The node extends its chain, switches forks, or makes blocks final.      *)
NodeStep ==
    /\ chain' \subseteq Block
    /\ final' \in Nat
    /\ final' >= final
    /\ Irreversible \subseteq chain'
    /\ UNCHANGED <<range, out, reading>>

Begin ==
    /\ ~reading
    /\ reading'
    /\ range' \in [first : Nat, last : Int]
    /\ out' = <<>>
    /\ UNCHANGED <<chain, final>>

Take ==
    /\ reading
    /\ reading' \in BOOLEAN
    /\ \E b \in chain :
          /\ b.num = range.first + Len(out)
          /\ b.num <= range.last
          /\ out' = Append(out, b)
    /\ UNCHANGED <<chain, final, range>>

End ==
    /\ reading
    /\ ~reading'
    /\ UNCHANGED <<chain, final, range, out>>

Next == NodeStep \/ Begin \/ Take \/ End

Spec == Init /\ [][Next]_<<chain, final, range, out, reading>>

=============================================================================
