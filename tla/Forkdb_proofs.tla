---------------------------- MODULE Forkdb_proofs ----------------------------
(***************************************************************************)
(* eosio-forkdb reads the branch of the head, all of its range and nothing *)
(* else, and implements BlockReader: for every fork database and every     *)
(* command line.  And what it does to the files: for any number of runs of *)
(* the tool and any number of stops of the node.                           *)
(***************************************************************************)
EXTENDS ForkdbRead, ForkdbTool, WellFoundedInduction, TLAPS

(* What is assumed of the databases holds of the one that is read.         *)
DbInv ==
    /\ blocks \subseteq Block
    /\ IF blocks = {} THEN head = NoBlock ELSE head \in blocks
    /\ head.num + 1 < UintMod
    /\ \A b \in blocks : b.id # 0
    /\ \A b, c \in blocks : b.id = c.id => b = c
    /\ \A b, c \in blocks : b.prev = c.id => b.num = c.num + 1

IsRoot(b) == \A c \in blocks : c.id # b.prev

Walked == {"output", "print", "pack", "finish", "done"}

(* The walk stays on the chain and ends at its root.                       *)
WalkInv ==
    /\ pc = "walk" \/ pc \in Walked => first \in CurrentChain
    /\ pc \in Walked => IsRoot(first) /\ count = head.num - first.num + 1

(* The block that is asked for next is the one after those taken.          *)
CursorInv ==
    /\ pc = "print" => req.packFrom = 0 /\ blockNum = FirstBlock + Len(out)
    /\ pc = "pack" => req.packFrom # 0 /\ blockNum = req.packFrom + Len(out)
    /\ pc \in {"open", "walk", "output"} => out = <<>>

(* What is taken are the blocks of the chain with the numbers asked for.   *)
TakenInv ==
    \A i \in 1..Len(out) :
        /\ out[i] \in CurrentChain
        /\ out[i].num = Asked.first + i - 1
        /\ out[i].num <= Asked.last

(* A loop is left when the range or the chain is at its end.               *)
EndInv ==
    pc = "finish" \/ (pc = "done" /\ ~req.info) =>
        \/ Asked.first + Len(out) > Asked.last
        \/ \A b \in CurrentChain : b.num # Asked.first + Len(out)

IInv == TypeOK /\ DbInv /\ WalkInv /\ CursorInv /\ TakenInv /\ EndInv

-----------------------------------------------------------------------------
(* A set of natural numbers has a least one. *)
LEMMA LeastNumber ==
    ASSUME NEW T, T \subseteq Nat, T # {}
    PROVE  \E m \in T : \A k \in T : m <= k
  <1>1. \E m \in T : \A k \in T : <<k, m>> \notin OpToRel(<, Nat)
    BY WFMin, NatLessThanWellFounded
  <1>2. PICK m \in T : \A k \in T : <<k, m>> \notin OpToRel(<, Nat)
    BY <1>1
  <1>3. \A k \in T : ~(k < m)
    BY <1>2, Zenon DEF OpToRel
  <1> QED
    BY <1>3

-----------------------------------------------------------------------------
(* The chain.  It consists of the head and predecessors of its blocks.     *)
LEMMA ChainBasics ==
    ASSUME DbInv
    PROVE  /\ CurrentChain \subseteq blocks
           /\ head # NoBlock => head \in CurrentChain
           /\ \A b \in CurrentChain, c \in blocks : b.prev = c.id => c \in CurrentChain
           /\ \A b \in blocks : b.num \in Nat /\ b.id \in Nat /\ b.prev \in Nat
           /\ CurrentChain # {} => head \in blocks /\ head # NoBlock
  <1>1. CurrentChain \subseteq blocks
    BY DEF CurrentChain
  <1>2. head # NoBlock => head \in CurrentChain
    BY DEF CurrentChain, DbInv
  <1>3. ASSUME NEW b \in CurrentChain, NEW c \in blocks, b.prev = c.id
        PROVE  c \in CurrentChain
    <2>1. ASSUME NEW S \in SUBSET blocks, head \in S, Closed(S) PROVE c \in S
      <3>1. b \in S
        BY <2>1 DEF CurrentChain
      <3> QED
        BY <1>3, <2>1, <3>1 DEF Closed
    <2> QED
      BY <2>1 DEF CurrentChain
  <1>4. \A b \in blocks : b.num \in Nat /\ b.id \in Nat /\ b.prev \in Nat
    BY DEF DbInv, Block
  <1>5. CurrentChain # {} => head \in blocks /\ head # NoBlock
    <2>1. NoBlock.id = 0
      BY DEF NoBlock
    <2> QED
      BY <1>1, <2>1 DEF DbInv
  <1> QED
    BY <1>1, <1>2, <1>3, <1>4, <1>5

(* What holds of the head and, with a block, of its predecessor, holds of  *)
(* the chain.                                                              *)
LEMMA ChainInduction ==
    ASSUME DbInv, NEW S \in SUBSET blocks, CurrentChain # {} => head \in S,
           \A b \in S, c \in blocks : b.prev = c.id => c \in S
    PROVE  CurrentChain \subseteq S
  <1>1. Closed(S)
    BY DEF Closed
  <1> QED
    BY <1>1 DEF CurrentChain

(* Numbers grow up to that of the head, without a gap ...                  *)
LEMMA ChainReachesHead ==
    ASSUME DbInv, NEW b \in CurrentChain
    PROVE  /\ b.num <= head.num /\ head.num \in Nat
           /\ b.num = head.num => b = head
           /\ \A n \in b.num..head.num : \E c \in CurrentChain : c.num = n
  <1> DEFINE C == CurrentChain
             Below == {c \in blocks : c = head \/ c.num < head.num}
             Joined == {c \in C : \A n \in c.num..head.num : \E d \in C : d.num = n}
  <1>1. /\ C \subseteq blocks /\ head \in C /\ head \in blocks
        /\ \A c \in C, d \in blocks : c.prev = d.id => d \in C
        /\ \A c \in blocks : c.num \in Nat
    BY ChainBasics
  <1>2. \A c, d \in blocks : c.prev = d.id => c.num = d.num + 1
    BY DEF DbInv
  <1> HIDE DEF C
  <1>3. C \subseteq Below
    <2>1. Below \in SUBSET blocks /\ head \in Below
      BY <1>1
    <2>2. ASSUME NEW c \in Below, NEW d \in blocks, c.prev = d.id PROVE d \in Below
      <3>1. c \in blocks /\ c.num = d.num + 1 /\ c.num <= head.num
        BY <1>1, <1>2, <2>2
      <3>2. d.num < head.num
        BY <1>1, <3>1
      <3> QED
        BY <3>2
    <2> HIDE DEF Below
    <2> QED
      BY <2>1, <2>2, ChainInduction DEF C
  <1>4. C \subseteq Joined
    <2>1. Joined \in SUBSET blocks /\ head \in Joined
      <3>1. \A n \in head.num..head.num : n = head.num
        BY <1>1
      <3> QED
        BY <1>1, <3>1
    <2>2. ASSUME NEW c \in Joined, NEW d \in blocks, c.prev = d.id PROVE d \in Joined
      <3>1. d \in C /\ c \in blocks /\ c.num = d.num + 1
        BY <1>1, <1>2, <2>2
      <3>2. ASSUME NEW n \in d.num..head.num PROVE \E e \in C : e.num = n
        <4>1. n = d.num \/ n \in c.num..head.num
          BY <1>1, <3>1
        <4> QED
          BY <3>1, <4>1
      <3> QED
        BY <3>1, <3>2
    <2> HIDE DEF Joined
    <2> QED
      BY <2>1, <2>2, ChainInduction DEF C
  <1>5. b \in C /\ b \in blocks
    BY <1>1 DEF C
  <1>6. b = head \/ b.num < head.num
    BY <1>3, <1>5
  <1>7. \A n \in b.num..head.num : \E c \in C : c.num = n
    BY <1>4, <1>5
  <1> QED
    BY <1>1, <1>5, <1>6, <1>7 DEF C

(* ... every block but the head is the predecessor of one ...              *)
LEMMA ChainSuccessor ==
    ASSUME DbInv, NEW b \in CurrentChain, b # head
    PROVE  \E c \in CurrentChain : c.prev = b.id /\ c.num = b.num + 1
  <1> DEFINE C == CurrentChain
             Preceding == {d \in C : d = head \/ \E c \in C : c.prev = d.id}
  <1>1. /\ C \subseteq blocks /\ head \in C /\ head \in blocks
        /\ \A c \in C, d \in blocks : c.prev = d.id => d \in C
    BY ChainBasics
  <1>2. \A c, d \in blocks : c.prev = d.id => c.num = d.num + 1
    BY DEF DbInv
  <1> HIDE DEF C
  <1>3. C \subseteq Preceding
    <2>1. Preceding \in SUBSET blocks /\ head \in Preceding
      BY <1>1
    <2>2. ASSUME NEW c \in Preceding, NEW d \in blocks, c.prev = d.id PROVE d \in Preceding
      BY <1>1, <2>2
    <2> HIDE DEF Preceding
    <2> QED
      BY <2>1, <2>2, ChainInduction DEF C
  <1>4. b \in C
    BY DEF C
  <1>5. PICK c \in C : c.prev = b.id
    BY <1>3, <1>4
  <1>6. c.num = b.num + 1
    BY <1>1, <1>2, <1>4, <1>5
  <1> QED
    BY <1>5, <1>6 DEF C

(* ... and each number is that of one block.                               *)
LEMMA ChainNumbers ==
    ASSUME DbInv
    PROVE  \A b, c \in CurrentChain : b.num = c.num => b = c
  <1> SUFFICES ASSUME CurrentChain # {}
               PROVE  \A b, c \in CurrentChain : b.num = c.num => b = c
    OBVIOUS
  <1> DEFINE C == CurrentChain
             Single == {b \in C : \A c \in C : c.num = b.num => c = b}
  <1>1. /\ C \subseteq blocks /\ head \in C /\ head \in blocks
        /\ \A c \in C, d \in blocks : c.prev = d.id => d \in C
        /\ \A c \in blocks : c.num \in Nat
    BY ChainBasics
  <1>2. /\ \A c, d \in blocks : c.prev = d.id => c.num = d.num + 1
        /\ \A c, d \in blocks : c.id = d.id => c = d
    BY DEF DbInv
  <1>3. \A c \in C : c.num <= head.num /\ (c.num = head.num => c = head)
    BY ChainReachesHead
  <1>4. \A c \in C : c # head => \E d \in C : d.prev = c.id /\ d.num = c.num + 1
    BY ChainSuccessor
  <1> HIDE DEF C
  <1>5. C \subseteq Single
    <2>1. Single \in SUBSET blocks /\ head \in Single
      BY <1>1, <1>3
    <2>2. ASSUME NEW b \in Single, NEW p \in blocks, b.prev = p.id PROVE p \in Single
      <3>1. b \in C /\ p \in C /\ b.num = p.num + 1 /\ b.num \in Nat /\ p.num \in Nat
        BY <1>1, <1>2, <2>2
      <3>2. ASSUME NEW c \in C, c.num = p.num PROVE c = p
        <4>1. c # head
          <5>1. b.num <= head.num /\ head.num \in Nat
            BY <1>1, <1>3, <3>1
          <5> QED
            BY <3>1, <3>2, <5>1
        <4>2. PICK d \in C : d.prev = c.id /\ d.num = c.num + 1
          BY <1>4, <4>1
        <4>3. d = b
          BY <3>1, <3>2, <4>2
        <4>4. c.id = p.id
          BY <2>2, <4>2, <4>3
        <4> QED
          BY <1>1, <1>2, <3>1, <4>4
      <3> QED
        BY <3>1, <3>2
    <2> HIDE DEF Single
    <2> QED
      BY <2>1, <2>2, ChainInduction DEF C
  <1> QED
    BY <1>5 DEF C

(* The chain begins with the block that has no predecessor.                *)
LEMMA ChainRoot ==
    ASSUME DbInv, NEW r \in CurrentChain, IsRoot(r)
    PROVE  \A b \in CurrentChain : r.num <= b.num
  <1> DEFINE C == CurrentChain
             Above == {b \in C : r.num <= b.num}
  <1>1. /\ C \subseteq blocks /\ head \in C /\ head \in blocks
        /\ \A c \in C, d \in blocks : c.prev = d.id => d \in C
        /\ \A c \in blocks : c.num \in Nat
    BY ChainBasics
  <1>2. \A c, d \in blocks : c.prev = d.id => c.num = d.num + 1
    BY DEF DbInv
  <1>3. r.num <= head.num
    BY ChainReachesHead
  <1>4. \A b, c \in C : b.num = c.num => b = c
    BY ChainNumbers
  <1>5. r \in C
    OBVIOUS
  <1> HIDE DEF C
  <1>6. C \subseteq Above
    <2>1. Above \in SUBSET blocks /\ head \in Above
      BY <1>1, <1>3
    <2>2. ASSUME NEW b \in Above, NEW p \in blocks, b.prev = p.id PROVE p \in Above
      <3>1. /\ b \in C /\ p \in C /\ b.num = p.num + 1 /\ r.num <= b.num
            /\ p.num \in Nat /\ b.num \in Nat /\ r.num \in Nat
        BY <1>1, <1>2, <1>5, <2>2
      <3>2. b # r
        BY <2>2 DEF IsRoot
      <3>3. b.num # r.num
        BY <1>4, <1>5, <3>1, <3>2
      <3> QED
        BY <3>1, <3>3
    <2> HIDE DEF Above
    <2> QED
      BY <2>1, <2>2, ChainInduction DEF C
  <1> QED
    BY <1>6 DEF C

-----------------------------------------------------------------------------
(* What is asked for, as the tool finds it once it has walked back.        *)
LEMMA RootNumber ==
    ASSUME DbInv
    PROVE  /\ RootNum \in Nat
           /\ \A r \in CurrentChain : IsRoot(r) => RootNum = r.num
  <1> DEFINE C == CurrentChain
             Nums == {b.num : b \in C}
             Least(n) == \A b \in C : n <= b.num
  <1>1. CASE head = NoBlock
    <2>1. C = {}
      BY <1>1, ChainBasics
    <2> QED
      BY <1>1, <2>1 DEF RootNum
  <1>2. CASE head # NoBlock
    <2>1. head \in C /\ \A b \in C : b.num \in Nat
      BY <1>2, ChainBasics
    <2>2. RootNum = CHOOSE n \in Nums : Least(n)
      BY <1>2 DEF RootNum
    <2> HIDE DEF C
    <2>3. \E n \in Nums : \A k \in Nums : n <= k
      <3>1. Nums \subseteq Nat /\ Nums # {}
        BY <2>1
      <3> HIDE DEF Nums
      <3> QED
        BY <3>1, LeastNumber
    <2>4. \E n \in Nums : Least(n)
      BY <2>3
    <2>5. RootNum \in Nums /\ Least(RootNum)
      <3> HIDE DEF Nums, Least
      <3> QED
        BY <2>2, <2>4
    <2>6. RootNum \in Nat
      BY <2>1, <2>5
    <2>7. ASSUME NEW r \in C, IsRoot(r) PROVE RootNum = r.num
      <3>1. \A b \in C : r.num <= b.num
        BY <2>7, ChainRoot DEF C
      <3>2. PICK b \in C : RootNum = b.num
        BY <2>5
      <3>3. r.num <= RootNum /\ RootNum <= r.num /\ r.num \in Nat
        BY <2>1, <2>5, <2>7, <3>1, <3>2
      <3> QED
        BY <2>6, <3>3
    <2> QED
      BY <2>6, <2>7 DEF C
  <1> QED
    BY <1>1, <1>2

LEMMA RequestFields ==
    ASSUME req \in Request
    PROVE  /\ req.first \in Nat /\ req.last \in Nat /\ req.packFrom \in Nat /\ req.interval \in Nat
           /\ req.first < UintMod /\ req.last < UintMod
           /\ req.packFrom < UintMod /\ req.interval < UintMod
           /\ UintMod \in Nat \ {0}
           /\ PackLast \in 0..UintMod - 1
  <1>1. UintMod \in Nat \ {0}
    BY RequestsAssumption
  <1>2. /\ req.first \in Uint32 /\ req.last \in Uint32
        /\ req.packFrom \in Uint32 /\ req.interval \in Uint32
    BY DEF Request
  <1>3. /\ req.first \in Nat /\ req.last \in Nat /\ req.packFrom \in Nat /\ req.interval \in Nat
        /\ req.first < UintMod /\ req.last < UintMod
        /\ req.packFrom < UintMod /\ req.interval < UintMod
    BY <1>1, <1>2 DEF Uint32
  <1>4. PackLast \in 0..UintMod - 1
    BY <1>1, <1>3 DEF PackLast
  <1> QED
    BY <1>1, <1>3, <1>4

LEMMA AskedRange ==
    ASSUME DbInv, req \in Request
    PROVE  /\ Asked \in [first : Nat, last : Int]
           /\ req.packFrom # 0 => Asked.first = req.packFrom /\ Asked.last = PackLast
           /\ req.packFrom = 0 => Asked.last = req.last
           /\ first \in CurrentChain /\ IsRoot(first) /\ req.packFrom = 0 =>
                 Asked.first = FirstBlock
  <1>1. /\ RootNum \in Nat /\ PackLast \in Nat /\ req.first \in Nat /\ req.last \in Nat
        /\ req.packFrom \in Nat
    BY RootNumber, RequestFields
  <1>2. first \in CurrentChain /\ IsRoot(first) => RootNum = first.num
    BY RootNumber
  <1>3. CASE req.packFrom # 0
    <2>1. Asked = [first |-> req.packFrom, last |-> PackLast]
      BY <1>3 DEF Asked
    <2> QED
      BY <1>1, <1>3, <2>1
  <1>4. CASE req.packFrom = 0
    <2>1. Asked = [first |-> IF req.first < RootNum THEN RootNum ELSE req.first,
                   last |-> req.last]
      BY <1>4 DEF Asked
    <2>2. (IF req.first < RootNum THEN RootNum ELSE req.first) \in Nat
      BY <1>1
    <2> QED
      BY <1>1, <1>2, <1>4, <2>1, <2>2 DEF FirstBlock
  <1> QED
    BY <1>3, <1>4

AskedInv == Asked \in [first : Nat, last : Int]

(* No step changes the database, and the range changes with the run only.  *)
LEMMA SameDatabase ==
    ASSUME [Next]_vars
    PROVE  blocks' = blocks /\ head' = head
  BY DEF Next, ToolStep, vars, forkDb, Start, Open, WalkBack, Announce, OutputFails, OpenOutput,
         Take, PrintBlock, LeavePrint, PackHeader, LeavePack, Finish

LEMMA SameChain ==
    ASSUME blocks' = blocks, head' = head
    PROVE  /\ CurrentChain' = CurrentChain
           /\ RootNum' = RootNum
           /\ DbInv => DbInv'
           /\ req' = req => Asked' = Asked
  <1>1. CurrentChain' = CurrentChain
    BY DEF CurrentChain, Closed
  <1>2. RootNum' = RootNum
    BY <1>1 DEF RootNum
  <1>3. DbInv => DbInv'
    BY DEF DbInv
  <1>4. req' = req => Asked' = Asked
    BY <1>2 DEF Asked, PackLast
  <1> QED
    BY <1>1, <1>2, <1>3, <1>4

-----------------------------------------------------------------------------
LEMMA InvInit == Init => IInv
  <1> SUFFICES ASSUME Init PROVE IInv
    OBVIOUS
  <1>1. PICK d \in Databases : blocks = d.blocks /\ head = d.head
    BY DEF Init
  <1>2. DbInv
    BY <1>1, DatabasesAssumption DEF DbInv
  <1>3. req \in Request
    BY RequestsAssumption DEF Init, NoRequest, Request, Uint32
  <1>4. blockNum \in Uint32 /\ count \in Nat
    BY RequestsAssumption DEF Init, Uint32
  <1>5. TypeOK
    <2>1. head \in blocks \cup {NoBlock} /\ blocks \subseteq Block
      BY <1>2 DEF DbInv
    <2>2. out \in Seq(blocks) /\ first \in blocks \cup {NoBlock} /\ pc \in Finished
      BY DEF Init, Finished
    <2> QED
      BY <1>3, <1>4, <2>1, <2>2 DEF TypeOK
  <1>6. WalkInv /\ CursorInv /\ EndInv
    BY DEF Init, WalkInv, CursorInv, EndInv, Walked
  <1>7. TakenInv
    <2>1. Len(out) = 0
      BY DEF Init
    <2> QED
      BY <2>1 DEF TakenInv
  <1> QED
    BY <1>2, <1>5, <1>6, <1>7 DEF IInv

(* A new run forgets the one before it.                                    *)
LEMMA StartStep ==
    ASSUME IInv, Start
    PROVE  IInv'
  <1>1. blocks' = blocks /\ head' = head
    BY DEF Start, forkDb
  <1>2. DbInv'
    BY <1>1, SameChain DEF IInv
  <1>3. /\ pc' = "open" /\ req' \in Request /\ first' = NoBlock /\ count' = 0
        /\ blockNum' = 0 /\ out' = <<>>
    BY RequestsAssumption DEF Start
  <1>4. blockNum' \in Uint32
    BY <1>3, RequestsAssumption DEF Uint32
  <1>5. TypeOK'
    <2>1. out' \in Seq(blocks) /\ count' \in Nat
      BY <1>3
    <2> QED
      BY <1>1, <1>3, <1>4, <2>1 DEF IInv, TypeOK
  <1>6. WalkInv' /\ CursorInv' /\ EndInv'
    BY <1>3 DEF WalkInv, CursorInv, EndInv, Walked
  <1>7. TakenInv'
    <2>1. Len(out') = 0
      BY <1>3
    <2> QED
      BY <2>1 DEF TakenInv
  <1> QED
    BY <1>2, <1>5, <1>6, <1>7 DEF IInv

(* A step that takes no block keeps what holds of those taken.             *)
LEMMA QuietStep ==
    ASSUME IInv, blocks' = blocks, head' = head, req' = req, out' = out
    PROVE  DbInv' /\ TakenInv' /\ CurrentChain' = CurrentChain /\ Asked' = Asked
  <1>1. CurrentChain' = CurrentChain /\ Asked' = Asked /\ DbInv'
    BY SameChain DEF IInv
  <1>2. TakenInv'
    BY <1>1 DEF IInv, TakenInv
  <1> QED
    BY <1>1, <1>2

(* A step of the walk: to the head, back by one, or out of it.             *)
LEMMA WalkStep ==
    ASSUME IInv, Open \/ WalkBack \/ Announce
    PROVE  IInv'
  <1>1. /\ blocks' = blocks /\ head' = head /\ req' = req /\ out' = out
        /\ blockNum' = blockNum
    BY DEF Open, WalkBack, Announce, forkDb
  <1>2. DbInv' /\ TakenInv' /\ CurrentChain' = CurrentChain
    BY <1>1, QuietStep
  <1>3. pc \in {"open", "walk"} /\ out = <<>>
    BY DEF IInv, CursorInv, Open, WalkBack, Announce
  <1>4. pc' \in {"failed", "walk", "done", "output"} /\ (pc' = "done" => req.info)
    BY DEF Open, WalkBack, Announce
  <1>5. CursorInv' /\ EndInv'
    BY <1>1, <1>3, <1>4 DEF CursorInv, EndInv
  <1>6. TypeOK' /\ WalkInv'
    <2>1. CASE Open
      <3>1. first' = head /\ count' = count /\ pc' = IF head = NoBlock THEN "failed" ELSE "walk"
        BY <2>1 DEF Open
      <3>2. head # NoBlock => first' \in CurrentChain
        BY <3>1, ChainBasics DEF IInv
      <3> QED
        BY <1>1, <1>2, <1>4, <3>1, <3>2 DEF IInv, TypeOK, WalkInv, Walked, Finished
    <2>2. CASE WalkBack
      <3>1. PICK b \in blocks : b.id = first.prev /\ first' = b
        BY <2>2 DEF WalkBack
      <3>2. pc = "walk" /\ pc' = "walk" /\ count' = count
        BY <2>2 DEF WalkBack
      <3>3. first' \in CurrentChain
        BY <3>1, <3>2, ChainBasics DEF IInv, WalkInv
      <3> QED
        BY <1>1, <1>2, <3>1, <3>2, <3>3 DEF IInv, TypeOK, WalkInv, Walked
    <2>3. CASE Announce
      <3>1. /\ pc = "walk" /\ first' = first /\ count' = head.num - first.num + 1
            /\ pc' = "done" \/ pc' = "output"
            /\ \A b \in blocks : b.id # first.prev
        BY <2>3 DEF Announce
      <3>2. first \in CurrentChain
        BY <3>1 DEF IInv, WalkInv
      <3>3. IsRoot(first)'
        BY <1>1, <3>1 DEF IsRoot
      <3>4. count' \in Nat
        <4>1. first.num <= head.num /\ head.num \in Nat /\ first.num \in Nat
          BY <3>2, ChainBasics, ChainReachesHead DEF IInv
        <4> QED
          BY <3>1, <4>1
      <3>5. pc' \in Finished \cup {"open", "walk", "output", "print", "pack", "finish"}
        BY <3>1 DEF Finished
      <3>6. WalkInv'
        BY <1>1, <1>2, <3>1, <3>2, <3>3 DEF WalkInv
      <3>7. TypeOK'
        BY <1>1, <3>1, <3>4, <3>5 DEF IInv, TypeOK
      <3> QED
        BY <3>6, <3>7
    <2> QED
      BY <2>1, <2>2, <2>3
  <1> QED
    BY <1>2, <1>5, <1>6 DEF IInv

(* A step after the walk that takes no block.                              *)
LEMMA PlainStep ==
    ASSUME IInv, OutputFails \/ OpenOutput \/ LeavePrint \/ LeavePack \/ Finish
    PROVE  IInv'
  <1>1. /\ blocks' = blocks /\ head' = head /\ req' = req /\ out' = out
        /\ first' = first /\ count' = count
    BY DEF OutputFails, OpenOutput, LeavePrint, LeavePack, Finish, forkDb
  <1>2. DbInv' /\ TakenInv' /\ CurrentChain' = CurrentChain /\ Asked' = Asked
    BY <1>1, QuietStep
  <1>3. pc \in Walked /\ (pc' \in Walked \/ pc' = "failed")
    BY DEF OutputFails, OpenOutput, LeavePrint, LeavePack, Finish, Walked
  <1>4. WalkInv'
    <2>1. IsRoot(first)' <=> IsRoot(first)
      BY <1>1 DEF IsRoot
    <2>2. first \in CurrentChain /\ IsRoot(first) /\ count = head.num - first.num + 1
      BY <1>3 DEF IInv, WalkInv
    <2> QED
      BY <1>1, <1>2, <1>3, <2>1, <2>2 DEF WalkInv, Walked
  <1>5. req \in Request
    BY DEF IInv, TypeOK
  <1>6. blockNum' \in Uint32
    <2>1. CASE OpenOutput
      <3>1. first \in CurrentChain /\ first.num <= head.num
        BY <2>1, ChainReachesHead DEF IInv, WalkInv, OpenOutput, Walked
      <3>2. first.num \in Nat /\ head.num \in Nat /\ head.num + 1 < UintMod
        BY <3>1, ChainBasics, ChainReachesHead DEF IInv, DbInv
      <3>3. FirstBlock \in Uint32 /\ req.packFrom \in Uint32
        BY <1>5, <3>1, <3>2, RequestFields DEF FirstBlock, Uint32
      <3> QED
        BY <2>1, <3>3 DEF OpenOutput
    <2>2. CASE OutputFails \/ LeavePrint \/ LeavePack \/ Finish
      BY <2>2 DEF OutputFails, LeavePrint, LeavePack, Finish, IInv, TypeOK
    <2> QED
      BY <2>1, <2>2
  <1>7. TypeOK'
    <2>1. pc' \in Finished \cup {"open", "walk", "output", "print", "pack", "finish"}
      BY <1>3 DEF Walked, Finished
    <2> QED
      BY <1>1, <1>6, <2>1 DEF IInv, TypeOK
  <1>8. CursorInv'
    <2>1. CASE OpenOutput
      <3>1. out = <<>> /\ Len(out) = 0
        BY <2>1 DEF OpenOutput, IInv, CursorInv
      <3>2. FirstBlock' = FirstBlock /\ FirstBlock \in Nat /\ req.packFrom \in Nat
        <4>1. first \in blocks
          BY <2>1, ChainBasics DEF OpenOutput, IInv, WalkInv, Walked
        <4>2. first.num \in Nat
          BY <4>1, ChainBasics DEF IInv
        <4> QED
          BY <1>1, <1>5, <4>2, RequestFields DEF FirstBlock
      <3> QED
        BY <1>1, <2>1, <3>1, <3>2 DEF OpenOutput, CursorInv
    <2>2. CASE OutputFails \/ LeavePrint \/ LeavePack \/ Finish
      BY <2>2 DEF OutputFails, LeavePrint, LeavePack, Finish, CursorInv
    <2> QED
      BY <2>1, <2>2
  <1>9. EndInv'
    <2>1. CASE OutputFails \/ OpenOutput
      BY <2>1 DEF OutputFails, OpenOutput, EndInv
    <2>2. CASE LeavePrint
      <3>1. /\ pc = "print" /\ (blockNum > req.last \/ \A b \in CurrentChain : b.num # blockNum)
        BY <2>2 DEF LeavePrint
      <3>2. blockNum = Asked.first + Len(out) /\ Asked.last = req.last
        BY <1>5, <3>1, AskedRange DEF IInv, CursorInv, WalkInv, Walked
      <3> QED
        BY <1>1, <1>2, <3>1, <3>2 DEF EndInv
    <2>3. CASE LeavePack
      <3>1. /\ pc = "pack" /\ (blockNum > PackLast \/ \A b \in CurrentChain : b.num # blockNum)
        BY <2>3 DEF LeavePack
      <3>2. blockNum = Asked.first + Len(out) /\ Asked.last = PackLast
        BY <1>5, <3>1, AskedRange DEF IInv, CursorInv
      <3> QED
        BY <1>1, <1>2, <3>1, <3>2 DEF EndInv
    <2>4. CASE Finish
      BY <1>1, <1>2, <2>4 DEF Finish, IInv, EndInv
    <2> QED
      BY <2>1, <2>2, <2>3, <2>4
  <1> QED
    BY <1>2, <1>4, <1>7, <1>8, <1>9 DEF IInv

(* A step of either loop takes the block of the number that is asked for.  *)
LEMMA TakesAsked ==
    ASSUME IInv, PrintBlock \/ PackHeader
    PROVE  \E b \in CurrentChain :
              /\ b.num = blockNum /\ blockNum = Asked.first + Len(out)
              /\ b.num <= Asked.last
              /\ Take(b)
  <1>1. req \in Request
    BY DEF IInv, TypeOK
  <1>2. CASE PrintBlock
    <2>1. PICK b \in CurrentChain : b.num = blockNum /\ Take(b)
      BY <1>2 DEF PrintBlock
    <2>2. pc = "print" /\ blockNum <= req.last
      BY <1>2 DEF PrintBlock
    <2>3. blockNum = Asked.first + Len(out) /\ Asked.last = req.last
      BY <1>1, <2>2, AskedRange DEF IInv, CursorInv, WalkInv, Walked
    <2> QED
      BY <2>1, <2>2, <2>3
  <1>3. CASE PackHeader
    <2>1. PICK b \in CurrentChain : b.num = blockNum /\ Take(b)
      BY <1>3 DEF PackHeader
    <2>2. pc = "pack" /\ blockNum <= PackLast
      BY <1>3 DEF PackHeader
    <2>3. blockNum = Asked.first + Len(out) /\ Asked.last = PackLast
      BY <1>1, <2>2, AskedRange DEF IInv, CursorInv
    <2> QED
      BY <2>1, <2>2, <2>3
  <1> QED
    BY <1>2, <1>3

LEMMA TakeStep ==
    ASSUME IInv, PrintBlock \/ PackHeader
    PROVE  IInv'
  <1>1. PICK b \in CurrentChain : /\ b.num = blockNum /\ blockNum = Asked.first + Len(out)
                                  /\ b.num <= Asked.last
                                  /\ Take(b)
    BY TakesAsked
  <1>2. /\ blocks' = blocks /\ head' = head /\ req' = req /\ pc' = pc
        /\ first' = first /\ count' = count /\ out' = Append(out, b)
        /\ blockNum' = (blockNum + 1) % UintMod
    BY <1>1 DEF Take, forkDb
  <1>3. /\ CurrentChain' = CurrentChain /\ Asked' = Asked /\ DbInv'
    BY <1>2, SameChain DEF IInv
  <1>4. b \in blocks /\ out \in Seq(blocks) /\ req \in Request
    BY ChainBasics DEF IInv, TypeOK
  <1>5. /\ out' \in Seq(blocks) /\ Len(out') = Len(out) + 1 /\ Len(out) \in Nat
        /\ \A i \in 1..Len(out) : out'[i] = out[i]
        /\ out'[Len(out) + 1] = b
    BY <1>2, <1>4
  <1>6. blockNum' = blockNum + 1 /\ blockNum' \in Uint32 /\ blockNum \in Nat
    <2>1. b.num \in Nat /\ b.num <= head.num /\ head.num \in Nat /\ head.num + 1 < UintMod
      BY <1>4, ChainBasics, ChainReachesHead DEF IInv, DbInv
    <2>2. UintMod \in Nat
      BY RequestsAssumption
    <2>3. ASSUME NEW x \in Nat, NEW m \in Nat, x < m PROVE x % m = x
      BY <2>3
    <2>4. blockNum + 1 \in Nat /\ blockNum + 1 < UintMod
      BY <1>1, <2>1, <2>2
    <2>5. (blockNum + 1) % UintMod = blockNum + 1
      BY <2>2, <2>3, <2>4
    <2> QED
      BY <1>1, <1>2, <2>1, <2>2, <2>4, <2>5 DEF Uint32
  <1>7. pc \in {"print", "pack"}
    BY DEF PrintBlock, PackHeader
  <1>8. TypeOK'
    BY <1>2, <1>5, <1>6 DEF IInv, TypeOK
  <1>9. WalkInv'
    <2>1. IsRoot(first)' <=> IsRoot(first)
      BY <1>2 DEF IsRoot
    <2> QED
      BY <1>2, <1>3, <2>1 DEF IInv, WalkInv
  <1>10. CursorInv'
    <2>1. FirstBlock' = FirstBlock
      BY <1>2 DEF FirstBlock
    <2>2. pc = "print" => req.packFrom = 0 /\ blockNum = FirstBlock + Len(out)
      BY DEF IInv, CursorInv
    <2>3. pc = "pack" => req.packFrom # 0 /\ blockNum = req.packFrom + Len(out)
      BY DEF IInv, CursorInv
    <2>4. FirstBlock \in Nat /\ req.packFrom \in Nat
      <3>1. first \in CurrentChain
        BY <1>7 DEF IInv, WalkInv, Walked
      <3>2. first.num \in Nat
        BY <3>1, ChainBasics DEF IInv
      <3> QED
        BY <1>4, <3>2, RequestFields DEF FirstBlock
    <2>5. pc = "print" => req.packFrom = 0 /\ blockNum' = FirstBlock + Len(out')
      BY <1>5, <1>6, <2>2, <2>4
    <2>6. pc = "pack" => req.packFrom # 0 /\ blockNum' = req.packFrom + Len(out')
      BY <1>5, <1>6, <2>3, <2>4
    <2> QED
      BY <1>2, <1>7, <2>1, <2>5, <2>6 DEF CursorInv
  <1>11. TakenInv'
    <2> DEFINE L == Len(out)
               a == Asked.first
    <2>1. a \in Nat
      BY <1>4, AskedRange DEF IInv
    <2>2. ASSUME NEW i \in 1..L + 1
          PROVE  /\ out'[i] \in CurrentChain
                 /\ out'[i].num = a + i - 1
                 /\ out'[i].num <= Asked.last
      <3>1. CASE i = L + 1
        <4>1. out'[i] = b /\ b.num = a + L
          BY <1>1, <1>5, <3>1
        <4> HIDE DEF L, a
        <4>2. a + L = a + i - 1
          BY <1>5, <2>1, <3>1 DEF L
        <4> QED
          BY <1>1, <4>1, <4>2
      <3>2. CASE i # L + 1
        <4>1. i \in 1..L
          BY <1>5, <3>2
        <4> QED
          BY <1>5, <4>1 DEF IInv, TakenInv
      <3> QED
        BY <3>1, <3>2
    <2> QED
      BY <1>3, <1>5, <2>2 DEF TakenInv
  <1>12. EndInv'
    BY <1>2, <1>7 DEF EndInv
  <1> QED
    BY <1>3, <1>8, <1>9, <1>10, <1>11, <1>12 DEF IInv

LEMMA InvStep == IInv /\ [Next]_vars => IInv'
  <1> SUFFICES ASSUME IInv, [Next]_vars PROVE IInv'
    OBVIOUS
  <1>1. CASE UNCHANGED vars
    <2>1. /\ blocks' = blocks /\ head' = head /\ req' = req /\ out' = out
          /\ pc' = pc /\ first' = first /\ count' = count /\ blockNum' = blockNum
      BY <1>1 DEF vars, forkDb
    <2>2. DbInv' /\ TakenInv' /\ CurrentChain' = CurrentChain /\ Asked' = Asked
      BY <2>1, QuietStep
    <2>3. TypeOK' /\ CursorInv'
      BY <2>1 DEF IInv, TypeOK, CursorInv, FirstBlock
    <2>4. WalkInv'
      BY <2>1, <2>2 DEF IInv, WalkInv, IsRoot
    <2>5. EndInv'
      BY <2>1, <2>2 DEF IInv, EndInv
    <2> QED
      BY <2>2, <2>3, <2>4, <2>5 DEF IInv
  <1> QED
    BY <1>1, StartStep, WalkStep, PlainStep, TakeStep DEF Next, ToolStep

(* Every variable of the reader stays in its type, for any databases.      *)
THEOREM TypeCorrect == Spec => []TypeOK
  <1>1. IInv => TypeOK
    BY DEF IInv
  <1> QED
    BY <1>1, InvInit, InvStep, PTL DEF Spec

(* ReadsTheChain: each step of the tool is one of BlockReader or changes   *)
(* none of its variables; the blocks are taken in order, without gaps, and *)
(* each of them is one of the head's branch.                               *)
THEOREM ReadsInOrder == Spec => ReadsTheChain
  <1> DEFINE view == <<CurrentChain, head.num, Asked, out, pc \notin Finished>>
  <1>1. Init => Reader!Init
    <2> SUFFICES ASSUME Init PROVE Reader!Init
      OBVIOUS
    <2>1. IInv
      BY InvInit
    <2>2. CurrentChain \subseteq Block
      BY <2>1, ChainBasics DEF IInv, DbInv
    <2>3. head.num \in Nat
      BY <2>1, ChainBasics DEF IInv, DbInv, NoBlock
    <2>4. Asked \in [first : Nat, last : Int]
      BY <2>1, AskedRange DEF IInv, TypeOK
    <2>5. out = <<>> /\ pc \in Finished
      BY DEF Init, Finished
    <2> QED
      BY <2>2, <2>3, <2>4, <2>5 DEF Reader!Init
  <1>2. ASSUME IInv, [Next]_vars, AskedInv' PROVE [Reader!Next]_view
    <2>1. blocks' = blocks /\ head' = head
      BY <1>2, SameDatabase
    <2>2. CurrentChain' = CurrentChain /\ (req' = req => Asked' = Asked)
      BY <2>1, SameChain
    <2>3. ASSUME req' = req, out' = out, pc \notin Finished
          PROVE  [Reader!Next]_view
      <3>1. CASE pc' \in Finished
        <4>1. Reader!End
          BY <2>1, <2>2, <2>3, <3>1 DEF Reader!End
        <4> QED
          BY <4>1 DEF Reader!Next
      <3>2. CASE pc' \notin Finished
        BY <2>1, <2>2, <2>3, <3>2
      <3> QED
        BY <3>1, <3>2
    <2>4. CASE Start
      <3>1. Asked' \in [first : Nat, last : Int]
        BY <1>2 DEF AskedInv
      <3>2. /\ pc \in Finished /\ pc' \notin Finished /\ out' = <<>>
        BY <2>4 DEF Start, Finished
      <3>3. Reader!Begin
        BY <2>1, <2>2, <3>1, <3>2 DEF Reader!Begin
      <3> QED
        BY <3>3 DEF Reader!Next
    <2>5. CASE PrintBlock \/ PackHeader
      <3>1. PICK b \in CurrentChain : /\ b.num = blockNum /\ blockNum = Asked.first + Len(out)
                                      /\ b.num <= Asked.last
                                      /\ Take(b)
        BY <1>2, <2>5, TakesAsked
      <3>2. req' = req /\ pc' = pc /\ out' = Append(out, b)
        BY <3>1 DEF Take
      <3>3. pc \notin Finished
        BY <2>5 DEF PrintBlock, PackHeader, Finished
      <3>4. Reader!Take
        BY <2>1, <2>2, <3>1, <3>2, <3>3 DEF Reader!Take
      <3> QED
        BY <3>4 DEF Reader!Next
    <2>6. CASE \/ Open \/ WalkBack \/ Announce \/ OutputFails \/ OpenOutput
               \/ LeavePrint \/ LeavePack \/ Finish
      <3>1. req' = req /\ out' = out
        BY <2>6 DEF Open, WalkBack, Announce, OutputFails, OpenOutput, LeavePrint,
                    LeavePack, Finish
      <3>2. pc \notin Finished
        BY <2>6 DEF Open, WalkBack, Announce, OutputFails, OpenOutput, LeavePrint,
                    LeavePack, Finish, Finished
      <3> QED
        BY <2>3, <3>1, <3>2
    <2>7. CASE UNCHANGED vars
      <3>1. req' = req /\ out' = out /\ pc' = pc
        BY <2>7 DEF vars
      <3> QED
        BY <2>1, <2>2, <3>1
    <2> QED
      BY <1>2, <2>4, <2>5, <2>6, <2>7 DEF Next, ToolStep
  <1>3. IInv /\ [Next]_vars /\ AskedInv' => [Reader!Next]_view
    BY <1>2
  <1>4. IInv => AskedInv
    BY AskedRange DEF IInv, TypeOK, AskedInv
  <1> QED
    BY <1>1, <1>3, <1>4, InvInit, InvStep, PTL DEF Spec, ReadsTheChain, Reader!Spec

-----------------------------------------------------------------------------
(* A run that has ended: the next number is past its range or past the     *)
(* head, and the blocks taken are all up to it.                            *)
LEMMA EndReached ==
    ASSUME IInv, pc = "done", ~req.info,
           Asked.first >= first.num
    PROVE  /\ Asked.first \in Nat /\ head.num \in Nat
           /\ \/ Asked.first + Len(out) > Asked.last
              \/ Asked.first + Len(out) > head.num
           /\ \A i \in 1..Len(out) : /\ out[i] \in CurrentChain
                                     /\ out[i].num = Asked.first + i - 1
                                     /\ out[i].num <= Asked.last
                                     /\ out[i].num <= head.num
  <1> DEFINE a == Asked.first
             L == Len(out)
  <1>1. a \in Nat /\ L \in Nat /\ first \in CurrentChain /\ first.num \in Nat
    <2>1. first \in CurrentChain
      BY DEF IInv, WalkInv, Walked
    <2>2. first.num \in Nat
      BY <2>1, ChainBasics DEF IInv
    <2>3. a \in Nat
      BY AskedRange DEF IInv, TypeOK
    <2> QED
      BY <2>1, <2>2, <2>3 DEF IInv, TypeOK
  <1>2. /\ head.num \in Nat
        /\ \A n \in first.num..head.num : \E c \in CurrentChain : c.num = n
    BY <1>1, ChainReachesHead DEF IInv
  <1>3. a + L > Asked.last \/ \A b \in CurrentChain : b.num # a + L
    BY DEF IInv, EndInv
  <1>4. (\A b \in CurrentChain : b.num # a + L) => a + L > head.num
    <2>1. a + L \in Nat /\ a + L >= first.num
      BY <1>1
    <2> HIDE DEF a, L
    <2>2. a + L <= head.num => a + L \in first.num..head.num
      BY <1>1, <1>2, <2>1
    <2> QED
      BY <1>2, <2>1, <2>2
  <1>5. \A i \in 1..L : /\ out[i] \in CurrentChain /\ out[i].num = a + i - 1
                        /\ out[i].num <= Asked.last
    BY DEF IInv, TakenInv
  <1>6. \A i \in 1..L : out[i].num <= head.num
    BY <1>5, ChainReachesHead DEF IInv
  <1> QED
    BY <1>1, <1>2, <1>3, <1>4, <1>5, <1>6

(* The run over the whole chain: it goes from the root, where it begins,   *)
(* to the head.                                                            *)
LEMMA PrintsAll ==
    ASSUME IInv
    PROVE  PrintsWhatItAnnounced
  <1> SUFFICES ASSUME pc = "done", ~req.info, req.packFrom = 0, req.first <= first.num,
                      req.last >= head.num
               PROVE  /\ Len(out) = count
                      /\ \A i \in 1..Len(out) - 1 : out[i + 1].prev = out[i].id
    BY DEF PrintsWhatItAnnounced
  <1> DEFINE a == first.num
             h == head.num
             L == Len(out)
  <1>1. /\ first \in CurrentChain /\ IsRoot(first) /\ count = h - a + 1
        /\ req \in Request
    BY DEF IInv, WalkInv, Walked, TypeOK
  <1>2. /\ a \in Nat /\ h \in Nat /\ a <= h /\ L \in Nat
    BY <1>1, ChainBasics, ChainReachesHead DEF IInv, TypeOK
  <1>3. Asked.first = a /\ Asked.last = req.last /\ req.last \in Nat
    <2>1. Asked.first = FirstBlock /\ Asked.last = req.last /\ req.last \in Nat /\ req.first \in Nat
      BY <1>1, AskedRange, RequestFields DEF IInv
    <2>2. FirstBlock = a
      BY <1>2, <2>1 DEF FirstBlock
    <2> QED
      BY <2>1, <2>2
  <1>4. /\ a + L > req.last \/ a + L > h
        /\ \A i \in 1..L : out[i] \in CurrentChain /\ out[i].num = a + i - 1 /\ out[i].num <= h
    <2>1. Asked.first >= first.num
      BY <1>2, <1>3
    <2> QED
      BY <1>3, <2>1, EndReached
  <1>5. L = h - a + 1
    <2>1. a + L > h
      BY <1>2, <1>3, <1>4
    <2>2. L > 0 => a + L - 1 <= h
      <3> SUFFICES ASSUME L > 0 PROVE a + L - 1 <= h
        OBVIOUS
      <3>1. L \in 1..L
        BY <1>2
      <3>2. out[L].num = a + L - 1 /\ out[L].num <= h
        BY <1>4, <3>1
      <3> QED
        BY <3>2
    <2> HIDE DEF a, h, L
    <2> QED
      BY <1>2, <2>1, <2>2
  <1>6. ASSUME NEW i \in 1..L - 1 PROVE out[i + 1].prev = out[i].id
    <2>1. i \in 1..L /\ i + 1 \in 1..L /\ i \in Nat
      BY <1>2
    <2>2. /\ out[i] \in CurrentChain /\ out[i + 1] \in CurrentChain
          /\ out[i].num = a + i - 1 /\ out[i + 1].num = a + i /\ out[i + 1].num <= h
      <3>1. a + (i + 1) - 1 = a + i
        BY <1>2, <2>1
      <3> QED
        BY <1>4, <2>1, <3>1
    <2>3. out[i] # head
      <3>1. out[i].num < h
        BY <1>2, <2>1, <2>2
      <3> QED
        BY <1>2, <3>1
    <2>4. PICK c \in CurrentChain : c.prev = out[i].id /\ c.num = out[i].num + 1
      BY <2>2, <2>3, ChainSuccessor DEF IInv
    <2>5. c.num = out[i + 1].num
      BY <1>2, <2>1, <2>2, <2>4
    <2>6. c = out[i + 1]
      BY <2>2, <2>4, <2>5, ChainNumbers DEF IInv
    <2> QED
      BY <2>4, <2>6
  <1> QED
    BY <1>1, <1>5, <1>6

LEMMA PackLastValue ==
    ASSUME req \in Request
    PROVE  PackLast = IF req.packFrom + req.interval < UintMod
                      THEN req.packFrom + req.interval
                      ELSE req.packFrom + req.interval - UintMod
  <1>1. /\ req.packFrom \in Nat /\ req.packFrom < UintMod
        /\ req.interval \in Nat /\ req.interval < UintMod
        /\ UintMod \in Nat
    BY RequestFields
  <1>2. ASSUME NEW x \in Nat, NEW m \in Nat, x < m PROVE x % m = x
    BY <1>2
  <1>3. ASSUME NEW x \in Nat, NEW m \in Nat, m <= x, x < m + m PROVE x % m = x - m
    BY <1>3
  <1> QED
    BY <1>1, <1>2, <1>3 DEF PackLast

LEMMA PacksAll ==
    ASSUME IInv
    PROVE  PacksBothEnds
  <1> SUFFICES ASSUME pc = "done", ~req.info, req.packFrom # 0, req.packFrom >= first.num
               PROVE  {out[i].num : i \in 1..Len(out)} =
                        IF req.packFrom + req.interval >= UintMod THEN {}
                        ELSE {n \in req.packFrom..head.num : n <= req.packFrom + req.interval}
    BY DEF PacksBothEnds
  <1> DEFINE a == req.packFrom
             v == req.interval
             h == head.num
             L == Len(out)
             Nums == {out[i].num : i \in 1..L}
             Wanted == {n \in a..h : n <= a + v}
  <1>1. req \in Request /\ L \in Nat
    BY DEF IInv, TypeOK
  <1>2. /\ a \in Nat /\ v \in Nat /\ a < UintMod /\ v < UintMod /\ UintMod \in Nat
    BY <1>1, RequestFields
  <1>3. Asked.first = a /\ Asked.last = PackLast
    BY <1>1, AskedRange DEF IInv
  <1>4. /\ h \in Nat
        /\ a + L > PackLast \/ a + L > h
        /\ \A i \in 1..L : out[i].num = a + i - 1 /\ out[i].num <= PackLast /\ out[i].num <= h
    BY <1>3, EndReached
  <1>5. PackLast = IF a + v < UintMod THEN a + v ELSE a + v - UintMod
    BY <1>1, PackLastValue
  <1> HIDE DEF a, v, h, L
  <1>6. CASE a + v >= UintMod
    <2>1. PackLast < a
      BY <1>2, <1>5, <1>6
    <2>2. L = 0
      <3> SUFFICES ASSUME L # 0 PROVE FALSE
        OBVIOUS
      <3>1. 1 \in 1..L
        BY <1>1 DEF L
      <3>2. out[1].num = a /\ out[1].num <= PackLast
        BY <1>2, <1>4, <3>1
      <3> QED
        BY <1>2, <1>5, <2>1, <3>2
    <2>3. Nums = {}
      BY <2>2
    <2> QED
      BY <1>6, <2>3 DEF a, v, L
  <1>7. CASE ~(a + v >= UintMod)
    <2>1. PackLast = a + v
      BY <1>2, <1>5, <1>7
    <2>2. ASSUME NEW n \in Nums PROVE n \in Wanted
      <3>1. PICK i \in 1..L : n = out[i].num
        BY <2>2
      <3>2. n = a + i - 1 /\ n <= a + v /\ n <= h
        BY <1>4, <2>1, <3>1
      <3>3. i \in Nat /\ i >= 1
        BY <1>1, <3>1 DEF L
      <3>4. n \in a..h
        BY <1>2, <1>4, <3>2, <3>3
      <3> QED
        BY <3>2, <3>4
    <2>3. ASSUME NEW n \in Wanted PROVE n \in Nums
      <3>1. n \in a..h /\ n <= a + v
        BY <2>3
      <3>2. n \in Nat /\ n >= a /\ n <= h /\ n < a + L
        BY <1>1, <1>2, <1>4, <2>1, <3>1 DEF L
      <3>3. n - a + 1 \in 1..L /\ a + (n - a + 1) - 1 = n
        BY <1>1, <1>2, <3>2 DEF L
      <3>4. out[n - a + 1].num = n
        BY <1>4, <3>3
      <3> QED
        BY <3>3, <3>4
    <2>4. Nums = Wanted
      <3> HIDE DEF Nums, Wanted
      <3> QED
        BY <2>2, <2>3
    <2> QED
      BY <1>7, <2>4 DEF a, v, h, L
  <1> QED
    BY <1>6, <1>7

(* RangeRead: a run that prints everything prints as many blocks as it has *)
(* announced, each the predecessor of the next, and one that packs takes   *)
(* the headers of its interval, of any fork database.                      *)
THEOREM RangeIsRead == Spec => []RangeRead
  <1>1. IInv => RangeRead
    BY PrintsAll, PacksAll DEF IInv, RangeRead
  <1> QED
    BY <1>1, InvInit, InvStep, PTL DEF Spec

-----------------------------------------------------------------------------
(***************************************************************************)
(* The files.                                                              *)
(***************************************************************************)
(* Where a run stands that nothing has disturbed: the copy in tmp is its   *)
(* own, and what it holds is what forkdb.dat has.                          *)
AloneAt(t) ==
    /\ original > 0
    /\ outcome[t] # "error"
    /\ \A u \in Tools \ {t} : at[u] = "idle"
    /\ at[t] \in {"remove", "copy"} => tmpDir
    /\ at[t] = "copy" => tmpFile = None
    /\ at[t] = "copying" => tmpFile = [by |-> t, stop |-> original, whole |-> FALSE]
    /\ at[t] = "load" => tmpFile = [by |-> t, stop |-> original, whole |-> TRUE]
    /\ at[t] \in {"copying", "print", "printed", "thrown", "cleanup"} =>
          content[t] = original

AloneInv == \A t \in Tools : alone[t] /\ given[t] = "directory" => AloneAt(t)

(* A run that is given the file does not come past the first step.         *)
FileInv ==
    \A t \in Tools :
        given[t] = "file" => at[t] \in {"idle", "mkdir"} /\ outcome[t] # "ok"

-----------------------------------------------------------------------------
LEMMA FilesInitType == FilesInit => FilesTypeOK
  <1> SUFFICES ASSUME FilesInit PROVE FilesTypeOK
    OBVIOUS
  <1> USE StopsAssumption DEF StopsAssumption, FilesInit, Stops
  <1>1. original \in Stops \cup {Directory} /\ stops \in Stops /\ content \in [Tools -> Stops]
    OBVIOUS
  <1>2. nodeUp \in BOOLEAN /\ tmpDir \in BOOLEAN /\ alone \in [Tools -> BOOLEAN]
    OBVIOUS
  <1>3. tmpFile \in {None} \cup TmpFile /\ (tmpFile # None => tmpDir)
    OBVIOUS
  <1>4. nodeUp => stops < MaxStops
    OBVIOUS
  <1>5. at \in [Tools -> {"idle", "mkdir", "remove", "copy", "copying", "load", "print",
                         "printed", "thrown", "cleanup"}]
    OBVIOUS
  <1>6. /\ outcome \in [Tools -> {"none", "ok", "error", "unprinted", "killed"}]
        /\ given \in [Tools -> {"directory", "file"}]
    OBVIOUS
  <1> QED
    BY <1>1, <1>2, <1>3, <1>4, <1>5, <1>6 DEF FilesTypeOK

LEMMA FilesTypeStep == FilesTypeOK /\ [FilesNext]_fileVars => FilesTypeOK'
  <1> SUFFICES ASSUME FilesTypeOK, [FilesNext]_fileVars PROVE FilesTypeOK'
    OBVIOUS
  <1> USE StopsAssumption DEF StopsAssumption, FilesTypeOK, Goto, node, Stops, Directory,
          TmpFile
  <1>1. ASSUME NEW t \in Tools, StartRun(t) PROVE FilesTypeOK'
    BY <1>1 DEF StartRun
  <1>2. ASSUME NEW t \in Tools, CreateTmp(t) PROVE FilesTypeOK'
    BY <1>2 DEF CreateTmp
  <1>3. ASSUME NEW t \in Tools, RemoveOld(t) PROVE FilesTypeOK'
    BY <1>3 DEF RemoveOld
  <1>4. ASSUME NEW t \in Tools, BeginCopy(t) PROVE FilesTypeOK'
    BY <1>4 DEF BeginCopy
  <1>5. ASSUME NEW t \in Tools, CopyFails(t) PROVE FilesTypeOK'
    BY <1>5 DEF CopyFails, Fail
  <1>6. ASSUME NEW t \in Tools, EndCopy(t) PROVE FilesTypeOK'
    BY <1>6 DEF EndCopy
  <1>7. ASSUME NEW t \in Tools, Load(t) PROVE FilesTypeOK'
    BY <1>7 DEF Load, Loadable
  <1>8. ASSUME NEW t \in Tools, LoadFails(t) PROVE FilesTypeOK'
    BY <1>8 DEF LoadFails
  <1>9. ASSUME NEW t \in Tools, ReadLog(t) PROVE FilesTypeOK'
    BY <1>9 DEF ReadLog
  <1>10. ASSUME NEW t \in Tools, Close(t) PROVE FilesTypeOK'
    BY <1>10 DEF Close
  <1>11. ASSUME NEW t \in Tools, CleanUp(t) PROVE FilesTypeOK'
    BY <1>11 DEF CleanUp
  <1>12. ASSUME NEW t \in Tools, Kill(t) PROVE FilesTypeOK'
    BY <1>12 DEF Kill
  <1>13. CASE NodeStart
    BY <1>13 DEF NodeStart
  <1>14. CASE NodeStop
    <2>1. stops' \in Stops /\ original' \in Stops \cup {Directory}
      BY <1>14 DEF NodeStop
    <2>2. alone' \in [Tools -> BOOLEAN] /\ ~nodeUp' /\ nodeUp' \in BOOLEAN
      BY <1>14 DEF NodeStop
    <2>3. UNCHANGED <<tmpDir, tmpFile, given, at, content, outcome>>
      BY <1>14 DEF NodeStop
    <2> QED
      BY <2>1, <2>2, <2>3
  <1>15. CASE NodeCrash
    BY <1>15 DEF NodeCrash
  <1>16. CASE UNCHANGED fileVars
    BY <1>16 DEF fileVars
  <1>17. ASSUME NEW t \in Tools, CreateTmpInFile(t) PROVE FilesTypeOK'
    BY <1>17 DEF CreateTmpInFile, Fail
  <1> QED
    BY <1>1, <1>2, <1>3, <1>4, <1>5, <1>6, <1>7, <1>8, <1>9, <1>10, <1>11, <1>12,
       <1>13, <1>14, <1>15, <1>16, <1>17 DEF FilesNext

(* Every value stays in its range; tmp/forkdb.dat is there only while tmp  *)
(* is, and a node that runs can still be stopped within the bound.         *)
THEOREM FilesTypeCorrect == FilesSpec => []FilesTypeOK
  BY FilesInitType, FilesTypeStep, PTL DEF FilesSpec

-----------------------------------------------------------------------------
(* A copy that a run has begun is a file. *)
LEMMA OwnCopy ==
    ASSUME FilesTypeOK, original > 0, NEW t \in Tools, NEW w \in BOOLEAN
    PROVE  [by |-> t, stop |-> original, whole |-> w] # None
  <1>1. [by |-> t, stop |-> original, whole |-> w] \in TmpFile
    BY DEF FilesTypeOK, TmpFile, Directory
  <1> QED
    BY <1>1, NoneAssumption DEF NoneAssumption

LEMMA AloneStep == FilesTypeOK /\ AloneInv /\ [FilesNext]_fileVars => AloneInv'
  <1> SUFFICES ASSUME FilesTypeOK, AloneInv, [FilesNext]_fileVars, NEW t \in Tools, alone'[t],
                      given'[t] = "directory"
               PROVE AloneAt(t)'
    BY DEF AloneInv
  <1> USE DEF FilesTypeOK, AloneInv, AloneAt, Goto, node, Stops, Directory
  <1>1. ASSUME NEW u \in Tools, StartRun(u) PROVE AloneAt(t)'
    BY <1>1 DEF StartRun
  <1>2. ASSUME NEW u \in Tools, CreateTmp(u) PROVE AloneAt(t)'
    BY <1>2 DEF CreateTmp
  <1>3. ASSUME NEW u \in Tools, RemoveOld(u) PROVE AloneAt(t)'
    BY <1>3 DEF RemoveOld
  <1>4. ASSUME NEW u \in Tools, BeginCopy(u) PROVE AloneAt(t)'
    BY <1>4 DEF BeginCopy
  <1>5. ASSUME NEW u \in Tools, CopyFails(u) PROVE AloneAt(t)'
    BY <1>5 DEF CopyFails, Fail
  <1>6. ASSUME NEW u \in Tools, EndCopy(u) PROVE AloneAt(t)'
    <2>0. alone[t] /\ AloneAt(t)
      BY <1>6 DEF EndCopy
    <2>1. u = t /\ at[t] = "copying"
      BY <1>6, <2>0 DEF EndCopy
    <2>2. tmpFile = [by |-> t, stop |-> original, whole |-> FALSE] /\ content[t] = original
      BY <2>0, <2>1
    <2>2a. original > 0
      BY <2>0
    <2>3. tmpFile # None
      BY <2>2, <2>2a, OwnCopy
    <2>4. tmpFile' = [tmpFile EXCEPT !.whole = TRUE]
      <3>1. (tmpFile.stop = content[t]) = TRUE /\ tmpFile.by = t
        BY <2>2
      <3>2. tmpFile' = [tmpFile EXCEPT !.whole = (tmpFile.stop = content[t])]
        BY <1>6, <2>1, <2>3, <3>1 DEF EndCopy
      <3> QED
        BY <3>1, <3>2, Zenon
    <2>5. tmpFile' = [by |-> t, stop |-> original, whole |-> TRUE]
      BY <2>2, <2>4
    <2>6. at' = [at EXCEPT ![t] = "load"] /\ UNCHANGED <<original, outcome, content>>
      BY <1>6, <2>1 DEF EndCopy
    <2>7. at'[t] = "load" /\ \A v \in Tools \ {t} : at'[v] = "idle"
      BY <2>0, <2>6
    <2>8. original' > 0 /\ outcome'[t] # "error"
      BY <2>0, <2>6
    <2> QED
      BY <2>5, <2>6, <2>7, <2>8
  <1>7. ASSUME NEW u \in Tools, Load(u) PROVE AloneAt(t)'
    BY <1>7 DEF Load, Loadable
  <1>8. ASSUME NEW u \in Tools, LoadFails(u) PROVE AloneAt(t)'
    <2>0. alone[t] /\ AloneAt(t)
      BY <1>8 DEF LoadFails
    <2>1. u = t /\ at[t] = "load"
      BY <1>8, <2>0 DEF LoadFails
    <2>2. tmpFile = [by |-> t, stop |-> original, whole |-> TRUE] /\ original > 0
      BY <2>0, <2>1
    <2>3. tmpFile # None
      BY <2>2, OwnCopy
    <2>4. Loadable
      BY <2>2, <2>3 DEF Loadable
    <2>5. ~Loadable
      BY <1>8, Zenon DEF LoadFails
    <2> QED
      BY <2>4, <2>5
  <1>9. ASSUME NEW u \in Tools, ReadLog(u) PROVE AloneAt(t)'
    BY <1>9 DEF ReadLog
  <1>10. ASSUME NEW u \in Tools, Close(u) PROVE AloneAt(t)'
    BY <1>10 DEF Close
  <1>11. ASSUME NEW u \in Tools, CleanUp(u) PROVE AloneAt(t)'
    BY <1>11 DEF CleanUp
  <1>12. ASSUME NEW u \in Tools, Kill(u) PROVE AloneAt(t)'
    BY <1>12 DEF Kill
  <1>13. CASE NodeStart
    BY <1>13 DEF NodeStart
  <1>14. CASE NodeStop
    BY <1>14 DEF NodeStop
  <1>15. CASE NodeCrash
    BY <1>15 DEF NodeCrash
  <1>16. CASE UNCHANGED fileVars
    BY <1>16 DEF fileVars
  <1>17. ASSUME NEW u \in Tools, CreateTmpInFile(u) PROVE AloneAt(t)'
    BY <1>17 DEF CreateTmpInFile, Fail
  <1> QED
    BY <1>1, <1>2, <1>3, <1>4, <1>5, <1>6, <1>7, <1>8, <1>9, <1>10, <1>11, <1>12,
       <1>13, <1>14, <1>15, <1>16, <1>17 DEF FilesNext

LEMMA FileStep == FilesTypeOK /\ FileInv /\ [FilesNext]_fileVars => FileInv'
  <1> SUFFICES ASSUME FilesTypeOK, FileInv, [FilesNext]_fileVars,
                      NEW t \in Tools, given'[t] = "file"
               PROVE  at'[t] \in {"idle", "mkdir"} /\ outcome'[t] # "ok"
    BY DEF FileInv
  <1> USE DEF FilesTypeOK, FileInv, Goto, node
  <1>1. CASE \E u \in Tools : StartRun(u) \/ CreateTmp(u) \/ CreateTmpInFile(u) \/ RemoveOld(u)
    BY <1>1 DEF StartRun, CreateTmp, CreateTmpInFile, RemoveOld, Fail
  <1>2. CASE \E u \in Tools : BeginCopy(u) \/ CopyFails(u) \/ EndCopy(u) \/ Load(u)
    BY <1>2 DEF BeginCopy, CopyFails, EndCopy, Load, Fail
  <1>3. CASE \E u \in Tools : LoadFails(u) \/ ReadLog(u) \/ Close(u) \/ CleanUp(u) \/ Kill(u)
    BY <1>3 DEF LoadFails, ReadLog, Close, CleanUp, Kill
  <1>4. CASE NodeStart \/ NodeStop \/ NodeCrash
    BY <1>4 DEF NodeStart, NodeStop, NodeCrash
  <1>5. CASE UNCHANGED fileVars
    BY <1>5 DEF fileVars
  <1> QED
    BY <1>1, <1>2, <1>3, <1>4, <1>5 DEF FilesNext

LEMMA FilesAlways == FilesSpec => []FileInv
  <1>1. FilesInit => FileInv
    BY DEF FilesInit, FileInv
  <1> QED
    BY <1>1, FilesInitType, FilesTypeStep, FileStep, PTL DEF FilesSpec

LEMMA AloneAlways == FilesSpec => []AloneInv
  <1>1. FilesInit => AloneInv
    BY DEF FilesInit, AloneInv
  <1> QED
    BY <1>1, FilesInitType, FilesTypeStep, AloneStep, PTL DEF FilesSpec

(* A run of eosio-forkdb that is given the directory and that nothing      *)
(* disturbs does not fail, whatever runs killed before it have left in     *)
(* tmp; one that is given the file, which is the default, never succeeds.  *)
THEOREM AloneNeverFails == FilesSpec => []AloneSucceeds
  <1>1. AloneInv /\ FileInv => AloneSucceeds
    BY DEF AloneInv, AloneAt, FileInv, AloneSucceeds
  <1> QED
    BY <1>1, AloneAlways, FilesAlways, PTL

(* And it prints what forkdb.dat has.                                      *)
THEOREM AloneUpToDate == FilesSpec => []AlonePrintsCurrent
  <1>1. FilesTypeOK /\ AloneInv /\ FileInv => AlonePrintsCurrent
    BY DEF FilesTypeOK, AloneInv, AloneAt, FileInv, AlonePrintsCurrent
  <1> QED
    BY <1>1, AloneAlways, FilesAlways, FilesTypeCorrect, PTL

(* However many runs of the tool there are, forkdb.dat changes only with   *)
(* the node, but that a run which is given its path makes a directory of   *)
(* that name when it is not there.                                         *)
THEOREM OriginalSafe == FilesSpec => OriginalKept
  <1>1. FilesTypeOK /\ [FilesNext]_fileVars =>
          [original' # original =>
             \/ nodeUp' # nodeUp
             \/ /\ original = 0 /\ original' = Directory
                /\ \E t \in Tools : at[t] = "mkdir" /\ given[t] = "file"]_fileVars
    <2> SUFFICES ASSUME FilesTypeOK, [FilesNext]_fileVars, original' # original,
                        nodeUp' = nodeUp
                 PROVE  /\ original = 0 /\ original' = Directory
                        /\ \E t \in Tools : at[t] = "mkdir" /\ given[t] = "file"
      OBVIOUS
    <2>1. CASE \E t \in Tools :
                  \/ StartRun(t) \/ CreateTmp(t) \/ RemoveOld(t) \/ BeginCopy(t)
                  \/ CopyFails(t) \/ EndCopy(t) \/ Load(t) \/ LoadFails(t)
                  \/ ReadLog(t) \/ Close(t) \/ CleanUp(t) \/ Kill(t)
      BY <2>1 DEF StartRun, CreateTmp, RemoveOld, BeginCopy, CopyFails, EndCopy, Load,
                  LoadFails, ReadLog, Close, CleanUp, Kill, node
    <2>2. CASE \E t \in Tools : CreateTmpInFile(t)
      BY <2>2 DEF CreateTmpInFile
    <2>3. CASE NodeStart \/ NodeStop \/ NodeCrash
      BY <2>3 DEF NodeStart, NodeStop, NodeCrash, FilesTypeOK
    <2> QED
      BY <2>1, <2>2, <2>3 DEF FilesNext, fileVars
  <1> QED
    BY <1>1, FilesTypeCorrect, PTL DEF FilesSpec, OriginalKept

=============================================================================
