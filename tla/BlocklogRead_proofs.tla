------------------------ MODULE BlocklogRead_proofs ------------------------
(***************************************************************************)
(* eosio-blocklog2 implements BlockReader, for any chain, any command line *)
(* and whatever the node does in the meantime; it prints one array, and    *)
(* what it is asked for if the node does nothing.                          *)
(***************************************************************************)
EXTENDS BlocklogRead, SequenceTheorems, TLAPS

(* The node's two files: they agree where they overlap, and the database   *)
(* has one block of a number.                                              *)
NodeInv ==
    /\ Len(log) <= head
    /\ head <= MaxBlock
    /\ \A b \in db : b.num <= head
    /\ \A b \in db : b.num <= Len(log) => b \in Logged
    /\ \A a, b \in db : a.num = b.num => a = b

(* The block that is asked for next is the one after those taken.          *)
CursorInv ==
    /\ pc \in {"log", "rev"} => req.packFrom = 0 /\ blockNum = FirstBlock + Len(out)
    /\ pc = "pack" => req.packFrom # 0 /\ blockNum = req.packFrom + Len(out)
    /\ pc \in {"open", "openrev", "output"} => out = <<>>

IInv == TypeOK /\ NodeInv /\ CursorInv

-----------------------------------------------------------------------------
LEMMA LoggedBlocks ==
    ASSUME TypeOK
    PROVE  /\ Logged \subseteq Block
           /\ \A b \in Logged : b.num \in 1..Len(log) /\ b.fork = log[b.num]
           /\ \A i \in 1..Len(log) : [num |-> i, fork |-> log[i]] \in Logged
  BY DEF TypeOK, Logged, Block

(* Printing a block of the chain, in either loop. *)
LEMMA PrintType ==
    ASSUME TypeOK, NEW b \in Block, PrintBlock(b),
           pc \in {"log", "rev"}
    PROVE  TypeOK'
  <1> USE BoundsAssumption DEF BoundsAssumption, TypeOK, PrintBlock, node, Finished
  <1>1. log' \in Seq(Forks) /\ db' \subseteq Block /\ head' \in Nat
        /\ req' \in Request /\ end' \in Nat
    OBVIOUS
  <1>2. nodeUp' \in BOOLEAN /\ clean' \in BOOLEAN /\ hasRev' \in BOOLEAN /\ alone' \in BOOLEAN
    OBVIOUS
  <1>3. blockNum' \in Nat
    OBVIOUS
  <1>4. out' \in Seq(Block)
    BY AppendProperties
  <1>5. \A s, t : After(s, t) \in JsonStates
    BY DEF After, JsonStates
  <1>6. json' \in JsonStates
    BY <1>5 DEF JsonAfterBlock, JsonStates
  <1>7. pc' \in Finished \cup {"open", "openrev", "output", "log", "rev", "pack", "finish"}
    OBVIOUS
  <1> QED
    BY <1>1, <1>2, <1>3, <1>4, <1>6, <1>7

LEMMA TypeInit == Init => TypeOK
  <1> SUFFICES ASSUME Init PROVE TypeOK
    OBVIOUS
  <1> USE DEF Init
  <1>1. log \in Seq(Forks)
    OBVIOUS
  <1>2. req \in Request
    BY BoundsAssumption DEF BoundsAssumption, NoRequest, Request, Uint32
  <1>3. nodeUp \in BOOLEAN /\ clean \in BOOLEAN /\ hasRev \in BOOLEAN /\ alone \in BOOLEAN
    OBVIOUS
  <1>4. out \in Seq(Block)
    BY EmptySeq
  <1> QED
    BY <1>1, <1>2, <1>3, <1>4 DEF TypeOK, Finished, JsonStates

(* The steps of the tool that print nothing. *)
LEMMA TypeToolStep ==
    ASSUME TypeOK, Start \/ ToolStep
    PROVE  TypeOK'
  <1> USE DEF TypeOK, Finished, node
  <1>0. \A s, t : After(s, t) \in JsonStates
    BY DEF After, JsonStates
  <1>1. CASE Start
    <2>1. req' \in Request /\ out' \in Seq(Block) /\ json' \in JsonStates
      BY <1>1, RequestsAssumption, EmptySeq DEF Start, RequestsAssumption, JsonStates
    <2>2. alone' \in BOOLEAN
      BY <1>1 DEF Start
    <2> QED
      BY <1>1, <2>1, <2>2 DEF Start
  <1>2. CASE OpenLog
    <2>1. json' \in JsonStates
      BY <1>0, <1>2 DEF OpenLog, JsonAfterLine
    <2> QED
      BY <1>2, <2>1 DEF OpenLog
  <1>3. CASE OpenReversible
    <2>1. hasRev' \in BOOLEAN
      BY <1>3 DEF OpenReversible
    <2>2. json' \in JsonStates
      BY <1>0, <1>3 DEF OpenReversible, JsonAfterLine
    <2> QED
      BY <1>3, <2>1, <2>2 DEF OpenReversible
  <1>4. CASE OpenFails
    BY <1>4 DEF OpenFails
  <1>5. CASE OpenOutput
    <2>1. blockNum' \in Nat
      BY <1>5 DEF OpenOutput, FirstBlock, Request, Uint32
    <2>2. json' \in JsonStates
      BY <1>0, <1>5 DEF OpenOutput
    <2> QED
      BY <1>5, <2>1, <2>2 DEF OpenOutput
  <1>6. CASE ReadFromLog
    BY <1>6, LoggedBlocks, PrintType DEF ReadFromLog
  <1>7. CASE LeaveLog
    BY <1>7 DEF LeaveLog
  <1>8. CASE ReadReversible
    BY <1>8, PrintType DEF ReadReversible
  <1>9. CASE LeaveReversible
    BY <1>9 DEF LeaveReversible
  <1>10. CASE PackHeader
    <2>1. out' \in Seq(Block)
      BY <1>10, LoggedBlocks, AppendProperties DEF PackHeader
    <2>2. blockNum' \in Nat
      BY <1>10, BoundsAssumption DEF PackHeader, BoundsAssumption
    <2> QED
      BY <1>10, <2>1, <2>2 DEF PackHeader
  <1>11. CASE LeavePack
    <2>1. json' \in JsonStates
      BY <1>0, <1>11 DEF LeavePack
    <2> QED
      BY <1>11, <2>1 DEF LeavePack
  <1>12. CASE Finish
    <2>1. json' \in JsonStates
      BY <1>0, <1>12 DEF Finish, JsonAfterEnd
    <2> QED
      BY <1>12, <2>1 DEF Finish
  <1> QED
    BY <1>1, <1>2, <1>3, <1>4, <1>5, <1>6, <1>7, <1>8, <1>9, <1>10, <1>11, <1>12 DEF ToolStep

(* What every step of the node does: the tool is left alone, and both      *)
(* parts of the invariant about the node are kept.                         *)
LEMMA TypeNodeStep ==
    ASSUME TypeOK, NodeInv, NodeStep
    PROVE  TypeOK' /\ UNCHANGED tool
  <1> USE DEF TypeOK, tool
  <1>1. CASE NodeStart
    BY <1>1 DEF NodeStart
  <1>2. CASE NodeStop
    BY <1>2 DEF NodeStop
  <1>3. CASE NodeCrash
    BY <1>3 DEF NodeCrash
  <1>4. CASE Repair
    <2>1. head' \in Nat
      BY <1>4, LenProperties DEF Repair
    <2> QED
      BY <1>4, <2>1 DEF Repair
  <1>5. ASSUME NEW f \in Forks, Push(f) PROVE TypeOK' /\ UNCHANGED tool
    <2>1. head' \in Nat /\ [num |-> head', fork |-> f] \in Block
      BY <1>5 DEF Push, Block
    <2>2. db' \subseteq Block
      BY <1>5, <2>1 DEF Push
    <2> QED
      BY <1>5, <2>1, <2>2 DEF Push
  <1>6. CASE Pop
    <2>1. head' \in Nat
      BY <1>6, LenProperties DEF Pop
    <2> QED
      BY <1>6, <2>1 DEF Pop
  <1>7. CASE AppendToLog
    <2>1. log' \in Seq(Forks)
      BY <1>7, AppendProperties DEF AppendToLog, Block
    <2> QED
      BY <1>7, <2>1 DEF AppendToLog
  <1>8. CASE RemoveReversible
    BY <1>8 DEF RemoveReversible
  <1> QED
    BY <1>1, <1>2, <1>3, <1>4, <1>5, <1>6, <1>7, <1>8 DEF NodeStep

LEMMA TypeStep ==
    ASSUME TypeOK, NodeInv, [Next]_vars
    PROVE  TypeOK'
  <1>1. CASE UNCHANGED vars
    BY <1>1 DEF TypeOK, vars, node, tool
  <1> QED
    BY <1>1, TypeToolStep, TypeNodeStep DEF Next

-----------------------------------------------------------------------------
(* The chain of the node. *)
(* No step of the tool changes it ... *)
LEMMA ToolKeepsNode ==
    ASSUME Start \/ ToolStep
    PROVE  UNCHANGED node
  BY DEF Start, ToolStep, OpenLog, OpenReversible, OpenFails, OpenOutput, ReadFromLog,
         LeaveLog, ReadReversible, LeaveReversible, PackHeader, LeavePack, Finish, PrintBlock

(* ... and a step of the node keeps all blocks that are irreversible.      *)
LEMMA NodeKeepsChain ==
    ASSUME TypeOK, NodeInv, NodeStep
    PROVE  /\ NodeInv'
           /\ Len(log') >= Len(log)
           /\ \A b \in Chain : b.num <= Len(log) => b \in Chain'
  <1> USE LenProperties DEF TypeOK, tool
  <1>0. Len(log) \in Nat
    OBVIOUS
  <1>1. CASE NodeStart \/ NodeStop \/ NodeCrash
    <2>1. UNCHANGED <<log, db, head>>
      BY <1>1 DEF NodeStart, NodeStop, NodeCrash
    <2> QED
      BY <1>0, <2>1 DEF NodeInv, Chain, Logged
  <1>2. CASE Repair
    <2>1. log' = log /\ db' = {} /\ head' = Len(log)
      BY <1>2 DEF Repair
    <2>2. Logged' = Logged
      BY <2>1 DEF Logged
    <2>3. Len(log') <= head' /\ head' <= MaxBlock
      BY <1>0, <2>1, BoundsAssumption DEF NodeInv, BoundsAssumption
    <2>4. NodeInv'
      BY <2>1, <2>3 DEF NodeInv
    <2> QED
      BY <1>0, <2>1, <2>2, <2>4 DEF NodeInv, Chain
  <1>3. ASSUME NEW f \in Forks, Push(f)
        PROVE  /\ NodeInv'
               /\ Len(log') >= Len(log)
               /\ \A b \in Chain : b.num <= Len(log) => b \in Chain'
    <2> DEFINE new == [num |-> head + 1, fork |-> f]
    <2>1. log' = log /\ db' = db \cup {new} /\ head' = head + 1 /\ head < MaxBlock
      BY <1>3 DEF Push
    <2>2. Logged' = Logged
      BY <2>1 DEF Logged
    <2>3. \A b \in db : b.num \in Nat /\ b.num # new.num
      BY DEF NodeInv, Block
    <2>4. new.num = head + 1 /\ new.num > Len(log)
      BY <1>0 DEF NodeInv
    <2>5. NodeInv'
      <3>1. Len(log') <= head' /\ head' <= MaxBlock
        BY <1>0, <2>1, BoundsAssumption DEF NodeInv, BoundsAssumption
      <3>2. \A b \in db' : b.num <= head'
        BY <2>1, <2>3, <2>4 DEF NodeInv
      <3>3. \A b \in db' : b.num <= Len(log') => b \in Logged'
        BY <1>0, <2>1, <2>2, <2>4 DEF NodeInv
      <3>4. \A a, b \in db' : a.num = b.num => a = b
        BY <2>1, <2>3 DEF NodeInv
      <3> QED
        BY <3>1, <3>2, <3>3, <3>4 DEF NodeInv
    <2> QED
      BY <1>0, <2>1, <2>2, <2>5 DEF Chain
  <1>4. CASE Pop
    <2>1. log' = log /\ db' = {b \in db : b.num < head} /\ head' = head - 1 /\ head > Len(log)
      BY <1>4 DEF Pop
    <2>2. Logged' = Logged
      BY <2>1 DEF Logged
    <2>3. \A b \in db : b.num \in Nat
      BY DEF Block
    <2>4. NodeInv'
      <3>1. Len(log') <= head' /\ head' <= MaxBlock
        BY <1>0, <2>1, BoundsAssumption DEF NodeInv, BoundsAssumption
      <3>2. \A b \in db' : b.num <= head'
        BY <2>1, <2>3
      <3>3. \A b \in db' : b.num <= Len(log') => b \in Logged'
        BY <2>1, <2>2 DEF NodeInv
      <3>4. \A a, b \in db' : a.num = b.num => a = b
        BY <2>1 DEF NodeInv
      <3> QED
        BY <3>1, <3>2, <3>3, <3>4 DEF NodeInv
    <2> QED
      BY <1>0, <2>1, <2>2, <2>3, <2>4 DEF Chain
  <1>5. CASE AppendToLog
    <2>1. PICK c \in db : c.num = Len(log) + 1 /\ log' = Append(log, c.fork)
      BY <1>5 DEF AppendToLog
    <2>2. db' = db /\ head' = head
      BY <1>5 DEF AppendToLog
    <2>3. c = [num |-> Len(log) + 1, fork |-> c.fork] /\ c.fork \in Forks
      BY <2>1 DEF Block
    <2>4. /\ Len(log') = Len(log) + 1
          /\ \A i \in 1..Len(log) : log'[i] = log[i]
          /\ log'[Len(log) + 1] = c.fork
      BY <2>1, <2>3, AppendProperties
    <2>5. Logged' = Logged \cup {c}
      <3>1. \A i \in 1..Len(log') : i \in 1..Len(log) \/ i = Len(log) + 1
        BY <1>0, <2>4
      <3>2. 1..Len(log) \subseteq 1..Len(log') /\ Len(log) + 1 \in 1..Len(log')
        BY <1>0, <2>4
      <3>3. Logged' \subseteq Logged \cup {c}
        BY <2>3, <2>4, <3>1 DEF Logged
      <3>4. Logged \subseteq Logged'
        BY <2>4, <3>2 DEF Logged
      <3>5. c \in Logged'
        BY <2>3, <2>4, <3>2 DEF Logged
      <3> QED
        BY <3>3, <3>4, <3>5
    <2>6. NodeInv'
      <3>1. Len(log') <= head' /\ head' <= MaxBlock
        BY <2>1, <2>2, <2>4 DEF NodeInv
      <3>2. \A b \in db' : b.num <= head'
        BY <2>2 DEF NodeInv
      <3>3. \A b \in db' : b.num <= Len(log') => b \in Logged'
        <4> SUFFICES ASSUME NEW b \in db, b.num <= Len(log) + 1 PROVE b \in Logged \cup {c}
          BY <2>2, <2>4, <2>5
        <4>1. b.num \in Nat
          BY DEF Block
        <4>2. CASE b.num <= Len(log)
          BY <4>2 DEF NodeInv
        <4>3. CASE b.num = Len(log) + 1
          BY <2>1, <4>3 DEF NodeInv
        <4> QED
          BY <1>0, <4>1, <4>2, <4>3
      <3>4. \A a, b \in db' : a.num = b.num => a = b
        BY <2>2 DEF NodeInv
      <3> QED
        BY <3>1, <3>2, <3>3, <3>4 DEF NodeInv
    <2> QED
      BY <1>0, <2>2, <2>4, <2>5, <2>6 DEF Chain
  <1>6. CASE RemoveReversible
    <2>1. log' = log /\ db' = {b \in db : b.num > Len(log)} /\ head' = head
      BY <1>6 DEF RemoveReversible
    <2>2. Logged' = Logged
      BY <2>1 DEF Logged
    <2>3. NodeInv'
      BY <2>1, <2>2 DEF NodeInv
    <2> QED
      BY <1>0, <2>1, <2>2, <2>3 DEF NodeInv, Chain
  <1> QED
    BY <1>1, <1>2, <1>3, <1>4, <1>5, <1>6 DEF NodeStep

LEMMA NodeInvInit == Init => NodeInv
  <1> SUFFICES ASSUME Init PROVE NodeInv
    OBVIOUS
  <1>1. Len(log) = 2 /\ head = 2 /\ db = {}
    BY DEF Init
  <1> QED
    BY <1>1, BoundsAssumption DEF NodeInv, BoundsAssumption

LEMMA NodeInvStep ==
    ASSUME TypeOK, NodeInv, [Next]_vars
    PROVE  NodeInv'
  <1>1. CASE UNCHANGED node
    BY <1>1 DEF node, NodeInv, Logged
  <1> QED
    BY <1>1, ToolKeepsNode, NodeKeepsChain DEF Next, vars

-----------------------------------------------------------------------------
(* A block that is printed has the number that the cursor has, below the   *)
(* bound, so that the cursor does not wrap.                                *)
LEMMA ChainNumbers ==
    ASSUME TypeOK, NodeInv, NEW b \in Chain
    PROVE  b \in Block /\ b.num \in 0..MaxBlock
  <1>1. \A c \in Logged : c \in Block /\ c.num <= Len(log)
    BY LoggedBlocks, LenProperties DEF TypeOK
  <1>2. \A c \in db : c \in Block /\ c.num <= head
    BY DEF TypeOK, NodeInv
  <1>3. \A c \in Chain : c.num \in Nat
    BY <1>1, <1>2 DEF Chain, Block
  <1>4. Len(log) \in Nat /\ head \in Nat /\ MaxBlock \in Nat
    BY LenProperties, BoundsAssumption DEF TypeOK, BoundsAssumption
  <1> QED
    BY <1>1, <1>2, <1>3, <1>4 DEF NodeInv, Chain

LEMMA ChainType == TypeOK /\ NodeInv => Chain \subseteq Block /\ Len(log) \in Nat
  BY ChainNumbers, LenProperties DEF TypeOK

LEMMA ChainTypeNext == (TypeOK /\ NodeInv)' => (Chain \subseteq Block /\ Len(log) \in Nat)'
  BY ChainType, PTL

LEMMA CursorMoves ==
    ASSUME TypeOK, NodeInv, NEW b \in Chain, b.num = blockNum
    PROVE  /\ (blockNum + 1) % UintMod = blockNum + 1
           /\ Len(Append(out, b)) = Len(out) + 1
  <1>1. blockNum + 1 < UintMod /\ blockNum \in Nat
    BY ChainNumbers, BoundsAssumption DEF BoundsAssumption
  <1>2. (blockNum + 1) % UintMod = blockNum + 1
    BY <1>1, BoundsAssumption DEF BoundsAssumption
  <1> QED
    BY <1>2, ChainNumbers, AppendProperties DEF TypeOK

LEMMA CursorStep ==
    ASSUME TypeOK, NodeInv, CursorInv, [Next]_vars
    PROVE  CursorInv'
  <1>0. Len(out) \in Nat /\ blockNum \in Nat /\ FirstBlock \in Nat /\ req.packFrom \in Nat
    BY LenProperties DEF TypeOK, FirstBlock, Request, Uint32
  <1>1. CASE UNCHANGED tool
    BY <1>1 DEF CursorInv, FirstBlock, tool
  <1>2. CASE Start \/ OpenLog \/ OpenReversible \/ OpenFails
    BY <1>2 DEF CursorInv, FirstBlock, Start, OpenLog, OpenReversible, OpenFails
  <1>3. CASE OpenOutput
    <2>1. out = <<>> /\ out' = <<>> /\ req' = req
      BY <1>3 DEF OpenOutput, CursorInv
    <2>2. Len(out') = 0
      BY <2>1
    <2> QED
      BY <1>0, <1>3, <2>1, <2>2 DEF OpenOutput, CursorInv, FirstBlock
  <1>4. ASSUME NEW b \in Chain, b.num = blockNum, PrintBlock(b), pc \in {"log", "rev"}
        PROVE  CursorInv'
    BY <1>0, <1>4, CursorMoves DEF PrintBlock, CursorInv, FirstBlock
  <1>5. CASE ReadFromLog
    BY <1>4, <1>5 DEF ReadFromLog, Chain
  <1>6. CASE ReadReversible
    BY <1>4, <1>6 DEF ReadReversible, Chain
  <1>7. CASE PackHeader
    <2>1. PICK b \in Logged : b.num = blockNum /\ out' = Append(out, b)
      BY <1>7 DEF PackHeader
    <2> QED
      BY <1>0, <1>7, <2>1, CursorMoves DEF PackHeader, CursorInv, Chain
  <1>8. CASE LeaveLog \/ LeaveReversible \/ LeavePack \/ Finish
    BY <1>8 DEF CursorInv, FirstBlock, LeaveLog, LeaveReversible, LeavePack, Finish
  <1> QED
    BY <1>1, <1>2, <1>3, <1>5, <1>6, <1>7, <1>8, TypeNodeStep DEF Next, ToolStep, vars

LEMMA Invariance == Spec => []IInv
  <1>1. Init => IInv
    BY TypeInit, NodeInvInit DEF IInv, CursorInv, Init
  <1>2. IInv /\ [Next]_vars => IInv'
    BY TypeStep, NodeInvStep, CursorStep DEF IInv
  <1> QED
    BY <1>1, <1>2, PTL DEF Spec

(* The cursor, the range and the files stay in their types. *)
THEOREM TypeCorrect == Spec => []TypeOK
  BY Invariance, PTL DEF IInv

-----------------------------------------------------------------------------
LEMMA AskedType == TypeOK => Asked \in [first : Nat, last : Int]
  BY BoundsAssumption DEF BoundsAssumption, TypeOK, Asked, FirstBlock, PackEnd, Request, Uint32

LEMMA AskedTypeNext == TypeOK' => (Asked \in [first : Nat, last : Int])'
  BY AskedType, PTL

(* A block that is taken is the next one of the range. *)
LEMMA TakeStep ==
    ASSUME IInv, NEW b \in Chain, b.num = blockNum, blockNum <= Asked.last,
           blockNum = Asked.first + Len(out), out' = Append(out, b),
           pc \notin Finished, UNCHANGED <<node, req>>
    PROVE  Reader!Next
  <1>1. Reader!Take
    BY DEF Reader!Take, node, Chain, Logged, Asked, FirstBlock, PackEnd
  <1> QED
    BY <1>1 DEF Reader!Next

LEMMA ReaderStep ==
    ASSUME IInv, [Next]_vars
    PROVE  [Reader!Next]_<<Chain, Len(log), Asked, out, pc \notin Finished>>
  <1> USE DEF IInv
  <1>1. CASE UNCHANGED vars
    BY <1>1 DEF vars, node, tool, Chain, Logged, Asked, FirstBlock, PackEnd
  <1>2. CASE NodeStep
    <2>1. UNCHANGED tool /\ TypeOK' /\ NodeInv'
      BY <1>2, TypeNodeStep, NodeKeepsChain
    <2>2. Chain' \subseteq Block /\ Len(log') \in Nat
      BY <2>1, ChainTypeNext
    <2>3. Reader!NodeStep
      BY <1>2, <2>1, <2>2, NodeKeepsChain
         DEF Reader!NodeStep, Reader!Irreversible, tool, Asked, FirstBlock, PackEnd
    <2> QED
      BY <2>3 DEF Reader!Next
  <1>3. CASE Start
    <2>1. UNCHANGED node /\ TypeOK'
      BY <1>3, ToolKeepsNode, TypeStep DEF Next
    <2>2. Asked' \in [first : Nat, last : Int]
      BY <2>1, AskedTypeNext
    <2>3. Reader!Begin
      BY <1>3, <2>1, <2>2 DEF Start, Reader!Begin, node, Chain, Logged, Finished
    <2> QED
      BY <2>3 DEF Reader!Next
  <1>4. CASE OpenLog \/ OpenReversible \/ OpenFails \/ OpenOutput \/ LeaveLog
             \/ LeaveReversible \/ LeavePack \/ Finish
    <2>1. UNCHANGED <<node, req, out>> /\ pc \notin Finished
      BY <1>4 DEF OpenLog, OpenReversible, OpenFails, OpenOutput, LeaveLog,
                  LeaveReversible, LeavePack, Finish, Finished
    <2>2. UNCHANGED <<Chain, Len(log), Asked, out>>
      BY <2>1 DEF node, Chain, Logged, Asked, FirstBlock, PackEnd
    <2>3. CASE pc' \in Finished
      BY <2>1, <2>2, <2>3 DEF Reader!Next, Reader!End
    <2> QED
      BY <2>1, <2>2, <2>3
  <1>5. ASSUME NEW b \in Chain, b.num = blockNum, PrintBlock(b), InRange, pc \in {"log", "rev"}
        PROVE  Reader!Next
    <2>1. Asked = [first |-> FirstBlock, last |-> req.last]
      BY <1>5 DEF CursorInv, Asked
    <2>2. blockNum <= Asked.last /\ blockNum = Asked.first + Len(out)
      BY <1>5, <2>1 DEF CursorInv, InRange
    <2> QED
      BY <1>5, <2>2, TakeStep DEF PrintBlock, Finished
  <1>6. CASE ReadFromLog
    BY <1>5, <1>6 DEF ReadFromLog, Chain
  <1>7. CASE ReadReversible
    BY <1>5, <1>7 DEF ReadReversible, Chain
  <1>8. CASE PackHeader
    <2>1. PICK b \in Chain : b.num = blockNum /\ out' = Append(out, b)
      BY <1>8 DEF PackHeader, Chain
    <2>2. Asked = [first |-> req.packFrom, last |-> PackEnd - 1]
      BY <1>8 DEF PackHeader, CursorInv, Asked
    <2>3. blockNum \in Nat /\ PackEnd \in Int
      BY BoundsAssumption DEF BoundsAssumption, TypeOK, PackEnd, Request, Uint32
    <2>4. blockNum <= Asked.last /\ blockNum = Asked.first + Len(out)
      BY <1>8, <2>2, <2>3 DEF PackHeader, CursorInv
    <2> QED
      BY <1>8, <2>1, <2>4, TakeStep DEF PackHeader, Finished
  <1> QED
    BY <1>1, <1>2, <1>3, <1>4, <1>6, <1>7, <1>8 DEF Next, ToolStep

(* The tool reads a range of the node's chain in order, without a gap, and *)
(* takes each block while it is in the chain, whatever the node does.      *)
THEOREM ReadsInOrder == Spec => ReadsTheChain
  <1>1. Init => Reader!Init
    <2> SUFFICES ASSUME Init PROVE Reader!Init
      OBVIOUS
    <2>1. TypeOK /\ NodeInv
      BY TypeInit, NodeInvInit
    <2>2. Chain \subseteq Block /\ Len(log) \in Nat
      BY <2>1, ChainType
    <2>3. Asked = [first |-> 1, last |-> 0]
      BY DEF Init, NoRequest, Asked, FirstBlock
    <2> QED
      BY <2>2, <2>3 DEF Init, Reader!Init, Finished
  <1>2. IInv /\ [Next]_vars => [Reader!Next]_<<Chain, Len(log), Asked, out, pc \notin Finished>>
    BY ReaderStep
  <1> QED
    BY <1>1, <1>2, Invariance, PTL DEF Spec, ReadsTheChain, Reader!Spec

-----------------------------------------------------------------------------
(* What has been printed, and how far the run was when it left the loop    *)
(* over the log.                                                           *)
NumbersInv == \A i \in 1..Len(out) : out[i].num = Asked.first + i - 1

PastLogInv ==
    pc \in {"rev", "finish", "done"} /\ req.packFrom = 0 /\ ~(pc = "done" /\ req.info) =>
        /\ blockNum = FirstBlock + Len(out)
        /\ blockNum > req.last \/ blockNum > end

PrintedInv == NumbersInv /\ PastLogInv

LEMMA NumbersAppend ==
    ASSUME TypeOK, NumbersInv, NEW b \in Block, b.num = Asked.first + Len(out),
           out' = Append(out, b), req' = req
    PROVE  NumbersInv'
  <1>1. /\ Len(out) \in Nat
        /\ Len(out') = Len(out) + 1
        /\ \A i \in 1..Len(out) : out'[i] = out[i]
        /\ out'[Len(out) + 1] = b
    BY LenProperties, AppendProperties DEF TypeOK
  <1>2. Asked' = Asked /\ Asked.first \in Nat
    BY AskedType DEF Asked, FirstBlock, PackEnd
  <1> SUFFICES ASSUME NEW i \in 1..Len(out') PROVE out'[i].num = Asked.first + i - 1
    BY <1>2 DEF NumbersInv
  <1>3. i \in 1..Len(out) \/ i = Len(out) + 1
    BY <1>1
  <1> QED
    BY <1>1, <1>2, <1>3 DEF NumbersInv

LEMMA PrintedStep ==
    ASSUME IInv, PrintedInv, [Next]_vars
    PROVE  PrintedInv'
  <1> USE DEF IInv, PrintedInv
  <1>0. Len(out) \in Nat /\ blockNum \in Nat /\ FirstBlock \in Nat /\ end \in Nat
        /\ req.last \in Nat /\ req.packFrom \in Nat
    BY LenProperties DEF TypeOK, FirstBlock, Request, Uint32
  <1>1. CASE UNCHANGED tool
    BY <1>1 DEF tool, NumbersInv, PastLogInv, Asked, FirstBlock, PackEnd
  <1>2. CASE Start
    <2>1. out' = <<>> /\ pc' = "open"
      BY <1>2 DEF Start
    <2> QED
      BY <2>1 DEF NumbersInv, PastLogInv
  <1>3. CASE OpenLog \/ OpenReversible \/ OpenFails \/ OpenOutput
    <2>1. out' = out /\ req' = req /\ (pc' = "done" => req.info) /\ pc' \notin {"rev", "finish"}
      BY <1>3 DEF OpenLog, OpenReversible, OpenFails, OpenOutput
    <2> QED
      BY <2>1 DEF NumbersInv, PastLogInv, Asked, FirstBlock, PackEnd
  <1>4. ASSUME NEW b \in Chain, b.num = blockNum, PrintBlock(b), pc \in {"log", "rev"}
        PROVE  PrintedInv'
    <2>1. Asked.first = FirstBlock /\ b.num = FirstBlock + Len(out) /\ req.packFrom = 0
      BY <1>4 DEF CursorInv, Asked
    <2>2. NumbersInv'
      BY <1>4, <2>1, NumbersAppend, ChainNumbers DEF PrintBlock
    <2>3. blockNum' = blockNum + 1 /\ Len(out') = Len(out) + 1 /\ req' = req /\ end' = end
      BY <1>4, CursorMoves DEF PrintBlock
    <2>4. pc' = pc \/ pc' = "failed"
      BY <1>4 DEF PrintBlock
    <2>5. PastLogInv'
      <3> SUFFICES ASSUME pc = "rev"
                   PROVE  /\ blockNum + 1 = FirstBlock + (Len(out) + 1)
                          /\ blockNum + 1 > req.last \/ blockNum + 1 > end
        BY <1>4, <2>3, <2>4 DEF PastLogInv, FirstBlock
      <3>1. /\ blockNum = FirstBlock + Len(out)
            /\ blockNum > req.last \/ blockNum > end
        BY <2>1 DEF PastLogInv
      <3> QED
        BY <1>0, <3>1
    <2> QED
      BY <2>2, <2>5
  <1>5. CASE ReadFromLog
    BY <1>4, <1>5 DEF ReadFromLog, Chain
  <1>6. CASE ReadReversible
    BY <1>4, <1>6 DEF ReadReversible, Chain
  <1>7. CASE PackHeader
    <2>1. PICK b \in Chain : b.num = blockNum /\ out' = Append(out, b)
      BY <1>7 DEF PackHeader, Chain
    <2>2. Asked.first = req.packFrom /\ b.num = req.packFrom + Len(out) /\ req' = req /\ pc' = "pack"
      BY <1>7, <2>1 DEF PackHeader, CursorInv, Asked
    <2>3. NumbersInv'
      BY <2>1, <2>2, NumbersAppend, ChainNumbers
    <2> QED
      BY <2>2, <2>3 DEF PastLogInv
  <1>8. CASE LeaveLog
    <2>1. /\ UNCHANGED <<out, req, end, blockNum>>
          /\ blockNum > req.last \/ blockNum > end
          /\ pc = "log"
      BY <1>0, <1>8 DEF LeaveLog, InRange
    <2>2. NumbersInv'
      BY <2>1 DEF NumbersInv, Asked, FirstBlock, PackEnd
    <2>3. PastLogInv'
      BY <2>1 DEF PastLogInv, CursorInv, FirstBlock
    <2> QED
      BY <2>2, <2>3
  <1>9. CASE LeaveReversible \/ LeavePack \/ Finish
    <2>1. /\ UNCHANGED <<out, req, end, blockNum>>
          /\ pc \in {"rev", "finish"} \/ (pc = "pack" /\ req.packFrom # 0)
      BY <1>9 DEF LeaveReversible, LeavePack, Finish, CursorInv
    <2>2. NumbersInv'
      BY <2>1 DEF NumbersInv, Asked, FirstBlock, PackEnd
    <2>3. PastLogInv'
      BY <2>1 DEF PastLogInv, FirstBlock
    <2> QED
      BY <2>2, <2>3
  <1> QED
    BY <1>1, <1>2, <1>3, <1>5, <1>6, <1>7, <1>8, <1>9, TypeNodeStep DEF Next, ToolStep, vars

(* A run that ends normally has printed all that the log had of its range  *)
(* when it was opened, however the node has moved blocks since.            *)
THEOREM LogReadToItsEnd == Spec => []LogPartComplete
  <1>1. Init => PrintedInv
    BY DEF Init, PrintedInv, NumbersInv, PastLogInv
  <1>2. IInv /\ PrintedInv => LogPartComplete
    <2> SUFFICES ASSUME IInv, PrintedInv, pc = "done", ~req.info, req.packFrom = 0,
                        NEW n \in FirstBlock..req.last, n <= end
                 PROVE  \E i \in 1..Len(out) : out[i].num = n
      BY DEF LogPartComplete
    <2>1. Len(out) \in Nat /\ FirstBlock \in Nat /\ end \in Nat /\ req.last \in Nat
      BY LenProperties DEF IInv, TypeOK, FirstBlock, Request, Uint32
    <2>2. n < FirstBlock + Len(out)
      BY <2>1 DEF PrintedInv, PastLogInv
    <2>3. n - FirstBlock + 1 \in 1..Len(out)
      BY <2>1, <2>2
    <2>4. Asked.first = FirstBlock
      BY DEF Asked
    <2>5. out[n - FirstBlock + 1].num = n
      BY <2>1, <2>3, <2>4 DEF PrintedInv, NumbersInv
    <2> QED
      BY <2>3, <2>5
  <1>3. IInv /\ PrintedInv /\ [Next]_vars => PrintedInv'
    BY PrintedStep
  <1> QED
    BY <1>1, <1>2, <1>3, Invariance, PTL DEF Spec

-----------------------------------------------------------------------------
(* The JSON array.  As long as nothing is to be printed in packed form,    *)
(* the text in the file is an open array from the start of the output to   *)
(* its end, with a block at the end of it as soon as one has been printed. *)
(* On stdout the first line, on the log, makes it something else for good. *)
InFileInv ==
    /\ json # "bad"
    /\ pc \in {"open", "openrev", "output"} => json = "start"
    /\ pc \in {"log", "rev", "finish"} => json = IF out = <<>> THEN "open" ELSE "item"
    /\ pc = "done" /\ ~req.info => json = "closed"

OnStdoutInv ==
    /\ pc = "open" => json = "start"
    /\ pc \in {"openrev", "output", "log", "rev", "finish", "done"} => json = "bad"

ArrayInv ==
    req.array /\ req.extra = "none" /\ req.packFrom = 0 =>
        IF req.toFile THEN InFileInv ELSE OnStdoutInv

(* The moves of a JSON array that is never packed. *)
LEMMA ArrayMoves ==
    /\ After("start", "[") = "open"
    /\ After("open", "{}") = "item"
    /\ After(After("item", ","), "{}") = "item"
    /\ After("open", "]") = "closed"
    /\ After("item", "]") = "closed"
  <1> DEFINE Goes(s, token, t) ==
         t \in JsonStates /\ \A u : <<s, token, u>> \in JsonMoves <=> u = t
  <1>1. \A s, token, t : Goes(s, token, t) => After(s, token) = t
    BY Zenon DEF After
  <1>2. Goes("start", "[", "open")
    BY DEF JsonMoves, JsonStates
  <1>3. Goes("open", "{}", "item")
    BY DEF JsonMoves, JsonStates
  <1>4. Goes("item", ",", "comma")
    BY DEF JsonMoves, JsonStates
  <1>5. Goes("comma", "{}", "item")
    BY DEF JsonMoves, JsonStates
  <1>6. Goes("open", "]", "closed")
    BY DEF JsonMoves, JsonStates
  <1>7. Goes("item", "]", "closed")
    BY DEF JsonMoves, JsonStates
  <1> HIDE DEF Goes
  <1> QED
    BY <1>1, <1>2, <1>3, <1>4, <1>5, <1>6, <1>7

(* A line of text is never part of an array, and what has gone wrong stays *)
(* so.                                                                     *)
LEMMA TextSpoils == After("start", "text") = "bad" /\ \A token : After("bad", token) = "bad"
  <1>1. \A s \in JsonStates : <<"start", "text", s>> \notin JsonMoves
    BY DEF JsonMoves, JsonStates
  <1>2. \A token : \A s \in JsonStates : <<"bad", token, s>> \notin JsonMoves
    BY DEF JsonMoves, JsonStates
  <1> QED
    BY <1>1, <1>2 DEF After

LEMMA ArrayStep ==
    ASSUME IInv, ArrayInv, [Next]_vars
    PROVE  ArrayInv'
  <1> USE DEF IInv, InFileInv, OnStdoutInv
  <1>1. CASE UNCHANGED tool
    BY <1>1 DEF tool, ArrayInv
  <1>2. CASE Start
    BY <1>2 DEF Start, ArrayInv
  <1>3. CASE OpenLog \/ OpenReversible \/ OpenFails
    <2>1. /\ UNCHANGED <<req, out>>
          /\ pc \in {"open", "openrev", "output"}
          /\ pc' \in {"openrev", "failed", "output"} \/ (pc' = "done" /\ req.info)
          /\ pc = "open" => pc' \in {"openrev", "failed"}
      BY <1>3 DEF OpenLog, OpenReversible, OpenFails
    <2>2. req.toFile => json' = json
      BY <1>3 DEF OpenLog, OpenReversible, OpenFails, JsonAfterLine
    <2>3. ~req.toFile /\ json = "bad" => json' = "bad"
      BY <1>3, TextSpoils DEF OpenLog, OpenReversible, OpenFails, JsonAfterLine
    <2>4. ~req.toFile /\ pc = "open" /\ json = "start" /\ pc' = "openrev" => json' = "bad"
      BY <1>3, TextSpoils DEF OpenLog, OpenReversible, OpenFails, JsonAfterLine
    <2> QED
      BY <2>1, <2>2, <2>3, <2>4 DEF ArrayInv
  <1>4. CASE OpenOutput
    <2>1. out = <<>> /\ out' = <<>> /\ req' = req /\ pc = "output" /\ pc' \in {"log", "pack"}
      BY <1>4 DEF OpenOutput, CursorInv
    <2>2. req.array => json' = After(json, "[")
      BY <1>4 DEF OpenOutput
    <2> QED
      BY <2>1, <2>2, ArrayMoves, TextSpoils DEF ArrayInv
  <1>5. ASSUME NEW b \in Chain, PrintBlock(b), pc \in {"log", "rev"}
        PROVE  ArrayInv'
    <2>1. out' = Append(out, b) /\ req' = req /\ pc' \in {"log", "rev", "failed"}
      BY <1>5 DEF PrintBlock
    <2>2. out' # <<>>
      BY <2>1, AppendProperties, ChainNumbers DEF TypeOK
    <2> SUFFICES ASSUME req.array, req.extra = "none", req.packFrom = 0
                 PROVE  json' = IF req.toFile THEN "item" ELSE "bad"
      BY <2>1, <2>2 DEF ArrayInv
    <2>3. json = IF ~req.toFile THEN "bad" ELSE IF out = <<>> THEN "open" ELSE "item"
      BY <1>5 DEF ArrayInv
    <2>4. json' = After(IF out # <<>> THEN After(json, ",") ELSE json, "{}")
      BY <1>5 DEF PrintBlock, JsonAfterBlock, NeedsComma
    <2> QED
      BY <2>3, <2>4, ArrayMoves, TextSpoils
  <1>6. CASE ReadFromLog
    BY <1>5, <1>6 DEF ReadFromLog, Chain
  <1>7. CASE ReadReversible
    BY <1>5, <1>7 DEF ReadReversible, Chain
  <1>8. CASE LeaveLog \/ LeaveReversible
    <2>1. UNCHANGED <<req, out, json>> /\ pc \in {"log", "rev"} /\ pc' \in {"rev", "finish"}
      BY <1>8 DEF LeaveLog, LeaveReversible
    <2> QED
      BY <2>1 DEF ArrayInv
  <1>9. CASE PackHeader \/ LeavePack
    <2>1. req' = req /\ req.packFrom # 0
      BY <1>9 DEF PackHeader, LeavePack, CursorInv
    <2> QED
      BY <2>1 DEF ArrayInv
  <1>10. CASE Finish
    <2>1. UNCHANGED <<req, out>> /\ pc = "finish" /\ pc' = "done"
      BY <1>10 DEF Finish
    <2>2. req.array => json' = After(json, "]")
      BY <1>10 DEF Finish, JsonAfterEnd
    <2> QED
      BY <2>1, <2>2, ArrayMoves, TextSpoils DEF ArrayInv
  <1> QED
    BY <1>1, <1>2, <1>3, <1>4, <1>6, <1>7, <1>8, <1>9, <1>10, TypeNodeStep
       DEF Next, ToolStep, vars

(* The blocks of the log and those of the database end up in one array,    *)
(* which is well formed and closed when the run ends normally: in an       *)
(* output file, and never on stdout.                                       *)
THEOREM BothInOneArray == Spec => []ArrayIsJson
  <1>1. Init => ArrayInv
    BY DEF Init, NoRequest, ArrayInv
  <1>2. ArrayInv => ArrayIsJson
    BY DEF ArrayInv, InFileInv, OnStdoutInv, ArrayIsJson
  <1>3. IInv /\ ArrayInv /\ [Next]_vars => ArrayInv'
    BY ArrayStep
  <1> QED
    BY <1>1, <1>2, <1>3, Invariance, PTL DEF Spec

-----------------------------------------------------------------------------
(* A run that has the directory for itself. *)
(* Between the log and the head, the database has a block of every number. *)
GapFree == \A n \in Len(log) + 1..head : \E b \in db : b.num = n

HasNewer == \E b \in db : b.num >= Len(log)

(* What the tool took from the files when it opened them is still true; it *)
(* has read nothing beyond its range and what is there, and has left a     *)
(* loop only where one of them ends.                                       *)
AloneInv ==
    alone =>
        /\ ~nodeUp
        /\ pc # "open" => end = Len(log)
        /\ pc \in {"output", "log", "rev"} => hasRev = (clean /\ HasNewer)
        /\ pc = "rev" => hasRev /\ (blockNum > req.last \/ blockNum > end)
        /\ out # <<>> => /\ Asked.first + Len(out) - 1 <= Asked.last
                         /\ Asked.first + Len(out) - 1 <= LastReadable
        /\ pc = "finish" \/ (pc = "done" /\ ~req.info) =>
              \/ Asked.first + Len(out) > Asked.last
              \/ Asked.first + Len(out) > LastReadable

(* Only a transaction that cannot be packed stops a run at work.           *)
FailedInv ==
    pc = "failed" => \/ out = <<>>
                     \/ req.extra = "trx" /\ out[Len(out)].fork \in Deferred

LEMMA GapFreeStep ==
    ASSUME TypeOK, NodeInv, GapFree, [Next]_vars
    PROVE  GapFree'
  <1>0. Len(log) \in Nat /\ head \in Nat /\ \A b \in db : b.num \in Nat
    BY LenProperties DEF TypeOK, Block
  <1>1. CASE UNCHANGED <<log, db, head>>
    BY <1>1 DEF GapFree
  <1>2. CASE Repair
    <2>1. Len(log') = Len(log) /\ head' = Len(log)
      BY <1>2 DEF Repair
    <2> QED
      BY <1>0, <2>1 DEF GapFree
  <1>3. ASSUME NEW f \in Forks, Push(f) PROVE GapFree'
    <2> DEFINE new == [num |-> head + 1, fork |-> f]
    <2>1. log' = log /\ db' = db \cup {new} /\ head' = head + 1 /\ new.num = head + 1
      BY <1>3 DEF Push
    <2> SUFFICES ASSUME NEW n \in Len(log) + 1..head + 1
                 PROVE  \E b \in db' : b.num = n
      BY <2>1 DEF GapFree
    <2>2. n = head + 1 \/ n \in Len(log) + 1..head
      BY <1>0
    <2>3. CASE n = head + 1
      <3>1. new \in db' /\ new.num = n
        BY <2>1, <2>3
      <3> QED
        BY <3>1
    <2>4. CASE n \in Len(log) + 1..head
      BY <2>1, <2>4 DEF GapFree
    <2> QED
      BY <2>2, <2>3, <2>4
  <1>4. CASE Pop
    <2>1. log' = log /\ db' = {b \in db : b.num < head} /\ head' = head - 1
      BY <1>4 DEF Pop
    <2> SUFFICES ASSUME NEW n \in Len(log) + 1..head - 1
                 PROVE  \E b \in db' : b.num = n
      BY <2>1 DEF GapFree
    <2>2. n \in Len(log) + 1..head /\ n < head
      BY <1>0
    <2> QED
      BY <2>1, <2>2 DEF GapFree
  <1>5. CASE AppendToLog
    <2>1. Len(log') = Len(log) + 1 /\ db' = db /\ head' = head
      BY <1>5, AppendProperties DEF AppendToLog, TypeOK, Block
    <2>2. Len(log) + 2..head \subseteq Len(log) + 1..head
      BY <1>0
    <2>3. Len(log') + 1 = Len(log) + 2
      BY <1>0, <2>1
    <2> QED
      BY <2>1, <2>2, <2>3 DEF GapFree
  <1>6. CASE RemoveReversible
    <2>1. log' = log /\ db' = {b \in db : b.num > Len(log)} /\ head' = head
      BY <1>6 DEF RemoveReversible
    <2> SUFFICES ASSUME NEW n \in Len(log) + 1..head
                 PROVE  \E b \in db' : b.num = n
      BY <2>1 DEF GapFree
    <2>2. n > Len(log)
      BY <1>0
    <2> QED
      BY <2>1, <2>2 DEF GapFree
  <1>7. CASE NodeStart \/ NodeStop \/ NodeCrash
    BY <1>1, <1>7 DEF NodeStart, NodeStop, NodeCrash
  <1>8. CASE Start \/ ToolStep
    BY <1>1, <1>8, ToolKeepsNode DEF node
  <1> QED
    BY <1>1, <1>2, <1>3, <1>4, <1>5, <1>6, <1>7, <1>8 DEF Next, NodeStep, vars, node

(* The database is used exactly when it is clean and goes beyond the log:  *)
(* then it has the blocks from the end of the log to the head.             *)
LEMMA NewerReachesHead ==
    ASSUME TypeOK, NodeInv, GapFree, ~HasNewer
    PROVE  head = Len(log)
  <1>0. Len(log) \in Nat /\ head \in Nat
    BY LenProperties DEF TypeOK
  <1>1. CASE head > Len(log)
    <2>1. head \in Len(log) + 1..head
      BY <1>0, <1>1
    <2>2. PICK b \in db : b.num = head
      BY <2>1 DEF GapFree
    <2> QED
      BY <1>0, <1>1, <2>2 DEF HasNewer
  <1> QED
    BY <1>0, <1>1 DEF NodeInv

LEMMA AskedKept ==
    ASSUME UNCHANGED <<node, req>>
    PROVE  UNCHANGED <<Asked, FirstBlock, LastReadable, HasNewer>>
  BY DEF node, Asked, FirstBlock, PackEnd, LastReadable, HasNewer

LEMMA LastReadableType ==
    ASSUME TypeOK
    PROVE  LastReadable \in Nat
  BY LenProperties DEF TypeOK, LastReadable

(* What was known of a run stays true over the steps that print nothing.   *)
LEMMA AloneOpens ==
    ASSUME IInv, AloneInv, OpenLog \/ OpenReversible \/ OpenFails \/ OpenOutput
    PROVE  AloneInv'
  <1> USE DEF IInv
  <1>1. CASE OpenLog
    <2>1. /\ out = <<>> /\ out' = <<>> /\ end' = Len(log)
          /\ pc' \in {"openrev", "failed"} /\ UNCHANGED <<nodeUp, alone, log>>
      BY <1>1 DEF OpenLog, CursorInv, node
    <2> QED
      BY <2>1 DEF AloneInv
  <1>2. CASE OpenReversible
    <2>1. /\ out = <<>> /\ out' = <<>> /\ UNCHANGED <<node, req, end, alone>>
          /\ pc = "openrev"
          /\ (pc' = "done" /\ req.info) \/ pc' = "output"
      BY <1>2 DEF OpenReversible, CursorInv
    <2>2. PICK usable \in BOOLEAN :
             MayUse(usable) /\ hasRev' = (usable /\ \E b \in db : b.num >= end)
      BY <1>2 DEF OpenReversible
    <2> SUFFICES ASSUME alone
                 PROVE  ~nodeUp /\ end = Len(log) /\ hasRev' = (clean /\ HasNewer)
      BY <2>1, AskedKept DEF AloneInv, node
    <2>3. ~nodeUp /\ end = Len(log)
      BY <2>1 DEF AloneInv
    <2>4. usable = clean
      BY <2>2, <2>3 DEF MayUse, TypeOK
    <2> QED
      BY <2>2, <2>3, <2>4 DEF HasNewer
  <1>3. CASE OpenFails
    <2>1. /\ out = <<>> /\ out' = <<>> /\ UNCHANGED <<nodeUp, log, end, alone>>
          /\ pc' = "failed" /\ pc # "open"
      BY <1>3 DEF OpenFails, CursorInv, node
    <2> QED
      BY <2>1 DEF AloneInv
  <1>4. CASE OpenOutput
    <2>1. /\ out = <<>> /\ out' = <<>> /\ UNCHANGED <<node, req, end, hasRev, alone>>
          /\ pc = "output" /\ pc' \in {"log", "pack"}
      BY <1>4 DEF OpenOutput, CursorInv
    <2> QED
      BY <2>1, AskedKept DEF AloneInv, node
  <1> QED
    BY <1>1, <1>2, <1>3, <1>4

(* A block that is printed is one of those that are there: below the end   *)
(* of the log, or, of a clean database, not above the head.                *)
LEMMA AlonePrints ==
    ASSUME IInv, AloneInv, NEW b \in Chain, b.num = blockNum, PrintBlock(b), InRange,
           \/ pc = "log" /\ b \in Logged
           \/ pc = "rev" /\ b \in db
    PROVE  AloneInv'
  <1> USE DEF IInv
  <1> SUFFICES ASSUME alone PROVE AloneInv'
    BY DEF PrintBlock, AloneInv
  <1>0. Len(log) \in Nat /\ head \in Nat /\ blockNum \in Nat /\ Len(out) \in Nat
        /\ end \in Nat /\ req.last \in Nat
    BY LenProperties DEF TypeOK, Request, Uint32
  <1>1. /\ UNCHANGED <<node, req, end, hasRev, alone>>
        /\ blockNum' = blockNum + 1
        /\ Len(out') = Len(out) + 1
        /\ pc \in {"log", "rev"} /\ pc' \in {pc, "failed"}
    BY CursorMoves DEF PrintBlock
  <1>2. /\ req.packFrom = 0 /\ blockNum = Asked.first + Len(out)
        /\ Asked.last = req.last /\ blockNum <= Asked.last
    BY <1>1 DEF CursorInv, Asked, InRange
  <1>3. blockNum <= LastReadable
    <2>1. CASE b \in Logged
      BY <1>0, <2>1, LoggedBlocks DEF LastReadable, NodeInv
    <2>2. CASE pc = "rev" /\ b \in db
      <3>1. clean
        BY <2>2 DEF AloneInv
      <3> QED
        BY <1>2, <2>2, <3>1 DEF LastReadable, NodeInv
    <2> QED
      BY <2>1, <2>2
  <1>4. Asked' = Asked /\ LastReadable' = LastReadable /\ HasNewer' = HasNewer
    BY <1>1, AskedKept
  <1>5. Asked.first \in Nat /\ Asked.last \in Int /\ LastReadable \in Nat
    BY AskedType, LastReadableType
  <1>6. /\ Asked.first + Len(out') - 1 <= Asked.last
        /\ Asked.first + Len(out') - 1 <= LastReadable
    BY <1>0, <1>1, <1>2, <1>3, <1>5
  <1>7. ~nodeUp' /\ end' = Len(log')
    BY <1>1 DEF AloneInv, node
  <1>8. pc' \in {"log", "rev"} => hasRev' = (clean' /\ HasNewer')
    BY <1>1, <1>4 DEF AloneInv, node
  <1>9. pc' = "rev" => hasRev' /\ (blockNum' > req'.last \/ blockNum' > end')
    <2> SUFFICES ASSUME pc = "rev" PROVE hasRev /\ (blockNum + 1 > req.last \/ blockNum + 1 > end)
      BY <1>1
    <2>1. hasRev /\ (blockNum > req.last \/ blockNum > end)
      BY DEF AloneInv
    <2> QED
      BY <1>0, <2>1
  <1> QED
    BY <1>1, <1>4, <1>6, <1>7, <1>8, <1>9 DEF AloneInv

(* A loop is left at the end of the range, or at the end of what is there. *)
LEMMA AloneLeaves ==
    ASSUME IInv, AloneInv, GapFree, LeaveLog \/ LeaveReversible
    PROVE  AloneInv'
  <1> USE DEF IInv
  <1> SUFFICES ASSUME alone PROVE AloneInv'
    BY DEF LeaveLog, LeaveReversible, AloneInv
  <1>0. Len(log) \in Nat /\ head \in Nat /\ blockNum \in Nat /\ Len(out) \in Nat
        /\ end \in Nat /\ req.last \in Nat
    BY LenProperties DEF TypeOK, Request, Uint32
  <1>1. /\ UNCHANGED <<node, req, end, hasRev, alone, out, blockNum>>
        /\ pc \in {"log", "rev"} /\ pc' \in {"rev", "finish"}
    BY DEF LeaveLog, LeaveReversible
  <1>2. /\ req.packFrom = 0 /\ blockNum = Asked.first + Len(out)
        /\ Asked.last = req.last /\ end = Len(log) /\ hasRev = (clean /\ HasNewer)
    BY <1>1 DEF CursorInv, Asked, AloneInv
  <1>3. Asked' = Asked /\ LastReadable' = LastReadable /\ HasNewer' = HasNewer
    BY <1>1, AskedKept
  <1>4. blockNum > req.last \/ blockNum > end
    <2>1. CASE LeaveLog
      BY <1>0, <2>1 DEF LeaveLog, InRange
    <2>2. CASE LeaveReversible
      BY <2>2 DEF LeaveReversible, AloneInv
    <2> QED
      BY <2>1, <2>2
  <1>5. pc' = "rev" => hasRev
    BY DEF LeaveLog, LeaveReversible
  <1>6. pc' = "finish" => blockNum > req.last \/ blockNum > LastReadable
    <2> SUFFICES ASSUME pc' = "finish", blockNum <= req.last PROVE blockNum > LastReadable
      BY <1>0
    <2>1. blockNum > Len(log)
      BY <1>0, <1>2, <1>4
    <2>2. CASE LeaveLog
      <3>1. ~clean \/ head = Len(log)
        BY <1>2, <2>2, NewerReachesHead DEF LeaveLog
      <3> QED
        BY <2>1, <3>1 DEF LastReadable
    <2>3. CASE LeaveReversible
      <3>1. \A b \in db : b.num # blockNum
        BY <2>3 DEF LeaveReversible, InRange
      <3>2. blockNum \notin Len(log) + 1..head
        BY <3>1 DEF GapFree
      <3>3. blockNum > head
        BY <1>0, <2>1, <3>2
      <3> QED
        BY <2>1, <3>3 DEF LastReadable
    <2> QED
      BY <2>2, <2>3
  <1>7. ~nodeUp' /\ end' = Len(log') /\ hasRev' = (clean' /\ HasNewer')
    BY <1>1, <1>2, <1>3 DEF AloneInv, node
  <1>8. out' # <<>> => /\ Asked'.first + Len(out') - 1 <= Asked'.last
                       /\ Asked'.first + Len(out') - 1 <= LastReadable'
    BY <1>1, <1>3 DEF AloneInv
  <1> QED
    BY <1>1, <1>2, <1>3, <1>4, <1>5, <1>6, <1>7, <1>8 DEF AloneInv

(* Headers are packed from the log alone.                                  *)
LEMMA AlonePacks ==
    ASSUME IInv, AloneInv, PackHeader \/ LeavePack
    PROVE  AloneInv'
  <1> USE DEF IInv
  <1> SUFFICES ASSUME alone PROVE AloneInv'
    BY DEF PackHeader, LeavePack, AloneInv
  <1>0. Len(log) \in Nat /\ blockNum \in Nat /\ Len(out) \in Nat /\ PackEnd \in Int
    BY LenProperties, BoundsAssumption
       DEF TypeOK, Request, Uint32, PackEnd, BoundsAssumption
  <1>1. UNCHANGED <<node, req, end, alone>> /\ pc = "pack"
    BY DEF PackHeader, LeavePack
  <1>2. /\ req.packFrom # 0 /\ blockNum = Asked.first + Len(out)
        /\ Asked.last = PackEnd - 1 /\ end = Len(log) /\ LastReadable = Len(log)
    BY <1>1 DEF CursorInv, Asked, AloneInv, LastReadable
  <1>3. Asked' = Asked /\ LastReadable' = LastReadable
    BY <1>1, AskedKept
  <1>4. ~nodeUp' /\ end' = Len(log')
    BY <1>1, <1>2 DEF AloneInv, node
  <1>5. Asked.first \in Nat
    BY AskedType
  <1>6. CASE PackHeader
    <2>1. PICK b \in Logged : b.num = blockNum /\ out' = Append(out, b)
      BY <1>6 DEF PackHeader
    <2>2. Len(out') = Len(out) + 1 /\ pc' = "pack" /\ blockNum < PackEnd
      BY <1>6, <2>1, CursorMoves DEF PackHeader, Chain
    <2>3. blockNum <= Len(log)
      BY <1>0, <2>1, LoggedBlocks
    <2>4. /\ Asked.first + Len(out') - 1 <= Asked.last
          /\ Asked.first + Len(out') - 1 <= LastReadable
      BY <1>0, <1>2, <1>5, <2>2, <2>3
    <2> QED
      BY <1>3, <1>4, <2>2, <2>4 DEF AloneInv
  <1>7. CASE LeavePack
    <2>1. out' = out /\ pc' = "finish" /\ (blockNum >= PackEnd \/ blockNum > end)
      BY <1>7 DEF LeavePack
    <2>2. \/ Asked.first + Len(out') > Asked.last
          \/ Asked.first + Len(out') > LastReadable
      BY <1>0, <1>2, <1>5, <2>1
    <2>3. out' # <<>> => /\ Asked.first + Len(out') - 1 <= Asked.last
                         /\ Asked.first + Len(out') - 1 <= LastReadable
      BY <2>1 DEF AloneInv
    <2> QED
      BY <1>3, <1>4, <2>1, <2>2, <2>3 DEF AloneInv
  <1> QED
    BY <1>6, <1>7

LEMMA AloneStep ==
    ASSUME IInv, AloneInv, GapFree, [Next]_vars
    PROVE  AloneInv'
  <1>1. CASE UNCHANGED vars
    <2>1. UNCHANGED <<Asked, LastReadable, HasNewer>>
      BY <1>1, AskedKept DEF vars, tool
    <2> QED
      BY <1>1, <2>1 DEF vars, node, tool, AloneInv
  <1>2. CASE NodeStep
    <2>1. alone' = FALSE
      BY <1>2 DEF NodeStep, NodeStart, NodeStop, NodeCrash, Repair, Push, Pop,
                  AppendToLog, RemoveReversible
    <2> QED
      BY <2>1 DEF AloneInv
  <1>3. CASE Start
    <2>1. out' = <<>> /\ pc' = "open" /\ alone' = ~nodeUp /\ UNCHANGED node
      BY <1>3 DEF Start
    <2>2. nodeUp' = nodeUp
      BY <2>1 DEF node
    <2> QED
      BY <2>1, <2>2 DEF AloneInv
  <1>4. CASE ReadFromLog
    <2>1. PICK b \in Logged : b.num = blockNum /\ PrintBlock(b)
      BY <1>4 DEF ReadFromLog
    <2> QED
      BY <1>4, <2>1, AlonePrints DEF ReadFromLog, Chain
  <1>5. CASE ReadReversible
    <2>1. PICK b \in db : b.num = blockNum /\ PrintBlock(b)
      BY <1>5 DEF ReadReversible
    <2> QED
      BY <1>5, <2>1, AlonePrints DEF ReadReversible, Chain
  <1>6. CASE Finish
    <2>1. UNCHANGED <<node, req, end, out, alone>> /\ pc = "finish" /\ pc' = "done"
      BY <1>6 DEF Finish
    <2>2. UNCHANGED <<Asked, LastReadable, log, nodeUp>>
      BY <2>1, AskedKept DEF node
    <2> QED
      BY <2>1, <2>2 DEF AloneInv
  <1> QED
    BY <1>1, <1>2, <1>3, <1>4, <1>5, <1>6, AloneOpens, AloneLeaves, AlonePacks
       DEF Next, ToolStep

LEMMA FailedStep ==
    ASSUME IInv, FailedInv, [Next]_vars
    PROVE  FailedInv'
  <1> USE DEF IInv
  <1>1. CASE UNCHANGED tool
    BY <1>1 DEF tool, FailedInv
  <1>2. CASE OpenLog \/ OpenReversible \/ OpenFails \/ OpenOutput
    <2>1. out' = <<>>
      BY <1>2 DEF OpenLog, OpenReversible, OpenFails, OpenOutput, CursorInv
    <2> QED
      BY <2>1 DEF FailedInv
  <1>3. ASSUME NEW b \in Chain, PrintBlock(b), pc \in {"log", "rev"}
        PROVE  FailedInv'
    <2>1. /\ out' = Append(out, b) /\ req' = req
          /\ pc' = "failed" => req.extra = "trx" /\ b.fork \in Deferred
      BY <1>3 DEF PrintBlock
    <2>2. out'[Len(out')] = b
      BY <2>1, ChainNumbers, AppendProperties DEF TypeOK
    <2> QED
      BY <2>1, <2>2 DEF FailedInv
  <1>4. CASE ReadFromLog
    BY <1>3, <1>4 DEF ReadFromLog, Chain
  <1>5. CASE ReadReversible
    BY <1>3, <1>5 DEF ReadReversible, Chain
  <1>6. CASE Start \/ LeaveLog \/ LeaveReversible \/ PackHeader \/ LeavePack \/ Finish
    <2>1. pc' # "failed"
      BY <1>6 DEF Start, LeaveLog, LeaveReversible, PackHeader, LeavePack, Finish
    <2> QED
      BY <2>1 DEF FailedInv
  <1> QED
    BY <1>1, <1>2, <1>4, <1>5, <1>6, TypeNodeStep DEF Next, ToolStep, vars

(* What has been taken is the whole of a run of numbers.                   *)
LEMMA TakenNumbers ==
    ASSUME IInv, NumbersInv
    PROVE  {out[i].num : i \in 1..Len(out)} =
              {n \in Nat : Asked.first <= n /\ n < Asked.first + Len(out)}
  <1>0. Len(out) \in Nat /\ Asked.first \in Nat
    BY LenProperties, AskedType DEF IInv, TypeOK
  <1>1. ASSUME NEW i \in 1..Len(out)
        PROVE  out[i].num \in {n \in Nat : Asked.first <= n /\ n < Asked.first + Len(out)}
    BY <1>0 DEF NumbersInv
  <1>2. ASSUME NEW n \in Nat, Asked.first <= n, n < Asked.first + Len(out)
        PROVE  n \in {out[i].num : i \in 1..Len(out)}
    <2>1. n - Asked.first + 1 \in 1..Len(out)
      BY <1>0, <1>2
    <2>2. out[n - Asked.first + 1].num = n
      BY <1>0, <2>1 DEF NumbersInv
    <2> QED
      BY <2>1, <2>2
  <1> QED
    BY <1>1, <1>2

(* A run without a node that ends normally has taken its range, as far as  *)
(* there are blocks.                                                       *)
LEMMA AloneTakes ==
    ASSUME IInv, NumbersInv, AloneInv, alone, pc = "done", ~req.info
    PROVE  {out[i].num : i \in 1..Len(out)} =
              {n \in 1..LastReadable : n >= Asked.first /\ n <= Asked.last}
  <1> DEFINE first == Asked.first
             last == Asked.last
             readable == LastReadable
             len == Len(out)
  <1>1. first \in Nat /\ first >= 1 /\ last \in Int /\ readable \in Nat /\ len \in Nat
    BY LenProperties, AskedType, LastReadableType
       DEF IInv, TypeOK, Asked, FirstBlock, Request, Uint32
  <1>2. first + len > last \/ first + len > readable
    BY DEF AloneInv
  <1>3. len = 0 \/ (first + len - 1 <= last /\ first + len - 1 <= readable)
    BY EmptySeq, LenProperties DEF AloneInv, IInv, TypeOK
  <1>4. {out[i].num : i \in 1..len} = {n \in Nat : first <= n /\ n < first + len}
    BY TakenNumbers
  <1> HIDE DEF first, last, readable, len
  <1>5. \A n \in Nat : first <= n /\ n < first + len <=>
                       n \in 1..readable /\ n >= first /\ n <= last
    BY <1>1, <1>2, <1>3
  <1>6. {n \in Nat : first <= n /\ n < first + len} =
           {n \in 1..readable : n >= first /\ n <= last}
    BY <1>1, <1>5
  <1> QED
    BY <1>4, <1>6 DEF first, last, readable, len

LEMMA PackEndValue ==
    ASSUME TypeOK
    PROVE  PackEnd = IF req.packFrom + req.interval < UintMod
                     THEN req.packFrom + req.interval
                     ELSE req.packFrom + req.interval - UintMod
  <1>1. /\ req.packFrom \in Nat /\ req.packFrom < UintMod
        /\ req.interval \in Nat /\ req.interval < UintMod
    BY BoundsAssumption DEF BoundsAssumption, TypeOK, Request, Uint32
  <1>2. ASSUME NEW x \in Nat, NEW m \in Nat, x < m PROVE x % m = x
    BY <1>2
  <1>3. ASSUME NEW x \in Nat, NEW m \in Nat, m <= x, x < m + m PROVE x % m = x - m
    BY <1>3
  <1> QED
    BY <1>1, <1>2, <1>3, BoundsAssumption DEF BoundsAssumption, PackEnd

(* A run that has the directory for itself prints its range up to the head *)
(* block, or up to the end of the log if the database is dirty, and packs  *)
(* the headers of its interval; it fails before it prints anything, except *)
(* at a transaction that it cannot pack.                                   *)
THEOREM AloneReadsItsRange == Spec => []AloneReadsAsked
  <1> DEFINE WholeInv == PrintedInv /\ GapFree /\ AloneInv /\ FailedInv
  <1>1. Init => WholeInv
    BY DEF Init, PrintedInv, NumbersInv, PastLogInv, GapFree, AloneInv, FailedInv
  <1>2. IInv /\ WholeInv => AloneReadsAsked
    <2> SUFFICES ASSUME IInv, WholeInv, alone, ~req.info PROVE AloneReadsAsked
      BY DEF AloneReadsAsked, AlonePrintsRange, PacksInterval
    <2>1. req.first \in Nat /\ req.packFrom \in Nat /\ req.interval \in Nat
          /\ UintMod \in Nat /\ req.packFrom < UintMod /\ req.interval < UintMod
      BY BoundsAssumption DEF BoundsAssumption, IInv, TypeOK, Request, Uint32
    <2>2. pc = "done" => {out[i].num : i \in 1..Len(out)} =
                            {n \in 1..LastReadable : n >= Asked.first /\ n <= Asked.last}
      BY AloneTakes DEF PrintedInv
    <2>3. CASE req.packFrom = 0
      <3>1. Asked.first = FirstBlock /\ Asked.last = req.last
        BY <2>3 DEF Asked
      <3>2. \A n \in 1..LastReadable : n >= FirstBlock <=> n >= req.first
        BY <2>1, LastReadableType DEF FirstBlock, IInv
      <3>3. {n \in 1..LastReadable : n >= Asked.first /\ n <= Asked.last} =
               {n \in 1..LastReadable : n >= req.first /\ n <= req.last}
        BY <3>1, <3>2
      <3> QED
        BY <2>2, <2>3, <3>3 DEF AloneReadsAsked, AlonePrintsRange, PacksInterval, FailedInv
    <2>4. CASE req.packFrom # 0
      <3>1. Asked.first = req.packFrom /\ Asked.last = PackEnd - 1
        BY <2>4 DEF Asked
      <3>2. CASE req.packFrom + req.interval >= UintMod
        <4>1. PackEnd = req.packFrom + req.interval - UintMod
          BY <2>1, <3>2, PackEndValue DEF IInv
        <4>2. Asked.last < Asked.first
          BY <2>1, <3>1, <4>1
        <4>3. {n \in 1..LastReadable : n >= Asked.first /\ n <= Asked.last} = {}
          BY <2>1, <3>1, <4>1, <4>2, LastReadableType DEF IInv
        <4> QED
          BY <2>2, <2>4, <3>2, <4>3 DEF AloneReadsAsked, AlonePrintsRange, PacksInterval
      <3>3. CASE ~(req.packFrom + req.interval >= UintMod)
        <4>1. PackEnd = req.packFrom + req.interval
          BY <2>1, <3>3, PackEndValue DEF IInv
        <4>2. \A n \in 1..LastReadable :
                 n <= Asked.last <=> n < req.packFrom + req.interval
          BY <2>1, <3>1, <4>1, LastReadableType DEF IInv
        <4>3. {n \in 1..LastReadable : n >= Asked.first /\ n <= Asked.last} =
                 {n \in 1..LastReadable : /\ n >= req.packFrom
                                          /\ n < req.packFrom + req.interval}
          BY <3>1, <4>2
        <4> QED
          BY <2>2, <2>4, <3>3, <4>3 DEF AloneReadsAsked, AlonePrintsRange, PacksInterval
      <3> QED
        BY <3>2, <3>3
    <2> QED
      BY <2>3, <2>4
  <1>3. IInv /\ WholeInv /\ [Next]_vars => WholeInv'
    BY PrintedStep, GapFreeStep, AloneStep, FailedStep DEF IInv
  <1> HIDE DEF WholeInv
  <1> QED
    BY <1>1, <1>2, <1>3, Invariance, PTL DEF Spec

=============================================================================
