-------------------------- MODULE PbftIndex_proofs --------------------------
(***************************************************************************)
(* What eosio-pbftdb and eosio-checkpoints print, for files of any length  *)
(* and whatever the node does to the file in the meantime.                 *)
(***************************************************************************)
EXTENDS PbftIndex, FiniteSetTheorems, TLAPS

(* What a run has at each of its steps, and that it prints the states of   *)
(* the index, each once.                                                   *)
PhaseInv ==
    /\ pc \in {"idle", "look", "open", "read", "size"} => unpacked = 0
    /\ pc \in {"idle", "look", "open"} => content = Empty
    /\ pc \in {"print", "done"} => unpacked = Len(content.states)
    /\ pc \notin {"print", "done"} => out = <<>>
    /\ pc = "done" => index \subseteq Printed
    /\ \A k \in 1..Len(out) : out[k] \in index
    /\ \A k, l \in 1..Len(out) : out[k] = out[l] => k = l

(* Nothing, as a file and as a sequence. *)
LEMMA EmptyFacts ==
    /\ Empty \in File
    /\ Empty.states = <<>>
    /\ Empty.fields = 0
    /\ <<>> \in Seq(States)
    /\ Len(<<>>) = 0
  BY DEF Empty, File

(* What Insert makes of the index. *)
LEMMA InsertFacts ==
    ASSUME index \subseteq States, IsFiniteSet(index), NEW s \in States
    PROVE  /\ Insert(s) \subseteq States
           /\ IsFiniteSet(Insert(s))
           /\ Cardinality(Insert(s)) <= Cardinality(index) + 1
           /\ Cardinality(index) \in Nat
           /\ index \subseteq Insert(s)
           /\ \A t \in Insert(s) : t \in index \/ t = s
  <1>1. Cardinality(index) \in Nat
    BY FS_CardinalityType
  <1>2. /\ IsFiniteSet(index \cup {s})
        /\ Cardinality(index \cup {s}) = Cardinality(index)
           \/ Cardinality(index \cup {s}) = Cardinality(index) + 1
    BY <1>1, FS_AddElement
  <1> QED
    BY <1>1, <1>2 DEF Insert

(* The first state. *)
LEMMA PhaseOfInit == Init => TypeOK /\ PhaseInv
  <1> SUFFICES ASSUME Init PROVE TypeOK /\ PhaseInv
    OBVIOUS
  <1> USE DumpsAssumption DEF Init
  <1>1. file \in File
    <2>1. PICK d \in Dumps : file = IF exists THEN [states |-> d, fields |-> Len(d) + 1] ELSE Empty
      OBVIOUS
    <2>2. d \in Seq(States) /\ Len(d) \in Nat
      OBVIOUS
    <2> QED
      BY <2>1, <2>2 DEF File, Empty
  <1>2. TypeOK
    <2>1. content \in File /\ held \in File /\ out \in Seq(States) /\ unpacked \in 0..Len(content.states)
      BY EmptyFacts
    <2>2. index \subseteq States /\ IsFiniteSet(index) /\ Cardinality(index) <= unpacked
      BY FS_EmptySet
    <2>3. pc \in Finished \cup {"look", "open", "read", "size", "unpack", "print"}
      BY DEF Finished
    <2>4. /\ node \in {"down", "up", "stopping"} /\ tool \in {"pbftdb", "checkpoints"}
          /\ exists \in BOOLEAN /\ linked \in BOOLEAN /\ cut \in BOOLEAN /\ torn \in BOOLEAN
          /\ said \in BOOLEAN /\ alone \in BOOLEAN
      OBVIOUS
    <2> QED
      BY <1>1, <2>1, <2>2, <2>3, <2>4 DEF TypeOK
  <1>3. PhaseInv
    BY EmptyFacts DEF PhaseInv
  <1> QED
    BY <1>2, <1>3

(* The node leaves the run alone but for what the tool has open.           *)
LEMMA NodeTypes ==
    ASSUME TypeOK, NodeStep
    PROVE  /\ file' \in File /\ held' \in File
           /\ exists' \in BOOLEAN /\ linked' \in BOOLEAN /\ cut' \in BOOLEAN /\ alone' \in BOOLEAN
           /\ node' \in {"down", "up", "stopping"}
           /\ UNCHANGED <<pc, tool, content, torn, unpacked, index, out, said>>
  <1> USE DEF TypeOK
  <1>1. CASE NodeStart
    BY <1>1, EmptyFacts DEF NodeStart, buffer
  <1>2. CASE NodeStop
    <2>1. PICK d \in Dumps : file' = [states |-> d, fields |-> 0]
      BY <1>2 DEF NodeStop
    <2>2. file' \in File
      BY <2>1, DumpsAssumption DEF File
    <2> QED
      BY <1>2, <2>2 DEF NodeStop, buffer
  <1>3. CASE NodeWrite
    <2>1. file' = [states |-> file.states, fields |-> file.fields + 1]
      BY <1>3 DEF NodeWrite, File
    <2>2. file' \in File
      BY <2>1 DEF File
    <2> QED
      BY <1>3, <2>2 DEF NodeWrite, run, handle, buffer
  <1>4. CASE NodeCrash
    BY <1>4 DEF NodeCrash, run, handle, buffer
  <1> QED
    BY <1>1, <1>2, <1>3, <1>4 DEF NodeStep

(* Types and phases are preserved together: what is read is read with      *)
(* nothing unpacked.                                                       *)
LEMMA PhaseStep == TypeOK /\ PhaseInv /\ [Next]_vars => TypeOK' /\ PhaseInv'
  <1> SUFFICES ASSUME TypeOK, PhaseInv, [Next]_vars PROVE TypeOK' /\ PhaseInv'
    OBVIOUS
  <1> USE DEF TypeOK, PhaseInv, Printed, Finished, disk, handle, buffer
  <1>1. CASE Start
    <2>1. /\ pc' = "look" /\ content' = Empty /\ unpacked' = 0 /\ index' = {} /\ out' = <<>>
          /\ torn' = FALSE /\ said' = FALSE /\ alone' \in BOOLEAN
          /\ UNCHANGED <<exists, file, node, tool, linked, held, cut>>
      BY <1>1 DEF Start
    <2>2. content' \in File /\ unpacked' \in 0..Len(content'.states) /\ out' \in Seq(States)
      BY <2>1, EmptyFacts
    <2>3. index' \subseteq States /\ IsFiniteSet(index') /\ Cardinality(index') <= unpacked'
      BY <2>1, FS_EmptySet
    <2>4. TypeOK'
      BY <2>1, <2>2, <2>3
    <2>5. PhaseInv'
      BY <2>1, EmptyFacts
    <2> QED
      BY <2>4, <2>5
  <1>2. CASE Look
    <2>1. /\ pc = "look" /\ pc' \in {"open", "print"} /\ said' \in BOOLEAN
          /\ UNCHANGED <<exists, file, node, tool, linked, held, cut, content, torn,
                         unpacked, index, out, alone>>
      BY <1>2 DEF Look
    <2>2. Len(content.states) = 0 /\ unpacked = 0
      BY <2>1, EmptyFacts
    <2>3. TypeOK'
      BY <2>1
    <2>4. PhaseInv'
      BY <2>1, <2>2, EmptyFacts
    <2> QED
      BY <2>3, <2>4
  <1>3. CASE Open
    <2>1. /\ pc = "open" /\ pc' \in {"read", "size"} /\ linked' \in BOOLEAN
          /\ UNCHANGED <<exists, file, node, tool, held, cut, content, torn,
                         unpacked, index, out, said, alone>>
      BY <1>3 DEF Open
    <2>2. TypeOK'
      BY <2>1
    <2>3. PhaseInv'
      BY <2>1
    <2> QED
      BY <2>2, <2>3
  <1>4. CASE ReadField
    <2>1. Opened \in File
      BY DEF Opened
    <2>2. content' = [states |-> Opened.states, fields |-> content.fields + 1]
      BY <1>4 DEF ReadField
    <2>3. content' \in File /\ unpacked \in 0..Len(content'.states)
      BY <1>4, <2>1, <2>2 DEF ReadField, File
    <2> QED
      BY <1>4, <2>3 DEF ReadField
  <1>5. CASE ReadTorn \/ EndRead
    BY <1>5, EmptyFacts DEF ReadTorn, EndRead, Close
  <1>6. CASE UnpackSize
    BY <1>6 DEF UnpackSize
  <1>7. CASE UnpackState \/ UnpackTorn
    <2>1. PICK s \in States : index' = Insert(s)
      BY <1>7 DEF UnpackState, UnpackTorn, File
    <2>2. /\ unpacked < Len(content.states) /\ unpacked' = unpacked + 1
          /\ pc = "unpack" /\ out = <<>>
          /\ UNCHANGED <<exists, file, node, pc, tool, linked, held, cut, content, torn, out, said, alone>>
      BY <1>7 DEF UnpackState, UnpackTorn
    <2>3. /\ index' \subseteq States /\ IsFiniteSet(index')
          /\ Cardinality(index') <= Cardinality(index) + 1 /\ Cardinality(index) \in Nat
          /\ Cardinality(index') \in Nat
      BY <2>1, InsertFacts, FS_CardinalityType
    <2>4. unpacked' \in 0..Len(content'.states) /\ Cardinality(index') <= unpacked'
      BY <2>2, <2>3 DEF File
    <2>5. TypeOK'
      BY <2>2, <2>3, <2>4
    <2>6. PhaseInv'
      BY <2>2, EmptyFacts
    <2> QED
      BY <2>5, <2>6
  <1>8. CASE UnpackThrows
    BY <1>8 DEF UnpackThrows
  <1>9. CASE EndUnpack
    BY <1>9 DEF EndUnpack
  <1>10. CASE PrintNext
    <2>1. PICK s \in index \ Printed : out' = Append(out, s)
      BY <1>10 DEF PrintNext
    <2>2. /\ out' \in Seq(States) /\ Len(out') = Len(out) + 1 /\ Len(out) \in Nat
          /\ \A k \in 1..Len(out) : out'[k] = out[k]
          /\ out'[Len(out) + 1] = s
      BY <2>1
    <2>3. \A k \in 1..Len(out') : out'[k] \in index
      BY <2>1, <2>2
    <2>4. \A k, l \in 1..Len(out') : out'[k] = out'[l] => k = l
      <3>1. \A k \in 1..Len(out) : out[k] # s
        BY <2>1
      <3> QED
        BY <2>2, <3>1
    <2> QED
      BY <1>10, <2>2, <2>3, <2>4 DEF PrintNext
  <1>11. CASE Return
    BY <1>11 DEF Return
  <1>12. CASE NodeStep
    BY <1>12, NodeTypes
  <1>13. CASE UNCHANGED vars
    BY <1>13 DEF vars, run
  <1> QED
    BY <1>1, <1>2, <1>3, <1>4, <1>5, <1>6, <1>7, <1>8, <1>9, <1>10, <1>11, <1>12, <1>13
       DEF Next, ToolStep

(* Every variable has its type, whatever the node writes; and no more is   *)
(* indexed than was unpacked.                                              *)
THEOREM TypeCorrect == Spec => [](TypeOK /\ PhaseInv)
  BY PhaseOfInit, PhaseStep, PTL DEF Spec

-----------------------------------------------------------------------------
(* The index has one state of a block.  If nothing torn was read it has    *)
(* the first one of every block that was unpacked and nothing else.        *)
OneOfABlock == \A s, t \in index : s.id = t.id => s = t

Indexed == \A s \in index : \E i \in 1..unpacked : s = content.states[i] /\ FirstOfItsBlock(i)

HasFirsts == \A i \in 1..unpacked : FirstOfItsBlock(i) => content.states[i] \in index

HasIds == \A i \in 1..unpacked : \E s \in index : s.id = content.states[i].id

IndexInv ==
    /\ OneOfABlock
    /\ ~torn => Indexed /\ HasFirsts /\ HasIds

(* Any state is refused, or the only one of its block.                     *)
LEMMA InsertUnique ==
    ASSUME OneOfABlock, NEW s
    PROVE  \A t, u \in Insert(s) : t.id = u.id => t = u
  BY DEF OneOfABlock, Insert

(* One more state of the version that was read.                            *)
LEMMA IndexStep ==
    ASSUME TypeOK, IndexInv, unpacked < Len(content.states),
           index' = Insert(content.states[unpacked + 1]), unpacked' = unpacked + 1,
           UNCHANGED <<content, torn>>
    PROVE  IndexInv'
  <1> DEFINE s == content.states[unpacked + 1]
  <1>1. /\ s \in States
        /\ unpacked \in Nat /\ unpacked + 1 \in 1..Len(content.states)
    BY DEF TypeOK, File
  <1>2. \A i \in 1..unpacked + 1 : FirstOfItsBlock(i)' <=> FirstOfItsBlock(i)
    BY DEF FirstOfItsBlock
  <1>3. index \subseteq index' /\ \A t \in index' : t \in index \/ t = s
    BY <1>1, InsertFacts DEF TypeOK
  <1>4. s \notin index' => \E t \in index : t.id = s.id
    BY DEF Insert
  <1>5. s \notin index /\ s \in index' => \A t \in index : t.id # s.id
    BY DEF Insert
  <1> HIDE DEF s
  <1>6. OneOfABlock'
    BY InsertUnique DEF IndexInv, OneOfABlock
  <1>7. ASSUME ~torn PROVE Indexed' /\ HasFirsts' /\ HasIds'
    <2>1. Indexed /\ HasFirsts /\ HasIds
      BY <1>7 DEF IndexInv
    <2>2. Indexed'
      <3>1. ASSUME NEW t \in index'
            PROVE  \E i \in 1..unpacked + 1 : t = content.states[i] /\ FirstOfItsBlock(i)
        <4>1. CASE t \in index
          <5>1. PICK i \in 1..unpacked : t = content.states[i] /\ FirstOfItsBlock(i)
            BY <2>1, <4>1 DEF Indexed
          <5> QED
            BY <1>1, <5>1
        <4>2. CASE t \notin index
          <5>1. t = s /\ \A u \in index : u.id # s.id
            BY <1>3, <1>5, <4>2
          <5>2. \A j \in 1..unpacked : content.states[j].id # s.id
            BY <2>1, <5>1 DEF HasIds
          <5>3. FirstOfItsBlock(unpacked + 1)
            BY <1>1, <5>2 DEF FirstOfItsBlock, s
          <5> QED
            BY <1>1, <5>1, <5>3 DEF s
        <4> QED
          BY <4>1, <4>2
      <3> QED
        BY <1>2, <3>1 DEF Indexed
    <2>3. HasFirsts'
      <3>1. ASSUME NEW i \in 1..unpacked + 1, FirstOfItsBlock(i)
            PROVE  content.states[i] \in index'
        <4>1. CASE i \in 1..unpacked
          BY <1>3, <2>1, <3>1, <4>1 DEF HasFirsts
        <4>2. CASE i = unpacked + 1
          <5>1. \A j \in 1..unpacked : content.states[j].id # s.id
            BY <1>1, <3>1, <4>2 DEF FirstOfItsBlock, s
          <5>2. \A t \in index : t.id # s.id
            BY <2>1, <5>1 DEF Indexed
          <5> QED
            BY <1>4, <4>2, <5>2 DEF s
        <4> QED
          BY <1>1, <4>1, <4>2
      <3> QED
        BY <1>2, <3>1 DEF HasFirsts
    <2>4. HasIds'
      <3>1. ASSUME NEW i \in 1..unpacked + 1
            PROVE  \E t \in index' : t.id = content.states[i].id
        <4>1. CASE i \in 1..unpacked
          BY <1>3, <2>1, <4>1 DEF HasIds
        <4>2. CASE i = unpacked + 1
          BY <1>3, <1>4, <4>2 DEF s
        <4> QED
          BY <1>1, <4>1, <4>2
      <3> QED
        BY <3>1 DEF HasIds
    <2> QED
      BY <2>2, <2>3, <2>4
  <1> QED
    BY <1>6, <1>7 DEF IndexInv

IInv == TypeOK /\ PhaseInv /\ IndexInv

(* An index of nothing. *)
LEMMA NothingIndexed ==
    /\ index = {} /\ unpacked = 0 => IndexInv
    /\ index' = {} /\ unpacked' = 0 => IndexInv'
  BY DEF IndexInv, OneOfABlock, Indexed, HasFirsts, HasIds

(* As long as nothing is unpacked there is no state in the index. *)
LEMMA NothingYet == TypeOK /\ unpacked = 0 => index = {}
  <1> SUFFICES ASSUME TypeOK, unpacked = 0 PROVE index = {}
    OBVIOUS
  <1>1. Cardinality(index) = 0
    BY FS_CardinalityType DEF TypeOK
  <1> QED
    BY <1>1, FS_EmptySet DEF TypeOK

(* Every step keeps the index right.                                       *)
LEMMA IInvStep == IInv /\ [Next]_vars => IInv'
  <1> SUFFICES ASSUME IInv, [Next]_vars PROVE IInv'
    OBVIOUS
  <1>1. TypeOK' /\ PhaseInv'
    BY PhaseStep DEF IInv
  <1>2. ASSUME UNCHANGED <<index, unpacked, content, torn>> PROVE IndexInv'
    BY <1>2 DEF IInv, IndexInv, OneOfABlock, Indexed, HasFirsts, HasIds, FirstOfItsBlock
  <1>3. CASE Start
    BY <1>1, <1>3, NothingIndexed DEF Start, IInv
  <1>4. CASE ReadField \/ ReadTorn \/ EndRead
    <2>1. unpacked = 0 /\ UNCHANGED <<index, unpacked>>
      BY <1>4 DEF ReadField, ReadTorn, EndRead, Close, IInv, PhaseInv
    <2> QED
      BY <1>1, <2>1, NothingYet, NothingIndexed DEF IInv
  <1>5. CASE UnpackState
    BY <1>1, <1>5, IndexStep DEF UnpackState, buffer, IInv
  <1>6. CASE UnpackTorn
    <2>1. PICK s \in States : index' = Insert(s)
      BY <1>6 DEF UnpackTorn
    <2>2. OneOfABlock'
      BY <2>1, InsertUnique DEF IInv, IndexInv, OneOfABlock
    <2> QED
      BY <1>1, <1>6, <2>2 DEF UnpackTorn, buffer, IInv, IndexInv
  <1>7. CASE Look \/ Open \/ UnpackSize \/ UnpackThrows \/ EndUnpack \/ PrintNext \/ Return
    BY <1>1, <1>2, <1>7
       DEF Look, Open, UnpackSize, UnpackThrows, EndUnpack, PrintNext, Return, buffer, IInv
  <1>8. CASE NodeStep
    BY <1>1, <1>2, <1>8, NodeTypes DEF IInv
  <1>9. CASE UNCHANGED vars
    BY <1>1, <1>2, <1>9 DEF vars, run, buffer, IInv
  <1> QED
    BY <1>3, <1>4, <1>5, <1>6, <1>7, <1>8, <1>9 DEF Next, ToolStep

(* The inductive invariant. *)
THEOREM IInvHolds == Spec => []IInv
  <1>1. Init => IInv
    BY PhaseOfInit, NothingIndexed DEF IInv, Init
  <1> QED
    BY <1>1, IInvStep, PTL DEF Spec

(* OneVersionOrNothing: whatever the node does to the file while it is     *)
(* read, a run that fails prints nothing and a run that ends prints no two *)
(* states of a block; it prints the first state of every block of one      *)
(* version of the file and no other, unless the node truncated the file    *)
(* that was read in part and wrote on in it.                               *)
THEOREM VersionPrinted == Spec => []OneVersionOrNothing
  <1>1. IInv => OneVersionOrNothing
    <2> SUFFICES ASSUME IInv PROVE OneVersionOrNothing
      OBVIOUS
    <2> USE DEF IInv
    <2>1. pc = "failed" => out = <<>>
      BY DEF PhaseInv
    <2>2. \A k, l \in 1..Len(out) : out[k].id = out[l].id => k = l
      BY DEF PhaseInv, IndexInv, OneOfABlock
    <2>3. ASSUME pc = "done", ~torn
          PROVE  Printed = {content.states[i] : i \in {j \in 1..Len(content.states) : FirstOfItsBlock(j)}}
      <3>1. Printed = index /\ unpacked = Len(content.states)
        BY <2>3 DEF PhaseInv, Printed
      <3>2. Indexed /\ HasFirsts
        BY <2>3 DEF IndexInv
      <3> QED
        BY <3>1, <3>2 DEF Indexed, HasFirsts
    <2> QED
      BY <2>1, <2>2, <2>3 DEF OneVersionOrNothing
  <1> QED
    BY <1>1, IInvHolds, PTL

-----------------------------------------------------------------------------
(* The tool has a file open only while it reads; what the file, the open   *)
(* one and the copy of it have; and what an undisturbed run knows of the   *)
(* file at each of its steps.                                              *)
HandleInv == pc # "read" => ~linked /\ ~cut

FieldsInv ==
    /\ file.fields <= Len(file.states) + 1
    /\ held.fields <= Len(held.states) + 1
    /\ node = "stopping" => file.fields <= Len(file.states)
    /\ content.fields <= Len(content.states) + 1
    /\ pc = "unpack" => unpacked < content.fields \/ torn

AloneInv ==
    alone =>
        /\ node = "down" /\ ~cut /\ ~torn
        /\ pc = "open" => exists
        /\ pc = "read" => exists /\ linked
        /\ pc \in {"read", "size"} /\ content.fields > 0 => content.states = file.states
        /\ pc = "size" => exists /\ content.fields = file.fields
        /\ pc = "unpack" => exists /\ content = file
        /\ pc = "failed" => exists /\ ~Whole(file)
        /\ pc \in {"print", "done"} /\ exists => Whole(file) /\ content = file
        /\ pc \in {"print", "done"} /\ ~exists =>
               content = Empty /\ (tool = "checkpoints" => said)

(* A file is opened to be read and closed when it was. *)
LEMMA HandleStep == HandleInv /\ [Next]_vars => HandleInv'
  <1> SUFFICES ASSUME HandleInv, [Next]_vars PROVE HandleInv'
    OBVIOUS
  <1> USE DEF HandleInv, handle
  <1>1. CASE Start
    BY <1>1 DEF Start, Finished
  <1>2. CASE Look \/ Open \/ ReadField
    BY <1>2 DEF Look, Open, ReadField
  <1>3. CASE ReadTorn \/ EndRead
    BY <1>3 DEF ReadTorn, EndRead, Close
  <1>4. CASE UnpackSize \/ UnpackState \/ UnpackTorn \/ UnpackThrows \/ EndUnpack
    BY <1>4 DEF UnpackSize, UnpackState, UnpackTorn, UnpackThrows, EndUnpack
  <1>5. CASE PrintNext \/ Return
    BY <1>5 DEF PrintNext, Return
  <1>6. CASE NodeStep
    BY <1>6 DEF NodeStep, NodeStart, NodeStop, NodeWrite, NodeCrash, run
  <1>7. CASE UNCHANGED vars
    BY <1>7 DEF vars, run
  <1> QED
    BY <1>1, <1>2, <1>3, <1>4, <1>5, <1>6, <1>7 DEF Next, ToolStep

(* A file never has more fields than it is to have. *)
LEMMA FieldsStep == TypeOK /\ PhaseInv /\ FieldsInv /\ [Next]_vars => FieldsInv'
  <1> SUFFICES ASSUME TypeOK, PhaseInv, FieldsInv, [Next]_vars PROVE FieldsInv'
    OBVIOUS
  <1> USE DEF disk, handle, buffer
  <1>1. /\ Len(file.states) \in Nat /\ file.fields \in Nat
        /\ Len(held.states) \in Nat /\ held.fields \in Nat
        /\ Len(content.states) \in Nat /\ content.fields \in Nat
        /\ unpacked \in Nat
    BY DEF TypeOK, File
  <1>2. CASE Start
    BY <1>1, <1>2, EmptyFacts DEF Start, FieldsInv
  <1>3. CASE Look \/ Open
    BY <1>1, <1>3 DEF Look, Open, FieldsInv
  <1>4. CASE ReadField
    <2>1. Opened.fields <= Len(Opened.states) + 1 /\ Len(Opened.states) \in Nat /\ Opened.fields \in Nat
      BY <1>1 DEF Opened, FieldsInv
    <2>2. content'.fields = content.fields + 1 /\ content'.states = Opened.states
      BY <1>4 DEF ReadField
    <2> QED
      BY <1>1, <1>4, <2>1, <2>2 DEF ReadField, FieldsInv
  <1>5. CASE ReadTorn \/ EndRead
    BY <1>1, <1>5, EmptyFacts DEF ReadTorn, EndRead, Close, FieldsInv
  <1>6. CASE UnpackSize
    <2>1. unpacked = 0
      BY <1>6 DEF UnpackSize, PhaseInv
    <2> QED
      BY <1>1, <1>6, <2>1 DEF UnpackSize, FieldsInv
  <1>7. CASE UnpackState
    BY <1>1, <1>7 DEF UnpackState, FieldsInv
  <1>8. CASE UnpackTorn
    BY <1>1, <1>8 DEF UnpackTorn, FieldsInv
  <1>9. CASE UnpackThrows \/ EndUnpack \/ PrintNext \/ Return
    BY <1>1, <1>9 DEF UnpackThrows, EndUnpack, PrintNext, Return, FieldsInv
  <1>10. CASE NodeStart
    BY <1>1, <1>10, EmptyFacts DEF NodeStart, FieldsInv
  <1>11. CASE NodeStop
    <2>1. PICK d \in Dumps : file' = [states |-> d, fields |-> 0]
      BY <1>11 DEF NodeStop
    <2>2. file'.fields = 0 /\ Len(file'.states) \in Nat
      BY <2>1, DumpsAssumption
    <2> QED
      BY <1>1, <1>11, <2>2 DEF NodeStop, FieldsInv
  <1>12. CASE NodeWrite
    <2>1. /\ file'.fields = file.fields + 1 /\ file'.states = file.states
          /\ node' = "stopping" => ~Whole(file')
      BY <1>12 DEF NodeWrite, TypeOK, File
    <2>2. node = "stopping" /\ UNCHANGED run
      BY <1>12 DEF NodeWrite
    <2> QED
      BY <1>1, <2>1, <2>2 DEF run, FieldsInv, Whole
  <1>13. CASE NodeCrash
    BY <1>1, <1>13 DEF NodeCrash, run, FieldsInv
  <1>14. CASE UNCHANGED vars
    BY <1>14 DEF vars, run, FieldsInv
  <1> QED
    BY <1>2, <1>3, <1>4, <1>5, <1>6, <1>7, <1>8, <1>9, <1>10, <1>11, <1>12, <1>13, <1>14
       DEF Next, ToolStep, NodeStep

(* As long as no node moves, what was read is what the file has.           *)
LEMMA AloneStep ==
    TypeOK /\ PhaseInv /\ HandleInv /\ FieldsInv /\ AloneInv /\ [Next]_vars => AloneInv'
  <1> SUFFICES ASSUME TypeOK, PhaseInv, HandleInv, FieldsInv, AloneInv, [Next]_vars, alone'
               PROVE  AloneInv'
    BY DEF AloneInv
  <1> USE DEF disk, handle, buffer
  <1>1. /\ file \in File /\ content \in File
        /\ Len(file.states) \in Nat /\ file.fields \in Nat
        /\ Len(content.states) \in Nat /\ content.fields \in Nat
        /\ unpacked \in Nat /\ unpacked <= Len(content.states)
    BY DEF TypeOK, File
  <1>2. CASE Start
    BY <1>2 DEF Start, AloneInv, HandleInv, Finished
  <1>3. CASE Look
    <2>1. content = Empty
      BY <1>3 DEF Look, PhaseInv
    <2> QED
      BY <1>3, <2>1 DEF Look, AloneInv
  <1>4. CASE Open
    <2>1. content.fields = 0
      BY <1>4, EmptyFacts DEF Open, PhaseInv
    <2> QED
      BY <1>4, <2>1 DEF Open, AloneInv
  <1>5. CASE ReadField
    <2>1. alone /\ linked /\ Opened = file
      BY <1>5 DEF ReadField, AloneInv, Opened
    <2>2. content'.states = file.states
      BY <1>5, <2>1 DEF ReadField
    <2> QED
      BY <1>5, <2>2 DEF ReadField, AloneInv
  <1>6. CASE ReadTorn
    BY <1>6 DEF ReadTorn, Close, AloneInv
  <1>7. CASE EndRead
    <2>1. alone /\ linked /\ Opened = file /\ ~cut
      BY <1>7 DEF EndRead, Close, AloneInv, Opened
    <2> QED
      BY <1>7, <2>1 DEF EndRead, Close, AloneInv
  <1>8. CASE UnpackSize
    <2>1. alone /\ content.fields = file.fields /\ (content.fields > 0 => content.states = file.states)
      BY <1>8 DEF UnpackSize, AloneInv
    <2>2. content.fields > 0 => content = file
      BY <1>1, <2>1 DEF File
    <2> QED
      BY <1>1, <1>8, <2>1, <2>2 DEF UnpackSize, AloneInv, Whole
  <1>9. CASE UnpackState
    BY <1>9 DEF UnpackState, AloneInv
  <1>10. CASE UnpackTorn
    BY <1>10 DEF UnpackTorn, AloneInv
  <1>11. CASE UnpackThrows
    BY <1>1, <1>11 DEF UnpackThrows, AloneInv, Whole
  <1>12. CASE EndUnpack
    BY <1>1, <1>12 DEF EndUnpack, AloneInv, FieldsInv, Whole
  <1>13. CASE PrintNext \/ Return
    BY <1>13 DEF PrintNext, Return, AloneInv
  <1>14. CASE NodeStep
    BY <1>14 DEF NodeStep, NodeStart, NodeStop, NodeWrite, NodeCrash
  <1>15. CASE UNCHANGED vars
    BY <1>15 DEF vars, run, AloneInv
  <1> QED
    BY <1>2, <1>3, <1>4, <1>5, <1>6, <1>7, <1>8, <1>9, <1>10, <1>11, <1>12, <1>13, <1>14, <1>15
       DEF Next, ToolStep

(* AloneReads: when no node moves, a run fails over a truncated file only, *)
(* prints the whole of a file that is whole, and says that there is none.  *)
THEOREM AloneRunReads == Spec => []AloneReads
  <1>1. Init => HandleInv /\ FieldsInv /\ AloneInv
    <2> SUFFICES ASSUME Init PROVE HandleInv /\ FieldsInv /\ AloneInv
      OBVIOUS
    <2>1. PICK d \in Dumps : file = IF exists THEN [states |-> d, fields |-> Len(d) + 1] ELSE Empty
      BY DEF Init
    <2>2. Len(d) \in Nat
      BY DumpsAssumption
    <2>3. file.fields <= Len(file.states) + 1
      BY <2>1, <2>2, EmptyFacts
    <2> QED
      BY <2>3, EmptyFacts DEF Init, HandleInv, FieldsInv, AloneInv
  <1>2. IInv /\ HandleInv /\ FieldsInv /\ AloneInv /\ [Next]_vars
            => HandleInv' /\ FieldsInv' /\ AloneInv'
    BY HandleStep, FieldsStep, AloneStep DEF IInv
  <1>3. IInv /\ AloneInv => AloneReads
    <2> SUFFICES ASSUME IInv, AloneInv, alone PROVE AloneReads
      BY DEF AloneReads
    <2>1. ASSUME pc = "done", ~exists PROVE out = <<>>
      <3>1. unpacked = 0
        BY <2>1, EmptyFacts DEF AloneInv, IInv, PhaseInv
      <3>2. index = {}
        BY <3>1, NothingYet DEF IInv
      <3>3. Len(out) \in Nat /\ out \in Seq(States) /\ ~\E k \in 1..Len(out) : TRUE
        BY <3>2 DEF IInv, TypeOK, PhaseInv
      <3> QED
        BY <3>3
    <2> QED
      BY <2>1 DEF AloneInv, AloneReads
  <1> QED
    BY <1>1, <1>2, <1>3, IInvHolds, PTL DEF Spec

=============================================================================
