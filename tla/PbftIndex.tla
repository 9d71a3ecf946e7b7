------------------------------ MODULE PbftIndex ------------------------------
(***************************************************************************)
(* eosio-pbftdb and eosio-checkpoints: each reads one file that a node     *)
(* keeps in its blocks directory, pbftdb.dat or checkpoints.dat, into an   *)
(* index with unique block ids and prints the index in one of its orders.  *)
(* The two programs differ in the file, the order and what they say when   *)
(* there is no file.                                                       *)
(*                                                                         *)
(* The file is a header with the number of states, then the states.  The   *)
(* node, external, writes it field by field when it stops, may crash while *)
(* it writes, and may remove the file when it starts.  The tool reads it   *)
(* as a stream, field by field too, up to the end that it finds.           *)
(***************************************************************************)
EXTENDS Integers, Sequences, FiniteSets

CONSTANTS
    States,     \* the states that a node may have
    Dumps       \* the sequences of them that it may write

State == [id : Nat, num : Nat, flag : BOOLEAN]

ASSUME StatesAssumption == States \subseteq State
ASSUME DumpsAssumption == Dumps \subseteq Seq(States)

VARIABLES
    exists,     \* whether the file is there
    file,       \* what it is to hold, and how many of its fields it holds
    node,
    pc,
    tool,
    linked,     \* whether the tool has the file open that is there
    held,       \* the file it has open if the node has removed that one
    cut,        \* whether the node truncated what has been read in part
    content,    \* what was read of one version of the file
    torn,       \* whether bytes of a later version follow in what was read
    unpacked,   \* how many states were unpacked
    index,
    out,
    said,       \* whether "file not exist." was printed
    alone       \* whether the node has not moved since the run began

disk   == <<exists, file, node>>
handle == <<linked, held, cut>>
buffer == <<content, torn>>
run    == <<pc, tool, handle, buffer, unpacked, index, out, said>>
vars   == <<disk, run, alone>>

File == [states : Seq(States), fields : Nat]

Empty == [states |-> <<>>, fields |-> 0]

Whole(f) == f.fields = Len(f.states) + 1

Finished == {"idle", "done", "failed"}

-----------------------------------------------------------------------------
\* Committed states first, the newest of them first.
by_commit_and_num(a, b) ==
    \/ a.flag /\ ~b.flag
    \/ a.flag = b.flag /\ a.num > b.num

\* The oldest checkpoint first.
by_num(a, b) == a.num < b.num

Before(a, b) == IF tool = "pbftdb" THEN by_commit_and_num(a, b) ELSE by_num(a, b)

(* The ids are unique: a second state of a block is refused.               *)
Insert(s) == IF \E t \in index : t.id = s.id THEN index ELSE index \cup {s}

-----------------------------------------------------------------------------
Init ==
    /\ exists \in BOOLEAN
    /\ \E d \in Dumps : file = IF exists THEN [states |-> d, fields |-> Len(d) + 1] ELSE Empty
    /\ node = "down"
    /\ pc = "idle"
    /\ tool \in {"pbftdb", "checkpoints"}
    /\ linked = FALSE
    /\ held = Empty
    /\ cut = FALSE
    /\ content = Empty
    /\ torn = FALSE
    /\ unpacked = 0
    /\ index = {}
    /\ out = <<>>
    /\ said = FALSE
    /\ alone = FALSE

(* main up to read_log, with an index that is empty.                       *)
Start ==
    /\ pc \in Finished
    /\ pc' = "look"
    /\ content' = Empty
    /\ torn' = FALSE
    /\ unpacked' = 0
    /\ index' = {}
    /\ out' = <<>>
    /\ said' = FALSE
    /\ alone' = (node = "down")
    /\ UNCHANGED <<disk, tool, handle>>

(* Mutant: eosio-checkpoints says nothing. *)
Look_Silent ==
    /\ pc = "look"
    /\ pc' = IF exists THEN "open" ELSE "print"
    /\ UNCHANGED <<disk, tool, handle, buffer, unpacked, index, out, said, alone>>

Look ==
    /\ pc = "look"
    /\ pc' = IF exists THEN "open" ELSE "print"
    /\ said' = (~exists /\ tool = "checkpoints")
    /\ UNCHANGED <<disk, tool, handle, buffer, unpacked, index, out, alone>>

(* read_file_contents, from here to EndRead: of a file that is gone by now *)
(* nothing is read.                                                        *)
Open ==
    /\ pc = "open"
    /\ IF exists THEN linked' = TRUE /\ pc' = "read"
                 ELSE linked' = FALSE /\ pc' = "size"
    /\ UNCHANGED <<disk, tool, held, cut, buffer, unpacked, index, out, said, alone>>

\* What the tool has open.
Opened == IF linked THEN file ELSE held

(* The next field.  Until the header is read, a file that is truncated and *)
(* written again is read from the start of the new version.                *)
ReadField ==
    /\ pc = "read"
    /\ ~cut
    /\ content.fields < Opened.fields
    /\ content' = [states |-> Opened.states, fields |-> content.fields + 1]
    /\ UNCHANGED <<disk, pc, tool, handle, torn, unpacked, index, out, said, alone>>

Close ==
    /\ linked' = FALSE
    /\ held' = Empty
    /\ cut' = FALSE
    /\ pc' = "size"
    /\ UNCHANGED <<disk, tool, content, unpacked, index, out, said, alone>>

(* After a truncation the stream goes on in the middle of the new version, *)
(* as soon as that is long enough ...                                      *)
ReadTorn ==
    /\ pc = "read"
    /\ cut
    /\ Opened.fields > 0
    /\ torn' = TRUE
    /\ Close

(* ... and is at its end before.  A file that is still being written ends  *)
(* where the node is.                                                      *)
EndRead ==
    /\ pc = "read"
    /\ ~cut => content.fields = Opened.fields
    /\ UNCHANGED torn
    /\ Close

(* The current view of pbftdb.dat and the number of states.                *)
UnpackSize ==
    /\ pc = "size"
    /\ pc' = IF content.fields > 0 THEN "unpack" ELSE "failed"
    /\ UNCHANGED <<disk, tool, handle, buffer, unpacked, index, out, said, alone>>

UnpackState ==
    /\ pc = "unpack"
    /\ unpacked < Len(content.states)
    /\ unpacked + 1 < content.fields
    /\ index' = Insert(content.states[unpacked + 1])
    /\ unpacked' = unpacked + 1
    /\ UNCHANGED <<disk, pc, tool, handle, buffer, out, said, alone>>

(* Mutant: one round of the loop too many. *)
UnpackTorn_OneMore ==
    /\ pc = "unpack"
    /\ torn
    /\ unpacked <= Len(content.states)
    /\ unpacked + 1 >= content.fields
    /\ \E s \in States : index' = Insert(s)
    /\ unpacked' = unpacked + 1
    /\ UNCHANGED <<disk, pc, tool, handle, buffer, out, said, alone>>

(* Bytes from the middle of a version may be taken for any state.          *)
UnpackTorn ==
    /\ pc = "unpack"
    /\ torn
    /\ unpacked < Len(content.states)
    /\ unpacked + 1 >= content.fields
    /\ \E s \in States : index' = Insert(s)
    /\ unpacked' = unpacked + 1
    /\ UNCHANGED <<disk, pc, tool, handle, buffer, out, said, alone>>

(* Mutant: what there is of a truncated file will do. *)
UnpackThrows_Prints ==
    /\ pc = "unpack"
    /\ unpacked < Len(content.states)
    /\ unpacked + 1 >= content.fields
    /\ pc' = "print"
    /\ UNCHANGED <<disk, tool, handle, buffer, unpacked, index, out, said, alone>>

(* The datastream is at its end before the states are, or the bytes do not *)
(* make a state.                                                           *)
UnpackThrows ==
    /\ pc = "unpack"
    /\ unpacked < Len(content.states)
    /\ unpacked + 1 >= content.fields
    /\ pc' = "failed"
    /\ UNCHANGED <<disk, tool, handle, buffer, unpacked, index, out, said, alone>>

EndUnpack ==
    /\ pc = "unpack"
    /\ unpacked = Len(content.states)
    /\ pc' = "print"
    /\ UNCHANGED <<disk, tool, handle, buffer, unpacked, index, out, said, alone>>

Printed == {out[k] : k \in 1..Len(out)}

(* In the order of the index.  (Equals are printed in the order in which   *)
(* they were inserted, here in any.)                                       *)
PrintNext ==
    /\ pc = "print"
    /\ \E s \in index \ Printed :
          /\ \A t \in index \ Printed : ~Before(t, s)
          /\ out' = Append(out, s)
    /\ UNCHANGED <<disk, pc, tool, handle, buffer, unpacked, index, said, alone>>

Return ==
    /\ pc = "print"
    /\ index \subseteq Printed
    /\ pc' = "done"
    /\ UNCHANGED <<disk, tool, handle, buffer, unpacked, index, out, said, alone>>

-----------------------------------------------------------------------------
(* A file that is removed is still there for the tool that has it open.    *)
NodeStart ==
    /\ node = "down"
    /\ node' = "up"
    /\ alone' = FALSE
    /\ \/ UNCHANGED <<exists, file, linked, held>>
       \/ /\ exists' = FALSE
          /\ file' = Empty
          /\ held' = IF linked THEN file ELSE held
          /\ linked' = FALSE
    /\ UNCHANGED <<pc, tool, cut, buffer, unpacked, index, out, said>>

(* The file is created or truncated; what follows was decided before.      *)
NodeStop ==
    /\ node = "up"
    /\ node' = "stopping"
    /\ alone' = FALSE
    /\ exists' = TRUE
    /\ \E d \in Dumps : file' = [states |-> d, fields |-> 0]
    /\ cut' = (cut \/ (linked /\ content.fields > 0))
    /\ UNCHANGED <<pc, tool, linked, held, buffer, unpacked, index, out, said>>

NodeWrite ==
    /\ node = "stopping"
    /\ alone' = FALSE
    /\ file' = [file EXCEPT !.fields = @ + 1]
    /\ node' = IF Whole(file') THEN "down" ELSE "stopping"
    /\ UNCHANGED <<exists, run>>

NodeCrash ==
    /\ node \in {"up", "stopping"}
    /\ node' = "down"
    /\ alone' = FALSE
    /\ UNCHANGED <<exists, file, run>>

-----------------------------------------------------------------------------
ToolStep ==
    \/ Look
    \/ Open
    \/ ReadField
    \/ ReadTorn
    \/ EndRead
    \/ UnpackSize
    \/ UnpackState
    \/ UnpackTorn
    \/ UnpackThrows
    \/ EndUnpack
    \/ PrintNext
    \/ Return

NodeStep == NodeStart \/ NodeStop \/ NodeWrite \/ NodeCrash

Next == Start \/ ToolStep \/ NodeStep

Spec == Init /\ [][Next]_vars

-----------------------------------------------------------------------------
(* Every variable has its type; no more is unpacked than the header says,  *)
(* and no more is indexed than was unpacked.                               *)
TypeOK ==
    /\ exists \in BOOLEAN
    /\ file \in File
    /\ node \in {"down", "up", "stopping"}
    /\ pc \in Finished \cup {"look", "open", "read", "size", "unpack", "print"}
    /\ tool \in {"pbftdb", "checkpoints"}
    /\ linked \in BOOLEAN
    /\ held \in File
    /\ cut \in BOOLEAN
    /\ content \in File
    /\ torn \in BOOLEAN
    /\ unpacked \in 0..Len(content.states)
    /\ index \subseteq States
    /\ IsFiniteSet(index)
    /\ Cardinality(index) <= unpacked
    /\ out \in Seq(States)
    /\ said \in BOOLEAN
    /\ alone \in BOOLEAN

(* The first state that the file has of a block.                           *)
FirstOfItsBlock(i) ==
    \A j \in 1..i - 1 : content.states[j].id # content.states[i].id

(* Whenever the node removes the file, writes it or crashes over it: a run *)
(* that fails has printed nothing.  A run that ends normally has printed,  *)
(* once, one state of every block of one version of the file, the first    *)
(* that this has, and no other -- unless the node truncated the file when  *)
(* it was read in part and wrote on in it before the reading ended: then   *)
(* anything may follow what was read before, but no two states of a block. *)
OneVersionOrNothing ==
    /\ pc = "failed" => out = <<>>
    /\ \A k, l \in 1..Len(out) : out[k].id = out[l].id => k = l
    /\ pc = "done" /\ ~torn =>
         Printed = {content.states[i] : i \in {j \in 1..Len(content.states) : FirstOfItsBlock(j)}}

(* Without a node a run fails only over a file that a crash left behind;   *)
(* without a file eosio-checkpoints says so.                               *)
AloneReads ==
    alone =>
        /\ pc = "failed" => exists /\ ~Whole(file)
        /\ pc = "done" => /\ exists => Whole(file) /\ content = file /\ ~torn
                          /\ ~exists => out = <<>>
                          /\ ~exists /\ tool = "checkpoints" => said

=============================================================================
