----------------------------- MODULE ForkdbRead -----------------------------
(***************************************************************************)
(* What eosio-forkdb reads of the fork database it has loaded.  The        *)
(* database, external, is a set of blocks that know their predecessor, and *)
(* a head; the current chain is the branch that ends in the head.  A       *)
(* first loop walks back from the head to find where that chain begins, a  *)
(* second one goes up by number.  How a block is printed is left out.      *)
(***************************************************************************)
EXTENDS Integers, Sequences

CONSTANTS
    Databases,  \* the fork databases that are tried
    UintMod,    \* 2^32
    Requests    \* the command lines that are tried

Block == [num : Nat, id : Nat, prev : Nat]

Uint32 == 0..UintMod - 1

Request == [first : Uint32, last : Uint32, info : BOOLEAN,
            packFrom : Uint32, interval : Uint32]

NoBlock == [num |-> 0, id |-> 0, prev |-> 0]

(* Blocks have ids of their own, none of them 0, and numbers one higher    *)
(* than their predecessor; the head, unless there are no blocks at all, is *)
(* one of them, and numbers do not reach the last of the type.             *)
ASSUME DatabasesAssumption ==
    \A d \in Databases :
        /\ d.blocks \subseteq Block
        /\ IF d.blocks = {} THEN d.head = NoBlock ELSE d.head \in d.blocks
        /\ d.head.num + 1 < UintMod
        /\ \A b \in d.blocks : b.id # 0
        /\ \A b, c \in d.blocks : b.id = c.id => b = c
        /\ \A b, c \in d.blocks : b.prev = c.id => b.num = c.num + 1

ASSUME RequestsAssumption ==
    UintMod \in Nat \ {0, 1} /\ Requests \subseteq Request

VARIABLES
    blocks,     \* of the fork database
    head,       \* its head block, or NoBlock
    pc,
    req,        \* the command line
    first,      \* the block that the walk has reached
    count,      \* the number of blocks that is announced
    blockNum,
    out         \* the blocks printed, or the headers gathered

forkDb == <<blocks, head>>
vars   == <<forkDb, pc, req, first, count, blockNum, out>>

NoRequest == [first |-> 1, last |-> 0, info |-> FALSE,
              packFrom |-> 0, interval |-> 0]

Finished == {"idle", "done", "failed"}

-----------------------------------------------------------------------------
\* The predecessors of the blocks of S are in it.
Closed(S) == \A b \in S, c \in blocks : b.prev = c.id => c \in S

\* The head and its predecessors, which get_block_in_current_chain_by_num
\* finds by their numbers: what every closed set with the head has.
CurrentChain ==
    {b \in blocks : \A S \in SUBSET blocks : head \in S /\ Closed(S) => b \in S}

Init ==
    /\ \E d \in Databases : blocks = d.blocks /\ head = d.head
    /\ pc = "idle"
    /\ req = NoRequest
    /\ first = NoBlock
    /\ count = 0
    /\ blockNum = 0
    /\ out = <<>>

Start ==
    /\ pc \in Finished
    /\ req' \in Requests
    /\ pc' = "open"
    /\ first' = NoBlock
    /\ count' = 0
    /\ blockNum' = 0
    /\ out' = <<>>
    /\ UNCHANGED forkDb

(* "No blocks found in forkdb." *)
Open ==
    /\ pc = "open"
    /\ first' = head
    /\ pc' = IF head = NoBlock THEN "failed" ELSE "walk"
    /\ UNCHANGED <<forkDb, req, count, blockNum, out>>

(* Mutant: the block is looked up again and not its predecessor. *)
WalkBack_Stays ==
    /\ pc = "walk"
    /\ \E b \in blocks : b.id = first.id /\ first' = b
    /\ UNCHANGED <<forkDb, pc, req, count, blockNum, out>>

WalkBack ==
    /\ pc = "walk"
    /\ \E b \in blocks : b.id = first.prev /\ first' = b
    /\ UNCHANGED <<forkDb, pc, req, count, blockNum, out>>

(* The walk is over: the line with the number of blocks, and all of --info *)
Announce ==
    /\ pc = "walk"
    /\ \A b \in blocks : b.id # first.prev
    /\ count' = head.num - first.num + 1
    /\ pc' = IF req.info THEN "done" ELSE "output"
    /\ UNCHANGED <<forkDb, req, first, blockNum, out>>

(* "Unable to open file" *)
OutputFails ==
    /\ pc = "output"
    /\ pc' = "failed"
    /\ UNCHANGED <<forkDb, req, first, count, blockNum, out>>

FirstBlock == IF req.first < first.num THEN first.num ELSE req.first

OpenOutput ==
    /\ pc = "output"
    /\ IF req.packFrom = 0
       THEN blockNum' = FirstBlock /\ pc' = "print"
       ELSE blockNum' = req.packFrom /\ pc' = "pack"
    /\ UNCHANGED <<forkDb, req, first, count, out>>

Take(b) ==
    /\ out' = Append(out, b)
    /\ blockNum' = (blockNum + 1) % UintMod
    /\ UNCHANGED <<forkDb, pc, req, first, count>>

(* Mutant: any block of the number will do. *)
PrintBlock_AnyFork ==
    /\ pc = "print"
    /\ blockNum <= req.last
    /\ \E b \in blocks : b.num = blockNum /\ Take(b)

PrintBlock ==
    /\ pc = "print"
    /\ blockNum <= req.last
    /\ \E b \in CurrentChain : b.num = blockNum /\ Take(b)

LeavePrint ==
    /\ pc = "print"
    /\ blockNum > req.last \/ \A b \in CurrentChain : b.num # blockNum
    /\ pc' = "finish"
    /\ UNCHANGED <<forkDb, req, first, count, blockNum, out>>

(* Mutant: the interval is the number of headers. *)
PackLast_Excluded == (req.packFrom + req.interval - 1) % UintMod

(* The bound of the packed range, which is included. *)
PackLast == (req.packFrom + req.interval) % UintMod

PackHeader ==
    /\ pc = "pack"
    /\ blockNum <= PackLast
    /\ \E b \in CurrentChain : b.num = blockNum /\ Take(b)

LeavePack ==
    /\ pc = "pack"
    /\ blockNum > PackLast \/ \A b \in CurrentChain : b.num # blockNum
    /\ pc' = "finish"
    /\ UNCHANGED <<forkDb, req, first, count, blockNum, out>>

Finish ==
    /\ pc = "finish"
    /\ pc' = "done"
    /\ UNCHANGED <<forkDb, req, first, count, blockNum, out>>

ToolStep ==
    \/ Open
    \/ WalkBack
    \/ Announce
    \/ OutputFails
    \/ OpenOutput
    \/ PrintBlock
    \/ LeavePrint
    \/ PackHeader
    \/ LeavePack
    \/ Finish

Next == Start \/ ToolStep

Spec == Init /\ [][Next]_vars

(* One thread that waits for nothing. *)
FairSpec == Spec /\ WF_vars(ToolStep)

-----------------------------------------------------------------------------
TypeOK ==
    /\ blocks \subseteq Block
    /\ head \in blocks \cup {NoBlock}
    /\ pc \in Finished \cup {"open", "walk", "output", "print", "pack", "finish"}
    /\ req \in Request
    /\ first \in blocks \cup {NoBlock}
    /\ count \in Nat
    /\ blockNum \in Uint32
    /\ out \in Seq(blocks)

\* Where the current chain begins.
RootNum == IF head = NoBlock THEN 0
           ELSE CHOOSE n \in {b.num : b \in CurrentChain} : \A b \in CurrentChain : n <= b.num

\* What a command line asks for; the tool has to walk to find it.
Asked ==
    IF req.packFrom # 0 THEN [first |-> req.packFrom, last |-> PackLast]
    ELSE [first |-> IF req.first < RootNum THEN RootNum ELSE req.first, last |-> req.last]

Reader == INSTANCE BlockReader
          WITH chain <- CurrentChain, final <- head.num, range <- Asked,
               reading <- pc \notin Finished

(* The tool goes through its range of the head's branch in order, however  *)
(* the branches fork, and takes no block of another one.                   *)
ReadsTheChain == Reader!Spec

(* The two loops, one down by predecessor and one up by number, agree: a   *)
(* run over the whole range prints as many blocks as it has announced, and *)
(* each is the predecessor of the next.                                    *)
PrintsWhatItAnnounced ==
    pc = "done" /\ ~req.info /\ req.packFrom = 0 /\ req.first <= first.num
          /\ req.last >= head.num =>
        /\ Len(out) = count
        /\ \A i \in 1..Len(out) - 1 : out[i + 1].prev = out[i].id

(* The packed headers are those from the first one to that after the       *)
(* interval, both included, as far as the chain goes; none at all if the   *)
(* interval goes past 2^32.                                                *)
PacksBothEnds ==
    pc = "done" /\ ~req.info /\ req.packFrom # 0 /\ req.packFrom >= first.num =>
        {out[i].num : i \in 1..Len(out)} =
            IF req.packFrom + req.interval >= UintMod THEN {}
            ELSE {n \in req.packFrom..head.num : n <= req.packFrom + req.interval}

(* A run takes the blocks of its range, all of them, in their types.       *)
RangeRead == TypeOK /\ PrintsWhatItAnnounced /\ PacksBothEnds

(* The run ends. *)
ReadingEnds == pc = "open" ~> pc \in Finished

=============================================================================
