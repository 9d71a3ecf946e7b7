---------------------------- MODULE BlocklogRead ----------------------------
(***************************************************************************)
(* eosio-blocklog2 while a node may use the same directory.  Irreversible  *)
(* blocks are in the block log; the newer ones are in the reversible       *)
(* database, from which the node removes a block after it has appended it  *)
(* to the log.  The tool opens both, prints what the log has and goes on   *)
(* with the reversible blocks; or it packs headers, of the log only.       *)
(*                                                                         *)
(* A block is a number and one of a few Forks, which stand for contents.   *)
(* Node, log and database are external: a block moves in two steps, a      *)
(* database that a node has open may or may not look dirty, one that a     *)
(* node crashed on does, and is then replaced by an empty one.  The log    *)
(* object may or may not see what is appended after it was opened.         *)
(***************************************************************************)
EXTENDS Integers, Sequences, JsonArray

CONSTANTS
    Forks,      \* what a block of a given number may hold
    Deferred,   \* those with a transaction that is only an id
    MaxBlock,   \* bound on block numbers
    UintMod,    \* 2^32
    Requests    \* the command lines that are tried

Block == [num : Nat, fork : Forks]

Uint32 == 0..UintMod - 1

Request == [first : Uint32, last : Uint32, info : BOOLEAN, array : BOOLEAN, toFile : BOOLEAN,
            extra : {"none", "header", "trx"}, packFrom : Uint32, interval : Uint32]

ASSUME ForksAssumption == Deferred \subseteq Forks
ASSUME RequestsAssumption == Requests \subseteq Request
ASSUME BoundsAssumption == /\ UintMod \in Nat
                           /\ MaxBlock \in Nat
                           /\ 2 <= MaxBlock
                           /\ MaxBlock + 1 < UintMod

VARIABLES
    log,        \* the block log: the block of each number from 1 on
    db,         \* the blocks in the reversible database
    head,       \* the number of the node's head block
    nodeUp,
    clean,      \* whether the database was closed properly
    pc,
    req,        \* the command line
    end,        \* head of the log when it was opened
    hasRev,     \* whether reversible_blocks is engaged
    blockNum,
    out,        \* the blocks printed, or the headers gathered
    json,       \* how far the output is a JSON array
    alone       \* whether the node has not moved since the run began

node == <<log, db, head, nodeUp, clean>>
tool == <<pc, req, end, hasRev, blockNum, out, json>>
vars == <<node, tool, alone>>

Logged == {[num |-> i, fork |-> log[i]] : i \in 1..Len(log)}

Chain == Logged \cup db

NoRequest == [first |-> 1, last |-> 0, info |-> FALSE, array |-> FALSE, toFile |-> FALSE,
              extra |-> "none", packFrom |-> 0, interval |-> 0]

Finished == {"idle", "done", "failed"}

-----------------------------------------------------------------------------
(* Mutant: each of the two loops has a contains_obj of its own. *)
NeedsComma_PerLoop ==
    req.array /\ out # <<>> /\ (pc = "rev" => blockNum - 1 > end)

(* contains_obj, which goes from one loop to the next *)
NeedsComma == req.array /\ out # <<>>

\* What a line on stdout, where the blocks go as well without an output
\* file, does to the array.
JsonAfterLine == IF req.toFile THEN json ELSE After(json, "text")

\* What printing a block does to the array.
JsonAfterBlock ==
    LET comma == IF NeedsComma THEN After(json, ",") ELSE json
        item  == After(comma, "{}")
    IN  IF req.extra = "none" THEN item ELSE After(item, "hex")

JsonAfterEnd == IF req.array THEN After(json, "]") ELSE json

-----------------------------------------------------------------------------
Init ==
    /\ \E f, g \in Forks : log = <<f, g>>
    /\ db = {}
    /\ head = 2
    /\ nodeUp = FALSE
    /\ clean = TRUE
    /\ pc = "idle"
    /\ req = NoRequest
    /\ end = 0
    /\ hasRev = FALSE
    /\ blockNum = 0
    /\ out = <<>>
    /\ json = "start"
    /\ alone = FALSE

(* main up to read_log *)
Start ==
    /\ pc \in Finished
    /\ req' \in Requests
    /\ pc' = "open"
    /\ end' = 0
    /\ hasRev' = FALSE
    /\ blockNum' = 0
    /\ out' = <<>>
    /\ json' = "start"
    /\ alone' = ~nodeUp
    /\ UNCHANGED node

(* The block log, and a line on what it has; a log of one block is         *)
(* refused, as is one that cannot be opened.                               *)
OpenLog ==
    /\ pc = "open"
    /\ end' = Len(log)
    /\ IF Len(log) > 1 THEN pc' = "openrev" /\ json' = JsonAfterLine
                       ELSE pc' = "failed" /\ json' = json
    /\ UNCHANGED <<node, req, hasRev, blockNum, out, alone>>

(* Mutant: the database is used however it looks. *)
MayUse_Dirty(usable) == TRUE

(* Whether the database opens without one of the two dirty flags.          *)
MayUse(usable) == \/ clean /\ usable
                  \/ ~clean /\ ~usable
                  \/ nodeUp

(* The reversible database is taken, with another line, if it has a block  *)
(* at or above the head of the log, and left alone if it is dirty.  Then   *)
(* the info is out.                                                        *)
OpenReversible ==
    /\ pc = "openrev"
    /\ \E usable \in BOOLEAN :
          /\ MayUse(usable)
          /\ hasRev' = (usable /\ \E b \in db : b.num >= end)
    /\ json' = IF hasRev' THEN JsonAfterLine ELSE json
    /\ pc' = IF req.info THEN "done" ELSE "output"
    /\ UNCHANGED <<node, req, end, blockNum, out, alone>>

(* Another error of the database, or an output file that cannot be opened. *)
OpenFails ==
    /\ \/ pc = "openrev"
       \/ pc = "output" /\ req.toFile
    /\ pc' = "failed"
    /\ UNCHANGED <<node, req, end, hasRev, blockNum, out, json, alone>>

FirstBlock == IF req.first < 1 THEN 1 ELSE req.first

OpenOutput ==
    /\ pc = "output"
    /\ json' = IF req.array THEN After(json, "[") ELSE json
    /\ IF req.packFrom = 0
       THEN blockNum' = FirstBlock /\ pc' = "log"
       ELSE blockNum' = req.packFrom /\ pc' = "pack"
    /\ UNCHANGED <<node, req, end, hasRev, out, alone>>

(* print_block: a transaction of which the block has only the id makes     *)
(* --print-packed-trx throw, when the block itself is already out.         *)
PrintBlock(b) ==
    /\ out' = Append(out, b)
    /\ json' = IF req.array THEN JsonAfterBlock ELSE json
    /\ blockNum' = (blockNum + 1) % UintMod
    /\ pc' = IF req.extra = "trx" /\ b.fork \in Deferred THEN "failed" ELSE pc
    /\ UNCHANGED <<node, req, end, hasRev, alone>>

(* Mutant: the last block is not included. *)
InRange_Exclusive == blockNum < req.last

InRange == blockNum <= req.last

ReadFromLog ==
    /\ pc = "log"
    /\ InRange
    /\ \E b \in Logged : b.num = blockNum /\ PrintBlock(b)

(* Mutant: the second loop starts with the oldest reversible block. *)
LeaveLog_ToOldest ==
    /\ pc = "log"
    /\ ~InRange \/ blockNum > end
    /\ pc' = IF hasRev THEN "rev" ELSE "finish"
    /\ \E n \in 1..MaxBlock :
          /\ hasRev => \A b \in db : b.num >= n
          /\ \E b \in db \cup {[num |-> blockNum]} : b.num = n
          /\ blockNum' = n
    /\ UNCHANGED <<node, req, end, hasRev, out, json, alone>>

(* The log has no block of this number, or had none when it was opened.    *)
LeaveLog ==
    /\ pc = "log"
    /\ ~InRange \/ blockNum > end
    /\ pc' = IF hasRev THEN "rev" ELSE "finish"
    /\ UNCHANGED <<node, req, end, hasRev, blockNum, out, json, alone>>

ReadReversible ==
    /\ pc = "rev"
    /\ InRange
    /\ \E b \in db : b.num = blockNum /\ PrintBlock(b)

(* Mutant: a missing block is waited for. *)
LeaveReversible_Waits ==
    /\ pc = "rev"
    /\ ~InRange
    /\ pc' = "finish"
    /\ UNCHANGED <<node, req, end, hasRev, blockNum, out, json, alone>>

LeaveReversible ==
    /\ pc = "rev"
    /\ ~InRange \/ \A b \in db : b.num # blockNum
    /\ pc' = "finish"
    /\ UNCHANGED <<node, req, end, hasRev, blockNum, out, json, alone>>

PackEnd == (req.packFrom + req.interval) % UintMod

PackHeader ==
    /\ pc = "pack"
    /\ blockNum < PackEnd
    /\ \E b \in Logged : b.num = blockNum /\ out' = Append(out, b)
    /\ blockNum' = (blockNum + 1) % UintMod
    /\ UNCHANGED <<node, pc, req, end, hasRev, json, alone>>

LeavePack ==
    /\ pc = "pack"
    /\ blockNum >= PackEnd \/ blockNum > end
    /\ pc' = "finish"
    /\ json' = IF req.array THEN After(json, "hex") ELSE json
    /\ UNCHANGED <<node, req, end, hasRev, blockNum, out, alone>>

Finish ==
    /\ pc = "finish"
    /\ pc' = "done"
    /\ json' = JsonAfterEnd
    /\ UNCHANGED <<node, req, end, hasRev, blockNum, out, alone>>

-----------------------------------------------------------------------------
NodeStart ==
    /\ ~nodeUp
    /\ clean
    /\ nodeUp' = TRUE
    /\ clean' = FALSE
    /\ alone' = FALSE
    /\ UNCHANGED <<log, db, head, tool>>

NodeStop ==
    /\ nodeUp
    /\ nodeUp' = FALSE
    /\ clean' = TRUE
    /\ alone' = FALSE
    /\ UNCHANGED <<log, db, head, tool>>

NodeCrash ==
    /\ nodeUp
    /\ nodeUp' = FALSE
    /\ alone' = FALSE
    /\ UNCHANGED <<log, db, head, clean, tool>>

(* The operator replaces a dirty database.                                 *)
Repair ==
    /\ ~nodeUp
    /\ ~clean
    /\ db' = {}
    /\ head' = Len(log)
    /\ clean' = TRUE
    /\ alone' = FALSE
    /\ UNCHANGED <<log, nodeUp, tool>>

(* A new head block *)
Push(f) ==
    /\ nodeUp
    /\ head < MaxBlock
    /\ head' = head + 1
    /\ db' = db \cup {[num |-> head', fork |-> f]}
    /\ alone' = FALSE
    /\ UNCHANGED <<log, nodeUp, clean, tool>>

(* The head block is dropped in favour of another fork.                    *)
Pop ==
    /\ nodeUp
    /\ head > Len(log)
    /\ head' = head - 1
    /\ db' = {b \in db : b.num < head}
    /\ alone' = FALSE
    /\ UNCHANGED <<log, nodeUp, clean, tool>>

(* A block becomes irreversible: first it goes to the log ...              *)
AppendToLog ==
    /\ nodeUp
    /\ \E b \in db : b.num = Len(log) + 1 /\ log' = Append(log, b.fork)
    /\ alone' = FALSE
    /\ UNCHANGED <<db, head, nodeUp, clean, tool>>

(* ... then it is taken from the database.                                 *)
RemoveReversible ==
    /\ nodeUp
    /\ \E b \in db : b.num <= Len(log)
    /\ db' = {b \in db : b.num > Len(log)}
    /\ alone' = FALSE
    /\ UNCHANGED <<log, head, nodeUp, clean, tool>>

-----------------------------------------------------------------------------
(* A step of a run that has begun *)
ToolStep ==
    \/ OpenLog
    \/ OpenReversible
    \/ OpenFails
    \/ OpenOutput
    \/ ReadFromLog
    \/ LeaveLog
    \/ ReadReversible
    \/ LeaveReversible
    \/ PackHeader
    \/ LeavePack
    \/ Finish

NodeStep ==
    \/ NodeStart
    \/ NodeStop
    \/ NodeCrash
    \/ Repair
    \/ \E f \in Forks : Push(f)
    \/ Pop
    \/ AppendToLog
    \/ RemoveReversible

Next == Start \/ ToolStep \/ NodeStep

Spec == Init /\ [][Next]_vars

(* The tool is one thread that waits for nobody.  The node owes nothing.   *)
FairSpec == Spec /\ WF_vars(ToolStep)

-----------------------------------------------------------------------------
TypeOK ==
    /\ log \in Seq(Forks)
    /\ db \subseteq Block
    /\ head \in Nat
    /\ nodeUp \in BOOLEAN
    /\ clean \in BOOLEAN
    /\ pc \in Finished \cup {"open", "openrev", "output", "log", "rev", "pack", "finish"}
    /\ req \in Request
    /\ end \in Nat
    /\ hasRev \in BOOLEAN
    /\ blockNum \in Nat
    /\ out \in Seq(Block)
    /\ json \in JsonStates
    /\ alone \in BOOLEAN

(* The range that a run goes through.                                      *)
Asked == IF req.packFrom = 0 THEN [first |-> FirstBlock, last |-> req.last]
                             ELSE [first |-> req.packFrom, last |-> PackEnd - 1]

Reader == INSTANCE BlockReader
          WITH chain <- Chain, final <- Len(log), range <- Asked,
               reading <- pc \notin Finished

(* While the node moves blocks from one file to the other, drops and       *)
(* replaces them, the tool goes through its range in order, takes no block *)
(* twice and leaves none out, and each block it takes is one of the node's *)
(* chain at that moment.                                                   *)
ReadsTheChain == Reader!Spec

(* However the node moves and drops blocks meanwhile, a run that ends      *)
(* normally has printed every block of its range that the log had when it  *)
(* was opened.                                                             *)
LogPartComplete ==
    pc = "done" /\ ~req.info /\ req.packFrom = 0 =>
        \A n \in FirstBlock..req.last :
            n <= end => \E i \in 1..Len(out) : out[i].num = n

\* The number of the last block that a run without a node can read.
LastReadable == IF req.packFrom # 0 \/ ~clean THEN Len(log) ELSE head

(* A run that has the directory for itself prints all of the range that is *)
(* there.  It fails before it prints anything, except at a transaction     *)
(* that it cannot pack.                                                    *)
AlonePrintsRange ==
    alone /\ ~req.info /\ req.packFrom = 0 =>
        /\ pc = "done" =>
              {out[i].num : i \in 1..Len(out)} =
                 {n \in 1..LastReadable : n >= req.first /\ n <= req.last}
        /\ pc = "failed" =>
              \/ out = <<>>
              \/ req.extra = "trx" /\ out[Len(out)].fork \in Deferred

(* It packs as many headers as the interval says or the log has, and none  *)
(* if the interval goes past 2^32.                                         *)
PacksInterval ==
    alone /\ ~req.info /\ req.packFrom # 0 /\ pc = "done" =>
        {out[i].num : i \in 1..Len(out)} =
            IF req.packFrom + req.interval >= UintMod THEN {}
            ELSE {n \in 1..LastReadable : /\ n >= req.packFrom
                                          /\ n < req.packFrom + req.interval}

(* A run that has the directory for itself reads what it is asked for.     *)
AloneReadsAsked == AlonePrintsRange /\ PacksInterval

(* "Print out json blocks wrapped in json array", both kinds of blocks in  *)
(* one, as long as nothing is to be printed in packed form: exactly with   *)
(* an output file, as on stdout lines of text stand before the array.      *)
ArrayIsJson ==
    req.array /\ req.extra = "none" /\ req.packFrom = 0 =>
        /\ req.toFile => json # "bad"
        /\ pc = "done" /\ ~req.info => (json = "closed" <=> req.toFile)

(* The run ends, even if the node keeps producing blocks.                  *)
ReadingEnds == pc = "open" ~> pc \in Finished

=============================================================================
