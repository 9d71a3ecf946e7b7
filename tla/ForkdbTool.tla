----------------------------- MODULE ForkdbTool -----------------------------
(***************************************************************************)
(* eosio-forkdb against the files of a blocks directory.  The fork         *)
(* database of the eosio library removes the file it is loaded from and    *)
(* writes it again when it is destroyed, so the tool copies forkdb.dat to  *)
(* the directory tmp and works there.  A node, external, does the same     *)
(* with forkdb.dat itself.  Several runs of the tool share tmp, and a run  *)
(* may be killed at any point.                                             *)
(*                                                                         *)
(* --blocks-dir is used as a directory.  Its help and its default, though, *)
(* name the file forkdb.dat, so a run is given one or the other.           *)
(*                                                                         *)
(* The content of forkdb.dat is the number of the node's stop that wrote   *)
(* it; 0 is no file.  A node writes the file in one step.                  *)
(***************************************************************************)
EXTENDS Integers

CONSTANTS
    Tools,      \* the runs of the tool that there may be at a time
    None,       \* no file
    MaxStops    \* bound on the stops of the node

ASSUME StopsAssumption == MaxStops \in Nat \ {0}

Stops == 0..MaxStops

\* A directory where forkdb.dat should be.
Directory == -1

\* A forkdb.dat in tmp, perhaps not complete.
TmpFile == [by : Tools, stop : Stops, whole : BOOLEAN]

ASSUME NoneAssumption == None \notin TmpFile

VARIABLES
    original,   \* forkdb.dat of the node's blocks directory
    nodeUp,     \* whether the node runs
    stops,      \* how often it was stopped
    tmpDir,     \* whether tmp_dir is there
    tmpFile,    \* tmp/forkdb.dat, with the run that created it
    given,      \* what --blocks-dir names, that directory or forkdb.dat itself
    at,
    content,    \* of the copy being made, then of the fork database
    outcome,    \* how the latest run ended
    alone       \* whether nothing but the run itself has happened since it began

fileVars == <<original, nodeUp, stops, tmpDir, tmpFile, given, at, content, outcome, alone>>

node == <<original, nodeUp, stops>>

-----------------------------------------------------------------------------
FilesInit ==
    /\ original = 1
    /\ nodeUp = FALSE
    /\ stops = 1
    /\ tmpDir = FALSE
    /\ tmpFile = None
    /\ given = [t \in Tools |-> "directory"]
    /\ at = [t \in Tools |-> "idle"]
    /\ content = [t \in Tools |-> 0]
    /\ outcome = [t \in Tools |-> "none"]
    /\ alone = [t \in Tools |-> FALSE]

Goto(t, label) == at' = [at EXCEPT ![t] = label]

\* An exception: main returns -1 and leaves tmp as it is.
Fail(t) ==
    /\ Goto(t, "idle")
    /\ outcome' = [outcome EXCEPT ![t] = "error"]
    /\ UNCHANGED <<tmpDir, tmpFile, given, content>>

StartRun(t) ==
    /\ at[t] = "idle"
    /\ Goto(t, "mkdir")
    /\ \E path \in {"directory", "file"} : given' = [given EXCEPT ![t] = path]
    /\ alone' = [u \in Tools |-> u = t /\ original > 0 /\ \A v \in Tools \ {t} : at[v] = "idle"]
    /\ outcome' = [outcome EXCEPT ![t] = "none"]
    /\ UNCHANGED <<node, tmpDir, tmpFile, content>>

CreateTmp(t) ==
    /\ at[t] = "mkdir"
    /\ given[t] = "directory"
    /\ tmpDir' = TRUE
    /\ Goto(t, "remove")
    /\ UNCHANGED <<node, tmpFile, given, content, outcome, alone>>

(* forkdb.dat/tmp cannot be created in a file; where there is no file it   *)
(* is, with its parent, and then there is no forkdb.dat/forkdb.dat to copy.*)
CreateTmpInFile(t) ==
    /\ at[t] = "mkdir"
    /\ given[t] = "file"
    /\ original' = IF original = 0 THEN Directory ELSE original
    /\ Fail(t)
    /\ UNCHANGED <<nodeUp, stops, alone>>

(* Mutant: a copy that is left over is left where it is. *)
RemoveOld_Keeps(t) ==
    /\ at[t] = "remove"
    /\ Goto(t, "copy")
    /\ UNCHANGED <<node, tmpDir, tmpFile, content, outcome, given, alone>>

(* Mutant: a copy that is left over is used. *)
RemoveOld_Reuses(t) ==
    /\ at[t] = "remove"
    /\ Goto(t, IF tmpFile = None THEN "copy" ELSE "load")
    /\ UNCHANGED <<node, tmpDir, tmpFile, content, outcome, given, alone>>

(* A copy that an earlier run left over is removed. *)
RemoveOld(t) ==
    /\ at[t] = "remove"
    /\ tmpFile' = None
    /\ Goto(t, "copy")
    /\ UNCHANGED <<node, tmpDir, content, outcome, given, alone>>

(* copy_file fails unless the source is there and the target is not.       *)
BeginCopy(t) ==
    /\ at[t] = "copy"
    /\ original > 0
    /\ tmpDir
    /\ tmpFile = None
    /\ tmpFile' = [by |-> t, stop |-> original, whole |-> FALSE]
    /\ content' = [content EXCEPT ![t] = original]
    /\ Goto(t, "copying")
    /\ UNCHANGED <<node, tmpDir, outcome, given, alone>>

CopyFails(t) ==
    /\ at[t] = "copy"
    /\ original <= 0 \/ ~tmpDir \/ tmpFile # None
    /\ Fail(t)
    /\ UNCHANGED <<node, alone>>

(* The file is still that of this run, or it was removed and the copy goes *)
(* nowhere.  If another run has written to it the contents mix.            *)
EndCopy(t) ==
    /\ at[t] = "copying"
    /\ tmpFile' = IF tmpFile = None THEN None
                  ELSE IF tmpFile.by # t THEN tmpFile
                  ELSE [tmpFile EXCEPT !.whole = tmpFile.stop = content[t]]
    /\ Goto(t, "load")
    /\ UNCHANGED <<node, tmpDir, content, outcome, given, alone>>

Loadable == IF tmpFile = None THEN FALSE ELSE tmpFile.whole

(* Mutant: blocks_dir is not set to tmp_dir. *)
Load_InPlace(t) ==
    /\ at[t] = "load"
    /\ original > 0
    /\ content' = [content EXCEPT ![t] = original]
    /\ original' = 0
    /\ Goto(t, "print")
    /\ UNCHANGED <<nodeUp, stops, tmpDir, tmpFile, outcome, given, alone>>

(* The constructor of fork_database removes the file it has loaded.        *)
Load(t) ==
    /\ at[t] = "load"
    /\ Loadable
    /\ content' = [content EXCEPT ![t] = tmpFile.stop]
    /\ tmpFile' = None
    /\ Goto(t, "print")
    /\ UNCHANGED <<node, tmpDir, outcome, given, alone>>

(* No file makes a database without a head, "No blocks found in forkdb"    *)
(* (and a directory for it); a broken one makes the constructor throw.     *)
LoadFails(t) ==
    /\ at[t] = "load"
    /\ ~Loadable
    /\ Goto(t, "idle")
    /\ outcome' = [outcome EXCEPT ![t] = "error"]
    /\ tmpDir' = TRUE
    /\ UNCHANGED <<node, tmpFile, content, given, alone>>

(* read_log prints; it throws when the output file cannot be opened.       *)
ReadLog(t) ==
    /\ at[t] = "print"
    /\ \E label \in {"printed", "thrown"} : Goto(t, label)
    /\ UNCHANGED <<node, tmpDir, tmpFile, content, outcome, given, alone>>

(* The destructor of fork_database writes the file again, if it can.       *)
Close(t) ==
    /\ at[t] \in {"printed", "thrown"}
    /\ tmpFile' = IF ~tmpDir THEN None
                  ELSE IF tmpFile = None THEN [by |-> t, stop |-> content[t], whole |-> TRUE]
                  ELSE [tmpFile EXCEPT !.stop = content[t], !.whole = TRUE]
    /\ Goto(t, IF at[t] = "printed" THEN "cleanup" ELSE "idle")
    /\ outcome' = IF at[t] = "printed" THEN outcome ELSE [outcome EXCEPT ![t] = "unprinted"]
    /\ UNCHANGED <<node, tmpDir, content, given, alone>>

(* main removes tmp and returns 0. *)
CleanUp(t) ==
    /\ at[t] = "cleanup"
    /\ tmpDir' = FALSE
    /\ tmpFile' = None
    /\ Goto(t, "idle")
    /\ outcome' = [outcome EXCEPT ![t] = "ok"]
    /\ UNCHANGED <<node, content, given, alone>>

Kill(t) ==
    /\ at[t] # "idle"
    /\ Goto(t, "idle")
    /\ outcome' = [outcome EXCEPT ![t] = "killed"]
    /\ UNCHANGED <<node, tmpDir, tmpFile, content, given, alone>>

-----------------------------------------------------------------------------
(* The node cannot read its fork database from a directory, nor write it   *)
(* to one.                                                                 *)
NodeStart ==
    /\ ~nodeUp
    /\ original # Directory
    /\ stops < MaxStops
    /\ nodeUp' = TRUE
    /\ original' = 0
    /\ alone' = [t \in Tools |-> FALSE]
    /\ UNCHANGED <<stops, tmpDir, tmpFile, given, at, content, outcome>>

NodeStop ==
    /\ nodeUp
    /\ nodeUp' = FALSE
    /\ stops' = stops + 1
    /\ original' = IF original = Directory THEN Directory ELSE stops'
    /\ alone' = [t \in Tools |-> FALSE]
    /\ UNCHANGED <<tmpDir, tmpFile, given, at, content, outcome>>

NodeCrash ==
    /\ nodeUp
    /\ nodeUp' = FALSE
    /\ alone' = [t \in Tools |-> FALSE]
    /\ UNCHANGED <<original, stops, tmpDir, tmpFile, given, at, content, outcome>>

FilesNext ==
    \/ \E t \in Tools :
          \/ StartRun(t)
          \/ CreateTmp(t)
          \/ CreateTmpInFile(t)
          \/ RemoveOld(t)
          \/ BeginCopy(t)
          \/ CopyFails(t)
          \/ EndCopy(t)
          \/ Load(t)
          \/ LoadFails(t)
          \/ ReadLog(t)
          \/ Close(t)
          \/ CleanUp(t)
          \/ Kill(t)
    \/ NodeStart
    \/ NodeStop
    \/ NodeCrash

FilesSpec == FilesInit /\ [][FilesNext]_fileVars

-----------------------------------------------------------------------------
FilesTypeOK ==
    /\ original \in Stops \cup {Directory}
    /\ nodeUp \in BOOLEAN
    /\ stops \in Stops
    /\ tmpDir \in BOOLEAN
    /\ tmpFile \in {None} \cup TmpFile
    /\ given \in [Tools -> {"directory", "file"}]
    /\ at \in [Tools -> {"idle", "mkdir", "remove", "copy", "copying", "load", "print",
                         "printed", "thrown", "cleanup"}]
    /\ content \in [Tools -> Stops]
    /\ outcome \in [Tools -> {"none", "ok", "error", "unprinted", "killed"}]
    /\ alone \in [Tools -> BOOLEAN]
    /\ tmpFile # None => tmpDir
    /\ nodeUp => stops < MaxStops

(* No run of the tool, nor several at once, changes or loses the file that *)
(* the node will start from: only the node itself does.  But a run that is *)
(* given the path of the file puts a directory in its place when the file  *)
(* is not there, and the node cannot write its fork database any more.     *)
OriginalKept ==
    [][original' # original =>
          \/ nodeUp' # nodeUp
          \/ /\ original = 0 /\ original' = Directory
             /\ \E t \in Tools : at[t] = "mkdir" /\ given[t] = "file"]_fileVars

(* Whatever runs killed before have left in tmp, a run that is given the   *)
(* directory and has it for itself does not fail when there is a           *)
(* forkdb.dat.  A run that is given forkdb.dat, as the help of --blocks-dir*)
(* says and as its default has it, never goes through.                     *)
AloneSucceeds ==
    \A t \in Tools :
        /\ alone[t] /\ given[t] = "directory" => outcome[t] # "error"
        /\ given[t] = "file" => outcome[t] # "ok"

(* And what it prints is what forkdb.dat has, never what an earlier run    *)
(* had copied.                                                             *)
AlonePrintsCurrent ==
    \A t \in Tools :
        alone[t] /\ at[t] \in {"print", "printed", "thrown", "cleanup"} =>
            content[t] = original

=============================================================================
