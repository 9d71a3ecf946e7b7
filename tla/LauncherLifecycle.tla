------------------------- MODULE LauncherLifecycle -------------------------
(***************************************************************************)
(* The life of a test network as eosio-launcher2 drives it: one-shot       *)
(* invocations of the program (generate and start a network, or kill one)  *)
(* that communicate only through files: the staging directory, the         *)
(* deployed configuration and data directories, a pid file per node and    *)
(* last_run.json.  An invocation can stop at any point (every exit() of    *)
(* the code, a crash, Ctrl-C); the nodeos processes it started live on.    *)
(*                                                                         *)
(* An invocation is numbered; the number also stands for the keys that its *)
(* generation makes (local_identity, producer_set), so a file that holds   *)
(* keys holds the number of the run that wrote it, and 0 is "no file".     *)
(* EOSIO_HOME is the current directory, so that relative and absolute      *)
(* paths name the same files; one invocation runs at a time; a nodeos      *)
(* process id is not reused.                                               *)
(***************************************************************************)
EXTENDS Integers

CONSTANTS
    Nodes,          \* the node instances of the bindings
    RemoteNodes,    \* those whose host is not is_local()
    None,           \* no node
    MaxRuns         \* bound on the number of invocations

ASSUME NodesAssumption == RemoteNodes \subseteq Nodes /\ None \notin Nodes

VARIABLES
    \* files of the current directory
    setprods,       \* setprods.json
    startScript,    \* bios_boot.sh
    staged,         \* staging/<config dir>/config.ini of each node
    lastRun,        \* last_run.json: the run that wrote it and its nodes
    \* files of the node's host
    config,         \* <config dir>/config.ini
    data,           \* <data dir>: absent, without blocks and state, or with
    pidfile,        \* <data dir>/nodeos.pid
    \* nodeos processes
    procs,          \* those that run
    lastPid,        \* the newest pid
    \* the running invocation
    pc,             \* where it is, "idle" when there is none
    run,            \* number of the latest invocation
    opt,            \* its options
    todo,           \* the nodes that its current loop has still to visit
    cur,            \* the node that launch() works on
    running,        \* last_run.running_nodes, in memory
    signalled,      \* the pids that it has sent a kill
    unseen          \* a failing ssh hid the data directory of cur from it

files    == <<setprods, startScript, staged, lastRun, config, data, pidfile>>
nodeos   == <<procs, lastPid>>
launcher == <<pc, run, opt, todo, cur, running, signalled, unseen>>
vars     == <<files, nodeos, launcher>>

-----------------------------------------------------------------------------
DataStates == {"absent", "empty", "chain"}

PCs == {"idle", "shape", "setprods", "bootscript", "nodefiles", "start", "prepared",
        "deployed", "spawned", "pidwritten", "ignite", "kill"}

\* Where launch() works on a single node.
Launching == {"prepared", "deployed", "spawned", "pidwritten"}

Modes == {"all", "local", "remote", "named", "none"}

\* Of a launch that starts nodes the targets are kept and not the mode.
Options == [mode : Modes \cup {"launch"}, force : BOOLEAN, nogen : BOOLEAN,
            targets : SUBSET Nodes]

NoOptions == [mode |-> "none", force |-> FALSE, nogen |-> FALSE, targets |-> {}]

\* Mutant: the host of a node is not looked at.
Selected_IgnoresHost(mode, S) == S

\* The nodes of S that a mode which goes by host selects.
Selected(mode, S) ==
    {n \in S : \/ mode = "all"
               \/ mode = "local" /\ n \notin RemoteNodes
               \/ mode = "remote" /\ n \in RemoteNodes}

\* The sets of nodes that start_all may visit in a mode.
TargetSets(mode) ==
    IF mode = "named" THEN {{n} : n \in Nodes} ELSE {Selected(mode, Nodes)}

Init ==
    /\ setprods = 0
    /\ startScript = 0
    /\ staged = [n \in Nodes |-> 0]
    /\ lastRun = [run |-> 0, nodes |-> {}]
    /\ config = [n \in Nodes |-> 0]
    /\ data = [n \in Nodes |-> "absent"]
    /\ pidfile = [n \in Nodes |-> 0]
    /\ procs = {}
    /\ signalled = {}
    /\ lastPid = 0
    /\ pc = "idle"
    /\ run = 0
    /\ opt = NoOptions
    /\ todo = {}
    /\ cur = None
    /\ running = {}
    /\ unseen = FALSE

-----------------------------------------------------------------------------
(* Mutant: the node that launch() worked on is not forgotten. *)
Leave_KeepsNode ==
    /\ pc' = "idle"
    /\ opt' = NoOptions
    /\ todo' = {}
    /\ running' = {}
    /\ signalled' = {}
    /\ unseen' = FALSE
    /\ UNCHANGED <<run, cur>>

(* The end of an invocation: what it held in memory is gone. *)
Leave ==
    /\ pc' = "idle"
    /\ opt' = NoOptions
    /\ todo' = {}
    /\ cur' = None
    /\ running' = {}
    /\ signalled' = {}
    /\ unseen' = FALSE
    /\ UNCHANGED run

Goto(label) ==
    pc' = label /\ UNCHANGED <<run, opt, cur, running, signalled, unseen>>

(* generate(), start_all() and ignite() *)
InvokeLaunch(mode, force, nogen) ==
    /\ pc = "idle"
    /\ run < MaxRuns
    /\ \E targets \in TargetSets(mode) :
          opt' = [mode |-> IF mode = "none" THEN mode ELSE "launch",
                  force |-> force, nogen |-> nogen, targets |-> targets]
    /\ run' = run + 1
    /\ pc' = "shape"
    /\ UNCHANGED <<files, nodeos, todo, cur, running, signalled, unseen>>

(* make_ring, make_star, make_mesh or make_custom.  make_star may go round *)
(* for ever (see TopologyStar.cfg), in which case this is never taken and  *)
(* only Abort ends the invocation.  --nogen skips the writing of files.    *)
MakeShape ==
    /\ pc = "shape"
    /\ todo' = IF opt.nogen THEN opt.targets ELSE Nodes
    /\ Goto(IF ~opt.nogen THEN "setprods"
            ELSE IF opt.mode = "none" THEN "ignite" ELSE "start")
    /\ UNCHANGED <<files, nodeos>>

(* Mutant: a missing template only skips the boot script. *)
WriteSetprodsFile_SkipsScript ==
    /\ pc = "setprods"
    /\ setprods' = run
    /\ Goto("nodefiles")
    /\ UNCHANGED <<startScript, staged, lastRun, config, data, pidfile, nodeos, todo>>

WriteSetprodsFile ==
    /\ pc = "setprods"
    /\ setprods' = run
    /\ Goto("bootscript")
    /\ UNCHANGED <<startScript, staged, lastRun, config, data, pidfile, nodeos, todo>>

(* write_bios_boot, then init_genesis *)
WriteBiosBoot ==
    /\ pc = "bootscript"
    /\ startScript' = run
    /\ Goto("nodefiles")
    /\ UNCHANGED <<setprods, staged, lastRun, config, data, pidfile, nodeos, todo>>

(* config.ini, logging.json and genesis.json of a node, into staging *)
WriteNodeFiles(n) ==
    /\ pc = "nodefiles"
    /\ n \in todo
    /\ staged' = [staged EXCEPT ![n] = run]
    /\ todo' = todo \ {n}
    /\ UNCHANGED <<setprods, startScript, lastRun, config, data, pidfile, nodeos,
                   pc, run, opt, cur, running, signalled, unseen>>

(* generate() returns; modes none and verify make start_all return at once *)
StartAll ==
    /\ pc = "nodefiles"
    /\ todo = {}
    /\ todo' = opt.targets
    /\ Goto(IF opt.mode = "none" THEN "ignite" ELSE "start")
    /\ UNCHANGED <<files, nodeos>>

-----------------------------------------------------------------------------
(* Mutant: config.ini is overwritten without asking. *)
MayDeploy_DataOnly(n) ==
    \/ opt.force
    \/ IF n \in RemoteNodes THEN data[n] = "absent" ELSE data[n] # "chain"

(* What deploy_config_files checks before it touches a node's directories. *)
MayDeploy(n) ==
    \/ opt.force
    \/ IF n \in RemoteNodes THEN data[n] = "absent"
                            ELSE config[n] = 0 /\ data[n] # "chain"

RefuseToOverwrite(n) ==
    /\ pc = "start"
    /\ n \in todo
    /\ ~MayDeploy(n)
    /\ Leave
    /\ UNCHANGED <<files, nodeos>>

(* The directories are made, or under --force stripped of blocks and state. *)
PrepareDirectories(n) ==
    /\ pc = "start"
    /\ n \in todo
    /\ MayDeploy(n)
    /\ data' = [data EXCEPT ![n] = "empty"]
    /\ todo' = todo \ {n}
    /\ cur' = n
    /\ pc' = "prepared"
    /\ UNCHANGED <<setprods, startScript, staged, lastRun, config, pidfile, nodeos,
                   run, opt, running, signalled, unseen>>

(* prep_remote_config_dir takes every failure of ssh, also of the          *)
(* connection, as the answer that the data directory is not there: mkdir -p*)
(* then leaves it as it is, and the launch goes on, --force or not.        *)
PrepareUnseen(n) ==
    /\ pc = "start"
    /\ n \in todo
    /\ n \in RemoteNodes
    /\ data[n] # "absent"
    /\ unseen' = TRUE
    /\ todo' = todo \ {n}
    /\ cur' = n
    /\ pc' = "prepared"
    /\ UNCHANGED <<files, nodeos, run, opt, running, signalled>>

(* The staged files are copied or sent with scp. *)
CopyConfig ==
    /\ pc = "prepared"
    /\ staged[cur] # 0
    /\ config' = [config EXCEPT ![cur] = staged[cur]]
    /\ Goto("deployed")
    /\ UNCHANGED <<setprods, startScript, staged, lastRun, data, pidfile, nodeos, todo>>

CopyFails ==
    /\ pc = "prepared"
    /\ staged[cur] = 0
    /\ Leave
    /\ UNCHANGED <<files, nodeos>>

(* bp::child, or the first half of the command line run with ssh *)
Spawn ==
    /\ pc = "deployed"
    /\ lastPid' = lastPid + 1
    /\ procs' = procs \cup {[pid |-> lastPid', node |-> cur, run |-> run,
                             cfg |-> config[cur]]}
    /\ Goto("spawned")
    /\ UNCHANGED <<files, todo>>

(* nodeos.pid, by the launcher itself or by the command run with ssh *)
WritePidFile ==
    /\ pc = "spawned"
    /\ pidfile' = [pidfile EXCEPT ![cur] = lastPid]
    /\ Goto("pidwritten")
    /\ UNCHANGED <<setprods, startScript, staged, lastRun, config, data, nodeos, todo>>

RecordNode ==
    /\ pc = "pidwritten"
    /\ running' = running \cup {cur}
    /\ pc' = "start"
    /\ cur' = None
    /\ unseen' = FALSE
    /\ UNCHANGED <<files, nodeos, run, opt, todo, signalled>>

(* Mutant: the child is detached before the steps that can throw. *)
LaunchThrows_ChildSurvives ==
    /\ pc \in {"deployed", "spawned", "pidwritten"}
    /\ cur \notin RemoteNodes
    /\ pc' = "start"
    /\ cur' = None
    /\ UNCHANGED <<files, nodeos, run, opt, todo, running, signalled, unseen>>

(* The handlers around launch(): a child that could not be started is      *)
(* skipped; one that was started before the exception is terminated by the *)
(* destructor of bp::child.  A remote command that fails exits (Abort).    *)
LaunchThrows ==
    /\ pc \in {"deployed", "spawned", "pidwritten"}
    /\ cur \notin RemoteNodes
    /\ procs' = IF pc = "deployed" THEN procs ELSE {p \in procs : p.pid # lastPid}
    /\ pc' = "start"
    /\ cur' = None
    /\ UNCHANGED <<files, lastPid, run, opt, todo, running, signalled, unseen>>

SaveLastRun ==
    /\ pc = "start"
    /\ todo = {}
    /\ lastRun' = [run |-> run, nodes |-> running]
    /\ Goto("ignite")
    /\ UNCHANGED <<setprods, startScript, staged, config, data, pidfile, nodeos, todo>>

Ignite ==
    /\ pc = "ignite"
    /\ Leave
    /\ UNCHANGED <<files, nodeos>>

-----------------------------------------------------------------------------
(* kill() reads last_run.json, and fails when there is none.  The modes    *)
(* named, none and verify do nothing and are no step.                      *)
InvokeKill(mode) ==
    /\ pc = "idle"
    /\ run < MaxRuns
    /\ lastRun.run # 0
    /\ run' = run + 1
    /\ opt' = [NoOptions EXCEPT !.mode = mode,
                                !.targets = Selected(mode, lastRun.nodes)]
    /\ todo' = Selected(mode, lastRun.nodes)
    /\ pc' = "kill"
    /\ UNCHANGED <<files, nodeos, cur, running, signalled, unseen>>

(* Mutant: the loop ends with the first node it signals. *)
KillNode_FirstOnly(n) ==
    /\ pc = "kill"
    /\ n \in todo
    /\ pidfile[n] # 0
    /\ signalled' = signalled \cup {pidfile[n]}
    /\ todo' = {}
    /\ UNCHANGED <<files, nodeos, pc, run, opt, cur, running, unseen>>

(* kill <pid of the pid file>, here or over ssh *)
KillNode(n) ==
    /\ pc = "kill"
    /\ n \in todo
    /\ pidfile[n] # 0
    /\ signalled' = signalled \cup {pidfile[n]}
    /\ todo' = todo \ {n}
    /\ UNCHANGED <<files, nodeos, pc, run, opt, cur, running, unseen>>

KillDone ==
    /\ pc = "kill"
    /\ todo = {}
    /\ Leave
    /\ UNCHANGED <<files, nodeos>>

-----------------------------------------------------------------------------
(* The environment: an exit() of the code on a failing write, scp or ssh,  *)
(* an exception nobody catches, a crash or Ctrl-C ends the invocation.     *)
Abort ==
    /\ pc # "idle"
    /\ Leave
    /\ UNCHANGED <<files, nodeos>>

(* A node ends, by itself or because it was told to. *)
Stop(p) ==
    /\ p \in procs
    /\ procs' = procs \ {p}
    /\ UNCHANGED <<files, lastPid, launcher>>

(* A running node writes blocks and state. *)
Produce(p) ==
    /\ p \in procs
    /\ data[p.node] = "empty"
    /\ data' = [data EXCEPT ![p.node] = "chain"]
    /\ UNCHANGED <<setprods, startScript, staged, lastRun, config, pidfile, nodeos, launcher>>

-----------------------------------------------------------------------------
Invoke ==
    \/ \E mode \in Modes, force, nogen \in BOOLEAN : InvokeLaunch(mode, force, nogen)
    \/ \E mode \in {"all", "local", "remote"} : InvokeKill(mode)

(* A step of the running invocation. *)
LauncherStep ==
    \/ MakeShape
    \/ WriteSetprodsFile
    \/ WriteBiosBoot
    \/ \E n \in Nodes : WriteNodeFiles(n)
    \/ StartAll
    \/ \E n \in Nodes : RefuseToOverwrite(n)
    \/ \E n \in Nodes : PrepareDirectories(n)
    \/ \E n \in Nodes : PrepareUnseen(n)
    \/ CopyConfig
    \/ CopyFails
    \/ Spawn
    \/ WritePidFile
    \/ RecordNode
    \/ LaunchThrows
    \/ SaveLastRun
    \/ Ignite
    \/ \E n \in Nodes : KillNode(n)
    \/ KillDone

Environment ==
    \/ Abort
    \/ \E p \in procs : Stop(p)
    \/ \E p \in procs : Produce(p)

Next == Invoke \/ LauncherStep \/ Environment

Spec == Init /\ [][Next]_vars

-----------------------------------------------------------------------------
TypeOK ==
    /\ setprods \in Nat
    /\ startScript \in Nat
    /\ staged \in [Nodes -> Nat]
    /\ lastRun \in [run : Nat, nodes : SUBSET Nodes]
    /\ config \in [Nodes -> Nat]
    /\ data \in [Nodes -> DataStates]
    /\ pidfile \in [Nodes -> Nat]
    /\ procs \subseteq [pid : Nat, node : Nodes, run : Nat, cfg : Nat]
    /\ signalled \subseteq Nat
    /\ lastPid \in Nat
    /\ pc \in PCs
    /\ run \in Nat
    /\ opt \in Options
    /\ todo \subseteq Nodes
    /\ cur \in Nodes \cup {None}
    /\ cur \in Nodes <=> pc \in Launching
    /\ running \subseteq Nodes
    /\ unseen \in BOOLEAN
    /\ unseen => cur \in RemoteNodes

(* Whatever was aborted since, last_run.json names the node of every live  *)
(* process of the run that wrote it, and that node's pid file names the    *)
(* process unless a later launch has replaced it: start_all records a node *)
(* exactly when its process was started and its pid file was written.      *)
LastRunCoversItsRun ==
    \A p \in procs :
        p.run = lastRun.run => p.node \in lastRun.nodes /\ pidfile[p.node] >= p.pid

(* When kill() with mode all has worked through its list, every process of *)
(* the run that wrote last_run.json that still runs has been sent a signal *)
(* by it, unless a later launch of the same node replaced its pid file.    *)
KillStopsSavedRun ==
    pc = "kill" /\ todo = {} /\ opt.mode = "all" =>
        \A p \in procs :
            p.run = lastRun.run =>
                p.pid \in signalled \/ pidfile[p.node] > p.pid

(* kill() never hits a process that belongs to a node its mode excludes or *)
(* to a node the saved run did not start: what it signals is the latest    *)
(* process of a listed node, never one of a node the mode leaves alone.    *)
KillStaysInMode ==
    [][\A p \in procs :
          p.pid \in signalled' \ signalled =>
              /\ p.node \in lastRun.nodes
              /\ opt.mode = "local" => p.node \notin RemoteNodes
              /\ opt.mode = "remote" => p.node \in RemoteNodes]_vars

(* When a run that generated its files reaches the boot script, the script,*)
(* setprods.json and every process of the run have the keys of that run.   *)
BootKeysMatch ==
    pc = "ignite" /\ ~opt.nogen =>
        /\ setprods = run
        /\ startScript = run
        /\ \A p \in procs : p.run = run => p.cfg = run

(* No node has keys the boot script and setprods.json are too old for,     *)
(* wherever a generation stopped: the files of the chain are written       *)
(* before those of the nodes.                                              *)
NodesNeverAhead ==
    /\ startScript <= setprods
    /\ \A n \in Nodes : config[n] <= startScript
    /\ \A p \in procs : p.cfg <= startScript

(* The boot script, setprods.json and the nodes agree on their keys.       *)
KeysMatch == BootKeysMatch /\ NodesNeverAhead

(* Without --force no launch replaces a deployed config.ini or starts a    *)
(* second process of a node that has one running, unless ssh failed when   *)
(* the launcher looked for the data directory of a remote node; and a chain*)
(* is never erased without it.  For a remote node only the data directory  *)
(* is looked at, so this rests on a deployed config.ini never being there  *)
(* without one.                                                            *)
ForceGuardsSeen ==
    [][/\ \A n \in Nodes :
             /\ config[n] # 0 /\ config'[n] # config[n] => opt.force \/ (unseen /\ n = cur)
             /\ data[n] = "chain" /\ data'[n] # "chain" => opt.force
       /\ \A p \in procs, q \in procs' \ procs :
             p.node = q.node => opt.force \/ (unseen /\ q.node = cur)]_vars

(* What the messages of the launcher say of every launch: where something  *)
(* is deployed, --force is needed to overwrite the configuration.          *)
ForceGuardsConfig ==
    [][\A n \in Nodes :
          config[n] # 0 /\ config'[n] # config[n] => opt.force]_vars

=============================================================================
