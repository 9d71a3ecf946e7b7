# eos-tools in TLA+

TLA+ models of the command line tools of this repository, the TLC runs that
check them on small instances, and TLAPS proofs of what matters most for
instances of every size. `PROJECT.json` lists the runs, the mutants each
property is tried against, the source lines of every definition, the findings,
the hazards and the theorems.

    tlc -config LauncherLifecycle.cfg LauncherLifecycle
    tlapm LauncherLifecycle_proofs.tla

A module is run with the configuration that `PROJECT.json` pairs it with. Paths
below are relative to `src/src/`.

## The system

The repository holds small programs around a nodeos network. None of them keeps
a process running: each is a one-shot command that reads files and options and
leaves files and processes behind. Concurrency therefore comes from the
*processes left behind* (nodeos), from *several runs over time or at once on the
same files*, from a node at work on the files that a tool reads, and from runs that
end in the middle.

| part | state | operations | interacts through | module |
|---|---|---|---|---|
| launcher, `eosio-launcher2/main.cpp`: sizing, placing, producers | bindings (hosts and instances), `aliases`, `next_node`, producers of each node | `initialize`, `load_servers`, `define_network`, `bind_nodes`, `producer_name` | the in-memory network that the topology and the generator read | `NodeAllocation` |
| launcher: topology | `peers` of each node, `peers_to_from` | `make_ring`, `make_star`, `make_mesh`, `next_ndx`, `skip_ndx` | `aliases` and `network.nodes` | `Topology` |
| launcher: `config.ini` | one file for each node | `write_config_file` | `peers`, ports and addresses of the instances | `NodeConfig` |
| launcher: generate, deploy, launch, kill | staging directory, `setprods.json`, `bios_boot.sh`, deployed config and data directories, pid files, `last_run.json` | `generate`, `write_*`, `deploy_config_files`, `launch`, `start_all`, `ignite`, `kill` | files, child processes, signals, ssh and scp | `LauncherLifecycle` |
| launcher: bounce, down, roll | `specific_nodeos_args` | `get_nodes`, `bounce`, `down`, `roll`, `do_command` | external scripts | `NodeCommands` |
| merkle simulation, `merkle/incremental_merkle.cpp` | `sim_chain` | `get_block_id_merkle_path_to_anchor_block`, `verify_merkle_path`, `inc_merkle_verify` | eosio's `incremental_merkle` | `MerklePath` |
| `eosio-forkdb` | `blocks_dir/tmp` | `initialize`, `read_log`, `main` | `forkdb.dat`, which the node and the library's `fork_database` remove and rewrite | `ForkdbTool`, `ForkdbRead` |
| `eosio-blocklog2` | none | `read_log` | block log and reversible database of a node | `BlocklogRead` |
| `eosio-pbftdb`, `eosio-checkpoints` | an in-memory index | `initialize`, `read_log` | `pbftdb.dat`, `checkpoints.dat` of a node | `PbftIndex` |
| `merkle/merkle.cpp`, `src/cpptest/main.cpp` | - | - | scratch; not built, and empty | - |

### What is hard, and what makes each part correct

- **Launcher files.** An invocation writes six kinds of files in a fixed order and
  may `exit()` between any two, catch an exception around one node, or be
  interrupted; a later one, of any mode, builds on what is there. Correct means:
  `last_run.json` covers the processes of the run it describes; `kill` reaches all
  of those and none that its mode excludes; the keys of nodes, boot script and
  `setprods.json` agree; without `--force` nothing that the launcher can see to be
  deployed is lost and no node of which it can see that runs twice. What it does see
  of a remote node is the outcome of one ssh command, which also fails when there is
  no connection.
- **Sizing and placing.** The bios node is counted in and out in three places,
  producer hosts and producing nodes are matched by position only, remainders are
  dealt out within a loop that also skips the bios node, ports are `uint16_t` from
  four ranges, and the digits of a producer's number overwrite the letters of its
  name. Correct means: no port twice on a host, every producer on exactly one node,
  evenly, under a name of its own, and servers filled as the file says, which the code
  does up to the first server without instances.
- **Topology.** Index arithmetic modulo the number of nodes that must step over
  the bios node, wherever it is, and a reference into the list that is being walked.
  Correct means: a ring is one cycle, a mesh is complete, nobody in them connects to
  itself, nobody at all to bios, and the search ends. (Stars can list a node as its own
  peer.)
- **config.ini.** Peers are names, addresses are computed from placement counters
  that leave the bios node out, and bnet doubles the ports. Correct means: every
  address listed is that of one node, and no port of a host is opened twice.
- **bounce, down, roll.** A list of numbers is matched against names and the last two
  characters of names, and scripts run one after the other until one fails.
- **Merkle paths.** Layers and indices found by shifts, values read from the trees
  of *other* blocks, a wrap-around in `size() - 3`. Correct means: every path has
  the right siblings, ends in a root of the anchor and verifies.
- **eosio-forkdb.** Works on a copy, because loading the fork database removes its
  file; the copy's directory survives failures and kills and is shared by runs.
  Correct means: the node's file is never touched, leftovers do no harm, and what
  is printed is the range of the head's branch that was announced.
- **eosio-blocklog2.** Two databases opened one after the other and read one after
  the other, while the node moves blocks from one to the other in two steps, switches
  forks and may crash. Correct means: in order, without gaps or repeats, each block
  one of the chain when it is read, and nothing missed that the log had.
- **eosio-pbftdb, eosio-checkpoints.** A file that the node removes, truncates and
  rewrites between any two steps of the tool, also while it is read as a stream.
  Correct means: one whole version of it, or nothing. That holds unless the node
  truncates a file of which the tool has read the beginning and writes it anew before
  the tool is at its end; then the output can mix versions, with one state of a block.

## The modules

`X_proofs` EXTENDS `X` and holds its theorems (`Forkdb_proofs` those of `ForkdbRead`
and `ForkdbTool`); `MCX` gives `X` constants for TLC.

### LauncherLifecycle

The state is the files of the current directory and of the nodes' hosts, the
nodeos processes, and the invocation that is running. Files that hold keys hold
the number of the run that wrote them (each generation makes new keys); a process
record keeps its pid, node, run and the configuration it read. A process that ends is
removed; its pid file stays. `signalled` is what the present `kill` has sent a signal to.

| actions | code |
|---|---|
| `InvokeLaunch`, `Leave` | `main`: options and mode, then `generate`, `start_all`, `ignite` |
| `MakeShape` | the topology, with which `generate` begins; a star may never be finished, and then only `Abort` ends the invocation |
| `WriteSetprodsFile`, `WriteBiosBoot`, `WriteNodeFiles`, `StartAll` | `generate` in its order |
| `RefuseToOverwrite`, `PrepareDirectories`, `CopyConfig`, `CopyFails` | `deploy_config_files` and `prep_remote_config_dir` |
| `PrepareUnseen` | the same, when ssh fails on `cd <data directory>`: the directory counts as absent (`unseen` says so until the node is recorded) |
| `Spawn`, `WritePidFile`, `RecordNode`, `LaunchThrows` | `launch` and the handlers around it in `start_all` |
| `SaveLastRun`, `Ignite` | the end of `start_all`, `ignite` |
| `InvokeKill`, `KillNode`, `KillDone` | `kill` |
| `Abort` | every `exit()`, uncaught exception, crash or Ctrl-C, at any point |
| `Stop`, `Produce` | nodeos processes: end, write blocks and state |

`bp::child` terminates a child in its destructor unless it was detached, which is
why an exception in `launch` ends a local child that was already started
(`LaunchThrows`) while an abort of the launcher leaves it alive.

### NodeAllocation

One behaviour is one invocation: `Initialize` (with `load_servers`) settles the
counts, then one action per round of the loops of `define_network`
(`PlaceOnLocalHost`, `PlaceOnNewHost`, `PlaceOnSameHost`) and of `bind_nodes`
(`BindNode`, `BindBios`, `Finish`; `RefuseToBind` for fewer than two). Ports are
numbers modulo `PortMod` (2^16 in the code). `producer_name` gives a name as a
sequence of letters, and a letter is its place in the alphabet: the digits of the
number replace letters of one of two templates, from the end.

### Topology, NodeConfig

One behaviour connects one network. `RingNode` and `RingPair` are rounds of the
loop of `make_ring`; the mesh and the star have an action per round of their inner
loops too (`MeshPeer`, `MeshNextNode`; `StarPick`, `StarMoveOn`, `StarConnect`,
`StarNextNode`), and the search inside `make_star` may not end. In `make_star` the
variable `peer` is a *reference* into `aliases`, so an assignment to it renames an
entry: `aliases` and `slot` model that. `next_ndx` and `skip_ndx` are operators.

`NodeConfig` composes `Topology` with what follows it in `generate`: `Shape` is a
step of the walk, and when that is done `WriteConfigFile` writes one file after the
other, in the order of the map of names. `Config(n)` is what a file says, from the
peers that the walk has left, the ports that placing gives (`Slot` is the counter
of the host) and the options. A file has ports, peers as pairs of host and port, and
the connection modes. `ConfigSpec` implements `Topology!Spec`.

### NodeCommands

`Initialize` fills `specific_nodeos_args` (`RefuseSpecific`: a number is too high).
`GetNodes` is `get_nodes` with `find_node` inside, `RefuseNodes` its refusal of a
number that no node has; `GetHosts` takes the list of `--roll`. `Bounce`,
`BounceThrows`, `Down` and `Roll`, `RollUnknown` take the first entry that is left,
run its script and record in `acted` what was run where with which arguments; the
script, external, may fail, which ends the run. A node has the number in its name and
the one `get_node_num` makes of the last two characters: all that differs is what
`NumMod` tells.

### IncrementalMerkle, MerklePath

`IncrementalMerkle` has eosio's tree as the code uses it (external). A digest is
the term it hashes: a leaf number or a pair. `append` goes through the layers with
`Collapse`. `MerklePath` is the program: it
fills the chain (`PushBlock`) and collects and verifies the path of every pair of
block and anchor (`StartTest`, `FindRoot`, `AddPair`, `AddSibling`, `AddRoot`,
`Verify`, `NextFrom`, `NextAnchor`, `Return`). `pc = "outside"` is a read outside
of the chain, which is undefined behaviour in the code.

### ForkdbTool, ForkdbRead

`ForkdbTool` is the life of the files. `StartRun`, `CreateTmp`, `RemoveOld`,
`BeginCopy`, `EndCopy`, `Load`, `ReadLog`, `Close`, `CleanUp` are the steps of a run in
order, `CopyFails` and `LoadFails` its errors, `Kill` its end at any point.
`--blocks-dir` is the directory of `forkdb.dat` or (`given`), as its help and its default
have it, the file itself: then `CreateTmpInFile` is the end of the run.
`NodeStart`, `NodeStop`, `NodeCrash` are the node, which takes `forkdb.dat` away when
it starts and writes it when it stops. `at` is where each run stands, `content`
what it has copied or loaded.
`alone` is a history variable: nothing but this run has taken a step since it began.
It is what the guarantees for a single run are conditional on; several runs at once
do disturb each other.

`ForkdbRead` is what `ReadLog` abstracts from, on the database that was loaded: a tree
of blocks and a head. `WalkBack` goes from the head to the root and counts; then
`PrintBlock` goes up by number (or `PackHeader`), each time asking the database
for the block of that number on the head's branch.

### BlockReader, JsonArray, BlocklogRead

`BlockReader` is the abstract specification of a tool that prints a range: the
chain may change above the last irreversible block; every block taken is, at that
moment, the one of the chain with the next number of the range. `ForkdbRead` and
`BlocklogRead` implement it (`Reader == INSTANCE BlockReader WITH ...`), the property
`ReadsTheChain` in both. `JsonArray` is the automaton of the text that `BlocklogRead` prints,
which the lines on stdout about what was found belong to when there is no output file.

In `BlocklogRead` the node works all the time: `Push`, `Pop`, `AppendToLog`,
`RemoveReversible` (a block becomes irreversible in two steps, and is in both places
between them), `NodeStart`, `NodeStop`, `NodeCrash`, `Repair`. The tool opens the log
(`OpenLog`: `end` is what it sees of it), then the reversible database
(`OpenReversible`, `OpenFails` when it is dirty), and goes through the log
(`ReadFromLog`, `LeaveLog`), the database (`ReadReversible`, `LeaveReversible`) or
packs (`PackHeader`, `LeavePack`).

### PbftIndex

Both programs at once: `tool` says which, and with it the order of the index and
what happens when there is no file. `Look` is the test that the file is there; `Open`,
`ReadField`, `ReadTorn` and `EndRead` are the reading of it as a stream, between any two
steps of which the node may take the file away (the tool goes on with the one it has
open, `held`) or truncate and rewrite it. If something of the file was read before
(`cut`), the stream goes on in the middle of the new version, and what follows can be
unpacked as anything (`torn`, `UnpackTorn`). `UnpackSize`, `UnpackState` and
`UnpackThrows` unpack, `Insert` puts a state into an index that is unique by block;
`PrintNext` prints the next in order. The node (external) removes the file when it
starts and writes it field by field when it stops.

### How they compose

`Topology` starts from what `NodeAllocation` ends with (a number of nodes and the
place of the bios node), `NodeConfig` continues `Topology`, and `LauncherLifecycle`
treats the resulting files as what run wrote them. The readers share nothing with the
launcher but the directories of its nodes.

## The runs

| run | bounds | shows |
|---|---|---|
| `launcher_lifecycle` | a local and a remote node, 3 invocations | types, `last_run.json` and kill, order of keys, what `--force` guards |
| `launcher_force` | a remote node, 2 invocations | *violation*: a launch without `--force` over a deployed configuration |
| `node_allocation` | options up to 5 nodes and 7 producers, 9 server files, 16 port numbers; 26, 27, 28, 480 and 700 producers | ports, producers and their names, servers, local networks |
| `topology` | every network of 2 to 16 nodes, bios anywhere; up to 6 nodes on several hosts under both plugins; every list of up to 3 modes | shapes, and the files written from them |
| `topology_star` | stars of up to 7 nodes, bios first, fair | *violation*: `make_star` does not end |
| `merkle_path` | chain of 31 blocks after 8 leaves, all pairs | paths |
| `forkdb_tool` | 2 runs at a time, given the directory or the file, 3 stops of the node | the copy in `tmp` |
| `forkdb_read` | every tree of up to 4 blocks with any head; numbers modulo 16; fair | the range of the head's branch, as `BlockReader` has it |
| `blocklog_read` | 2 forks, block numbers to 4, numbers modulo 8, to a file or stdout; fair | `BlockReader` next to a node; nothing missed, JSON, ends |
| `pbft_index` | 6 files of up to 3 of 4 states, both tools | one version or nothing, and when not |
| `node_commands` | 4 networks, lists of up to 3 nodes or hosts, numbers modulo 3 | scripts in order, arguments |
| `nodes_bounce` | the same | *violation*: a bounce that ends at the bios node |

Why the bounds are enough. Every interplay of invocations in the launcher is
between a run that left something, a later one that finds it, and a kill: three
invocations; nodes differ only in being local or remote, and the properties relate
at most one node to the files. For sizing, up to five nodes and seven producers
give every relation of `--nodes`, `--pnodes` and `--producers`, with and without
remainder; the server files have the bios node on a producer host, on another
host, twice and nowhere, and servers without instances at several places; the large
numbers of
producers reach names in which two and three letters are digits, from either
template. Sixteen nodes take `make_star` past 12 non-bios nodes, where `links` depends
on a square root. Thirty blocks after eight leaves pass the borders of subtrees of
every size up to 32 leaves; the code's own test (16384 leaves, 2000 blocks, anchors
from 200 on) does the same with a deeper tree. Two runs of the forkdb tool are enough
for any conflict over one file; three stops give the node a file, a gap and another
file. Four blocks make every relation of two branches; four block numbers let a block
be irreversible, in both places, reversible, and dropped for another; the small moduli
put the ends of ranges where they wrap. The files of three states have two forks of one
height and two states of one block, in either order, and any two of them can be the
versions that a torn reading mixes. With `NumMod` 3 there are two nodes
that share their number, as 00 and 100 do.

Deadlock is checked where the model says what comes after the end (`Terminating`
in `Topology`, `Return` in `MerklePath`, runs without end in the tools that read). It
is not in `LauncherLifecycle`, where the bound on invocations ends a behaviour, nor
in `NodeAllocation` and `NodeCommands`, where a behaviour is one invocation that stops
when it is done.

Fairness. In `ForkdbRead` and `BlocklogRead` it is weak fairness of `ToolStep`, one
thread that waits for nobody. Nothing is assumed of the operator, of failures, or of
nodes, which may work or stand still; that `ReadingEnds` is checked with a node that
pushes blocks up to `MaxBlock` only, so that a loop that the node feeds for ever is not
among its cases. `LauncherLifecycle` has no fairness: `make_star` need not end.
`Topology!FairSpec` is weak fairness of `Next`: the loops of one thread.

### What the violations say

- `topology_star`: in `make_star`, moving on to another peer assigns through a
  reference into `aliases`. With seven nodes the search for a free peer goes round for
  ever, and no network is generated.
- `launcher_force`: `prep_remote_config_dir` asks by ssh whether the data directory of a
  remote node is there and takes any failure for a no. When only that command fails,
  `mkdir -p` succeeds, `scp` replaces the deployed `config.ini`, and a second nodeos is
  started on the node, all without `--force`. `ForceGuardsSeen` in
  `launcher_lifecycle` says that this is the only way.
- `nodes_bounce`: with `--specific-nodeos`, `bounce` skips the bios node by comparing
  its number with `"bios"`, but `get_node_num` of `bios` is `os`; the cast of that to a
  number throws, and the nodes behind it are not bounced.

### Differences seen without a run

The models follow the code in these, and no property asks for the contrary:

- `kill` works from `last_run.json`, which the latest complete launch wrote. After an
  aborted launch, or a launch of a single node, other processes are not signalled.
- `--per-host` without a server file has no effect, and no node is named bios then.
- `get_node_num` keeps two characters: nodes 00 and 100 share their arguments.
  (`OwnArguments` is for networks where two are enough.)
- In `make_star` and `make_mesh` the check for an established connection compares a
  count in a *set* with 2, so it is always true (`NeverEstablished` in the proofs): both
  ends of a mesh list the connection. `skip_ndx` may find the node twice that it found
  before, so a mesh node can list a peer twice.
- `--as-json-array` of `eosio-blocklog2` makes JSON in an output file only: on stdout the
  lines about what was found come first. Together with packed output it is not JSON, nor
  is it ever in `eosio-forkdb`, which prints `key=` lines after every block
  (`eosio-forkdb/forkdb.cpp:115`).
- `--blocks-dir` of `eosio-forkdb` is by its help and its default the path of
  `forkdb.dat`; the code uses it as a directory. Such a run always fails, and when there
  is no file, as while a node runs, it puts a directory in its place
  (`CreateTmpInFile`).
- A server with no instances is given a node nevertheless, which takes the count of what
  it still gets below zero: all nodes of the servers after it end up there
  (`ServersFilled`).
- With more `--pnodes` than `--producers`, one node less produces than there are
  producers, because `prod_nodes` counts the bios node when the two are compared
  (`ProducingAsked`).
- A star can list a node as its own peer, and need not connect all nodes.
- `--pack-headers-times` is accepted and ignored.
- A packed interval that goes past 2^32 packs nothing; the bound is inclusive in
  `eosio-forkdb` and exclusive in `eosio-blocklog2`.
- `eosio-pbftdb` and `eosio-checkpoints` accept `--first`, `--last` and other options
  of the block log tool and do not use them.
- The comment over `producer_name` has "defproduceaa" follow "defproducerz"; the code
  gives number 26 "defproduceba".

## What is proved

Each `_proofs` module proves its theorems for all values of the constants that
satisfy the `ASSUME`s of its component. None of the main properties is inductive as
it stands; in each module `IInv` or the conjunctions named below strengthen it.

**LauncherLifecycle_proofs** (`NodesAssumption`; any nodes, any number of
invocations). `IInv` adds to `TypeOK`: `PidInv`, pids are handed out in order and a
pid file that names a process names one of its node; `RunInv`, no process has the
number of a run to come, and while a run is under way its processes are those
recorded in `running` and the one that `launch` works on; `KillInv`, the nodes that
`kill` has behind it were signalled by the pid their file has; `KeyInv`, the order in
which keys reach `setprods.json`, the boot script, the staging directory and the
nodes, with equality where the program counter says the present run wrote them;
`ForceInv`, a deployed configuration goes with a data directory, a process with a
deployed configuration, and a launch without `--force` works on a node that has
neither, or on one that ssh did not show (`unseen`). From it follow
`LastRunCoversItsRun` (`SavedRunCovered`), `KillStopsSavedRun` (`KillComplete`),
`KeysMatch` (`KeysInOrder`), and the action properties `KillStaysInMode`
(`KillConfined`) and `ForceGuardsSeen` (`ForceNeeded`).

**NodeAllocation_proofs** (`RequestsAssumption`, `PortsAssumption`). `TypeCorrect`.
`PortsNeverCollide`: on a host, nodes other than bios have pairwise different slots,
all below the number of nodes placed, the host being filled has no slot beyond its
counter, and there is one bios node at most per host; the four ranges of ports are
then apart. `EveryProducerDealt`: `SizesInv`, `Account` (the producers dealt so far are
those before the next, and what is left to deal fits the nodes left), `Shares` (the
shares are consecutive intervals), `BoundInv` and `TakersInv` (who produces, and how
many). `LocalNetworkMatches`: `AskedInv` and `FirstIsBios` follow the counts through
`initialize`. `NamesAreDistinct`: the digits of a number tell it from every other
(`NamesDiffer`), in a name of either template, so that as many names are given as
producers are dealt; `RequestsAssumption` has the number of producers fit the 32 bits
of the code's counter, which seven letters are enough for. `ServersAreHonoured`:
`ListedInv` (the counts that `load_servers` and `initialize` make of the list),
`FillInv` and `SpreadInv` (where in the sequence of nodes a server's begin and end, and
how many the one being filled still gets, or that it is idle and gets all that are
left), `EarlyInv` (only the first nodes produce);
the sum over a list is a recursive function, and that it grows
with the list is proved by least counterexample (`InstancesGrow`). With the code's
ports, `PortsAssumption` allows 888 nodes on a host.

**NodeConfig_proofs** (`CasesAssumption`, `SetupsAssumption`, `PortsAssumption`; any
number of nodes). The steps of `ConfigSpec` are those of `Topology` or leave its
variables alone (`ConfigFollowsTopology`); everything is proved of `ConfigSpec`.
`AliasInv` (no index but that of bios is renamed to bios), `WalkInv` (where the indices
of the loops can be) and `PeersInv` give `TypeCorrect` and `BiosUnconnected`, also for
stars. For `ShapesComplete`: `RingInv` (every node behind `i` has the next one for its
peer) and that `next_ndx` is injective make a ring one cycle; `MeshInv` (every node
behind `i` is linked with all others, `i` with those `skip_ndx` has reached) a mesh
complete; `CountInv` counts the peers; `ChainReaches` turns neighbours that are linked
into a network that is connected. For the files, `FilesInv` says that a file is
`Config(n)` of the finished network: then `SlotsApart` (a host's counter is never handed
out twice) gives `ListenersApart`, that and `StarInv` (no peer is taken twice, whatever
becomes of `aliases`) `AddressesListen`; and the places of the modes behind the last
"none", `ModesWritten`. All five properties of the run `topology` are thus proved for
networks of every size that fits between the ports.

**PbftIndex_proofs** (`StatesAssumption`, `DumpsAssumption`). `PhaseInv` says what the
tool has at each step and that it prints states of the index, each once; `IndexInv`, of
the index as it is filled: it has one state of a block, and, unless something torn was
read, its states are those of the version read so far, with the first of every block.
`TypeCorrect` and `VersionPrinted` follow. `AloneRunReads` needs `HandleInv` (a file is
open only while it is read), `FieldsInv` (what the node has written of the file, and
what was read of it) and `AloneInv`.

**NodeCommands_proofs** (`NetworksAssumption`, `CommandLinesAssumption`,
`NumModAssumption`). `ActInv`: what was acted on, followed by what is left to do, is the
list. `ActsAsListed` and `ArgumentsOwn`. That the list of all nodes is well formed is
proved by least counterexample.

**BlocklogRead_proofs** (`ForksAssumption`, `RequestsAssumption`, `BoundsAssumption`).
`IInv` is `TypeOK`, `NodeInv` (log, reversible database and head fit together, in every
step of a block from one to the other) and `CursorInv` (the next number to read, what
was taken and the end that was seen). `ReadsInOrder` is the refinement: initial states
are initial states of `BlockReader`, each step one of its steps or a stutter, and
`LogReadToItsEnd` is `LogPartComplete`. `BothInOneArray` follows the automaton of
the text through both loops. `AloneReadsItsRange` adds `PrintedInv` (the numbers that
were printed, and the end of the log as the run saw it), `GapFree`, `AloneInv` (what
the run has seen is still so) and `FailedInv` (what it can fail of).

**Forkdb_proofs**, reading (`DatabasesAssumption`, `RequestsAssumption`; fork databases of
any size). The current chain is the least set with the head that has the predecessors
of its blocks. `ChainInduction`, that what holds of the head and goes from a block to
its predecessor holds of the chain, is by that definition the induction that the rest
needs: the numbers go up to that of the head without a gap (`ChainReachesHead`), every
block but the head precedes one of the chain (`ChainSuccessor`), a number is that of
one block (`ChainNumbers`), and a block without predecessor has the least
(`ChainRoot`). `WalkInv` has the walk stay on the chain and end at that block,
`CursorInv` and `TakenInv` the blocks taken have the numbers asked for, and `EndInv` a
loop end where the range or the chain does. With these `ReadsInOrder` is the
refinement, and `RangeIsRead` says that the two loops agree.

**Forkdb_proofs**, the files (`StopsAssumption`, `NoneAssumption`; any number of runs and
stops). `AloneInv` follows an undisturbed run: what is in `tmp` at each of its
steps is its own copy of what `forkdb.dat` has. `AloneNeverFails`, `AloneUpToDate`;
`OriginalSafe` needs no more than the types but is over all actions.

**MerklePath_proofs** (`OffsetsAssumption`; a first tree of any depth but a single
leaf, and a chain of any length). All four properties of the run, from one invariant,
`Inv`:

- `Chain`, of the trees. `Tree(m, n)`: for every bit that is set in the number of
  leaves, the active node that belongs to it is the root of the last full subtree of
  that height, where `RefDigest` is the merkle tree by definition. `AppendCorrect` is
  that `append` leads from `Tree(m, n)` to `Tree(.., n + 1)`: on its way up, the new
  leaf is the end of a full subtree (`Whole`) until there is no left node to pair it with;
  from there on every left node is kept (`Partial`). The same climb shows that
  `inc_merkle_verify`, which computes its indices in another way, comes to the same
  root, hence `TreesAreAccepted`.
- `Ranges`, of the block and its anchor.
- `Collected`, of the path. The lowest full subtree over a block is there (`RootFound`):
  the number of the anchor's leaves, rounded down to the next power of two and the next,
  first falls below the block where the bit of a subtree over it is set. Below it, the
  node beside the one above the block is a left one, in the block's own tree or, when
  that has only begun it, first in that of the block after its last leaf
  (`LeftNodeCorrect`), or a right one, which the active nodes of its last leaf's block
  lead to (`RightNodeCorrect`); in each case the block that is read is between the first
  and the anchor, and the digest is `RefDigest`'s (`SiblingCorrect`). `ReadsStayInChain`
  and `PathsAreExact` follow, and by least counterexample over the layers, that such a
  path hashes to its root (`PathHashes`, `PathsVerify`).

Digests are terms here as in the run: two of them are equal only if what they hash is.

Induction, which the installed provers cannot instantiate, is replaced by two facts: a
set of numbers has a least one (`LeastNumber`, by well-foundedness, in the modules that
need it), and `Recursion` in `NodeConfig_proofs` (`LayersExist` and `LoopEnds` in
`MerklePath_proofs`): functions defined by recursion on the natural numbers exist. With
these, `skip_ndx`, the closure in `Reach`, the flags of the modes, the digits of a name,
the sums over a server list, the powers of two and the climbs through a merkle tree are
reasoned about by least counterexample.

Every invariant and every action property that a passing run checks is proved, and so are both
refinements of `BlockReader`. Only model-checked is what is stated under fairness
(`ReadingEnds` of the two readers): liveness and ENABLED are beyond the prover.

## What the models assume

- Launcher: `EOSIO_HOME` is the current directory, so that relative and absolute
  paths name the same files; one invocation runs at a time; the system does not
  reuse a pid; a node that `--launch` names exists; server addresses differ.
- Topology and files: exactly one bios node; nodes are placed so many to a host in
  the order of their indices; between the bases of the ports there is room for them.
- Merkle: digests do not collide (they are terms).
- ForkdbTool: a node writes `forkdb.dat` in one step. The external `fork_database`
  is modelled by what the tool's copy is there for: load removes the file, close
  writes it.
- ForkdbRead: block ids are distinct and none is 0, a block that has its predecessor in
  the database is one number above it, and numbers do not reach 2^32.
- BlocklogRead: one step of the node writes one block; the reversible database that a
  node has open may look dirty or not; the log object may or may not see what is
  appended after it was opened.
- PbftIndex: a node writes a field in one step and writes nothing else, and the tool
  reads a field in one step, the few bytes of the header among them; a truncated file is
  one that has fewer fields than its header says; what is unpacked of torn bytes is some
  state or throws.
- NodeCommands: scripts change nothing that the launcher reads.

## What is not modelled

`make_custom` and host map files (the network is read from a file); the text of
logging and genesis files and of the dot file, and the printing of blocks (formatting
without state); `local_identity`, of which only the result, a node is local or remote,
matters to the model; `merkle/merkle.cpp` (not built) and `src/cpptest/main.cpp` (an
empty `main`).

A next step would be an abstract ledger of deployments (which run owns a node, what may
replace it) for `LauncherLifecycle` to implement.
