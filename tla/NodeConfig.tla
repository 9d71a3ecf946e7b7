----------------------------- MODULE NodeConfig -----------------------------
(***************************************************************************)
(* From the topology to the files: when the peers of every node are known, *)
(* generate() writes a config.ini for each node, with the addresses where  *)
(* it listens and the addresses it connects to.  This module adds ports,   *)
(* plugins, connection modes and the files to Topology.                    *)
(*                                                                         *)
(* Nodes are placed PerHost at a time, in the order of their indices; an   *)
(* address is a host and a port.  Keys and the lines that are the same in  *)
(* every file are left out.                                                *)
(***************************************************************************)
EXTENDS Topology

CONSTANTS
    Setups,     \* a network with the options that bear on its files
    P2PBase,    \* host_def::base_p2p_port
    HttpBase,   \* host_def::base_http_port
    BiosGap,    \* how far below them the ports of the bios node are
    ExtraGap    \* how far above a bnet port that of the net plugin is

Modes == {"any", "producers", "specified", "none"}

Setup == [net : Case, perHost : Nat \ {0}, plugin : {"net", "bnet"}, modes : Seq(Modes)]

ASSUME SetupsAssumption == Setups \subseteq Setup

(* A network has room for its nodes between the ports that they start      *)
(* from: with the ports of the code, for 888 of them.                      *)
ASSUME PortsAssumption ==
    /\ P2PBase \in Nat /\ HttpBase \in Nat /\ BiosGap \in Nat /\ ExtraGap \in Nat
    /\ 0 < BiosGap /\ BiosGap <= HttpBase
    /\ \A c \in Cases :
          /\ HttpBase + c.total <= P2PBase - BiosGap
          /\ c.total + BiosGap <= ExtraGap

VARIABLES
    setup,
    ini         \* the config.ini of each node, or NoFile

cvars == <<vars, setup, ini>>

NoFile == [ports |-> <<>>, peers |-> <<>>, allowed |-> {}]

-----------------------------------------------------------------------------
host(n) == n \div setup.perHost

\* p2p_count and http_count when a node is placed; bios is not counted.
Slot(n) == Cardinality({m \in Nodes : m < n /\ host(m) = host(n)})

p2p_port(n) == IF n = net.bios THEN P2PBase - BiosGap ELSE P2PBase + Slot(n)

http_port(n) == IF n = net.bios THEN HttpBase - BiosGap ELSE HttpBase + Slot(n)

\* Mutant: the address of the net plugin, with either plugin.
p2p_endpoint_Extra(n) ==
    <<host(n), p2p_port(n) + (IF setup.plugin = "bnet" THEN ExtraGap ELSE 0)>>

p2p_endpoint(n) == <<host(n), p2p_port(n)>>

\* Mutant: the net plugin, always loaded, listens where bnet does.
ExtraPorts_Same(n) == IF setup.plugin = "bnet" THEN <<p2p_port(n)>> ELSE <<>>

\* Under bnet the net plugin is loaded as well.
ExtraPorts(n) == IF setup.plugin = "bnet" THEN <<p2p_port(n) + ExtraGap>> ELSE <<>>

\* Mutant: the modes are only ever added up.
allowed_connections_AddsUp(modes) == {modes[k] : k \in 1..Len(modes)} \ {"none"}

\* The flags of the modes, one mode after the other; none clears them.
allowed_connections(modes) ==
    LET after[k \in Nat] ==
            IF k = 0 THEN {}
            ELSE IF modes[k] = "none" THEN {}
            ELSE after[k - 1] \cup {modes[k]}
    IN  after[Len(modes)]

AllowedLines(modes) ==
    IF "any" \in allowed_connections(modes) THEN {"any"}
    ELSE IF allowed_connections(modes) = {} THEN {"none"} ELSE allowed_connections(modes)

BiosLine(n) == IF n # net.bios THEN <<p2p_endpoint(net.bios)>> ELSE <<>>

Config(n) ==
    [ports   |-> <<http_port(n), p2p_port(n)>> \o ExtraPorts(n),
     peers   |-> BiosLine(n) \o [k \in 1..Len(peers[n]) |-> p2p_endpoint(peers[n][k])],
     allowed |-> AllowedLines(setup.modes)]

ConfigInit ==
    /\ Init
    /\ setup \in Setups
    /\ net = setup.net
    /\ ini = [n \in Names |-> NoFile]

\* network.nodes is a map by name, and "bios" comes first.
Earlier(n) == IF n = net.bios THEN {} ELSE {net.bios} \cup {m \in Names : m < n}

WriteConfigFile(n) ==
    /\ pc = "done"
    /\ ini[n] = NoFile
    /\ \A m \in Earlier(n) : ini[m] # NoFile
    /\ ini' = [ini EXCEPT ![n] = Config(n)]
    /\ UNCHANGED <<vars, setup>>

Shape == Next /\ UNCHANGED <<setup, ini>>

ConfigNext == Shape \/ \E n \in Names : WriteConfigFile(n)

ConfigSpec == ConfigInit /\ [][ConfigNext]_cvars

-----------------------------------------------------------------------------
Ini == [ports : Seq(Nat), peers : Seq(Nat \X Nat), allowed : SUBSET Modes]

ConfigTypeOK ==
    /\ TypeOK
    /\ setup \in Setups
    /\ DOMAIN ini = Names
    /\ \A n \in Names : ini[n] \in Ini

AllWritten == \A n \in Names : ini[n] # NoFile

\* The files in which the node of the address is the one that listens.
ListensAt(n, address) == host(n) = address[1] /\ ini[n].ports[2] = address[2]

(* Whatever make_star does to the aliases and wherever a node is placed:   *)
(* every address that a config.ini lists is that of the p2p plugin of one  *)
(* node, and no file of a ring or star lists an address twice.  (In a mesh *)
(* skip_ndx can arrive at the node it chose before.)                       *)
PeersListen ==
    AllWritten =>
        \A n \in Names :
            LET list == ini[n].peers
            IN  /\ \A k \in 1..Len(list) :
                      Cardinality({m \in Names : ListensAt(m, list[k])}) = 1
                /\ Shaped # "mesh" =>
                      \A j, k \in 1..Len(list) : list[j] = list[k] => j = k

(* The ports that the nodes of a host open are all different, also those   *)
(* that the net plugin opens besides bnet.                                 *)
ListenersDistinct ==
    /\ ConfigTypeOK
    /\ AllWritten =>
          \A m, n \in Names :
              host(m) = host(n) =>
                  \A j \in 1..Len(ini[m].ports), k \in 1..Len(ini[n].ports) :
                      ini[m].ports[j] = ini[n].ports[k] => m = n /\ j = k

(* The connection modes add up, but for "none", which takes back those     *)
(* before it, and "any", which makes the others superfluous.               *)
ModesHonoured ==
    \A n \in Names :
        ini[n] # NoFile =>
            LET Lasting == {k \in 1..Len(setup.modes) :
                               \A j \in k..Len(setup.modes) : setup.modes[j] # "none"}
                asked == {setup.modes[k] : k \in Lasting}
            IN  ini[n].allowed = IF asked = {} THEN {"none"}
                                 ELSE IF "any" \in asked THEN {"any"} ELSE asked

=============================================================================
