---------------------------- MODULE NodeCommands ----------------------------
(***************************************************************************)
(* --bounce, --down and --roll of eosio-launcher2: which nodes or hosts    *)
(* the lists on the command line name, and the scripts that are run for    *)
(* them one after the other.  The scripts themselves, in the home of a     *)
(* host, are external: a remote one may fail, a local one may be missing.  *)
(*                                                                         *)
(* A node is the bios node or has a number, of which its name keeps all    *)
(* digits and get_node_num the last two.                                   *)
(***************************************************************************)
EXTENDS Integers, Sequences

CONSTANTS
    Networks,   \* the bindings: sequences of hosts
    CommandLines,
    NumMod,     \* 100, where the two digits end
    NoArgs      \* for a node without arguments of its own

Node == [bios : BOOLEAN, num : Nat]

Host == [name : Nat, public : Nat, local : BOOLEAN, instances : Seq(Node)]

NodeList == [all : BOOLEAN, nums : Seq(Nat)]

CommandLine == [nodes : Nat, specific : Seq([num : Nat, arg : Nat]),
                bounce : NodeList, down : NodeList, roll : Seq(Nat)]

ASSUME NetworksAssumption == Networks \subseteq Seq(Host)
ASSUME CommandLinesAssumption == CommandLines \subseteq CommandLine
ASSUME NumModAssumption == NumMod \in Nat \ {0} /\ NoArgs \notin Nat

VARIABLES
    pc,
    bindings,
    req,        \* the command line
    specific_nodeos_args,
    todo,       \* the nodes, or the names of the hosts, that are left
    acted       \* the scripts that were run

vars == <<pc, bindings, req, specific_nodeos_args, todo, acted>>

Ended == {"done", "exit", "no_script", "terminated"}

NoList == [all |-> FALSE, nums |-> <<>>]

\* The environment of a script: -1 stands for "os" and for no EOSIO_NODE.
NoNum == -1

Script == [host : Nat, num : Nat \cup {NoNum}, args : Nat \cup {NoArgs}]

-----------------------------------------------------------------------------
get_node_num(node) == IF node.bios THEN NoNum ELSE node.num % NumMod

\* The nodes of the bindings, a host after the other.
AllNodes ==
    LET upTo[h \in 0..Len(bindings)] ==
            IF h = 0 THEN <<>>
            ELSE upTo[h - 1] \o [k \in 1..Len(bindings[h].instances) |->
                                    [host |-> h, node |-> bindings[h].instances[k]]]
    IN  upTo[Len(bindings)]

Named(k, num) == ~AllNodes[k].node.bios /\ AllNodes[k].node.num = num

Found(num) == \E k \in 1..Len(AllNodes) : Named(k, num)

\* The first node of that name.
find_node(num) ==
    AllNodes[CHOOSE k \in 1..Len(AllNodes) :
                Named(k, num) /\ \A j \in 1..k - 1 : ~Named(j, num)]

IsHost(h, id) == bindings[h].name = id \/ bindings[h].public = id

\* find_host_by_name_or_address
FoundHost(id) == \E h \in 1..Len(bindings) : IsHost(h, id)

find_host_by_name_or_address(id) ==
    CHOOSE h \in 1..Len(bindings) : IsHost(h, id) /\ \A j \in 1..h - 1 : ~IsHost(j, id)

-----------------------------------------------------------------------------
Init ==
    /\ pc = "initialize"
    /\ bindings \in Networks
    /\ req \in CommandLines
    /\ specific_nodeos_args = <<>>
    /\ todo = <<>>
    /\ acted = <<>>

\* A number that --nodes does not reach.
TooHigh == \E k \in 1..Len(req.specific) : req.specific[k].num >= req.nodes

Specified == {req.specific[k].num : k \in 1..Len(req.specific)}

(* Mutant: the first of several arguments of a node holds. *)
Initialize_FirstHolds ==
    /\ pc = "initialize"
    /\ ~TooHigh
    /\ specific_nodeos_args' =
          [n \in Specified |->
             req.specific[CHOOSE k \in 1..Len(req.specific) :
                /\ req.specific[k].num = n
                /\ \A j \in 1..k - 1 : req.specific[j].num # n].arg]
    /\ pc' = "main"
    /\ UNCHANGED <<bindings, req, todo, acted>>

(* The arguments of single nodes; a later one replaces an earlier one.     *)
Initialize ==
    /\ pc = "initialize"
    /\ ~TooHigh
    /\ specific_nodeos_args' =
          [n \in Specified |->
             req.specific[CHOOSE k \in 1..Len(req.specific) :
                /\ req.specific[k].num = n
                /\ \A j \in k + 1..Len(req.specific) : req.specific[j].num # n].arg]
    /\ pc' = "main"
    /\ UNCHANGED <<bindings, req, todo, acted>>

RefuseSpecific ==
    /\ pc = "initialize"
    /\ TooHigh
    /\ pc' = "exit"
    /\ UNCHANGED <<bindings, req, specific_nodeos_args, todo, acted>>

\* main looks at the options in this order.
Op == IF req.bounce # NoList THEN "bounce" ELSE IF req.down # NoList THEN "down" ELSE "roll"

List == IF Op = "bounce" THEN req.bounce ELSE req.down

GoodNumber(num) == num < NumMod /\ Found(num)

\* get_nodes and find_node have the last word on every number.
Accepts(nums) == \A k \in 1..Len(nums) : GoodNumber(nums[k])

(* Mutant: bad numbers are passed over. *)
GetNodes_Skips ==
    /\ pc = "main"
    /\ Op # "roll"
    /\ LET good == SelectSeq(List.nums, GoodNumber)
       IN  todo' = IF List.all THEN AllNodes
                   ELSE [k \in 1..Len(good) |-> find_node(good[k])]
    /\ pc' = Op
    /\ UNCHANGED <<bindings, req, specific_nodeos_args, acted>>

GetNodes ==
    /\ pc = "main"
    /\ Op # "roll"
    /\ List.all \/ Accepts(List.nums)
    /\ todo' = IF List.all THEN AllNodes
               ELSE [k \in 1..Len(List.nums) |-> find_node(List.nums[k])]
    /\ pc' = Op
    /\ UNCHANGED <<bindings, req, specific_nodeos_args, acted>>

(* exit(-1) *)
RefuseNodes ==
    /\ pc = "main"
    /\ Op # "roll"
    /\ ~List.all
    /\ ~Accepts(List.nums)
    /\ pc' = "exit"
    /\ UNCHANGED <<bindings, req, specific_nodeos_args, todo, acted>>

GetHosts ==
    /\ pc = "main"
    /\ Op = "roll"
    /\ todo' = req.roll
    /\ pc' = "roll"
    /\ UNCHANGED <<bindings, req, specific_nodeos_args, acted>>

-----------------------------------------------------------------------------
\* do_command with a script that runs, or of which only ssh says that it
\* failed; one that fails on this host is not noticed.
Run(h, script) ==
    /\ acted' = Append(acted, script)
    /\ todo' = Tail(todo)
    /\ \/ UNCHANGED pc
       \/ ~bindings[h].local /\ pc' = "exit"
    /\ UNCHANGED <<bindings, req, specific_nodeos_args>>

\* do_command when the script is not there, or ssh does not get through
Fail(h) ==
    /\ pc' = IF bindings[h].local THEN "no_script" ELSE "exit"
    /\ UNCHANGED <<bindings, req, specific_nodeos_args, todo, acted>>

ArgsOf(node) ==
    IF get_node_num(node) \in DOMAIN specific_nodeos_args
    THEN specific_nodeos_args[get_node_num(node)] ELSE NoArgs

\* get_node_num is never "bios", so that "os" is taken for a number.
NotANumber(node) == node.bios /\ DOMAIN specific_nodeos_args # {}

Bounce ==
    /\ pc = "bounce"
    /\ todo # <<>>
    /\ LET h == Head(todo).host
           node == Head(todo).node
       IN  /\ ~NotANumber(node)
           /\ \/ Fail(h)
              \/ Run(h, [host |-> h, num |-> get_node_num(node), args |-> ArgsOf(node)])

(* bad_lexical_cast, which nobody catches *)
BounceThrows ==
    /\ pc = "bounce"
    /\ todo # <<>>
    /\ NotANumber(Head(todo).node)
    /\ pc' = "terminated"
    /\ UNCHANGED <<bindings, req, specific_nodeos_args, todo, acted>>

Down ==
    /\ pc = "down"
    /\ todo # <<>>
    /\ LET h == Head(todo).host
       IN  \/ Fail(h)
           \/ Run(h, [host |-> h, num |-> get_node_num(Head(todo).node), args |-> NoArgs])

(* The hosts before this one have been rolled. *)
RollUnknown ==
    /\ pc = "roll"
    /\ todo # <<>>
    /\ ~FoundHost(Head(todo))
    /\ pc' = "exit"
    /\ UNCHANGED <<bindings, req, specific_nodeos_args, todo, acted>>

Roll ==
    /\ pc = "roll"
    /\ todo # <<>>
    /\ FoundHost(Head(todo))
    /\ LET h == find_host_by_name_or_address(Head(todo))
       IN  \/ Fail(h)
           \/ Run(h, [host |-> h, num |-> NoNum, args |-> NoArgs])

Return ==
    /\ pc \in {"bounce", "down", "roll"}
    /\ todo = <<>>
    /\ pc' = "done"
    /\ UNCHANGED <<bindings, req, specific_nodeos_args, todo, acted>>

Next ==
    \/ Initialize
    \/ RefuseSpecific
    \/ GetNodes
    \/ RefuseNodes
    \/ GetHosts
    \/ Bounce
    \/ BounceThrows
    \/ Down
    \/ RollUnknown
    \/ Roll
    \/ Return

Spec == Init /\ [][Next]_vars

-----------------------------------------------------------------------------
TypeOK ==
    /\ pc \in Ended \cup {"initialize", "main", "bounce", "down", "roll"}
    /\ bindings \in Networks
    /\ req \in CommandLines
    /\ DOMAIN specific_nodeos_args \subseteq 0..req.nodes - 1
    /\ \A n \in DOMAIN specific_nodeos_args : specific_nodeos_args[n] \in Nat
    /\ Op = "roll" => todo \in Seq(Nat)
    /\ Op # "roll" => todo \in Seq([host : 1..Len(bindings), node : Node])
    /\ acted \in Seq(Script)

\* Two digits are enough for the nodes of this network.
FewNodes == \A k \in 1..Len(AllNodes) : AllNodes[k].node.num < NumMod

\* The k-th script is for this node.
IsFor(k, node) ==
    /\ acted[k].num = get_node_num(node)
    /\ \E j \in 1..Len(AllNodes) : AllNodes[j] = [host |-> acted[k].host, node |-> node]

(* Bounce and down act on the nodes of the list, each on its own host, in  *)
(* the order of the list and none of them twice or on behalf of another,   *)
(* wherever a failure ends it; and on none if any number of the list is    *)
(* wrong.                                                                  *)
ActsOnListed ==
    Op # "roll" /\ FewNodes /\ acted # <<>> =>
        IF List.all
        THEN /\ \A k \in 1..Len(acted) : IsFor(k, AllNodes[k].node)
             /\ pc = "done" => Len(acted) = Len(AllNodes)
        ELSE /\ \A k \in 1..Len(List.nums) : Found(List.nums[k])
             /\ \A k \in 1..Len(acted) : IsFor(k, [bios |-> FALSE, num |-> List.nums[k]])
             /\ pc = "done" => Len(acted) = Len(List.nums)

(* A node that is bounced gets the arguments that the command line has for *)
(* it in the end, and no others.                                           *)
OwnArguments ==
    Op = "bounce" /\ FewNodes =>
        \A k \in 1..Len(acted) :
            LET own == {j \in 1..Len(req.specific) : req.specific[j].num = acted[k].num}
            IN  IF own = {} THEN acted[k].args = NoArgs
                ELSE \E j \in own : /\ \A i \in own : i <= j
                                    /\ acted[k].args = req.specific[j].arg

(* Hosts are rolled in the order of the list up to the first that is not   *)
(* known, under whichever of its two names; a run that ends without an     *)
(* error has rolled them all.                                              *)
RollsInOrder ==
    Op = "roll" =>
        /\ \A k \in 1..Len(acted) :
              /\ bindings[acted[k].host].name = req.roll[k]
                   \/ bindings[acted[k].host].public = req.roll[k]
              /\ \A j \in 1..k : FoundHost(req.roll[j])
        /\ pc = "done" => Len(acted) = Len(req.roll)

(* The nodes and hosts that are listed, in their order.                    *)
ActsInOrder == TypeOK /\ ActsOnListed /\ RollsInOrder

(* "comma-separated list of node numbers that will be restarted": no node  *)
(* of a list that was accepted is left out, unless a script fails.         *)
BounceGoesThrough == pc # "terminated"

=============================================================================
