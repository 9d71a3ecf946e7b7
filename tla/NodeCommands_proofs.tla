------------------------ MODULE NodeCommands_proofs ------------------------
(***************************************************************************)
(* Which nodes and hosts bounce, down and roll act on, for bindings and    *)
(* command lines of any length.                                            *)
(***************************************************************************)
EXTENDS NodeCommands, WellFoundedInduction, TLAPS

(* A set of natural numbers has a least one. *)
LEMMA LeastNumber ==
    ASSUME NEW T, T \subseteq Nat, T # {}
    PROVE  \E m \in T : \A k \in T : m <= k
  <1>1. \E m \in T : \A k \in T : <<k, m>> \notin OpToRel(<, Nat)
    BY WFMin, NatLessThanWellFounded
  <1>2. PICK m \in T : \A k \in T : <<k, m>> \notin OpToRel(<, Nat)
    BY <1>1
  <1>3. \A k \in T : ~(k < m)
    BY <1>2, Zenon DEF OpToRel
  <1> QED
    BY <1>3

(* A set of numbers with a bound has a greatest one. *)
LEMMA GreatestNumber ==
    ASSUME NEW b \in Nat, NEW T, T \subseteq 0..b, T # {}
    PROVE  \E m \in T : \A k \in T : k <= m
  <1> DEFINE Gaps == {b - k : k \in T}
  <1>1. Gaps \subseteq Nat /\ Gaps # {}
    <2>1. ASSUME NEW k \in T PROVE b - k \in Nat
      <3>1. k \in 0..b
        OBVIOUS
      <3> QED
        BY <3>1
    <2>2. Gaps \subseteq Nat
      BY <2>1
    <2>3. PICK k \in T : TRUE
      OBVIOUS
    <2>4. b - k \in Gaps
      OBVIOUS
    <2> QED
      BY <2>2, <2>4
  <1>2. PICK g \in Gaps : \A h \in Gaps : g <= h
    <2> HIDE DEF Gaps
    <2> QED
      BY <1>1, LeastNumber
  <1>3. PICK m \in T : g = b - m
    OBVIOUS
  <1>4. ASSUME NEW k \in T PROVE k <= m
    <2>1. b - k \in Gaps
      OBVIOUS
    <2>2. b - m <= b - k
      BY <1>2, <1>3, <2>1
    <2> QED
      BY <2>2
  <1> QED
    BY <1>4

-----------------------------------------------------------------------------
(* A node and the place of its host. *)
Entry == [host : 1..Len(bindings), node : Node]

(* What AllNodes takes from a host. *)
Row(h) == [k \in 1..Len(bindings[h].instances) |->
              [host |-> h, node |-> bindings[h].instances[k]]]

(* The nodes of the first hosts, as AllNodes gathers them. *)
Gathers(f, n) == f = [h \in 0..n |-> IF h = 0 THEN <<>> ELSE f[h - 1] \o Row(h)]

(* There is such a function for every number of hosts: there is no least  *)
(* number for which there is none.                                         *)
LEMMA GatherExists ==
    ASSUME NEW n \in Nat
    PROVE  \E f : Gathers(f, n)
  <1> DEFINE Missing == {m \in Nat : ~\E f : Gathers(f, m)}
  <1> SUFFICES Missing = {}
    OBVIOUS
  <1>1. SUFFICES ASSUME Missing # {} PROVE FALSE
    OBVIOUS
  <1>2. PICK m \in Missing : \A k \in Missing : m <= k
    <2>1. Missing \subseteq Nat
      OBVIOUS
    <2> HIDE DEF Missing
    <2> QED
      BY <1>1, <2>1, LeastNumber
  <1>3. CASE m = 0
    <2> DEFINE f == [h \in 0..0 |-> <<>>]
    <2>1. f = [h \in 0..0 |-> IF h = 0 THEN <<>> ELSE f[h - 1] \o Row(h)]
      OBVIOUS
    <2>2. Gathers(f, 0)
      BY <2>1 DEF Gathers
    <2> QED
      BY <1>3, <2>2
  <1>4. CASE m # 0
    <2>1. m - 1 \in Nat /\ m - 1 \notin Missing
      BY <1>2, <1>4
    <2>2. PICK g : Gathers(g, m - 1)
      BY <2>1
    <2> DEFINE f == [h \in 0..m |-> IF h = m THEN g[m - 1] \o Row(m) ELSE g[h]]
    <2>3. ASSUME NEW h \in 0..m
          PROVE  f[h] = IF h = 0 THEN <<>> ELSE f[h - 1] \o Row(h)
      <3>1. CASE h = m
        <4>1. f[h - 1] = g[m - 1]
          BY <1>4, <2>1, <3>1
        <4> QED
          BY <1>4, <3>1, <4>1
      <3>2. CASE h # m
        <4>1. h \in 0..m - 1
          BY <3>2
        <4>2. g[h] = IF h = 0 THEN <<>> ELSE g[h - 1] \o Row(h)
          BY <2>2, <4>1, Zenon DEF Gathers
        <4>3. f[h] = g[h]
          BY <3>2
        <4>4. h # 0 => f[h - 1] = g[h - 1]
          BY <3>2, <4>1
        <4> QED
          BY <4>2, <4>3, <4>4
      <3> QED
        BY <3>1, <3>2
    <2> HIDE DEF f
    <2>4. DOMAIN f = 0..m /\ f = [h \in 0..m |-> f[h]]
      BY DEF f
    <2>5. Gathers(f, m)
      BY <2>3, <2>4 DEF Gathers
    <2> QED
      BY <2>5
  <1> QED
    BY <1>3, <1>4

(* AllNodes is what such a function has for all the hosts. *)
LEMMA AllNodesGathered ==
    ASSUME TypeOK
    PROVE  \E f : Gathers(f, Len(bindings)) /\ AllNodes = f[Len(bindings)]
  <1> DEFINE g == CHOOSE f : Gathers(f, Len(bindings))
  <1>1. Len(bindings) \in Nat
    BY NetworksAssumption DEF TypeOK
  <1>2. Gathers(g, Len(bindings))
    BY <1>1, GatherExists
  <1>3. AllNodes = g[Len(bindings)]
    BY Zenon DEF AllNodes, Gathers, Row
  <1> QED
    BY <1>2, <1>3

(* Every entry of AllNodes is a node of the bindings with its host.        *)
LEMMA AllNodesType ==
    ASSUME TypeOK
    PROVE  AllNodes \in Seq(Entry)
  <1>1. PICK f : Gathers(f, Len(bindings)) /\ AllNodes = f[Len(bindings)]
    BY AllNodesGathered
  <1>2. bindings \in Seq(Host) /\ Len(bindings) \in Nat
    BY NetworksAssumption DEF TypeOK
  <1> DEFINE Wrong == {m \in 0..Len(bindings) : f[m] \notin Seq(Entry)}
  <1>3. ASSUME Wrong # {} PROVE FALSE
    <2>1. PICK m \in Wrong : \A k \in Wrong : m <= k
      <3>1. Wrong \subseteq Nat
        OBVIOUS
      <3> HIDE DEF Wrong
      <3> QED
        BY <1>3, <3>1, LeastNumber
    <2>2. f[m] = IF m = 0 THEN <<>> ELSE f[m - 1] \o Row(m)
      BY <1>1, Zenon DEF Gathers
    <2>3. CASE m = 0
      <3>1. f[m] = <<>>
        BY <2>2, <2>3
      <3>2. <<>> \in Seq(Entry)
        OBVIOUS
      <3> QED
        BY <3>1, <3>2
    <2>4. CASE m # 0
      <3>1. m \in 1..Len(bindings) /\ m - 1 \in 0..Len(bindings)
        BY <1>2, <2>4
      <3>2. f[m - 1] \in Seq(Entry)
        BY <2>1, <3>1
      <3>3. bindings[m] \in Host
        BY <1>2, <3>1
      <3>4. bindings[m].instances \in Seq(Node)
        BY <3>3 DEF Host
      <3>5. ASSUME NEW k \in 1..Len(bindings[m].instances)
            PROVE  [host |-> m, node |-> bindings[m].instances[k]] \in Entry
        <4>1. bindings[m].instances[k] \in Node
          BY <3>4
        <4> QED
          BY <3>1, <4>1 DEF Entry
      <3>6. Row(m) \in Seq(Entry)
        <4>1. Len(bindings[m].instances) \in Nat
          BY <3>4
        <4>2. Row(m) \in [1..Len(bindings[m].instances) -> Entry]
          BY <3>5 DEF Row
        <4> QED
          BY <4>1, <4>2
      <3>7. f[m] \in Seq(Entry)
        BY <2>2, <2>4, <3>2, <3>6
      <3> QED
        BY <3>7
    <2> QED
      BY <2>3, <2>4
  <1> QED
    BY <1>1, <1>2, <1>3

-----------------------------------------------------------------------------
(* find_node: the first node with the number.                              *)
LEMMA FindNode ==
    ASSUME TypeOK, NEW num \in Nat, Found(num)
    PROVE  \E k \in 1..Len(AllNodes) : Named(k, num) /\ find_node(num) = AllNodes[k]
  <1> DEFINE Those == {k \in 1..Len(AllNodes) : Named(k, num)}
             First(k) == Named(k, num) /\ \A j \in 1..k - 1 : ~Named(j, num)
  <1>1. Those \subseteq Nat /\ Those # {}
    BY DEF Found
  <1>2. PICK m \in Those : \A k \in Those : m <= k
    <2> HIDE DEF Those
    <2> QED
      BY <1>1, LeastNumber
  <1>3. Len(AllNodes) \in Nat
    BY AllNodesType
  <1>4. First(m)
    <2>1. ASSUME NEW j \in 1..m - 1 PROVE ~Named(j, num)
      BY <1>2, <1>3
    <2> QED
      BY <2>1
  <1>5. find_node(num) = AllNodes[CHOOSE k \in 1..Len(AllNodes) : First(k)]
    BY DEF find_node
  <1> HIDE DEF First
  <1>6. PICK k \in 1..Len(AllNodes) : First(k) /\ find_node(num) = AllNodes[k]
    BY <1>4, <1>5
  <1> QED
    BY <1>6 DEF First

(* find_host_by_name_or_address: a host with the name or address.          *)
LEMMA FindHost ==
    ASSUME TypeOK, NEW id, FoundHost(id)
    PROVE  /\ find_host_by_name_or_address(id) \in 1..Len(bindings)
           /\ IsHost(find_host_by_name_or_address(id), id)
  <1> DEFINE Those == {h \in 1..Len(bindings) : IsHost(h, id)}
             First(h) == IsHost(h, id) /\ \A j \in 1..h - 1 : ~IsHost(j, id)
  <1>1. Those \subseteq Nat /\ Those # {}
    BY DEF FoundHost
  <1>2. PICK m \in Those : \A h \in Those : m <= h
    <2> HIDE DEF Those
    <2> QED
      BY <1>1, LeastNumber
  <1>3. Len(bindings) \in Nat
    BY NetworksAssumption DEF TypeOK
  <1>4. First(m)
    <2>1. ASSUME NEW j \in 1..m - 1 PROVE ~IsHost(j, id)
      BY <1>2, <1>3
    <2> QED
      BY <2>1
  <1>5. find_host_by_name_or_address(id) = CHOOSE h \in 1..Len(bindings) : First(h)
    BY DEF find_host_by_name_or_address
  <1> HIDE DEF First
  <1>6. /\ find_host_by_name_or_address(id) \in 1..Len(bindings)
        /\ First(find_host_by_name_or_address(id))
    BY <1>4, <1>5
  <1> QED
    BY <1>6 DEF First

-----------------------------------------------------------------------------
(* What the scripts are to be run for, in order.                           *)
Wanted ==
    IF Op = "roll" THEN req.roll
    ELSE IF List.all THEN AllNodes
    ELSE [k \in 1..Len(List.nums) |-> find_node(List.nums[k])]

Listed == Op # "roll" => List.all \/ Accepts(List.nums)

(* A script that is right for the k-th of them.                            *)
Serves(script, k) ==
    /\ Op = "roll" => /\ FoundHost(req.roll[k])
                      /\ script.host = find_host_by_name_or_address(req.roll[k])
    /\ Op # "roll" => /\ script.host = Wanted[k].host
                      /\ script.num = get_node_num(Wanted[k].node)
    /\ Op = "bounce" => script.args = IF script.num \in DOMAIN specific_nodeos_args
                                      THEN specific_nodeos_args[script.num] ELSE NoArgs

(* The last arguments that the command line has for a node.                *)
SpecificInv ==
    /\ DOMAIN specific_nodeos_args = Specified
    /\ \A n \in Specified :
          \E j \in 1..Len(req.specific) :
             /\ req.specific[j].num = n
             /\ req.specific[j].arg = specific_nodeos_args[n]
             /\ \A i \in 1..Len(req.specific) : req.specific[i].num = n => i <= j

Running == {"bounce", "down", "roll"}

ActInv ==
    /\ pc \in {"initialize", "main"} => acted = <<>>
    /\ pc \in Running => pc = Op /\ Listed
    /\ pc \in Running \cup {"main"} => SpecificInv
    /\ acted # <<>> => Listed /\ SpecificInv
    /\ pc \in Running =>
          /\ Len(acted) + Len(todo) = Len(Wanted)
          /\ \A k \in 1..Len(todo) : todo[k] = Wanted[Len(acted) + k]
    /\ pc = "done" => Len(acted) = Len(Wanted)
    /\ Len(acted) <= Len(Wanted)
    /\ \A k \in 1..Len(acted) : Serves(acted[k], k)

(* Nothing changes what is asked for. *)
LEMMA Lasting ==
    ASSUME UNCHANGED <<bindings, req>>
    PROVE  /\ AllNodes' = AllNodes
           /\ Op' = Op
           /\ List' = List
           /\ Wanted' = Wanted
           /\ Specified' = Specified
           /\ Listed' <=> Listed
           /\ \A id : FoundHost(id)' <=> FoundHost(id)
           /\ \A id : find_host_by_name_or_address(id)' = find_host_by_name_or_address(id)
  <1>1. AllNodes' = AllNodes
    BY DEF AllNodes
  <1>2. Op' = Op /\ List' = List /\ Specified' = Specified
    BY DEF Op, List, Specified
  <1>3. \A num : find_node(num)' = find_node(num)
    BY <1>1 DEF find_node, Named
  <1>4. Wanted' = Wanted
    BY <1>1, <1>2, <1>3 DEF Wanted
  <1>5. Listed' <=> Listed
    BY <1>1, <1>2 DEF Listed, Accepts, GoodNumber, Found, Named
  <1>6. \A id : FoundHost(id)' <=> FoundHost(id)
    BY DEF FoundHost, IsHost
  <1>7. \A id : find_host_by_name_or_address(id)' = find_host_by_name_or_address(id)
    BY DEF find_host_by_name_or_address, IsHost
  <1> QED
    BY <1>1, <1>2, <1>4, <1>5, <1>6, <1>7


(* The parts of the command line and of the bindings. *)
LEMMA RequestFields ==
    ASSUME TypeOK
    PROVE  /\ req.nodes \in Nat
           /\ req.specific \in Seq([num : Nat, arg : Nat])
           /\ req.roll \in Seq(Nat)
           /\ List.nums \in Seq(Nat)
           /\ bindings \in Seq(Host)
  <1>1. req \in CommandLine
    BY CommandLinesAssumption DEF TypeOK
  <1>2. List \in NodeList
    BY <1>1 DEF List, CommandLine
  <1> QED
    BY <1>1, <1>2, NetworksAssumption DEF CommandLine, NodeList, TypeOK

(* What is asked for are hosts by name, or nodes with their hosts.         *)
LEMMA WantedType ==
    ASSUME TypeOK
    PROVE  /\ Op = "roll" => Wanted \in Seq(Nat)
           /\ Op # "roll" /\ Listed => Wanted \in Seq(Entry)
           /\ Len(Wanted) \in Nat
  <1>1. CASE Op = "roll"
    BY <1>1, RequestFields DEF Wanted
  <1>2. CASE Op # "roll" /\ List.all
    BY <1>2, AllNodesType DEF Wanted
  <1>3. CASE Op # "roll" /\ ~List.all
    <2>1. Len(List.nums) \in Nat /\ \A k \in 1..Len(List.nums) : List.nums[k] \in Nat
      BY RequestFields
    <2>2. Wanted = [k \in 1..Len(List.nums) |-> find_node(List.nums[k])]
      BY <1>3 DEF Wanted
    <2>3. Len(Wanted) \in Nat
      BY <2>1, <2>2
    <2>4. ASSUME Listed, NEW k \in 1..Len(List.nums)
          PROVE  find_node(List.nums[k]) \in Entry
      <3>1. Found(List.nums[k])
        BY <1>3, <2>4 DEF Listed, Accepts, GoodNumber
      <3>2. PICK m \in 1..Len(AllNodes) : find_node(List.nums[k]) = AllNodes[m]
        BY <2>1, <3>1, FindNode
      <3> QED
        BY <3>2, AllNodesType
    <2>5. ASSUME Listed PROVE Wanted \in Seq(Entry)
      <3>1. Wanted \in [1..Len(List.nums) -> Entry]
        BY <2>2, <2>4, <2>5
      <3> QED
        BY <2>1, <3>1
    <2> QED
      BY <1>3, <2>3, <2>5
  <1> QED
    BY <1>1, <1>2, <1>3

IInv == TypeOK /\ ActInv

(* The first state. *)
LEMMA InitIInv == Init => IInv
  <1> SUFFICES ASSUME Init PROVE IInv
    OBVIOUS
  <1>1. TypeOK
    <2>1. DOMAIN specific_nodeos_args = {}
      BY DEF Init
    <2>2. \A S : <<>> \in Seq(S)
      OBVIOUS
    <2> QED
      BY <2>1, <2>2 DEF Init, TypeOK
  <1>2. Len(acted) = 0 /\ Len(Wanted) \in Nat
    BY <1>1, WantedType DEF Init
  <1>3. ActInv
    BY <1>2 DEF Init, ActInv, Running
  <1> QED
    BY <1>1, <1>3 DEF IInv

(* Initialize: the last arguments of each node that has some.              *)
LEMMA InitializeStep ==
    ASSUME IInv, Initialize
    PROVE  IInv'
  <1> DEFINE Those(n) == {k \in 1..Len(req.specific) : req.specific[k].num = n}
             IsLast(k, n) == /\ req.specific[k].num = n
                             /\ \A j \in k + 1..Len(req.specific) : req.specific[j].num # n
             LastOf(n) == CHOOSE k \in 1..Len(req.specific) : IsLast(k, n)
  <1>1. /\ Len(req.specific) \in Nat
        /\ \A k \in 1..Len(req.specific) : req.specific[k].num \in Nat /\ req.specific[k].arg \in Nat
        /\ req.nodes \in Nat
    <2>1. req.specific \in Seq([num : Nat, arg : Nat]) /\ req.nodes \in Nat
      BY RequestFields DEF IInv
    <2> DEFINE Arg == [num : Nat, arg : Nat]
    <2>2. ASSUME NEW k \in 1..Len(req.specific)
          PROVE  req.specific[k] \in Arg
      <3>1. req.specific \in Seq(Arg)
        BY <2>1
      <3> HIDE DEF Arg
      <3> QED
        BY <3>1
    <2> QED
      BY <2>1, <2>2
  <1>2. ASSUME NEW n \in Specified
        PROVE  LastOf(n) \in 1..Len(req.specific) /\ IsLast(LastOf(n), n)
    <2>1. Those(n) \subseteq 0..Len(req.specific) /\ Those(n) # {}
      BY <1>1 DEF Specified
    <2>2. PICK m \in Those(n) : \A k \in Those(n) : k <= m
      <3> HIDE DEF Those
      <3> QED
        BY <1>1, <2>1, GreatestNumber
    <2>3. IsLast(m, n)
      <3>1. ASSUME NEW j \in m + 1..Len(req.specific) PROVE req.specific[j].num # n
        BY <1>1, <2>2
      <3> QED
        BY <3>1
    <2> HIDE DEF IsLast
    <2> QED
      BY <2>3
  <1>3. /\ specific_nodeos_args' = [n \in Specified |-> req.specific[LastOf(n)].arg]
        /\ pc = "initialize" /\ pc' = "main" /\ ~TooHigh
        /\ UNCHANGED <<bindings, req, todo, acted>>
    BY DEF Initialize
  <1> HIDE DEF LastOf
  <1>4. ASSUME NEW n \in Specified
        PROVE  n \in 0..req.nodes - 1 /\ specific_nodeos_args'[n] \in Nat
    BY <1>1, <1>2, <1>3, SMTT(30) DEF Specified, TooHigh
  <1>5. TypeOK'
    <2>1. DOMAIN specific_nodeos_args' = Specified
      BY <1>3
    <2> QED
      BY <1>3, <1>4, <2>1, Lasting DEF IInv, TypeOK
  <1>6. SpecificInv'
    <2>1. ASSUME NEW n \in Specified
          PROVE  \E j \in 1..Len(req.specific) :
                    /\ req.specific[j].num = n
                    /\ req.specific[j].arg = specific_nodeos_args'[n]
                    /\ \A i \in 1..Len(req.specific) : req.specific[i].num = n => i <= j
      <3>1. \A i \in 1..Len(req.specific) : req.specific[i].num = n => i <= LastOf(n)
        BY <1>1, <1>2
      <3> QED
        BY <1>2, <1>3, <3>1
    <2> QED
      BY <1>3, <2>1, Lasting DEF SpecificInv
  <1>7. ActInv'
    <2>1. acted' = <<>> /\ Len(acted') = 0 /\ Len(Wanted') \in Nat
      BY <1>3, Lasting, WantedType DEF IInv, ActInv
    <2> QED
      BY <1>3, <1>6, <2>1 DEF ActInv, Running
  <1> QED
    BY <1>5, <1>7 DEF IInv


(* GetNodes and GetHosts: what is asked for is what is left to do.         *)
LEMMA ListStep ==
    ASSUME IInv, GetNodes \/ GetHosts
    PROVE  IInv'
  <1>1. /\ pc = "main" /\ pc' = Op /\ Op \in Running
        /\ UNCHANGED <<bindings, req, specific_nodeos_args, acted>>
        /\ acted = <<>> /\ SpecificInv
    BY DEF GetNodes, GetHosts, Op, Running, IInv, ActInv
  <1>2. Listed /\ todo' = Wanted
    BY DEF GetNodes, GetHosts, Listed, Wanted
  <1>3. /\ Op = "roll" => todo' \in Seq(Nat)
        /\ Op # "roll" => todo' \in Seq(Entry)
        /\ Len(todo') = Len(Wanted) /\ Len(Wanted) \in Nat
    BY <1>2, WantedType DEF IInv
  <1>4. TypeOK'
    BY <1>1, <1>3, Lasting DEF IInv, TypeOK, Entry, Running
  <1>5. SpecificInv'
    BY <1>1, Lasting DEF SpecificInv
  <1>6. Len(acted') = 0
    BY <1>1
  <1>7. ActInv'
    <2>1. /\ Listed' /\ Op' = Op /\ Wanted' = Wanted
      BY <1>1, <1>2, Lasting
    <2> QED
      BY <1>1, <1>2, <1>3, <1>5, <1>6, <2>1 DEF ActInv, Running
  <1> QED
    BY <1>4, <1>7 DEF IInv

(* A step that ends the invocation without a script.                       *)
LEMMA EndStep ==
    ASSUME IInv, pc' \in Ended \ {"done"},
           UNCHANGED <<bindings, req, specific_nodeos_args, todo, acted>>
    PROVE  IInv'
  <1>1. TypeOK'
    BY Lasting DEF IInv, TypeOK
  <1>2. /\ Listed' <=> Listed
        /\ SpecificInv' <=> SpecificInv
        /\ Wanted' = Wanted
        /\ \A k : Serves(acted[k], k)' <=> Serves(acted[k], k)
    BY Lasting DEF SpecificInv, Serves, get_node_num
  <1>3. ActInv'
    BY <1>2 DEF IInv, ActInv, Ended, Running
  <1> QED
    BY <1>1, <1>3 DEF IInv

(* A script that was run for the next that is asked for.                   *)
LEMMA RunStep ==
    ASSUME IInv, pc \in Running, todo # <<>>,
           NEW h, NEW script \in Script, Run(h, script),
           Serves(script, Len(acted) + 1)
    PROVE  IInv'
  <1>1. /\ acted' = Append(acted, script) /\ todo' = Tail(todo)
        /\ pc' = pc \/ pc' = "exit"
        /\ UNCHANGED <<bindings, req, specific_nodeos_args>>
    BY DEF Run
  <1>2. /\ acted \in Seq(Script) /\ acted' \in Seq(Script)
        /\ Len(acted') = Len(acted) + 1 /\ Len(acted) \in Nat
        /\ acted'[Len(acted) + 1] = script
        /\ \A k \in 1..Len(acted) : acted'[k] = acted[k]
    BY <1>1 DEF IInv, TypeOK
  <1>3. \E S : todo \in Seq(S)
    BY DEF IInv, TypeOK
  <1>4. /\ Len(todo) \in Nat \ {0} /\ Len(todo') = Len(todo) - 1
        /\ \A k \in 1..Len(todo') : todo'[k] = todo[k + 1]
    BY <1>1, <1>3
  <1>5. TypeOK'
    <2>1. /\ Op = "roll" => todo' \in Seq(Nat)
          /\ Op # "roll" => todo' \in Seq([host : 1..Len(bindings), node : Node])
      BY <1>1 DEF IInv, TypeOK
    <2> QED
      BY <1>1, <1>2, <2>1, Lasting DEF IInv, TypeOK, Ended, Running
  <1>6. /\ Listed' <=> Listed
        /\ SpecificInv' <=> SpecificInv
        /\ Wanted' = Wanted /\ Op' = Op
    BY <1>1, Lasting DEF SpecificInv
  <1>7. pc = Op /\ Listed /\ SpecificInv
    BY DEF IInv, ActInv
  <1>8. /\ Len(acted) + Len(todo) = Len(Wanted) /\ Len(Wanted) \in Nat
        /\ \A k \in 1..Len(todo) : todo[k] = Wanted[Len(acted) + k]
    BY WantedType DEF IInv, ActInv
  <1>9. ASSUME NEW k \in 1..Len(acted') PROVE Serves(acted[k], k)'
    <2>1. Serves(acted'[k], k)
      <3>1. CASE k = Len(acted) + 1
        BY <1>2, <3>1
      <3>2. CASE k # Len(acted) + 1
        <4>1. k \in 1..Len(acted)
          BY <1>2, <3>2
        <4> QED
          BY <1>2, <4>1 DEF IInv, ActInv
      <3> QED
        BY <3>1, <3>2
    <2> QED
      BY <1>1, <2>1, Lasting DEF Serves, get_node_num
  <1>10. /\ Len(acted') + Len(todo') = Len(Wanted)
         /\ \A k \in 1..Len(todo') : todo'[k] = Wanted[Len(acted') + k]
    <2>1. ASSUME NEW k \in 1..Len(todo') PROVE todo'[k] = Wanted[Len(acted') + k]
      <3>1. k + 1 \in 1..Len(todo) /\ Len(acted) + (k + 1) = Len(acted') + k
        BY <1>2, <1>4
      <3> QED
        BY <1>4, <1>8, <3>1
    <2>2. Len(acted') + Len(todo') = Len(Wanted)
      <3>1. /\ Len(acted) \in Nat /\ Len(todo) \in Nat
            /\ Len(acted) + Len(todo) = Len(Wanted)
        BY <1>2, <1>4, <1>8
      <3>2. Len(acted') = Len(acted) + 1 /\ Len(todo') = Len(todo) - 1
        BY <1>2, <1>4
      <3> QED
        BY <3>1, <3>2
    <2> QED
      BY <2>1, <2>2
  <1>11. Len(acted') <= Len(Wanted)
    BY <1>2, <1>4, <1>8
  <1>12. ActInv'
    BY <1>1, <1>6, <1>7, <1>9, <1>10, <1>11 DEF ActInv, Running
  <1> QED
    BY <1>5, <1>12 DEF IInv


(* The head of what is left is the next that is asked for.                 *)
LEMMA HeadWanted ==
    ASSUME IInv, pc \in Running, todo # <<>>
    PROVE  /\ pc = Op
           /\ Head(todo) = Wanted[Len(acted) + 1]
           /\ Op # "roll" => Head(todo) \in Entry
           /\ Op = "roll" => Head(todo) = req.roll[Len(acted) + 1]
  <1>1. \E S : todo \in Seq(S)
    BY DEF IInv, TypeOK
  <1>2. Len(todo) \in Nat \ {0} /\ Head(todo) = todo[1]
    BY <1>1
  <1>3. pc = Op /\ Head(todo) = Wanted[Len(acted) + 1]
    BY <1>2 DEF IInv, ActInv
  <1>4. Op # "roll" => Head(todo) \in Entry
    <2>1. Op # "roll" => todo \in Seq(Entry)
      BY DEF IInv, TypeOK, Entry
    <2> QED
      BY <1>2, <2>1
  <1>5. Op = "roll" => Wanted = req.roll
    BY DEF Wanted
  <1> QED
    BY <1>3, <1>4, <1>5

(* get_node_num is a number of up to two digits, or NoNum. *)
LEMMA NodeNumber ==
    ASSUME NEW node \in Node
    PROVE  get_node_num(node) \in Nat \cup {NoNum}
  <1>1. node.num \in Nat /\ NumMod \in Nat \ {0}
    BY NumModAssumption DEF Node
  <1>2. node.num % NumMod \in Nat
    BY <1>1
  <1> QED
    BY <1>2 DEF get_node_num

(* Every step serves the next that is asked for, or ends the invocation.   *)
LEMMA IInvStep == IInv /\ [Next]_vars => IInv'
  <1> SUFFICES ASSUME IInv, [Next]_vars PROVE IInv'
    OBVIOUS
  <1>1. CASE Initialize
    BY <1>1, InitializeStep
  <1>2. CASE RefuseSpecific \/ RefuseNodes \/ BounceThrows \/ RollUnknown
    BY <1>2, EndStep DEF RefuseSpecific, RefuseNodes, BounceThrows, RollUnknown, Ended
  <1>3. CASE GetNodes \/ GetHosts
    BY <1>3, ListStep
  <1>4. ASSUME NEW h, pc \in Running, Fail(h) PROVE IInv'
    BY <1>4, EndStep DEF Fail, Ended
  <1>5. CASE Bounce
    <2> DEFINE h == Head(todo).host
               node == Head(todo).node
               script == [host |-> h, num |-> get_node_num(node), args |-> ArgsOf(node)]
    <2>1. pc = "bounce" /\ todo # <<>> /\ (Fail(h) \/ Run(h, script))
      BY <1>5 DEF Bounce
    <2>2. Op = "bounce" /\ Head(todo) = Wanted[Len(acted) + 1] /\ Head(todo) \in Entry
      BY <2>1, HeadWanted DEF Running
    <2>3. h \in Nat /\ node \in Node
      BY <2>2 DEF Entry
    <2>4. get_node_num(node) \in Nat \cup {NoNum}
      BY <2>3, NodeNumber
    <2>5. ArgsOf(node) \in Nat \cup {NoArgs}
      BY DEF ArgsOf, IInv, TypeOK
    <2>6. script \in Script
      BY <2>3, <2>4, <2>5 DEF Script
    <2>7. Serves(script, Len(acted) + 1)
      BY <2>2 DEF Serves, ArgsOf
    <2> HIDE DEF h, script
    <2>8. pc \in Running
      BY <2>1 DEF Running
    <2> QED
      BY <1>4, <2>1, <2>6, <2>7, <2>8, RunStep
  <1>6. CASE Down
    <2> DEFINE h == Head(todo).host
               node == Head(todo).node
               script == [host |-> h, num |-> get_node_num(node), args |-> NoArgs]
    <2>1. pc = "down" /\ todo # <<>> /\ (Fail(h) \/ Run(h, script))
      BY <1>6 DEF Down
    <2>2. Op = "down" /\ Head(todo) = Wanted[Len(acted) + 1] /\ Head(todo) \in Entry
      BY <2>1, HeadWanted DEF Running
    <2>3. h \in Nat /\ node \in Node
      BY <2>2 DEF Entry
    <2>4. get_node_num(node) \in Nat \cup {NoNum}
      BY <2>3, NodeNumber
    <2>5. script \in Script
      BY <2>3, <2>4 DEF Script
    <2>6. Serves(script, Len(acted) + 1)
      BY <2>2 DEF Serves
    <2> HIDE DEF h, script
    <2>7. pc \in Running
      BY <2>1 DEF Running
    <2> QED
      BY <1>4, <2>1, <2>5, <2>6, <2>7, RunStep
  <1>7. CASE Roll
    <2> DEFINE h == find_host_by_name_or_address(Head(todo))
               script == [host |-> h, num |-> NoNum, args |-> NoArgs]
    <2>1. pc = "roll" /\ todo # <<>> /\ FoundHost(Head(todo)) /\ (Fail(h) \/ Run(h, script))
      BY <1>7 DEF Roll
    <2>2. Op = "roll" /\ Head(todo) = req.roll[Len(acted) + 1]
      BY <2>1, HeadWanted DEF Running
    <2>3. h \in Nat
      BY <2>1, FindHost DEF IInv
    <2>4. script \in Script
      BY <2>3 DEF Script
    <2>5. Serves(script, Len(acted) + 1)
      BY <2>1, <2>2 DEF Serves
    <2> HIDE DEF h, script
    <2>6. pc \in Running
      BY <2>1 DEF Running
    <2> QED
      BY <1>4, <2>1, <2>4, <2>5, <2>6, RunStep
  <1>8. CASE Return
    <2>1. /\ pc \in Running /\ pc' = "done" /\ todo = <<>>
          /\ UNCHANGED <<bindings, req, specific_nodeos_args, todo, acted>>
      BY <1>8 DEF Return, Running
    <2>2. TypeOK'
      BY <2>1, Lasting DEF IInv, TypeOK, Ended
    <2>3. /\ Listed' <=> Listed
          /\ SpecificInv' <=> SpecificInv
          /\ Wanted' = Wanted
          /\ \A k : Serves(acted[k], k)' <=> Serves(acted[k], k)
      BY <2>1, Lasting DEF SpecificInv, Serves, get_node_num
    <2>4. Len(acted) = Len(Wanted)
      <3>1. Len(todo) = 0 /\ Len(acted) \in Nat /\ Len(Wanted) \in Nat
        BY <2>1, WantedType DEF IInv, TypeOK
      <3> QED
        BY <2>1, <3>1 DEF IInv, ActInv
    <2>5. ActInv'
      BY <2>1, <2>3, <2>4 DEF IInv, ActInv, Running
    <2> QED
      BY <2>2, <2>5 DEF IInv
  <1>9. CASE UNCHANGED vars
    <2>1. UNCHANGED <<pc, bindings, req, specific_nodeos_args, todo, acted>>
      BY <1>9 DEF vars
    <2>2. TypeOK'
      BY <2>1, Lasting DEF IInv, TypeOK
    <2>3. /\ Listed' <=> Listed
          /\ SpecificInv' <=> SpecificInv
          /\ Wanted' = Wanted /\ Op' = Op
          /\ \A k : Serves(acted[k], k)' <=> Serves(acted[k], k)
      BY <2>1, Lasting DEF SpecificInv, Serves, get_node_num
    <2>4. ActInv'
      BY <2>1, <2>3 DEF IInv, ActInv
    <2> QED
      BY <2>2, <2>4 DEF IInv
  <1> QED
    BY <1>1, <1>2, <1>3, <1>5, <1>6, <1>7, <1>8, <1>9 DEF Next

(* The inductive invariant. *)
THEOREM IInvHolds == Spec => []IInv
  BY InitIInv, IInvStep, PTL DEF Spec

(* The type invariant, for all bindings and command lines.                 *)
THEOREM TypeCorrect == Spec => []TypeOK
  <1>1. IInv => TypeOK
    BY DEF IInv
  <1> QED
    BY <1>1, IInvHolds, PTL

(* OwnArguments: of the arguments that the command line has for a node,    *)
(* bounce gives it the last, and no other node's.                          *)
THEOREM ArgumentsOwn == Spec => []OwnArguments
  <1>1. IInv => OwnArguments
    <2> SUFFICES ASSUME IInv, Op = "bounce", NEW k \in 1..Len(acted)
                 PROVE  LET own == {j \in 1..Len(req.specific) :
                                       req.specific[j].num = acted[k].num}
                        IN  IF own = {} THEN acted[k].args = NoArgs
                            ELSE \E j \in own : /\ \A i \in own : i <= j
                                                /\ acted[k].args = req.specific[j].arg
      BY DEF OwnArguments
    <2> DEFINE own == {j \in 1..Len(req.specific) : req.specific[j].num = acted[k].num}
    <2>1. acted # <<>>
      OBVIOUS
    <2>2. SpecificInv /\ Serves(acted[k], k)
      BY <2>1 DEF IInv, ActInv
    <2>3. CASE own = {}
      <3>1. acted[k].num \notin Specified
        BY <2>3 DEF Specified
      <3> QED
        BY <2>2, <2>3, <3>1 DEF Serves, SpecificInv
    <2>4. CASE own # {}
      <3>1. acted[k].num \in Specified
        BY <2>4 DEF Specified
      <3>2. acted[k].args = specific_nodeos_args[acted[k].num]
        BY <2>2, <3>1 DEF Serves, SpecificInv
      <3>3. PICK j \in 1..Len(req.specific) :
               /\ req.specific[j].num = acted[k].num
               /\ req.specific[j].arg = specific_nodeos_args[acted[k].num]
               /\ \A i \in 1..Len(req.specific) : req.specific[i].num = acted[k].num => i <= j
        BY <2>2, <3>1 DEF SpecificInv
      <3>4. j \in own /\ \A i \in own : i <= j
        BY <3>3
      <3> QED
        BY <2>4, <3>2, <3>3, <3>4
    <2> QED
      BY <2>3, <2>4
  <1> QED
    BY <1>1, IInvHolds, PTL


(* ActsInOrder: bounce and down act on the nodes of the list, and roll on  *)
(* its hosts, in its order, each on the right host; a list with a number   *)
(* or host that is not known is refused, or rolled up to there.            *)
THEOREM ActsAsListed == Spec => []ActsInOrder
  <1>1. IInv => ActsOnListed
    <2> SUFFICES ASSUME IInv, Op # "roll", acted # <<>>
                 PROVE  IF List.all
                        THEN /\ \A k \in 1..Len(acted) : IsFor(k, AllNodes[k].node)
                             /\ pc = "done" => Len(acted) = Len(AllNodes)
                        ELSE /\ \A k \in 1..Len(List.nums) : Found(List.nums[k])
                             /\ \A k \in 1..Len(acted) :
                                   IsFor(k, [bios |-> FALSE, num |-> List.nums[k]])
                             /\ pc = "done" => Len(acted) = Len(List.nums)
      BY DEF ActsOnListed
    <2>1. /\ Listed /\ Len(acted) <= Len(Wanted) /\ Len(acted) \in Nat /\ Len(Wanted) \in Nat
          /\ pc = "done" => Len(acted) = Len(Wanted)
          /\ \A k \in 1..Len(acted) : Serves(acted[k], k)
      BY WantedType DEF IInv, ActInv, TypeOK
    <2>2. Wanted \in Seq(Entry) /\ AllNodes \in Seq(Entry)
      BY <2>1, WantedType, AllNodesType DEF IInv
    <2>3. ASSUME NEW k \in 1..Len(acted)
          PROVE  /\ k \in 1..Len(Wanted) /\ Wanted[k] \in Entry
                 /\ acted[k].num = get_node_num(Wanted[k].node)
                 /\ Wanted[k] = [host |-> acted[k].host, node |-> Wanted[k].node]
      <3>1. k \in 1..Len(Wanted) /\ Wanted[k] \in Entry
        BY <2>1, <2>2
      <3>2. acted[k].host = Wanted[k].host /\ acted[k].num = get_node_num(Wanted[k].node)
        BY <2>1 DEF Serves
      <3>3. Wanted[k] = [host |-> Wanted[k].host, node |-> Wanted[k].node]
        BY <3>1 DEF Entry
      <3> QED
        BY <3>1, <3>2, <3>3
    <2>4. CASE List.all
      <3>1. Wanted = AllNodes
        BY <2>4 DEF Wanted
      <3>2. ASSUME NEW k \in 1..Len(acted) PROVE IsFor(k, AllNodes[k].node)
        BY <2>3, <3>1 DEF IsFor
      <3> QED
        BY <2>1, <2>4, <3>1, <3>2
    <2>5. CASE ~List.all
      <3>1. Wanted = [k \in 1..Len(List.nums) |-> find_node(List.nums[k])]
        BY <2>5 DEF Wanted
      <3>2. Len(List.nums) \in Nat /\ \A k \in 1..Len(List.nums) : List.nums[k] \in Nat
        BY RequestFields DEF IInv
      <3>3. Len(Wanted) = Len(List.nums)
        BY <3>1, <3>2
      <3>4. \A k \in 1..Len(List.nums) : Found(List.nums[k])
        BY <2>1, <2>5 DEF Listed, Accepts, GoodNumber
      <3>5. ASSUME NEW k \in 1..Len(acted)
            PROVE  IsFor(k, [bios |-> FALSE, num |-> List.nums[k]])
        <4>1. k \in 1..Len(List.nums) /\ Wanted[k] = find_node(List.nums[k])
          BY <2>3, <3>1, <3>3
        <4>2. PICK m \in 1..Len(AllNodes) :
                 Named(m, List.nums[k]) /\ find_node(List.nums[k]) = AllNodes[m]
          BY <3>2, <3>4, <4>1, FindNode DEF IInv
        <4>3. /\ AllNodes[m].node \in Node
              /\ ~AllNodes[m].node.bios /\ AllNodes[m].node.num = List.nums[k]
          <5>1. AllNodes[m] \in Entry
            BY <2>2
          <5>2. AllNodes[m].node \in Node
            BY <5>1 DEF Entry
          <5>3. ~AllNodes[m].node.bios /\ AllNodes[m].node.num = List.nums[k]
            BY <4>2, Zenon DEF Named
          <5> QED
            BY <5>2, <5>3, Zenon
        <4>4. AllNodes[m].node = [bios |-> FALSE, num |-> List.nums[k]]
          <5>1. /\ AllNodes[m].node = [bios |-> AllNodes[m].node.bios, num |-> AllNodes[m].node.num]
                /\ AllNodes[m].node.bios \in BOOLEAN
            BY <4>3 DEF Node
          <5>2. AllNodes[m].node.bios = FALSE
            BY <4>3, <5>1, Zenon
          <5> QED
            BY <4>3, <5>1, <5>2
        <4>5. acted[k].num = get_node_num([bios |-> FALSE, num |-> List.nums[k]])
          BY <2>3, <4>1, <4>2, <4>4
        <4>6. AllNodes[m] = [host |-> acted[k].host,
                             node |-> [bios |-> FALSE, num |-> List.nums[k]]]
          BY <2>3, <4>1, <4>2, <4>4
        <4> QED
          BY <4>5, <4>6 DEF IsFor
      <3> QED
        BY <2>1, <2>5, <3>3, <3>4, <3>5
    <2> QED
      BY <2>4, <2>5
  <1>2. IInv => RollsInOrder
    <2> SUFFICES ASSUME IInv, Op = "roll"
                 PROVE  /\ \A k \in 1..Len(acted) :
                              /\ bindings[acted[k].host].name = req.roll[k]
                                   \/ bindings[acted[k].host].public = req.roll[k]
                              /\ \A j \in 1..k : FoundHost(req.roll[j])
                        /\ pc = "done" => Len(acted) = Len(req.roll)
      BY DEF RollsInOrder
    <2>1. Wanted = req.roll
      BY DEF Wanted
    <2>2. /\ \A k \in 1..Len(acted) : Serves(acted[k], k)
          /\ pc = "done" => Len(acted) = Len(Wanted)
          /\ Len(acted) \in Nat
      BY DEF IInv, ActInv, TypeOK
    <2>3. ASSUME NEW k \in 1..Len(acted)
          PROVE  IsHost(acted[k].host, req.roll[k]) /\ \A j \in 1..k : FoundHost(req.roll[j])
      <3>1. \A j \in 1..k : j \in 1..Len(acted)
        BY <2>2
      <3>2. \A j \in 1..k : FoundHost(req.roll[j])
        BY <2>2, <3>1 DEF Serves
      <3>3. FoundHost(req.roll[k]) /\ acted[k].host = find_host_by_name_or_address(req.roll[k])
        BY <2>2 DEF Serves
      <3>4. IsHost(acted[k].host, req.roll[k])
        BY <3>3, FindHost DEF IInv
      <3> QED
        BY <3>2, <3>4
    <2> QED
      BY <2>1, <2>2, <2>3 DEF IsHost
  <1>3. IInv => ActsInOrder
    BY <1>1, <1>2 DEF ActsInOrder, IInv
  <1> QED
    BY <1>3, IInvHolds, PTL

=============================================================================
