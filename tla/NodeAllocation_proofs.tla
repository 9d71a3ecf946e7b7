------------------------ MODULE NodeAllocation_proofs ------------------------
(***************************************************************************)
(* Type correctness of NodeAllocation, the disjointness of the ports, the  *)
(* distribution of producers and their names, the server file and the      *)
(* local network, for every set of command lines and server files, any     *)
(* ports with room between them and any bound on the size of a network.    *)
(***************************************************************************)
EXTENDS NodeAllocation, FiniteSetTheorems, WellFoundedInduction, TLAPS

(* Where the nodes placed so far stand on their hosts.                     *)
PlaceInv ==
    /\ placed = <<>> => hostNdx = 0 /\ hostCount = 0
    /\ perHost = 0 /\ placed # <<>> => hostNdx = 1
    /\ pc = "initialize" => placed = <<>> /\ phCount = 0
    /\ \A k \in 1..Len(placed) :
          /\ placed[k].host < hostNdx
          /\ placed[k].slot < Len(placed)
          /\ placed[k].host = hostNdx - 1 /\ ~placed[k].bios =>
                placed[k].slot < hostCount
    /\ hostCount <= Len(placed)
    /\ \A a, b \in 1..Len(placed) :
          a # b /\ placed[a].host = placed[b].host =>
             /\ ~(placed[a].bios /\ placed[b].bios)
             /\ ~placed[a].bios /\ ~placed[b].bios => placed[a].slot # placed[b].slot

-----------------------------------------------------------------------------
(* A set of natural numbers has a least one. *)
LEMMA LeastNumber ==
    ASSUME NEW T, T \subseteq Nat, T # {}
    PROVE  \E m \in T : \A k \in T : m <= k
  <1>1. \E m \in T : \A k \in T : <<k, m>> \notin OpToRel(<, Nat)
    BY WFMin, NatLessThanWellFounded
  <1>2. PICK m \in T : \A k \in T : <<k, m>> \notin OpToRel(<, Nat)
    BY <1>1
  <1>3. \A k \in T : ~(k < m)
    BY <1>2, Zenon DEF OpToRel
  <1> QED
    BY <1>3

(* Functions of the numbers up to n that are defined by recursion exist:   *)
(* each value is made of the one before by a step that may depend on its   *)
(* place.                                                                  *)
Steps(step, start, n, f) ==
    /\ f \in [0..n -> Nat]
    /\ f[0] = start
    /\ \A k \in 1..n : f[k] = step[k][f[k - 1]]

LEMMA StepsExist ==
    ASSUME NEW n \in Nat, NEW start \in Nat, NEW step \in [1..n -> [Nat -> Nat]]
    PROVE  \E f : Steps(step, start, n, f)
  <1> DEFINE Has(m) == \E f : Steps(step, start, m, f)
             Missing == {m \in Nat : m <= n /\ ~Has(m)}
  <1>1. Has(0)
    <2>1. Steps(step, start, 0, [k \in 0..0 |-> start])
      BY DEF Steps
    <2> QED
      BY <2>1
  <1>2. ASSUME NEW m \in Nat, m + 1 <= n, Has(m)
        PROVE  Has(m + 1)
    <2>1. PICK g : Steps(step, start, m, g)
      BY <1>2
    <2>2. g \in [0..m -> Nat] /\ g[0] = start /\ \A k \in 1..m : g[k] = step[k][g[k - 1]]
      BY <2>1 DEF Steps
    <2>3. m \in 0..m /\ m + 1 \in 1..n
      BY <1>2
    <2>4. step[m + 1][g[m]] \in Nat
      BY <2>2, <2>3
    <2> DEFINE last == step[m + 1][g[m]]
               f == [k \in 0..m + 1 |-> IF k = m + 1 THEN last ELSE g[k]]
    <2>5. f[m + 1] = last
      <3>1. m + 1 \in 0..m + 1
        BY <1>2
      <3> HIDE DEF last
      <3> QED
        BY <3>1
    <2>6. ASSUME NEW k \in 0..m PROVE f[k] = g[k]
      <3>1. k \in 0..m + 1 /\ k # m + 1
        BY <1>2
      <3> HIDE DEF last
      <3> QED
        BY <3>1
    <2>7. f \in [0..m + 1 -> Nat]
      <3>1. \A k \in 0..m + 1 : k = m + 1 \/ k \in 0..m
        BY <1>2
      <3>2. last \in Nat
        BY <2>4
      <3> HIDE DEF last
      <3> QED
        BY <2>2, <3>1, <3>2
    <2>8. f[0] = start
      <3>1. 0 \in 0..m
        BY <1>2
      <3> HIDE DEF f
      <3> QED
        BY <2>2, <2>6, <3>1
    <2> HIDE DEF f
    <2>9. ASSUME NEW k \in 1..m + 1 PROVE f[k] = step[k][f[k - 1]]
      <3>1. k - 1 \in 0..m /\ k \in Nat
        BY <1>2
      <3>2. f[k - 1] = g[k - 1]
        BY <2>6, <3>1
      <3>3. CASE k = m + 1
        <4>1. k - 1 = m
          BY <1>2, <3>3
        <4> QED
          BY <2>5, <3>2, <3>3, <4>1
      <3>4. CASE k # m + 1
        <4>1. k \in 1..m /\ k \in 0..m
          BY <1>2, <3>1, <3>4
        <4>2. g[k] = step[k][g[k - 1]]
          BY <2>2, <4>1
        <4> QED
          BY <2>6, <3>2, <4>1, <4>2
      <3> QED
        BY <3>3, <3>4
    <2>10. Steps(step, start, m + 1, f)
      BY <2>7, <2>8, <2>9 DEF Steps
    <2> QED
      BY <2>10
  <1> HIDE DEF Has
  <1>3. ASSUME Missing # {} PROVE FALSE
    <2>1. PICK m \in Missing : \A k \in Missing : m <= k
      <3>1. Missing \subseteq Nat
        OBVIOUS
      <3> HIDE DEF Missing
      <3> QED
        BY <1>3, <3>1, LeastNumber
    <2>2. m # 0 /\ m \in Nat
      BY <1>1, <2>1
    <2>3. m - 1 \in Nat /\ m - 1 <= n /\ m - 1 \notin Missing
      BY <2>1, <2>2
    <2>4. Has(m - 1)
      BY <2>3
    <2>5. Has(m - 1 + 1)
      BY <1>2, <2>1, <2>2, <2>3, <2>4
    <2>6. m - 1 + 1 = m
      BY <2>2
    <2> QED
      BY <2>1, <2>5, <2>6
  <1>4. Has(n)
    <2>1. n \in Nat /\ n <= n
      OBVIOUS
    <2> QED
      BY <1>3, <2>1
  <1> QED
    BY <1>4 DEF Has

-----------------------------------------------------------------------------
LEMMA RequestFields ==
  ASSUME NEW r \in Requests
  PROVE  /\ r.nodes \in Nat /\ r.pnodes \in Nat /\ r.producers \in Nat
         /\ r.perHost \in Nat /\ r.servers \in Seq(Server) /\ r.prodServers \in Nat
         /\ r.prodServers \in 0..Len(r.servers)
  BY RequestsAssumption DEF Request

(* The nodes of the first servers add up. *)
LEMMA InstancesAdd ==
  ASSUME NEW list \in Seq(Server)
  PROVE  /\ Instances(list, 0) = 0
         /\ \A k \in 0..Len(list) : Instances(list, k) \in Nat
         /\ \A k \in 1..Len(list) :
               /\ list[k].instances \in Nat
               /\ Instances(list, k) = Instances(list, k - 1) + list[k].instances
  <1> DEFINE n == Len(list)
             step == [k \in 1..n |-> [m \in Nat |-> m + list[k].instances]]
             Sums(f) == f = [k \in 0..n |-> IF k = 0 THEN 0
                                            ELSE f[k - 1] + list[k].instances]
             sum == CHOOSE f : Sums(f)
  <1>1. n \in Nat /\ \A k \in 1..n : list[k].instances \in Nat
    <2>2. ASSUME NEW k \in 1..n PROVE list[k] \in Server
      OBVIOUS
    <2>3. \A k \in 1..n : list[k].instances \in Nat
      BY <2>2 DEF Server
    <2> QED
      BY <2>3
  <1>2. step \in [1..n -> [Nat -> Nat]]
    BY <1>1
  <1>3. PICK f : Steps(step, 0, n, f)
    <2> HIDE DEF step
    <2> QED
      BY <1>1, <1>2, StepsExist
  <1>4. ASSUME NEW k \in 0..n
        PROVE  f[k] = IF k = 0 THEN 0 ELSE f[k - 1] + list[k].instances
    <2>1. CASE k = 0
      BY <1>3, <2>1 DEF Steps
    <2>2. CASE k # 0
      <3>1. k \in 1..n /\ k - 1 \in 0..n
        BY <1>1, <2>2
      <3>2. f[k - 1] \in Nat /\ f[k] = step[k][f[k - 1]]
        BY <1>3, <3>1 DEF Steps
      <3> QED
        BY <2>2, <3>1, <3>2
    <2> QED
      BY <2>1, <2>2
  <1>5. Sums(f)
    <2>1. f = [k \in 0..n |-> f[k]]
      BY <1>3 DEF Steps
    <2> QED
      BY <1>4, <2>1
  <1>6. Sums(sum)
    BY <1>5, Zenon
  <1>7. ASSUME NEW k \in 0..n
        PROVE  sum[k] = IF k = 0 THEN 0 ELSE sum[k - 1] + list[k].instances
    <2> HIDE DEF sum
    <2> QED
      BY <1>6, Zenon
  <1>8. \A k : Instances(list, k) = sum[k]
    BY Zenon DEF Instances
  <1> HIDE DEF sum
  <1>9. Instances(list, 0) = 0
    BY <1>1, <1>7, <1>8
  <1>10. ASSUME NEW k \in 1..n
         PROVE  Instances(list, k) = Instances(list, k - 1) + list[k].instances
    BY <1>1, <1>7, <1>8
  <1> DEFINE Bad == {k \in 0..n : Instances(list, k) \notin Nat}
  <1>11. ASSUME Bad # {} PROVE FALSE
    <2>1. PICK k \in Bad : \A j \in Bad : k <= j
      <3>1. Bad \subseteq Nat
        OBVIOUS
      <3> HIDE DEF Bad
      <3> QED
        BY <1>11, <3>1, LeastNumber
    <2>2. k # 0
      BY <1>9
    <2>3. k \in 1..n /\ k - 1 \in 0..n /\ k - 1 \notin Bad
      BY <1>1, <2>1, <2>2
    <2> QED
      BY <1>1, <1>10, <2>3
  <1> QED
    BY <1>1, <1>9, <1>10, <1>11

LEMMA AskedNumbers ==
  ASSUME req \in Requests
  PROVE  AskedProdNodes \in Nat /\ AskedTotalNodes \in Nat
  <1>1. /\ req.pnodes \in Nat /\ req.nodes \in Nat
        /\ req.prodServers \in 0..Len(req.servers)
        /\ req.servers \in Seq(Server) /\ Len(req.servers) \in 0..Len(req.servers)
    BY RequestFields
  <1>2. Instances(req.servers, req.prodServers) \in Nat /\ Instances(req.servers, Len(req.servers)) \in Nat
    BY <1>1, InstancesAdd
  <1> QED
    BY <1>1, <1>2 DEF AskedProdNodes, AskedTotalNodes

LEMMA ServerAtType ==
  ASSUME TypeOK, NEW ndx \in Nat
  PROVE  ServerAt(ndx) \in Server
  <1>1. req.servers \in Seq(Server)
    BY RequestFields DEF TypeOK
  <1>2. CASE ndx < Len(req.servers)
    <2>1. ndx + 1 \in 1..Len(req.servers)
      BY <1>1, <1>2
    <2> QED
      BY <1>1, <1>2, <2>1 DEF ServerAt
  <1>3. CASE ~(ndx < Len(req.servers))
    BY <1>3 DEF ServerAt, Server
  <1> QED
    BY <1>2, <1>3

\* What a placement does to the sequence of nodes.
LEMMA PlaceAppends ==
  ASSUME TypeOK, NEW isBios \in BOOLEAN, NEW host \in Nat, NEW slot \in Nat,
         Place(isBios, host, slot)
  PROVE  /\ placed' \in Seq(Node)
         /\ Len(placed') = Len(placed) + 1
         /\ \A k \in 1..Len(placed) : placed'[k] = placed[k]
         /\ placed'[Len(placed) + 1] =
               [bios |-> isBios, num |-> nextNode, host |-> host, slot |-> slot]
         /\ nextNode' \in Nat
         /\ hostCount' = IF isBios THEN slot ELSE slot + 1
  <1>1. NewNode(isBios, host, slot) \in Node
    BY DEF NewNode, Node, TypeOK
  <1> QED
    BY <1>1 DEF Place, NewNode, TypeOK

LEMMA PlacedFields ==
  ASSUME TypeOK, NEW isBios \in BOOLEAN, NEW host \in Nat, NEW slot \in Nat,
         Place(isBios, host, slot)
  PROVE  /\ Len(placed') = Len(placed) + 1
         /\ \A k \in 1..Len(placed) : placed'[k] = placed[k]
         /\ placed'[Len(placed) + 1].bios = isBios
         /\ placed'[Len(placed) + 1].host = host
  <1>1. placed'[Len(placed) + 1] =
           [bios |-> isBios, num |-> nextNode, host |-> host, slot |-> slot]
    BY PlaceAppends
  <1>2. /\ placed'[Len(placed) + 1].bios = isBios
        /\ placed'[Len(placed) + 1].host = host
    BY <1>1
  <1> QED
    BY <1>2, PlaceAppends

LEMMA PlaceType ==
  ASSUME TypeOK, NEW isBios \in BOOLEAN, NEW host \in Nat, NEW slot \in Nat,
         Place(isBios, host, slot)
  PROVE  /\ placed' \in Seq(Node)
         /\ Len(placed') = Len(placed) + 1
         /\ nextNode' \in Nat
         /\ hostCount' \in Nat
  <1>1. /\ placed' \in Seq(Node)
        /\ Len(placed') = Len(placed) + 1
        /\ nextNode' \in Nat
    BY PlaceAppends
  <1>2. hostCount' = slot \/ hostCount' = slot + 1
    BY DEF Place
  <1> QED
    BY <1>1, <1>2

LEMMA InitTypeOK == Init => TypeOK
  BY PortsAssumption DEF Init, TypeOK

LEMMA TypeStep == TypeOK /\ [Next]_vars => TypeOK'
  <1> SUFFICES ASSUME TypeOK, [Next]_vars PROVE TypeOK'
    OBVIOUS
  <1> USE DEF vars, sizes, placing, binding
  <1>1. CASE Initialize
    <2>1. AskedProdNodes \in Nat /\ AskedTotalNodes \in Nat /\ req.producers \in Nat
          /\ req.perHost \in Nat
      BY AskedNumbers, RequestFields DEF TypeOK
    <2>2. prodNodes' \in Nat
      BY <1>1, <2>1 DEF Initialize
    <2>3. totalNodes' \in 0..MaxNodes
      BY <1>1, <2>1, <2>2, PortsAssumption DEF Initialize
    <2>4. perHost' \in Nat
      BY <1>1, <2>1 DEF Initialize
    <2> QED
      BY <1>1, <2>2, <2>3, <2>4 DEF Initialize, TypeOK
  <1>2. CASE PlaceOnLocalHost
    <2>1. Place(placed = <<>>, 0, hostCount) /\ Len(placed) < totalNodes
      BY <1>2 DEF PlaceOnLocalHost
    <2>2. hostCount \in Nat
      BY DEF TypeOK
    <2> HIDE DEF vars, sizes, placing, binding
    <2>3. /\ placed' \in Seq(Node)
          /\ Len(placed') = Len(placed) + 1
          /\ nextNode' \in Nat
          /\ hostCount' \in Nat
      BY <2>1, <2>2, PlaceType
    <2>4. Len(placed') <= MaxNodes
      BY <2>1, <2>3, PortsAssumption DEF TypeOK
    <2> QED
      BY <1>2, <2>1, <2>3, <2>4 DEF PlaceOnLocalHost, TypeOK, sizes, binding
  <1>3. CASE PlaceOnNewHost
    <2>1. Place(ServerAt(hostNdx).hasBios, hostNdx, 0) /\ Len(placed) < totalNodes
      BY <1>3 DEF PlaceOnNewHost
    <2>2. hostNdx \in Nat
      BY DEF TypeOK
    <2>3. ServerAt(hostNdx) \in Server
      BY <2>2, ServerAtType
    <2>4. ServerAt(hostNdx).hasBios \in BOOLEAN /\ ServerAt(hostNdx).instances \in Nat
      BY <2>3 DEF Server
    <2> HIDE DEF vars, sizes, placing, binding
    <2>5. /\ placed' \in Seq(Node)
          /\ Len(placed') = Len(placed) + 1
          /\ nextNode' \in Nat
          /\ hostCount' \in Nat
      BY <2>1, <2>2, <2>4, PlaceType
    <2>6. Len(placed') <= MaxNodes
      BY <2>1, <2>5, PortsAssumption DEF TypeOK
    <2> QED
      BY <1>3, <2>1, <2>4, <2>5, <2>6 DEF PlaceOnNewHost, TypeOK, sizes, binding
  <1>4. CASE PlaceOnSameHost
    <2>1. Place(FALSE, hostNdx - 1, hostCount) /\ Len(placed) < totalNodes /\ phCount # 0
      BY <1>4 DEF PlaceOnSameHost
    <2>2. hostNdx - 1 \in Nat /\ hostNdx > 0 /\ hostCount \in Nat
      BY <2>1 DEF TypeOK
    <2> HIDE DEF vars, sizes, placing, binding
    <2>3. /\ placed' \in Seq(Node)
          /\ Len(placed') = Len(placed) + 1
          /\ nextNode' \in Nat
          /\ hostCount' \in Nat
      BY <2>1, <2>2, PlaceType
    <2>4. Len(placed') <= MaxNodes
      BY <2>1, <2>3, PortsAssumption DEF TypeOK
    <2> QED
      BY <1>4, <2>1, <2>2, <2>3, <2>4 DEF PlaceOnSameHost, TypeOK, sizes, binding
  <1>5. CASE StartBinding
    <2>1. req.producers \in Nat /\ NonBios \in Nat \ {0}
      BY <1>5, RequestFields DEF StartBinding, NonBios, TypeOK
    <2>2. extra' \in Nat
      BY <1>5, <2>1 DEF StartBinding
    <2> QED
      BY <1>5, <2>2 DEF StartBinding, TypeOK
  <1>6. CASE RefuseToBind
    BY <1>6 DEF RefuseToBind, TypeOK
  <1>7. CASE BindNode
    <2>1. req.producers \in Nat /\ NonBios \in Int /\ bound \in Nat
      BY RequestFields DEF NonBios, TypeOK
    <2>2. Count \in Nat
      BY <2>1 DEF Count
    <2>3. producerNumber \in Nat /\ extra \in Nat /\ share \in Seq([first : Nat, count : Nat])
      BY DEF TypeOK
    <2>4. [first |-> producerNumber, count |-> Count] \in [first : Nat, count : Nat]
      BY <2>2, <2>3
    <2>5. /\ share' \in Seq([first : Nat, count : Nat])
          /\ producerNumber' \in Nat
      BY <1>7, <2>2, <2>3, <2>4 DEF BindNode
    <2>6. extra' \in Nat /\ bound' \in Nat
      BY <1>7, <2>1, <2>3 DEF BindNode
    <2> QED
      BY <1>7, <2>5, <2>6 DEF BindNode, TypeOK
  <1>8. CASE BindBios
    BY <1>8 DEF BindBios, TypeOK
  <1>9. CASE Finish
    BY <1>9 DEF Finish, TypeOK
  <1>10. CASE UNCHANGED vars
    BY <1>10 DEF TypeOK
  <1> QED
    BY <1>1, <1>2, <1>3, <1>4, <1>5, <1>6, <1>7, <1>8, <1>9, <1>10 DEF Next

(* Every variable keeps its type: in particular no network outgrows what   *)
(* initialize settled, and no host is left before it was entered.          *)
THEOREM TypeCorrect == Spec => []TypeOK
  <1>1. Init => TypeOK
    BY InitTypeOK
  <1>2. TypeOK /\ [Next]_vars => TypeOK'
    BY TypeStep
  <1> QED
    BY <1>1, <1>2, PTL DEF Spec

-----------------------------------------------------------------------------
LEMMA InitPlaceInv == Init => PlaceInv
  BY DEF Init, PlaceInv

LEMMA PlaceStep == TypeOK /\ PlaceInv /\ [Next]_vars => PlaceInv'
  <1> SUFFICES ASSUME TypeOK, PlaceInv, [Next]_vars PROVE PlaceInv'
    OBVIOUS
  \* The new node at the end of the sequence is all there is to look at.
  <1>a. ASSUME NEW isBios \in BOOLEAN, NEW host \in Nat, NEW slot \in Nat,
               Place(isBios, host, slot),
               pc = "define_network", pc' = pc, perHost' = perHost,
               hostNdx' = host + 1,
               perHost = 0 => host = 0,
               isBios => host = hostNdx \/ placed = <<>>,
               \/ host = hostNdx /\ slot = 0
               \/ host = hostNdx - 1 /\ slot = hostCount
               \/ placed = <<>> /\ slot = 0
        PROVE  PlaceInv'
    <2>1. /\ placed' \in Seq(Node) /\ placed \in Seq(Node)
          /\ Len(placed') = Len(placed) + 1
          /\ \A k \in 1..Len(placed) : placed'[k] = placed[k]
          /\ placed'[Len(placed) + 1] =
                [bios |-> isBios, num |-> nextNode, host |-> host, slot |-> slot]
          /\ hostCount' = IF isBios THEN slot ELSE slot + 1
      BY <1>a, PlaceAppends DEF TypeOK
    <2> DEFINE last == Len(placed) + 1
    <2>2. last \in Nat /\ last \in 1..Len(placed') /\ placed' # <<>>
      BY <2>1
    <2>3. \A k \in 1..Len(placed) : placed[k] \in Node
      BY <2>1
    <2>4. \A k \in 1..Len(placed') : k = last \/ k \in 1..Len(placed)
      BY <2>1
    <2>5. hostNdx \in Nat /\ hostCount \in Nat
      BY DEF TypeOK
    <2>e. ASSUME NEW k \in 1..Len(placed)
          PROVE  /\ placed # <<>>
                 /\ placed[k].host \in Nat /\ placed[k].slot \in Nat
                 /\ placed[k].host < hostNdx
                 /\ placed[k].slot < Len(placed)
                 /\ placed[k].host = hostNdx - 1 /\ ~placed[k].bios =>
                       placed[k].slot < hostCount
      <3>1. placed # <<>>
        BY <2>1
      <3>2. placed[k].host \in Nat /\ placed[k].slot \in Nat
        BY <2>3 DEF Node
      <3> QED
        BY <3>1, <3>2 DEF PlaceInv
    <2>6. slot <= Len(placed)
      BY <1>a, <2>1, <2>5 DEF PlaceInv
    <2>7. hostCount' <= Len(placed')
      BY <2>1, <2>6
    <2>8. ASSUME NEW k \in 1..Len(placed')
          PROVE  /\ placed'[k].host < hostNdx'
                 /\ placed'[k].slot < Len(placed')
                 /\ placed'[k].host = hostNdx' - 1 /\ ~placed'[k].bios =>
                       placed'[k].slot < hostCount'
      <3>1. CASE k = last
        BY <1>a, <2>1, <2>6, <3>1
      <3>2. CASE k \in 1..Len(placed)
        <4>1. placed'[k] = placed[k] /\ Len(placed) \in Nat
          BY <2>1, <3>2
        <4>2. \/ hostNdx' = hostNdx + 1
              \/ hostNdx' = hostNdx /\ ~isBios /\ slot = hostCount
          <5>1. placed # <<>>
            BY <2>e, <3>2
          <5>2. CASE host = hostNdx
            <6>1. hostNdx' = host + 1
              BY <1>a
            <6> QED
              BY <5>2, <6>1
          <5>3. CASE host = hostNdx - 1 /\ slot = hostCount
            BY <1>a, <2>5, <5>1, <5>3
          <5> QED
            BY <1>a, <5>1, <5>2, <5>3
        <4>3. CASE hostNdx' = hostNdx + 1
          BY <2>1, <2>e, <2>5, <3>2, <4>1, <4>3
        <4>4. CASE hostNdx' = hostNdx /\ ~isBios /\ slot = hostCount
          <5>1. hostCount' = hostCount + 1
            BY <2>1, <4>4
          <5> QED
            BY <2>1, <2>e, <2>5, <3>2, <4>1, <4>4, <5>1
        <4> QED
          BY <4>2, <4>3, <4>4
      <3> QED
        BY <2>4, <3>1, <3>2
    <2>9. ASSUME NEW k \in 1..Len(placed), placed[k].host = host
          PROVE  /\ ~(isBios /\ placed[k].bios)
                 /\ ~isBios /\ ~placed[k].bios => placed[k].slot # slot
      <3>1. host = hostNdx - 1 /\ slot = hostCount /\ ~isBios
        BY <1>a, <2>e, <2>5, <2>9
      <3> QED
        BY <2>e, <2>5, <2>9, <3>1
    <2>10. ASSUME NEW a \in 1..Len(placed'), NEW b \in 1..Len(placed'),
                  a # b, placed'[a].host = placed'[b].host
           PROVE  /\ ~(placed'[a].bios /\ placed'[b].bios)
                  /\ ~placed'[a].bios /\ ~placed'[b].bios =>
                        placed'[a].slot # placed'[b].slot
      <3>1. CASE a = last
        BY <2>1, <2>4, <2>9, <2>10, <3>1
      <3>2. CASE b = last
        BY <2>1, <2>4, <2>9, <2>10, <3>2
      <3>3. CASE a \in 1..Len(placed) /\ b \in 1..Len(placed)
        BY <2>1, <2>10, <3>3 DEF PlaceInv
      <3> QED
        BY <2>4, <3>1, <3>2, <3>3
    <2> QED
      BY <1>a, <2>2, <2>7, <2>8, <2>10 DEF PlaceInv
  <1>1. CASE PlaceOnLocalHost
    <2>1. /\ Place(placed = <<>>, 0, hostCount)
          /\ pc = "define_network" /\ pc' = pc /\ perHost' = perHost /\ perHost = 0
          /\ hostNdx' = 1
      BY <1>1 DEF PlaceOnLocalHost, sizes
    <2>2. hostCount \in Nat /\ hostNdx \in Nat
      BY DEF TypeOK
    <2>3. \/ placed = <<>> /\ hostCount = 0
          \/ hostNdx = 1
      BY <2>1, Zenon DEF PlaceInv
    <2>4. (placed = <<>>) \in BOOLEAN /\ hostNdx' = 0 + 1 /\ 0 \in Nat
      BY <2>1
    <2>5. \/ 0 = hostNdx - 1 /\ hostCount = hostCount
          \/ placed = <<>> /\ hostCount = 0
      BY <2>2, <2>3
    <2> QED
      BY <1>a, <2>1, <2>2, <2>4, <2>5
  <1>2. CASE PlaceOnNewHost
    <2>1. /\ Place(ServerAt(hostNdx).hasBios, hostNdx, 0)
          /\ pc = "define_network" /\ pc' = pc /\ perHost' = perHost /\ perHost # 0
          /\ hostNdx' = hostNdx + 1
      BY <1>2 DEF PlaceOnNewHost, sizes
    <2>2. hostNdx \in Nat
      BY DEF TypeOK
    <2>3. ServerAt(hostNdx).hasBios \in BOOLEAN
      BY <2>2, ServerAtType DEF Server
    <2> QED
      BY <1>a, <2>1, <2>2, <2>3
  <1>3. CASE PlaceOnSameHost
    <2>1. /\ Place(FALSE, hostNdx - 1, hostCount)
          /\ pc = "define_network" /\ pc' = pc /\ perHost' = perHost /\ perHost # 0
          /\ hostNdx' = hostNdx /\ phCount # 0
      BY <1>3 DEF PlaceOnSameHost, sizes
    <2>2. hostCount \in Nat /\ hostNdx \in Nat /\ hostNdx > 0
      BY <2>1 DEF TypeOK
    <2>3. hostNdx - 1 \in Nat /\ hostNdx' = (hostNdx - 1) + 1
      BY <2>1, <2>2
    <2> QED
      BY <1>a, <2>1, <2>2, <2>3
  <1>4. CASE Initialize
    BY <1>4 DEF Initialize, PlaceInv, placing
  <1>5. CASE StartBinding \/ RefuseToBind \/ BindNode \/ BindBios \/ Finish
    BY <1>5 DEF StartBinding, RefuseToBind, BindNode, BindBios, Finish, PlaceInv,
       placing, sizes
  <1>6. CASE UNCHANGED vars
    BY <1>6 DEF PlaceInv, vars
  <1> QED
    BY <1>1, <1>2, <1>3, <1>4, <1>5, <1>6 DEF Next

LEMMA PortRanges ==
  ASSUME NEW s \in Nat, s < MaxNodes
  PROVE  /\ P2PBase - BiosGap \in Nat /\ P2PBase - BiosGap < PortMod
         /\ HttpBase - BiosGap \in Nat /\ HttpBase - BiosGap < PortMod
         /\ P2PBase + s \in Nat /\ P2PBase + s < PortMod
         /\ HttpBase + s \in Nat /\ HttpBase + s < PortMod
         /\ HttpBase - BiosGap < HttpBase + s
         /\ HttpBase + s < P2PBase - BiosGap
         /\ P2PBase - BiosGap < P2PBase + s
  BY PortsAssumption

LEMMA ModOfSmall ==
  ASSUME NEW x \in Nat, NEW m \in Nat, x < m
  PROVE  x % m = x
  OBVIOUS

LEMMA PortsFollow == TypeOK /\ PlaceInv => PortsDistinct
  <1> SUFFICES ASSUME TypeOK, PlaceInv,
                      NEW a \in DOMAIN placed, NEW b \in DOMAIN placed,
                      a # b, placed[a].host = placed[b].host
               PROVE  {p2p_port(placed[a]), http_port(placed[a])} \cap
                      {p2p_port(placed[b]), http_port(placed[b])} = {}
    BY DEF PortsDistinct
  <1>1. placed \in Seq(Node) /\ Len(placed) \in Nat /\ Len(placed) <= MaxNodes
    BY DEF TypeOK
  <1>2. a \in 1..Len(placed) /\ b \in 1..Len(placed)
    BY <1>1
  <1>3. \A k \in 1..Len(placed) :
           placed[k].slot \in Nat /\ placed[k].slot < MaxNodes
    <2> SUFFICES ASSUME NEW k \in 1..Len(placed)
                 PROVE  placed[k].slot \in Nat /\ placed[k].slot < MaxNodes
      OBVIOUS
    <2>1. placed[k] \in Node
      BY <1>1
    <2>2. placed[k].slot \in Nat
      BY <2>1 DEF Node
    <2>3. placed[k].slot < Len(placed)
      BY DEF PlaceInv
    <2> QED
      BY <1>1, <2>2, <2>3, PortsAssumption
  <1>4. ASSUME NEW k \in 1..Len(placed)
        PROVE  /\ p2p_port(placed[k]) = IF placed[k].bios THEN P2PBase - BiosGap
                                                          ELSE P2PBase + placed[k].slot
               /\ http_port(placed[k]) = IF placed[k].bios THEN HttpBase - BiosGap
                                                           ELSE HttpBase + placed[k].slot
    <2>1. /\ P2PBase - BiosGap \in Nat /\ P2PBase - BiosGap < PortMod
          /\ HttpBase - BiosGap \in Nat /\ HttpBase - BiosGap < PortMod
          /\ P2PBase + placed[k].slot \in Nat /\ P2PBase + placed[k].slot < PortMod
          /\ HttpBase + placed[k].slot \in Nat /\ HttpBase + placed[k].slot < PortMod
      BY <1>3, PortRanges
    <2> QED
      BY <2>1, ModOfSmall, PortsAssumption DEF p2p_port, http_port
  <1>5. /\ ~(placed[a].bios /\ placed[b].bios)
        /\ ~placed[a].bios /\ ~placed[b].bios => placed[a].slot # placed[b].slot
    BY <1>2 DEF PlaceInv
  <1> QED
    BY <1>2, <1>3, <1>4, <1>5, PortRanges

(* However the nodes are spread over hosts, no two nodes of one host share *)
(* a port, as long as the host has room for MaxNodes of them.              *)
THEOREM PortsNeverCollide == Spec => []PortsDistinct
  <1>1. Init => TypeOK /\ PlaceInv
    BY InitTypeOK, InitPlaceInv
  <1>2. TypeOK /\ PlaceInv /\ [Next]_vars => (TypeOK /\ PlaceInv)'
    BY TypeStep, PlaceStep
  <1>3. TypeOK /\ PlaceInv => PortsDistinct
    BY PortsFollow
  <1> QED
    BY <1>1, <1>2, <1>3, PTL DEF Spec

-----------------------------------------------------------------------------
(* How bind_nodes divides: quotient, remainder, and how many get any.      *)
Quotient == req.producers \div NonBios

Rest == req.producers % NonBios

Takers == IF req.producers < NonBios THEN req.producers ELSE NonBios

Binding == {"bind_nodes", "bound"}

(* The sizes that initialize settled, and where they stand in for options. *)
SizesInv ==
    /\ pc # "initialize" => totalNodes >= prodNodes
    /\ pc \notin Binding => share = <<>> /\ bound = 0 /\ producerNumber = 0
    /\ pc \in Binding => prodNodes >= 2 /\ Len(placed) = totalNodes
    /\ pc = "bound" => Len(share) = Len(placed)
    /\ Len(share) <= Len(placed)

(* Of the nodes bound so far, all but the bios node count.                 *)
BoundInv ==
    LET Early == {k \in 1..Len(share) : placed[k].bios}
    IN  /\ Early = {} => bound = Len(share)
        /\ (\A j, k \in Early : j = k) => bound >= Len(share) - 1

(* The nodes with producers are as many as have been bound, up to Takers.  *)
TakersInv ==
    /\ IsFiniteSet(Producing)
    /\ pc \in Binding => Cardinality(Producing) = IF bound < Takers THEN bound ELSE Takers

(* Division with a remainder. *)
LEMMA Division ==
    ASSUME NEW p \in Nat, NEW n \in Nat \ {0}
    PROVE  /\ p \div n \in Nat /\ p % n \in 0..n - 1
           /\ p = n * (p \div n) + (p % n)
           /\ p \div n = 0 <=> p < n
  <1>1. p \div n \in Nat /\ p % n \in 0..n - 1 /\ p = n * (p \div n) + (p % n)
    OBVIOUS
  <1> DEFINE q == p \div n
             r == p % n
  <1> HIDE DEF q, r
  <1>2. q \in Nat /\ r \in 0..n - 1 /\ p = n * q + r
    BY <1>1 DEF q, r
  <1>3. q = 0 => p < n
    BY <1>2
  <1>4. q >= 1 => n * q >= n
    <2>1. q >= 1 => n * q = n * (q - 1) + n
      BY <1>2
    <2>2. q >= 1 => n * (q - 1) >= 0
      BY <1>2
    <2> QED
      BY <1>2, <2>1, <2>2
  <1>5. q >= 1 => p >= n
    BY <1>2, <1>4
  <1>6. q = 0 <=> p < n
    BY <1>2, <1>3, <1>5
  <1> QED
    BY <1>1, <1>6 DEF q

(* The sizes do not change once they are settled.                          *)
LEMMA SizesStep == TypeOK /\ SizesInv /\ [Next]_vars => SizesInv'
  <1> SUFFICES ASSUME TypeOK, SizesInv, [Next]_vars PROVE SizesInv'
    OBVIOUS
  <1> USE DEF SizesInv, Binding, sizes, placing, binding
  <1>1. CASE Initialize
    <2>1. AskedProdNodes \in Nat /\ AskedTotalNodes \in Nat /\ req.producers \in Nat
      BY AskedNumbers, RequestFields DEF TypeOK
    <2>2. totalNodes' >= prodNodes'
      BY <1>1, <2>1 DEF Initialize
    <2> QED
      BY <1>1, <2>2 DEF Initialize
  <1>2. ASSUME NEW b, NEW h, NEW s, Place(b, h, s),
               pc = "define_network", pc' = pc, UNCHANGED <<binding, sizes>>
        PROVE  SizesInv'
    <2>1. share' = <<>> /\ Len(share') = 0 /\ Len(placed') \in Nat
      BY <1>2 DEF Place, TypeOK
    <2> QED
      BY <1>2, <2>1
  <1>3. CASE PlaceOnLocalHost \/ PlaceOnNewHost \/ PlaceOnSameHost
    BY <1>2, <1>3 DEF PlaceOnLocalHost, PlaceOnNewHost, PlaceOnSameHost
  <1>4. CASE StartBinding \/ RefuseToBind
    BY <1>4 DEF StartBinding, RefuseToBind
  <1>5. CASE BindNode \/ BindBios
    <2>1. Len(share') = Len(share) + 1 /\ Len(share) \in Nat /\ Len(placed) \in Nat
      BY <1>5, SMTT(30) DEF BindNode, BindBios, TypeOK
    <2> QED
      BY <1>5, <2>1 DEF BindNode, BindBios
  <1>6. CASE Finish
    BY <1>6 DEF Finish
  <1>7. CASE UNCHANGED vars
    BY <1>7 DEF vars
  <1> QED
    BY <1>1, <1>3, <1>4, <1>5, <1>6, <1>7 DEF Next


(* What has been dealt out, with what is left of the remainder and of the  *)
(* even part, makes up all the producers.                                  *)
Account ==
    /\ pc \in Binding /\ bound <= NonBios =>
          /\ producerNumber + extra + (NonBios - bound) * Quotient = req.producers
          /\ extra = IF bound < Rest THEN Rest - bound ELSE 0
    /\ pc \in Binding /\ bound >= NonBios => producerNumber = req.producers /\ extra = 0

(* What has been dealt out is a prefix of the producers, share after share *)
(* without a gap.                                                          *)
Shares ==
    /\ \A p \in 0..producerNumber - 1 : \E k \in 1..Len(share) : p \in Dealt(k)
    /\ \A k \in 1..Len(share) :
          /\ share[k].first + share[k].count <= producerNumber
          /\ share[k].count \in {0, Quotient, Quotient + 1}
    /\ \A j, k \in 1..Len(share) :
          j < k => share[j].first + share[j].count <= share[k].first

(* Numbers of a network that is being bound. *)
LEMMA BindingNumbers ==
    ASSUME TypeOK, SizesInv, pc \in Binding
    PROVE  /\ NonBios \in Nat \ {0} /\ req.producers \in Nat
           /\ Quotient \in Nat /\ Rest \in 0..NonBios - 1
           /\ req.producers = NonBios * Quotient + Rest
           /\ Quotient = 0 <=> req.producers < NonBios
           /\ bound \in Nat /\ extra \in Nat /\ producerNumber \in Nat
  <1>1. NonBios \in Nat \ {0} /\ req.producers \in Nat
    BY RequestFields DEF TypeOK, SizesInv, NonBios
  <1>2. /\ Quotient \in Nat /\ Rest \in 0..NonBios - 1
        /\ req.producers = NonBios * Quotient + Rest
        /\ Quotient = 0 <=> req.producers < NonBios
    BY <1>1, Division DEF Quotient, Rest
  <1> QED
    BY <1>1, <1>2 DEF TypeOK

(* The account after one more node: an even part less and, as long as      *)
(* there is any, one of the remainder.                                     *)
LEMMA AccountStep ==
    ASSUME TypeOK, SizesInv, Account, BindNode
    PROVE  Account'
  <1> DEFINE N == NonBios
             q == Quotient
             r == Rest
             P == req.producers
  <1>1. /\ N \in Nat \ {0} /\ P \in Nat /\ q \in Nat /\ r \in 0..N - 1
        /\ bound \in Nat /\ extra \in Nat /\ producerNumber \in Nat
    BY BindingNumbers DEF BindNode, Binding
  <1>2. /\ NonBios' = N /\ Quotient' = q /\ Rest' = r /\ req' = req /\ pc' = pc /\ pc \in Binding
        /\ bound' = bound + 1 /\ producerNumber' = producerNumber + Count
        /\ extra' = IF bound < N /\ extra > 0 THEN extra - 1 ELSE extra
    BY DEF BindNode, sizes, NonBios, Quotient, Rest, Binding
  <1>3. CASE bound >= N
    <2>1. Count = 0 /\ extra' = extra
      BY <1>1, <1>2, <1>3 DEF Count
    <2>2. producerNumber = P /\ extra = 0
      BY <1>2, <1>3 DEF Account
    <2> QED
      BY <1>1, <1>2, <1>3, <2>1, <2>2 DEF Account
  <1>4. CASE bound < N
    <2>1. Count = q + (IF extra > 0 THEN 1 ELSE 0)
      BY <1>1, <1>4 DEF Count, Quotient
    <2>2. /\ producerNumber + extra + (N - bound) * q = P
          /\ extra = IF bound < r THEN r - bound ELSE 0
      BY <1>1, <1>2, <1>4 DEF Account
    <2> HIDE DEF N, q, r, P
    <2>3. (N - bound) * q = (N - (bound + 1)) * q + q
      BY <1>1
    <2>4. extra' = IF bound + 1 < r THEN r - (bound + 1) ELSE 0
      BY <1>1, <1>2, <1>4, <2>2
    <2>5. producerNumber' + extra' = producerNumber + q + extra
      BY <1>1, <1>2, <1>4, <2>1
    <2> DEFINE even == (N - (bound + 1)) * q
    <2>6. even \in Nat
      BY <1>1, <1>4
    <2>7. producerNumber' + extra' + even = P
      <3> DEFINE before == (N - bound) * q
      <3>1. before = even + q
        BY <2>3
      <3>2. producerNumber + extra + before = P
        BY <2>2
      <3> HIDE DEF even, before
      <3>3. producerNumber' \in Int /\ extra' \in Int
        BY <1>1, <1>2, <2>1
      <3>4. producerNumber' + extra' + even = producerNumber + q + extra + even
        BY <1>1, <2>5, <2>6, <3>3
      <3> QED
        BY <1>1, <2>6, <3>1, <3>2, <3>4
    <2>8. bound + 1 >= N => producerNumber' = P /\ extra' = 0
      <3>1. ASSUME bound + 1 = N PROVE even = 0 /\ extra' = 0
        BY <1>1, <2>4, <3>1
      <3> HIDE DEF even
      <3>2. producerNumber' \in Int
        BY <1>1, <1>2, <2>1
      <3> QED
        BY <1>1, <1>4, <2>7, <3>1, <3>2
    <2>9. /\ NonBios' = N /\ Quotient' = q /\ Rest' = r /\ req'.producers = P /\ bound' = bound + 1
      BY <1>2 DEF P
    <2> QED
      BY <1>1, <1>4, <2>4, <2>7, <2>8, <2>9 DEF Account
  <1> QED
    BY <1>1, <1>3, <1>4

(* The shares after one more node: the next Count producers.               *)
LEMMA SharesStep ==
    ASSUME TypeOK, SizesInv, Shares, pc \in Binding, NEW c \in {0, Quotient, Quotient + 1},
           share' = Append(share, [first |-> producerNumber, count |-> c]),
           producerNumber' = producerNumber + c, UNCHANGED sizes
    PROVE  Shares'
  <1>1. /\ Quotient \in Nat /\ producerNumber \in Nat /\ c \in Nat
        /\ Quotient' = Quotient
    <2>1. Quotient \in Nat /\ producerNumber \in Nat
      BY BindingNumbers
    <2>2. Quotient' = Quotient
      BY DEF sizes, Quotient, NonBios
    <2>3. c \in Nat
      <3> HIDE DEF Quotient
      <3> QED
        BY <2>1
    <2> QED
      BY <2>1, <2>2, <2>3
  <1> DEFINE L == Len(share)
  <1>2. /\ L \in Nat /\ Len(share') = L + 1
        /\ \A k \in 1..L : share'[k] = share[k]
        /\ share'[L + 1] = [first |-> producerNumber, count |-> c]
    BY DEF TypeOK
  <1>3. \A k \in 1..L : share[k].first \in Nat /\ share[k].count \in Nat
    <2> SUFFICES ASSUME NEW k \in 1..L PROVE share[k].first \in Nat /\ share[k].count \in Nat
      OBVIOUS
    <2> DEFINE Share == [first : Nat, count : Nat]
    <2>1. share \in Seq(Share)
      BY DEF TypeOK
    <2>2. share[k] \in Share
      <3> HIDE DEF Share
      <3> QED
        BY <2>1
    <2> QED
      BY <2>2
  <1>4. ASSUME NEW p \in 0..producerNumber' - 1
        PROVE  \E k \in 1..L + 1 : p \in share'[k].first .. share'[k].first + share'[k].count - 1
    <2>1. CASE p < producerNumber
      <3>1. PICK k \in 1..L : p \in Dealt(k)
        BY <1>1, <2>1 DEF Shares
      <3>2. p \in share'[k].first .. share'[k].first + share'[k].count - 1
        BY <1>2, <3>1 DEF Dealt
      <3> QED
        BY <1>2, <3>2
    <2>2. CASE p >= producerNumber
      <3>1. p \in share'[L + 1].first .. share'[L + 1].first + share'[L + 1].count - 1
        BY <1>1, <1>2, <2>2
      <3> QED
        BY <1>2, <3>1
    <2> QED
      BY <1>1, <2>1, <2>2
  <1>5. ASSUME NEW k \in 1..L + 1
        PROVE  /\ share'[k].first + share'[k].count <= producerNumber'
               /\ share'[k].count \in {0, Quotient, Quotient + 1}
    <2>1. CASE k = L + 1
      BY <1>1, <1>2, <2>1
    <2>2. CASE k \in 1..L
      BY <1>1, <1>2, <1>3, <2>2, SMTT(30) DEF Shares
    <2> QED
      BY <1>2, <2>1, <2>2
  <1>6. ASSUME NEW j \in 1..L + 1, NEW k \in 1..L + 1, j < k
        PROVE  share'[j].first + share'[j].count <= share'[k].first
    <2>1. j \in 1..L
      BY <1>2, <1>6
    <2>2. CASE k = L + 1
      BY <1>1, <1>2, <2>1, <2>2 DEF Shares
    <2>3. CASE k \in 1..L
      BY <1>2, <1>6, <2>1, <2>3 DEF Shares
    <2> QED
      BY <1>2, <2>2, <2>3
  <1> QED
    BY <1>1, <1>2, <1>4, <1>5, <1>6 DEF Shares, Dealt


(* One more node that takes producers, as long as there are takers.        *)
LEMMA TakersStep ==
    ASSUME TypeOK, TakersInv, pc \in Binding, pc' = pc, NEW f, NEW c \in Nat,
           share' = Append(share, [first |-> f, count |-> c]),
           UNCHANGED sizes, bound \in Nat, Takers \in Nat,
           \/ bound' = bound /\ c = 0
           \/ bound' = bound + 1 /\ (c > 0 <=> bound < Takers)
    PROVE  TakersInv'
  <1> DEFINE L == Len(share)
  <1>1. /\ L \in Nat /\ Len(share') = L + 1 /\ DOMAIN share = 1..L /\ DOMAIN share' = 1..L + 1
        /\ \A k \in 1..L : share'[k] = share[k]
        /\ share'[L + 1] = [first |-> f, count |-> c]
    BY DEF TypeOK
  <1>2. Producing' = {k \in 1..L + 1 : share'[k].count > 0}
    BY <1>1 DEF Producing
  <1>3. Producing = {k \in 1..L : share[k].count > 0}
    BY <1>1 DEF Producing
  <1>4. Takers' = Takers
    BY DEF sizes, Takers, NonBios
  <1>5. IsFiniteSet(Producing) /\ Cardinality(Producing) = IF bound < Takers THEN bound ELSE Takers
    BY DEF TakersInv
  <1>6. CASE c = 0
    <2>1. Producing' = Producing
      BY <1>1, <1>2, <1>3, <1>6
    <2> QED
      BY <1>4, <1>5, <1>6, <2>1 DEF TakersInv
  <1>7. CASE c > 0
    <2>1. Producing' = Producing \cup {L + 1} /\ L + 1 \notin Producing
      BY <1>1, <1>2, <1>3, <1>7
    <2>2. /\ IsFiniteSet(Producing \cup {L + 1})
          /\ Cardinality(Producing \cup {L + 1}) = Cardinality(Producing) + 1
      BY <1>5, <2>1, FS_AddElement
    <2>3. bound' = bound + 1 /\ bound < Takers
      BY <1>7
    <2>4. Cardinality(Producing') = bound + 1 /\ IsFiniteSet(Producing')
      BY <1>5, <2>1, <2>2, <2>3
    <2> QED
      BY <1>4, <2>3, <2>4 DEF TakersInv
  <1> QED
    BY <1>6, <1>7

(* Count is positive for the first Takers nodes and no others.             *)
LEMMA CountsTake ==
    ASSUME TypeOK, SizesInv, Account, pc \in Binding
    PROVE  /\ Takers \in Nat
           /\ Count \in {0, Quotient, Quotient + 1} /\ Count \in Nat
           /\ Count > 0 <=> bound < Takers
  <1> DEFINE N == NonBios
             q == Quotient
             r == Rest
             P == req.producers
  <1>1. /\ N \in Nat \ {0} /\ P \in Nat /\ q \in Nat /\ r \in 0..N - 1
        /\ P = N * q + r /\ (q = 0 <=> P < N)
        /\ bound \in Nat /\ extra \in Nat
    BY BindingNumbers
  <1>2. Takers = IF q = 0 THEN P ELSE N
    BY <1>1 DEF Takers
  <1>3. q = 0 => P = r
    BY <1>1
  <1>4. Count = IF bound >= N THEN 0 ELSE q + (IF extra > 0 THEN 1 ELSE 0)
    BY DEF Count, Quotient
  <1>5. bound <= N => extra = IF bound < r THEN r - bound ELSE 0
    BY DEF Account
  <1> HIDE DEF N, q, r, P
  <1>6. Takers \in Nat
    BY <1>1, <1>2
  <1>7. Count \in {0, q, q + 1} /\ Count \in Nat
    BY <1>1, <1>4
  <1>8. ASSUME bound >= N PROVE Count > 0 <=> bound < Takers
    BY <1>1, <1>2, <1>3, <1>4, <1>8
  <1>9. ASSUME bound < N PROVE Count > 0 <=> bound < Takers
    <2>1. extra > 0 <=> bound < r
      BY <1>1, <1>5, <1>9
    <2>2. Count > 0 <=> q > 0 \/ bound < r
      BY <1>1, <1>4, <1>9, <2>1
    <2>3. q \in Nat /\ r \in Nat /\ N \in Nat /\ bound \in Nat
      BY <1>1
    <2>4. CASE q = 0
      <3>1. Takers = r
        BY <1>2, <1>3, <2>4
      <3> QED
        BY <2>2, <2>3, <2>4, <3>1
    <2>5. CASE q # 0
      <3>1. Takers = N /\ q > 0
        BY <1>2, <2>3, <2>5
      <3> QED
        BY <1>9, <2>2, <2>3, <3>1
    <2> QED
      BY <2>4, <2>5
  <1> QED
    BY <1>1, <1>6, <1>7, <1>8, <1>9 DEF q

(* One more node that is bound: it counts unless it is the bios node.      *)
LEMMA BoundStep ==
    ASSUME TypeOK, BoundInv, NEW share1, share' = Append(share, share1),
           Len(share) < Len(placed), UNCHANGED placed,
           \/ placed[Len(share) + 1].bios /\ bound' = bound
           \/ ~placed[Len(share) + 1].bios /\ bound' = bound + 1
    PROVE  BoundInv'
  <1> DEFINE L == Len(share)
             Early == {k \in 1..L : placed[k].bios}
             Now == {k \in 1..L + 1 : placed[k].bios}
  <1>1. L \in Nat /\ Len(share') = L + 1 /\ bound \in Nat
    BY DEF TypeOK
  <1>2. Early = {} => bound = L
    BY DEF BoundInv
  <1>3. (\A j, k \in Early : j = k) => bound >= L - 1
    BY DEF BoundInv
  <1>4. Early \subseteq Now
    BY <1>1
  <1>5. CASE placed[L + 1].bios /\ bound' = bound
    <2>1. L + 1 \in Now
      BY <1>1, <1>5
    <2>2. ASSUME \A j, k \in Now : j = k PROVE Early = {}
      <3>1. ASSUME NEW k \in Early PROVE FALSE
        BY <1>1, <1>4, <2>1, <2>2
      <3> QED
        BY <3>1
    <2>3. Now # {} /\ ((\A j, k \in Now : j = k) => bound' >= (L + 1) - 1)
      BY <1>1, <1>2, <1>5, <2>1, <2>2
    <2> HIDE DEF Now
    <2>4. (Now = {} => bound' = L + 1) /\ ((\A j, k \in Now : j = k) => bound' >= (L + 1) - 1)
      BY <2>3
    <2> QED
      BY <1>1, <2>4 DEF BoundInv, Now
  <1>6. CASE ~placed[L + 1].bios /\ bound' = bound + 1
    <2>1. Now = Early
      BY <1>1, <1>6
    <2>2. (Early = {} => bound' = L + 1) /\ ((\A j, k \in Early : j = k) => bound' >= (L + 1) - 1)
      BY <1>1, <1>2, <1>3, <1>6
    <2>3. (Now = {} => bound' = L + 1) /\ ((\A j, k \in Now : j = k) => bound' >= (L + 1) - 1)
      BY <2>1, <2>2
    <2> QED
      BY <1>1, <2>3 DEF BoundInv
  <1> QED
    BY <1>5, <1>6

(* What holds of the shares while they are dealt out.                      *)
DealInv == Account /\ Shares /\ BoundInv /\ TakersInv

(* Nothing has been dealt out yet. *)
LEMMA NothingDealt ==
    ASSUME share' = <<>>, producerNumber' = 0, bound' = 0
    PROVE  /\ Shares' /\ BoundInv'
           /\ IsFiniteSet(Producing') /\ Cardinality(Producing') = 0
  <1>1. Len(share') = 0 /\ DOMAIN share' = {}
    OBVIOUS
  <1>2. Producing' = {}
    BY <1>1 DEF Producing
  <1> QED
    BY <1>1, <1>2, FS_EmptySet DEF Shares, BoundInv

(* Every round of bind_nodes keeps the account; the others do not touch it.*)
LEMMA DealStep == TypeOK /\ SizesInv /\ DealInv /\ [Next]_vars => DealInv'
  <1> SUFFICES ASSUME TypeOK, SizesInv, DealInv, [Next]_vars PROVE DealInv'
    OBVIOUS
  <1>1. ASSUME pc \notin Binding, pc' \notin Binding, UNCHANGED binding PROVE DealInv'
    <2>1. share' = <<>> /\ producerNumber' = 0 /\ bound' = 0
      BY <1>1 DEF SizesInv, binding
    <2> QED
      BY <1>1, <2>1, NothingDealt DEF DealInv, Account, TakersInv
  <1>2. ASSUME pc \in Binding <=> pc' \in Binding, UNCHANGED <<binding, sizes, placed>>
        PROVE  DealInv'
    BY <1>2 DEF DealInv, Account, Shares, BoundInv, TakersInv, binding, sizes,
       NonBios, Quotient, Rest, Takers, Dealt, Producing
  <1>3. CASE Initialize \/ PlaceOnLocalHost \/ PlaceOnNewHost \/ PlaceOnSameHost \/ RefuseToBind
    BY <1>1, <1>3 DEF Initialize, PlaceOnLocalHost, PlaceOnNewHost, PlaceOnSameHost,
       RefuseToBind, Binding, binding
  <1>4. CASE StartBinding
    <2>1. /\ pc' = "bind_nodes" /\ prodNodes >= 2 /\ extra' = Rest /\ pc = "define_network"
          /\ UNCHANGED <<sizes, placing, share, bound, producerNumber>>
      BY <1>4 DEF StartBinding, Rest
    <2>2. share' = <<>> /\ producerNumber' = 0 /\ bound' = 0
      BY <2>1 DEF SizesInv, Binding
    <2>3. /\ NonBios \in Nat \ {0} /\ req.producers \in Nat
      BY <2>1, RequestFields DEF TypeOK, NonBios
    <2>4. /\ Quotient \in Nat /\ Rest \in 0..NonBios - 1
          /\ req.producers = NonBios * Quotient + Rest
      BY <2>3, Division DEF Quotient, Rest
    <2>5. NonBios' = NonBios /\ Quotient' = Quotient /\ Rest' = Rest /\ Takers' = Takers /\ req' = req
      BY <2>1 DEF sizes, NonBios, Quotient, Rest, Takers
    <2>6. Account'
      <3>1. 0 + Rest + (NonBios - 0) * Quotient = req.producers
        BY <2>3, <2>4
      <3>2. Rest = IF 0 < Rest THEN Rest - 0 ELSE 0
        BY <2>4
      <3> QED
        BY <2>1, <2>2, <2>3, <2>5, <3>1, <3>2 DEF Account
    <2>7. Takers \in Nat
      BY <2>3 DEF Takers
    <2> QED
      BY <2>2, <2>5, <2>6, <2>7, NothingDealt DEF DealInv, TakersInv
  <1>5. CASE BindNode
    <2>1. /\ pc \in Binding /\ pc' = pc /\ UNCHANGED <<sizes, placing>>
          /\ share' = Append(share, [first |-> producerNumber, count |-> Count])
          /\ producerNumber' = producerNumber + Count /\ bound' = bound + 1
          /\ Len(share) < Len(placed) /\ ~placed[Len(share) + 1].bios
      BY <1>5 DEF BindNode, Binding
    <2>2. /\ Takers \in Nat /\ Count \in Nat /\ Count \in {0, Quotient, Quotient + 1}
          /\ Count > 0 <=> bound < Takers
      BY <2>1, CountsTake DEF DealInv
    <2>3. Account'
      BY <1>5, AccountStep DEF DealInv
    <2>4. Shares'
      BY <2>1, <2>2, SharesStep DEF DealInv
    <2>5. BoundInv'
      BY <2>1, BoundStep DEF DealInv, placing
    <2>6. TakersInv'
      <3>1. bound \in Nat
        BY DEF TypeOK
      <3> QED
        BY <2>1, <2>2, <3>1, TakersStep DEF DealInv
    <2> QED
      BY <2>3, <2>4, <2>5, <2>6 DEF DealInv
  <1>6. CASE BindBios
    <2>1. /\ pc \in Binding /\ pc' = pc /\ UNCHANGED <<sizes, placing, producerNumber, extra, bound>>
          /\ share' = Append(share, [first |-> producerNumber, count |-> 0])
          /\ Len(share) < Len(placed) /\ placed[Len(share) + 1].bios
      BY <1>6 DEF BindBios, Binding
    <2>2. /\ Takers \in Nat /\ bound \in Nat /\ producerNumber' = producerNumber + 0
      BY <2>1, CountsTake DEF DealInv, TypeOK
    <2>3. Account'
      BY <2>1 DEF DealInv, Account, sizes, NonBios, Quotient, Rest
    <2>4. Shares'
      BY <2>1, <2>2, SharesStep DEF DealInv
    <2>5. BoundInv'
      BY <2>1, BoundStep DEF DealInv, placing
    <2>6. TakersInv'
      BY <2>1, <2>2, TakersStep DEF DealInv
    <2> QED
      BY <2>3, <2>4, <2>5, <2>6 DEF DealInv
  <1>7. CASE Finish
    BY <1>2, <1>7 DEF Finish, Binding, placing
  <1>8. CASE UNCHANGED vars
    BY <1>2, <1>8 DEF vars, sizes, placing, binding
  <1> QED
    BY <1>3, <1>4, <1>5, <1>6, <1>7, <1>8 DEF Next


(* A network with one bios node at most has it in one place.               *)
LEMMA OneBiosNode ==
    ASSUME TypeOK, Cardinality(BiosNodes) <= 1
    PROVE  \A j, k \in 1..Len(placed) : placed[j].bios /\ placed[k].bios => j = k
  <1> SUFFICES ASSUME NEW j \in 1..Len(placed), NEW k \in 1..Len(placed),
                      placed[j].bios, placed[k].bios, j # k
               PROVE  FALSE
    OBVIOUS
  <1>1. /\ DOMAIN placed = 1..Len(placed) /\ Len(placed) \in Nat
        /\ BiosNodes \in SUBSET (1..Len(placed)) /\ j \in BiosNodes /\ k \in BiosNodes
    BY DEF TypeOK, BiosNodes
  <1>2. IsFiniteSet(BiosNodes)
    <2>1. IsFiniteSet(1..Len(placed))
      BY <1>1, FS_Interval
    <2> QED
      BY <1>1, <2>1, FS_Subset
  <1>3. Cardinality(BiosNodes) \in Nat /\ Cardinality(BiosNodes) # 0
    BY <1>1, <1>2, FS_CardinalityType, FS_EmptySet
  <1>4. Cardinality(BiosNodes) = 1
    BY <1>3
  <1>5. PICK x : BiosNodes = {x}
    BY <1>2, <1>4, FS_Singleton
  <1> QED
    BY <1>1, <1>5

(* When all is bound and there is one bios node at most, every taker has   *)
(* been reached.                                                           *)
LEMMA AllDealt ==
    ASSUME TypeOK, SizesInv, DealInv, pc = "bound", Cardinality(BiosNodes) <= 1
    PROVE  producerNumber = req.producers /\ Cardinality(Producing) = Takers
  <1>1. /\ NonBios \in Nat \ {0} /\ req.producers \in Nat /\ bound \in Nat
    BY BindingNumbers DEF Binding
  <1>2. /\ Len(share) = Len(placed) /\ Len(placed) = totalNodes /\ totalNodes >= prodNodes
        /\ placed \in Seq(Node) /\ Len(placed) \in Nat /\ prodNodes \in Nat /\ totalNodes \in Nat
    BY DEF SizesInv, Binding, TypeOK
  <1>3. \A j, k \in 1..Len(share) : placed[j].bios /\ placed[k].bios => j = k
    BY <1>2, OneBiosNode
  <1>4. bound >= Len(share) - 1
    BY <1>3 DEF DealInv, BoundInv
  <1>5. bound >= NonBios
    BY <1>1, <1>2, <1>4 DEF NonBios
  <1>6. producerNumber = req.producers
    BY <1>5 DEF DealInv, Account, Binding
  <1>7. Takers \in Nat /\ Takers <= NonBios
    BY <1>1 DEF Takers
  <1>8. Cardinality(Producing) = Takers
    BY <1>1, <1>5, <1>7 DEF DealInv, TakersInv, Binding
  <1> QED
    BY <1>6, <1>8

(* The inductive parts imply the property.                                 *)
LEMMA DealtFollows == TypeOK /\ SizesInv /\ DealInv => ProducersDealt
  <1> SUFFICES ASSUME TypeOK, SizesInv, DealInv, pc = "bound", Cardinality(BiosNodes) <= 1
               PROVE  EveryProducerOnce /\ ProducersBalanced
    BY DEF ProducersDealt, EveryProducerOnce, ProducersBalanced
  <1>1. producerNumber = req.producers /\ Cardinality(Producing) = Takers
    BY AllDealt
  <1>2. /\ NonBios \in Nat \ {0} /\ req.producers \in Nat /\ Quotient \in Nat
    BY BindingNumbers DEF Binding
  <1>3. DOMAIN share = 1..Len(share) /\ Len(share) \in Nat
    BY DEF TypeOK
  <1>4. \A k \in 1..Len(share) : share[k].first \in Nat /\ share[k].count \in Nat
    <2> SUFFICES ASSUME NEW k \in 1..Len(share)
                 PROVE  share[k].first \in Nat /\ share[k].count \in Nat
      OBVIOUS
    <2> DEFINE Share == [first : Nat, count : Nat]
    <2>1. share \in Seq(Share)
      BY DEF TypeOK
    <2>2. share[k] \in Share
      <3> HIDE DEF Share
      <3> QED
        BY <2>1
    <2> QED
      BY <2>2
  <1>5. ASSUME NEW p \in 0..req.producers - 1
        PROVE  Cardinality({k \in Producing : p \in Dealt(k)}) = 1
    <2>1. PICK k \in 1..Len(share) : p \in Dealt(k)
      BY <1>1 DEF DealInv, Shares
    <2>2. k \in Producing
      BY <1>3, <1>4, <2>1 DEF Producing, Dealt
    <2>3. ASSUME NEW j \in 1..Len(share), p \in Dealt(j) PROVE j = k
      <3>1. \A a, b \in 1..Len(share) :
               a < b => share[a].first + share[a].count <= share[b].first
        BY DEF DealInv, Shares
      <3>2. /\ share[j].first <= p /\ p <= share[j].first + share[j].count - 1
            /\ share[k].first <= p /\ p <= share[k].first + share[k].count - 1
            /\ share[j].first \in Nat /\ share[j].count \in Nat
            /\ share[k].first \in Nat /\ share[k].count \in Nat
            /\ p \in Int
        <4>1. share[j].first \in Nat /\ share[j].count \in Nat
          BY <1>4
        <4>2. share[k].first \in Nat /\ share[k].count \in Nat
          BY <1>4
        <4>3. p \in Dealt(j) /\ p \in Dealt(k)
          BY <2>1, <2>3
        <4>4. p \in Int
          BY <1>2
        <4> QED
          BY <4>1, <4>2, <4>3, <4>4 DEF Dealt
      <3> DEFINE a == share[j].first
                 m == share[j].count
                 b == share[k].first
                 n == share[k].count
      <3>3. /\ a \in Nat /\ m \in Nat /\ b \in Nat /\ n \in Nat /\ p \in Int
            /\ a <= p /\ p <= a + m - 1 /\ b <= p /\ p <= b + n - 1
        BY <3>2
      <3>4. (j < k => a + m <= b) /\ (k < j => b + n <= a)
        BY <3>1
      <3> HIDE DEF a, m, b, n
      <3>5. ~(a + m <= b) /\ ~(b + n <= a)
        BY <3>3
      <3> QED
        BY <1>3, <3>4, <3>5
    <2>4. {j \in Producing : p \in Dealt(j)} = {k}
      BY <1>3, <2>1, <2>2, <2>3 DEF Producing
    <2> QED
      BY <2>4, FS_Singleton
  <1>6. ASSUME NEW j \in Producing, NEW k \in Producing
        PROVE  share[j].count <= share[k].count + 1
    <2>1. /\ share[j].count \in {Quotient, Quotient + 1}
          /\ share[k].count \in {Quotient, Quotient + 1}
      BY <1>3 DEF Producing, DealInv, Shares
    <2> HIDE DEF Quotient
    <2> QED
      BY <1>2, <2>1
  <1>7. Min({NonBios, req.producers}) = Takers
    BY <1>2 DEF Min, Takers
  <1> QED
    BY <1>1, <1>5, <1>6, <1>7 DEF EveryProducerOnce, ProducersBalanced

(* The inductive parts hold throughout.                                    *)
LEMMA DealHolds == Spec => [](TypeOK /\ SizesInv /\ DealInv)
  <1>1. Init => SizesInv /\ DealInv
    <2> SUFFICES ASSUME Init PROVE SizesInv /\ DealInv
      OBVIOUS
    <2>1. Len(share) = 0 /\ Len(placed) = 0 /\ DOMAIN share = {}
      BY DEF Init
    <2>2. Producing = {}
      BY <2>1 DEF Producing
    <2> QED
      BY <2>1, <2>2, FS_EmptySet
         DEF Init, SizesInv, DealInv, Account, Shares, BoundInv, TakersInv, Binding
  <1> QED
    BY <1>1, TypeCorrect, SizesStep, DealStep, PTL DEF Spec

(* ProducersDealt: for every network with one bios node at most, bind_nodes*)
(* deals each producer to one node, evenly, and to as many as may produce. *)
THEOREM EveryProducerDealt == Spec => []ProducersDealt
  BY DealHolds, DealtFollows, PTL

-----------------------------------------------------------------------------
(* Names.  What is left of a number when its last digits are cut off.      *)
Left(p) == CHOOSE f : f = [k \in 0..11 |-> IF k = 0 THEN p ELSE f[k - 1] \div 26]

LEMMA DigitsLeft ==
  ASSUME NEW p \in Nat
  PROVE  /\ Left(p)[0] = p
         /\ \A k \in 0..11 : Left(p)[k] \in Nat
         /\ \A k \in 1..11 : Left(p)[k] = Left(p)[k - 1] \div 26
         /\ producer_name(p) =
               [q \in 1..12 |-> IF q = 12 \/ Left(p)[12 - q] > 0 THEN Left(p)[12 - q] % 26
                                ELSE Template(p)[q]]
  <1> DEFINE step == [k \in 1..11 |-> [m \in Nat |-> m \div 26]]
             Cut(f) == f = [k \in 0..11 |-> IF k = 0 THEN p ELSE f[k - 1] \div 26]
  <1>1. step \in [1..11 -> [Nat -> Nat]]
    OBVIOUS
  <1>2. PICK f : Steps(step, p, 11, f)
    <2> HIDE DEF step
    <2> QED
      BY <1>1, StepsExist
  <1>3. f \in [0..11 -> Nat] /\ f[0] = p
    BY <1>2 DEF Steps
  <1>4. ASSUME NEW k \in 1..11 PROVE f[k] = f[k - 1] \div 26
    <2>1. f[k - 1] \in Nat /\ f[k] = step[k][f[k - 1]]
      BY <1>2, <1>3 DEF Steps
    <2> QED
      BY <2>1
  <1>5. Cut(f)
    <2>1. ASSUME NEW k \in 0..11 PROVE f[k] = IF k = 0 THEN p ELSE f[k - 1] \div 26
      <3>1. k = 0 \/ k \in 1..11
        OBVIOUS
      <3> QED
        BY <1>3, <1>4, <3>1
    <2>2. f = [k \in 0..11 |-> f[k]]
      BY <1>3
    <2> QED
      BY <2>1, <2>2
  <1>6. Cut(Left(p))
    BY <1>5, Zenon DEF Left
  <1> DEFINE l == Left(p)
  <1>7. ASSUME NEW k \in 0..11 PROVE l[k] = IF k = 0 THEN p ELSE l[k - 1] \div 26
    <2> HIDE DEF l
    <2> QED
      BY <1>6, Zenon DEF l
  <1>8. producer_name(p) =
           [q \in 1..12 |-> IF q = 12 \/ Left(p)[12 - q] > 0 THEN Left(p)[12 - q] % 26
                            ELSE Template(p)[q]]
    BY Zenon DEF producer_name, Left
  <1> HIDE DEF l
  <1>9. l[0] = p /\ \A k \in 1..11 : l[k] = l[k - 1] \div 26
    BY <1>7
  <1>10. ASSUME NEW k \in 0..11 PROVE l[k] = f[k]
    <2> DEFINE Bad == {j \in 0..11 : l[j] # f[j]}
    <2> SUFFICES ASSUME Bad # {} PROVE FALSE
      OBVIOUS
    <2>1. PICK j \in Bad : \A i \in Bad : j <= i
      <3>1. Bad \subseteq Nat
        OBVIOUS
      <3> HIDE DEF Bad
      <3> QED
        BY <3>1, LeastNumber
    <2>2. j # 0
      BY <1>3, <1>9
    <2>3. j \in 1..11 /\ j - 1 \in 0..11 /\ j - 1 \notin Bad
      BY <2>1, <2>2
    <2> QED
      BY <1>4, <1>9, <2>1, <2>3
  <1> QED
    BY <1>3, <1>8, <1>9, <1>10 DEF l

(* A number of 32 bits has seven digits at most.                           *)
LEMMA SevenDigits ==
  ASSUME NEW p \in Nat, p <= 4294967295
  PROVE  Left(p)[6] <= 13 /\ Left(p)[7] = 0
  <1> DEFINE d(k) == Left(p)[k]
  <1>1. d(0) = p /\ \A k \in 0..11 : d(k) \in Nat
    BY DigitsLeft
  <1>2. \A k \in 1..11 : d(k) = d(k - 1) \div 26
    BY DigitsLeft
  <1> HIDE DEF d
  <1>3. d(1) \in Nat /\ d(1) <= 165191049
    BY <1>1, <1>2
  <1>4. d(2) \in Nat /\ d(2) <= 6353501
    BY <1>1, <1>2, <1>3
  <1>5. d(3) \in Nat /\ d(3) <= 244365
    BY <1>1, <1>2, <1>4
  <1>6. d(4) \in Nat /\ d(4) <= 9398
    BY <1>1, <1>2, <1>5
  <1>7. d(5) \in Nat /\ d(5) <= 361
    BY <1>1, <1>2, <1>6
  <1>8. d(6) \in Nat /\ d(6) <= 13
    BY <1>1, <1>2, <1>7
  <1>9. d(7) = 0
    BY <1>1, <1>2, <1>8
  <1> QED
    BY <1>8, <1>9 DEF d

(* Above 26 the letters from the sixth on are the digits.                  *)
LEMMA LongName ==
  ASSUME NEW p \in Nat, p > 26, NEW q \in 6..12
  PROVE  producer_name(p)[q] = Left(p)[12 - q] % 26
  <1>1. /\ 12 - q \in 0..11 /\ q \in 1..12
        /\ Left(p)[12 - q] \in Nat
    BY DigitsLeft
  <1>2. producer_name(p)[q] =
           IF q = 12 \/ Left(p)[12 - q] > 0 THEN Left(p)[12 - q] % 26 ELSE Template(p)[q]
    BY <1>1, DigitsLeft
  <1>3. Template(p)[q] = 0
    <2>1. q \in {6, 7, 8, 9, 10, 11, 12}
      OBVIOUS
    <2> QED
      BY <2>1 DEF Template, defpraaaaaaa
  <1>4. Left(p)[12 - q] = 0 => Left(p)[12 - q] % 26 = 0
    OBVIOUS
  <1> QED
    BY <1>1, <1>2, <1>3, <1>4

(* Up to 26 the name is that of old, of which at most two letters change.  *)
LEMMA ShortName ==
  ASSUME NEW p \in 0..26
  PROVE  /\ \A q \in 1..10 : producer_name(p)[q] = defproducera[q]
         /\ producer_name(p)[11] = IF p = 26 THEN 1 ELSE defproducera[11]
         /\ producer_name(p)[12] = p % 26
  <1> DEFINE d(k) == Left(p)[k]
  <1>1. d(0) = p /\ \A k \in 0..11 : d(k) \in Nat
    BY DigitsLeft
  <1>2. \A k \in 1..11 : d(k) = d(k - 1) \div 26
    BY DigitsLeft
  <1>3. \A q \in 1..12 : producer_name(p)[q] =
           IF q = 12 \/ d(12 - q) > 0 THEN d(12 - q) % 26 ELSE Template(p)[q]
    BY DigitsLeft
  <1>4. Template(p) = defproducera
    BY DEF Template
  <1> HIDE DEF d
  <1>5. d(0) = p /\ d(1) = IF p = 26 THEN 1 ELSE 0
    BY <1>1, <1>2
  <1>6. d(2) = 0
    BY <1>2, <1>5
  <1>7. d(3) = 0 /\ d(4) = 0 /\ d(5) = 0 /\ d(6) = 0
    <2>1. d(3) = 0
      BY <1>2, <1>6
    <2>2. d(4) = 0
      BY <1>2, <2>1
    <2>3. d(5) = 0
      BY <1>2, <2>2
    <2>4. d(6) = 0
      BY <1>2, <2>3
    <2> QED
      BY <2>1, <2>2, <2>3, <2>4
  <1>8. d(7) = 0 /\ d(8) = 0 /\ d(9) = 0 /\ d(10) = 0 /\ d(11) = 0
    <2>1. d(7) = 0
      BY <1>2, <1>7
    <2>2. d(8) = 0
      BY <1>2, <2>1
    <2>3. d(9) = 0
      BY <1>2, <2>2
    <2>4. d(10) = 0
      BY <1>2, <2>3
    <2>5. d(11) = 0
      BY <1>2, <2>4
    <2> QED
      BY <2>1, <2>2, <2>3, <2>4, <2>5
  <1>9. ASSUME NEW q \in 1..10 PROVE producer_name(p)[q] = defproducera[q]
    <2>1. 12 - q \in {2, 3, 4, 5, 6, 7, 8, 9, 10, 11}
      OBVIOUS
    <2>2. d(12 - q) = 0
      BY <1>6, <1>7, <1>8, <2>1
    <2> QED
      BY <1>3, <1>4, <2>2
  <1>10. producer_name(p)[11] = IF p = 26 THEN 1 ELSE defproducera[11]
    <2>1. producer_name(p)[11] = IF d(1) > 0 THEN d(1) % 26 ELSE defproducera[11]
      BY <1>3, <1>4
    <2> QED
      BY <1>5, <2>1
  <1>11. producer_name(p)[12] = p % 26
    <2>1. producer_name(p)[12] = d(0) % 26
      BY <1>3
    <2> QED
      BY <1>5, <2>1
  <1> QED
    BY <1>9, <1>10, <1>11

(* No two numbers of 32 bits have the same name.                           *)
LEMMA NamesDiffer ==
  ASSUME NEW p \in Nat, NEW q \in Nat, p <= 4294967295, q <= 4294967295,
         producer_name(p) = producer_name(q)
  PROVE  p = q
  <1>1. ASSUME NEW m \in 0..26, NEW n \in Nat, n > 26, n <= 4294967295
        PROVE  producer_name(m) # producer_name(n)
    <2>1. producer_name(m)[6] = 14
      BY ShortName DEF defproducera
    <2>2. producer_name(n)[6] = Left(n)[6] % 26
      BY <1>1, LongName
    <2>3. Left(n)[6] \in Nat /\ Left(n)[6] <= 13
      BY <1>1, DigitsLeft, SevenDigits
    <2>4. Left(n)[6] % 26 # 14
      BY <2>3
    <2> QED
      BY <2>1, <2>2, <2>4
  <1>2. CASE p <= 26 /\ q <= 26
    <2>1. /\ producer_name(p)[11] = IF p = 26 THEN 1 ELSE 17
          /\ producer_name(q)[11] = IF q = 26 THEN 1 ELSE 17
          /\ producer_name(p)[12] = p % 26
          /\ producer_name(q)[12] = q % 26
      BY <1>2, ShortName DEF defproducera
    <2>2. p = 26 <=> q = 26
      BY <2>1
    <2>3. p % 26 = q % 26
      BY <2>1
    <2> QED
      BY <1>2, <2>2, <2>3
  <1>3. CASE p > 26 /\ q > 26
    <2> DEFINE a(k) == Left(p)[k]
               b(k) == Left(q)[k]
    <2>1. /\ a(0) = p /\ \A k \in 0..11 : a(k) \in Nat
          /\ b(0) = q /\ \A k \in 0..11 : b(k) \in Nat
      BY DigitsLeft
    <2>2. \A k \in 1..11 : a(k) = a(k - 1) \div 26 /\ b(k) = b(k - 1) \div 26
      BY DigitsLeft
    <2>3. a(7) = b(7)
      BY SevenDigits
    <2>4. \A k \in 0..6 : a(k) % 26 = b(k) % 26
      <3> SUFFICES ASSUME NEW k \in 0..6 PROVE a(k) % 26 = b(k) % 26
        OBVIOUS
      <3>1. 12 - k \in 6..12 /\ 12 - (12 - k) = k
        OBVIOUS
      <3>2. /\ producer_name(p)[12 - k] = Left(p)[12 - (12 - k)] % 26
            /\ producer_name(q)[12 - k] = Left(q)[12 - (12 - k)] % 26
        BY <1>3, <3>1, LongName
      <3> QED
        BY <3>1, <3>2
    <2> HIDE DEF a, b
    <2>5. ASSUME NEW k \in 0..6, a(k + 1) = b(k + 1) PROVE a(k) = b(k)
      <3>1. k + 1 \in 1..11 /\ (k + 1) - 1 = k /\ k \in 0..11
        OBVIOUS
      <3>2. a(k + 1) = a(k) \div 26 /\ b(k + 1) = b(k) \div 26
        BY <2>2, <3>1
      <3>3. a(k) \in Nat /\ b(k) \in Nat /\ a(k) % 26 = b(k) % 26
        BY <2>1, <2>4, <3>1
      <3> QED
        BY <2>5, <3>2, <3>3
    <2>6. a(6) = b(6)
      BY <2>3, <2>5
    <2>7. a(5) = b(5)
      BY <2>5, <2>6
    <2>8. a(4) = b(4)
      BY <2>5, <2>7
    <2>9. a(3) = b(3)
      BY <2>5, <2>8
    <2>10. a(2) = b(2)
      BY <2>5, <2>9
    <2>11. a(1) = b(1)
      BY <2>5, <2>10
    <2>12. a(0) = b(0)
      BY <2>5, <2>11
    <2> QED
      BY <2>1, <2>12
  <1> QED
    BY <1>1, <1>2, <1>3

(* The names of a network are those of the numbers of its producers.       *)
LEMMA NamesOfNumbers ==
  ASSUME TypeOK, SizesInv, DealInv, pc = "bound", Cardinality(BiosNodes) <= 1
  PROVE  ProducerNames = {producer_name(p) : p \in 0..req.producers - 1}
  <1> DEFINE Numbers == 0..req.producers - 1
  <1>1. /\ producerNumber = req.producers /\ req.producers \in Nat
        /\ DOMAIN share = 1..Len(share) /\ Len(share) \in Nat
    BY AllDealt, RequestFields DEF TypeOK
  <1>2. ASSUME NEW k \in 1..Len(share)
        PROVE  share[k].first \in Nat /\ share[k].count \in Nat
    <2> DEFINE Share == [first : Nat, count : Nat]
    <2>1. share[k] \in Share
      <3>1. share \in Seq(Share)
        BY DEF TypeOK
      <3> HIDE DEF Share
      <3> QED
        BY <3>1
    <2> QED
      BY <2>1
  <1>3. ASSUME NEW k \in Producing, NEW p \in Dealt(k) PROVE p \in Numbers
    <2>1. k \in 1..Len(share)
      BY <1>1 DEF Producing
    <2>2. share[k].first + share[k].count <= req.producers
      BY <1>1, <2>1 DEF DealInv, Shares
    <2> QED
      BY <1>1, <1>2, <2>1, <2>2 DEF Dealt
  <1>4. ASSUME NEW p \in Numbers PROVE \E k \in Producing : p \in Dealt(k)
    <2>1. PICK k \in 1..Len(share) : p \in Dealt(k)
      BY <1>1 DEF DealInv, Shares
    <2>2. k \in Producing
      BY <1>1, <1>2, <2>1 DEF Producing, Dealt
    <2> QED
      BY <2>1, <2>2
  <1>5. ASSUME NEW x \in ProducerNames PROVE x \in {producer_name(p) : p \in Numbers}
    <2>1. PICK k \in Producing : x \in {producer_name(p) : p \in Dealt(k)}
      BY Zenon DEF ProducerNames
    <2>2. PICK p \in Dealt(k) : x = producer_name(p)
      BY <2>1
    <2> HIDE DEF Numbers
    <2> QED
      BY <1>3, <2>2
  <1>6. ASSUME NEW p \in Numbers PROVE producer_name(p) \in ProducerNames
    <2>1. PICK k \in Producing : p \in Dealt(k)
      BY <1>4
    <2>2. producer_name(p) \in {producer_name(i) : i \in Dealt(k)}
      BY <2>1
    <2> QED
      BY <2>1, <2>2, Zenon DEF ProducerNames
  <1> HIDE DEF Numbers
  <1>7. ProducerNames = {producer_name(p) : p \in Numbers}
    BY <1>5, <1>6
  <1> QED
    BY <1>7 DEF Numbers

(* As many names as numbers. *)
LEMMA NamesCount ==
  ASSUME NEW n \in Nat, n <= 4294967296
  PROVE  Cardinality({producer_name(p) : p \in 0..n - 1}) = n
  <1> DEFINE Numbers == 0..n - 1
             Names == {producer_name(p) : p \in Numbers}
             name == [p \in Numbers |-> producer_name(p)]
  <1>1. IsFiniteSet(Numbers) /\ Cardinality(Numbers) = n
    <2>1. IsFiniteSet(Numbers) /\ Cardinality(Numbers) = IF 0 > n - 1 THEN 0 ELSE (n - 1) - 0 + 1
      BY FS_Interval
    <2> QED
      BY <2>1
  <1>2. ASSUME NEW p \in Numbers, NEW q \in Numbers, producer_name(p) = producer_name(q)
        PROVE  p = q
    BY <1>2, NamesDiffer
  <1> HIDE DEF Numbers
  <1>3. name \in [Numbers -> Names]
    OBVIOUS
  <1>4. name \in Injection(Numbers, Names)
    <2>1. \A p, q \in Numbers : name[p] = name[q] => p = q
      BY <1>2
    <2>2. DOMAIN name = Numbers
      OBVIOUS
    <2> HIDE DEF name, Names
    <2> QED
      BY <1>3, <2>1, <2>2 DEF Injection, IsInjective
  <1>5. name \in Surjection(Numbers, Names)
    <2>1. \A x \in Names : \E p \in Numbers : name[p] = x
      OBVIOUS
    <2> HIDE DEF name, Names
    <2> QED
      BY <1>3, <2>1 DEF Surjection
  <1>6. ExistsBijection(Numbers, Names)
    <2> HIDE DEF name, Names
    <2> QED
      BY <1>4, <1>5 DEF ExistsBijection, Bijection
  <1>7. Cardinality(Names) = Cardinality(Numbers)
    <2> HIDE DEF Names
    <2> QED
      BY <1>1, <1>6, FS_Bijection
  <1> QED
    BY <1>1, <1>7 DEF Numbers

LEMMA NamesFollow == TypeOK /\ SizesInv /\ DealInv => NamesIdentify
  <1> SUFFICES ASSUME TypeOK, SizesInv, DealInv, pc = "bound", Cardinality(BiosNodes) <= 1
               PROVE  /\ Cardinality(ProducerNames) = req.producers
                      /\ \A letter \in 0..Min({req.producers, 26}) - 1 :
                            [defproducera EXCEPT ![12] = letter] \in ProducerNames
    BY DEF NamesIdentify
  <1>1. req.producers \in Nat /\ req.producers <= 4294967296
    <2>1. req.producers \in Nat /\ req.producers \div 65536 < 65536
      BY RequestFields, RequestsAssumption DEF TypeOK
    <2> QED
      BY <2>1
  <1>2. ProducerNames = {producer_name(p) : p \in 0..req.producers - 1}
    BY NamesOfNumbers
  <1>3. Cardinality(ProducerNames) = req.producers
    BY <1>1, <1>2, NamesCount
  <1>4. ASSUME NEW letter \in 0..Min({req.producers, 26}) - 1
        PROVE  [defproducera EXCEPT ![12] = letter] \in ProducerNames
    <2>1. Min({req.producers, 26}) <= 26 /\ Min({req.producers, 26}) <= req.producers
          /\ Min({req.producers, 26}) \in Nat
      BY <1>1 DEF Min
    <2>2. letter \in 0..25 /\ letter \in 0..req.producers - 1
      BY <1>1, <2>1
    <2> DEFINE renamed == [defproducera EXCEPT ![12] = letter]
    <2>3. DOMAIN defproducera = 1..12
      BY DEF defproducera
    <2>4. DOMAIN renamed = 1..12 /\ \A q \in 1..12 :
             renamed[q] = IF q = 12 THEN letter ELSE defproducera[q]
      BY <2>3
    <2>5. /\ \A q \in 1..10 : producer_name(letter)[q] = defproducera[q]
          /\ producer_name(letter)[11] = defproducera[11]
          /\ producer_name(letter)[12] = letter
      <3>1. letter \in 0..26 /\ letter # 26 /\ letter % 26 = letter
        BY <2>2
      <3> QED
        BY <3>1, ShortName
    <2>6. renamed = [q \in 1..12 |-> renamed[q]]
      BY <2>4
    <2>7. producer_name(letter) = [q \in 1..12 |-> producer_name(letter)[q]]
      <3>1. letter \in Nat
        BY <2>2
      <3> QED
        BY <3>1, DigitsLeft
    <2> HIDE DEF renamed
    <2>8. ASSUME NEW q \in 1..12 PROVE producer_name(letter)[q] = renamed[q]
      <3>1. q \in 1..10 \/ q = 11 \/ q = 12
        OBVIOUS
      <3> QED
        BY <2>4, <2>5, <3>1
    <2>9. producer_name(letter) = renamed
      BY <2>6, <2>7, <2>8
    <2> QED
      BY <1>2, <2>2, <2>9 DEF renamed
  <1> QED
    BY <1>3, <1>4

(* NamesIdentify: in every network with one bios node at most no two       *)
(* producers have the same name, and the first 26 have the names of old.   *)
THEOREM NamesAreDistinct == Spec => []NamesIdentify
  BY DealHolds, NamesFollow, PTL

-----------------------------------------------------------------------------
(* A network with a server file: its sizes are those of the list, and the  *)
(* nodes of a server follow those of the servers before it.  Only the last *)
(* server that was given nodes can be an idle one; ph_count is below zero  *)
(* then.                                                                   *)
ListedInv ==
    pc # "initialize" /\ req.servers # <<>> =>
        /\ perHost = 1
        /\ prodNodes <= Instances(req.servers, req.prodServers)
        /\ totalNodes = Instances(req.servers, Len(req.servers))

FillInv ==
    req.servers # <<>> =>
        /\ hostNdx <= Len(req.servers)
        /\ Len(placed) = Instances(req.servers, hostNdx) - phCount
        /\ hostNdx > 0 => Instances(req.servers, hostNdx - 1) < Len(placed)
        /\ \A i \in 1..hostNdx :
              req.servers[i].instances = 0 <=> i = hostNdx /\ phCount < 0

SpreadInv ==
    req.servers # <<>> =>
        \A j \in 1..Len(placed) :
            /\ Instances(req.servers, placed[j].host) < j
            /\ placed[j].host < hostNdx - 1 =>
                  j <= Instances(req.servers, placed[j].host + 1)

(* The nodes that produce are among the first ones. *)
EarlyInv ==
    (\A j, k \in 1..Len(placed) : placed[j].bios /\ placed[k].bios => j = k) =>
        \A k \in 1..Len(share) : share[k].count > 0 => k <= prodNodes

HonourInv == ListedInv /\ FillInv /\ SpreadInv /\ EarlyInv

(* The sums grow along the list.                                           *)
LEMMA InstancesGrow ==
  ASSUME NEW list \in Seq(Server),
         NEW a \in 0..Len(list), NEW b \in 0..Len(list), a <= b
  PROVE  Instances(list, a) <= Instances(list, b)
  <1> DEFINE n == Len(list)
             I(k) == Instances(list, k)
             add(k) == list[k].instances
             Bad == {c \in a..n : ~(I(a) <= I(c))}
  <1>1. /\ n \in Nat
        /\ \A k \in 0..n : I(k) \in Nat
        /\ \A k \in 1..n : add(k) \in Nat /\ I(k) = I(k - 1) + add(k)
    BY InstancesAdd
  <1> HIDE DEF n, I, add
  <1>2. ASSUME Bad # {} PROVE FALSE
    <2>1. a \in Nat /\ Bad \subseteq Nat
      BY <1>1 DEF n
    <2>2. PICK c \in Bad : \A k \in Bad : c <= k
      <3> HIDE DEF Bad
      <3> QED
        BY <1>2, <2>1, LeastNumber
    <2>3. c \in a..n /\ I(a) \in Nat
      BY <1>1, <2>1, <2>2 DEF n
    <2>4. c # a
      <3>1. a \notin Bad
        BY <2>1, <2>3
      <3> QED
        BY <2>2, <3>1
    <2>5. c \in 1..n /\ c - 1 \in a..n /\ c - 1 \notin Bad
      <3>1. n \in Nat /\ c \in Nat /\ a <= c /\ c <= n
        BY <1>1, <2>1, <2>3
      <3>2. c \in 1..n /\ c - 1 \in a..n
        BY <2>1, <2>4, <3>1
      <3> HIDE DEF Bad
      <3> QED
        BY <2>2, <3>1, <3>2
    <2>6. I(a) <= I(c - 1)
      BY <2>5
    <2>7. add(c) \in Nat /\ I(c) = I(c - 1) + add(c) /\ I(c - 1) \in Nat /\ I(c) \in Nat
      <3>1. c - 1 \in 0..n /\ c \in 0..n
        BY <2>1, <2>5
      <3> QED
        BY <1>1, <2>5, <3>1
    <2>8. I(a) <= I(c)
      BY <2>3, <2>6, <2>7
    <2> QED
      BY <2>2, <2>8
  <1>3. b \in a..n
    BY <1>1 DEF n
  <1> QED
    BY <1>2, <1>3 DEF n, I, add

(* What a placement does with a server file: another node on the server    *)
(* that is being filled, or the first one of the next.                     *)
LEMMA FillStep ==
  ASSUME TypeOK, PlaceInv, ListedInv, FillInv, SpreadInv, req.servers # <<>>,
         PlaceOnNewHost \/ PlaceOnSameHost
  PROVE  FillInv' /\ SpreadInv'
  <1> DEFINE n == Len(req.servers)
             I(k) == Instances(req.servers, k)
             L == Len(placed)
  <1>1. /\ n \in Nat /\ L \in Nat /\ hostNdx \in Nat /\ phCount \in Int
        /\ req.servers \in Seq(Server) /\ req' = req
    <2>1. req' = req
      BY DEF PlaceOnNewHost, PlaceOnSameHost, sizes
    <2>2. req.servers \in Seq(Server)
      BY RequestFields DEF TypeOK
    <2> QED
      BY <2>1, <2>2 DEF TypeOK
  <1>2. /\ \A k \in 0..n : I(k) \in Nat
        /\ \A k \in 1..n : /\ req.servers[k].instances \in Nat
                           /\ I(k) = I(k - 1) + req.servers[k].instances
    BY <1>1, InstancesAdd
  <1>3. /\ hostNdx <= n
        /\ L = I(hostNdx) - phCount
        /\ hostNdx > 0 => I(hostNdx - 1) < L
        /\ \A i \in 1..hostNdx :
              req.servers[i].instances = 0 <=> i = hostNdx /\ phCount < 0
    BY DEF FillInv
  <1>4. \A j \in 1..L : /\ I(placed[j].host) < j
                        /\ placed[j].host < hostNdx - 1 => j <= I(placed[j].host + 1)
    BY DEF SpreadInv
  <1>5. \A j \in 1..L : placed[j].host \in Nat /\ placed[j].host < hostNdx
    <2> SUFFICES ASSUME NEW j \in 1..L PROVE placed[j].host \in Nat /\ placed[j].host < hostNdx
      OBVIOUS
    <2>1. placed[j] \in Node
      BY DEF TypeOK
    <2> QED
      BY <2>1 DEF Node, PlaceInv
  <1>6. L < I(n)
    BY DEF ListedInv, PlaceOnNewHost, PlaceOnSameHost
  <1>7. ASSUME NEW h \in Nat, NEW ndx \in Nat, NEW ph \in Int,
               ndx <= n, h < n, hostNdx' = ndx, phCount' = ph,
               Len(placed') = L + 1, \A j \in 1..L : placed'[j] = placed[j],
               placed'[L + 1].host = h,
               L + 1 = I(ndx) - ph, ndx > 0 => I(ndx - 1) < L + 1,
               \A i \in 1..ndx : req.servers[i].instances = 0 <=> i = ndx /\ ph < 0,
               I(h) < L + 1, h = ndx - 1,
               \A j \in 1..L : placed[j].host < ndx - 1 => j <= I(placed[j].host + 1)
        PROVE  FillInv' /\ SpreadInv'
    <2>1. FillInv'
      BY <1>1, <1>7 DEF FillInv
    <2>2. ASSUME NEW j \in 1..L + 1
          PROVE  /\ I(placed'[j].host) < j
                 /\ placed'[j].host < ndx - 1 => j <= I(placed'[j].host + 1)
      <3>1. CASE j = L + 1
        BY <1>1, <1>7, <3>1
      <3>2. CASE j # L + 1
        <4>1. j \in 1..L
          BY <1>1, <3>2
        <4> HIDE DEF L, I
        <4> QED
          BY <1>4, <1>7, <4>1
      <3> QED
        BY <3>1, <3>2
    <2>3. SpreadInv'
      <3> HIDE DEF L
      <3> QED
        BY <1>1, <1>7, <2>2 DEF SpreadInv
    <2> QED
      BY <2>1, <2>3
  <1>8. CASE PlaceOnNewHost
    <2>1. /\ phCount = 0 /\ hostNdx' = hostNdx + 1
          /\ phCount' = ServerAt(hostNdx).instances - 1
          /\ Place(ServerAt(hostNdx).hasBios, hostNdx, 0)
      BY <1>8 DEF PlaceOnNewHost
    <2>2. L = I(hostNdx)
      <3> HIDE DEF L, I, n
      <3>1. I(hostNdx) \in Nat
        BY <1>1, <1>2, <1>3
      <3> QED
        BY <1>1, <1>3, <2>1, <3>1
    <2>3. hostNdx < n
      BY <1>1, <1>3, <1>6, <2>2
    <2>4. ServerAt(hostNdx) = req.servers[hostNdx + 1] /\ ServerAt(hostNdx).hasBios \in BOOLEAN
      <3>1. ServerAt(hostNdx) \in Server
        BY <1>1, ServerAtType
      <3>2. ServerAt(hostNdx).hasBios \in BOOLEAN
        BY <3>1, Zenon DEF Server
      <3> QED
        BY <2>3, <3>2, Zenon DEF ServerAt
    <2>5. /\ Len(placed') = L + 1 /\ \A j \in 1..L : placed'[j] = placed[j]
          /\ placed'[L + 1].host = hostNdx
      <3> DEFINE isBios == ServerAt(hostNdx).hasBios
      <3>1. isBios \in BOOLEAN /\ Place(isBios, hostNdx, 0) /\ hostNdx \in Nat /\ 0 \in Nat
        BY <1>1, <2>1, <2>4
      <3> HIDE DEF isBios
      <3> QED
        BY <3>1, PlacedFields
    <2>6. hostNdx + 1 \in 1..n /\ (hostNdx + 1) - 1 = hostNdx
      BY <1>1, <2>3
    <2>7. /\ req.servers[hostNdx + 1].instances \in Nat
          /\ I(hostNdx + 1) = I(hostNdx) + req.servers[hostNdx + 1].instances
          /\ I(hostNdx) \in Nat
      <3>1. hostNdx \in 0..n
        BY <1>1, <1>3
      <3>2. I(hostNdx) \in Nat
        BY <1>2, <3>1
      <3> HIDE DEF I
      <3> QED
        BY <1>2, <2>6, <3>2
    <2>8. \A i \in 1..hostNdx : req.servers[i].instances # 0
      BY <1>3, <2>1
    <2>9. \A j \in 1..L : placed[j].host < hostNdx => j <= I(placed[j].host + 1)
      <3> SUFFICES ASSUME NEW j \in 1..L, placed[j].host < hostNdx
                   PROVE  j <= I(placed[j].host + 1)
        OBVIOUS
      <3>1. placed[j].host \in Nat
        BY <1>5
      <3>2. CASE placed[j].host < hostNdx - 1
        BY <1>4, <3>2
      <3>3. CASE ~(placed[j].host < hostNdx - 1)
        <4>1. placed[j].host + 1 = hostNdx
          BY <1>1, <3>1, <3>3
        <4>2. j <= L
          BY <1>1
        <4> QED
          BY <2>2, <4>1, <4>2
      <3> QED
        BY <3>2, <3>3
    <2> DEFINE ph == req.servers[hostNdx + 1].instances - 1
               ndx == hostNdx + 1
    <2>10. /\ ph \in Int /\ phCount' = ph /\ L + 1 = I(ndx) - ph
           /\ \A i \in 1..ndx : req.servers[i].instances = 0 <=> i = ndx /\ ph < 0
      <3> DEFINE c == req.servers[hostNdx + 1].instances
      <3>1. /\ c \in Nat /\ I(ndx) = I(hostNdx) + c /\ I(hostNdx) \in Nat
            /\ phCount' = c - 1 /\ ph = c - 1
        BY <2>1, <2>4, <2>7
      <3>2. ndx = hostNdx + 1 /\ req.servers[ndx].instances = c
        OBVIOUS
      <3> HIDE DEF L, I, c, ph, ndx
      <3>3. ph \in Int /\ phCount' = ph /\ L + 1 = I(ndx) - ph /\ (ph < 0 <=> c = 0)
        BY <1>1, <2>2, <3>1
      <3>4. ASSUME NEW i \in 1..ndx
            PROVE  req.servers[i].instances = 0 <=> i = ndx /\ ph < 0
        <4>1. i # ndx => i \in 1..hostNdx
          BY <1>1, <3>2
        <4> QED
          BY <2>8, <3>2, <3>3, <4>1
      <3> QED
        BY <3>3, <3>4
    <2>11. /\ ndx \in Nat /\ ndx <= n /\ ndx - 1 = hostNdx /\ hostNdx' = ndx
           /\ I(hostNdx) < L + 1
      BY <1>1, <2>1, <2>2, <2>6
    <2> HIDE DEF ph, L, I, n, ndx
    <2> QED
      BY <1>1, <1>7, <2>3, <2>5, <2>9, <2>10, <2>11
  <1>9. CASE PlaceOnSameHost
    <2>1. /\ phCount # 0 /\ hostNdx' = hostNdx /\ phCount' = phCount - 1
          /\ Place(FALSE, hostNdx - 1, hostCount)
      BY <1>9 DEF PlaceOnSameHost
    <2>2. hostNdx > 0 /\ hostNdx - 1 \in Nat /\ hostCount \in Nat
      BY <1>1, <2>1 DEF TypeOK
    <2>3. /\ Len(placed') = L + 1 /\ \A j \in 1..L : placed'[j] = placed[j]
          /\ placed'[L + 1].host = hostNdx - 1
      BY <2>1, <2>2, PlacedFields
    <2>4. I(hostNdx) \in Nat /\ I(hostNdx - 1) \in Nat /\ hostNdx - 1 < n
      <3>1. hostNdx \in 0..n /\ hostNdx - 1 \in 0..n
        BY <1>1, <1>3, <2>2
      <3> QED
        BY <1>1, <1>2, <3>1
    <2> DEFINE ph == phCount - 1
    <2>5. /\ ph \in Int /\ L + 1 = I(hostNdx) - ph
          /\ I(hostNdx - 1) < L + 1
          /\ phCount < 0 <=> ph < 0
      <3> HIDE DEF L, I, n
      <3>1. hostNdx \in 1..hostNdx
        BY <1>1, <2>2
      <3> QED
        BY <1>1, <1>3, <2>1, <2>2, <2>4, <3>1
    <2>6. \A j \in 1..L : placed[j].host < hostNdx - 1 => j <= I(placed[j].host + 1)
      BY <1>4
    <2>7. phCount' = ph
      BY <2>1
    <2> HIDE DEF ph, L, I, n
    <2> QED
      BY <1>1, <1>3, <1>7, <2>1, <2>2, <2>3, <2>4, <2>5, <2>6, <2>7
  <1> QED
    BY <1>8, <1>9

(* The sizes are settled from the list, and the first nodes are those of   *)
(* the producer hosts.                                                     *)
LEMMA ListedStep ==
  ASSUME TypeOK, Initialize
  PROVE  ListedInv'
  <1> SUFFICES ASSUME req.servers # <<>> PROVE ListedInv'
    BY DEF ListedInv, Initialize
  <1> DEFINE A == Instances(req.servers, req.prodServers)
             B == Instances(req.servers, Len(req.servers))
  <1>1. /\ req.servers \in Seq(Server) /\ Len(req.servers) \in Nat
        /\ req.prodServers \in 0..Len(req.servers) /\ req.producers \in Nat
    BY RequestFields DEF TypeOK
  <1>2. A \in Nat /\ B \in Nat
    BY <1>1, InstancesAdd
  <1>3. A <= B
    BY <1>1, InstancesGrow
  <1>4. /\ AskedProdNodes = A /\ AskedTotalNodes = B
    BY DEF AskedProdNodes, AskedTotalNodes
  <1>5. /\ prodNodes' = IF A > req.producers + 1 THEN req.producers ELSE A
        /\ totalNodes' = IF prodNodes' > B THEN prodNodes' ELSE B
        /\ perHost' = 1 /\ req' = req
    BY <1>4 DEF Initialize
  <1> HIDE DEF A, B
  <1>6. prodNodes' <= A /\ totalNodes' = B
    BY <1>1, <1>2, <1>3, <1>5
  <1> QED
    BY <1>5, <1>6 DEF ListedInv, A, B

(* A node is dealt producers only before prod_nodes - 1 others have been,  *)
(* the bios node, if any, not counted.                                     *)
LEMMA EarlyStep ==
  ASSUME TypeOK, SizesInv, DealInv, EarlyInv, BindNode \/ BindBios
  PROVE  EarlyInv'
  <1> DEFINE L == Len(share)
  <1>1. /\ L \in Nat /\ Len(placed) \in Nat /\ L + 1 <= Len(placed) /\ bound \in Nat
        /\ prodNodes \in Nat /\ prodNodes' = prodNodes /\ placed' = placed
    <2>1. L \in Nat /\ Len(placed) \in Nat /\ bound \in Nat /\ prodNodes \in Nat
      BY DEF TypeOK
    <2>2. L < Len(placed) /\ prodNodes' = prodNodes /\ placed' = placed
      BY DEF BindNode, BindBios, sizes, placing
    <2> QED
      BY <2>1, <2>2
  <1>2. PICK one : share' = Append(share, one) /\ (one.count > 0 => BindNode /\ one.count = Count)
    <2>1. CASE BindNode
      BY <2>1 DEF BindNode
    <2>2. CASE BindBios
      BY <2>2 DEF BindBios
    <2> QED
      BY <2>1, <2>2
  <1>3. /\ Len(share') = L + 1 /\ share'[L + 1] = one
        /\ \A k \in 1..L : share'[k] = share[k]
    BY <1>2 DEF TypeOK
  <1> SUFFICES ASSUME \A j, k \in 1..Len(placed) : placed[j].bios /\ placed[k].bios => j = k,
                      NEW k \in 1..L + 1, share'[k].count > 0
               PROVE  k <= prodNodes
    BY <1>1, <1>3 DEF EarlyInv
  <1>4. CASE k # L + 1
    <2>1. k \in 1..L /\ share[k].count > 0
      BY <1>1, <1>3, <1>4
    <2> QED
      BY <2>1 DEF EarlyInv
  <1>5. CASE k = L + 1
    <2>1. BindNode /\ Count > 0
      BY <1>2, <1>3, <1>5
    <2>2. bound < NonBios
      <3>1. NonBios \in Int
        BY <1>1 DEF NonBios
      <3>2. bound >= NonBios => Count = 0
        BY DEF Count
      <3> QED
        BY <1>1, <2>1, <3>1, <3>2
    <2>3. bound >= L - 1
      <3>1. \A i, j \in {m \in 1..L : placed[m].bios} : i = j
        BY <1>1
      <3> QED
        BY <3>1 DEF DealInv, BoundInv
    <2> QED
      BY <1>1, <1>5, <2>2, <2>3 DEF NonBios
  <1> QED
    BY <1>4, <1>5

LEMMA HonourStep ==
  ASSUME TypeOK, PlaceInv, SizesInv, DealInv, HonourInv, [Next]_vars
  PROVE  HonourInv'
  <1>1. CASE Initialize
    <2>1. /\ req' = req /\ placed' = placed /\ hostNdx' = hostNdx /\ phCount' = phCount
          /\ share' = <<>>
      BY <1>1, SMTT(30) DEF Initialize, placing, binding, SizesInv, Binding
    <2>2. FillInv' /\ SpreadInv'
      BY <2>1 DEF HonourInv, FillInv, SpreadInv
    <2>3. EarlyInv'
      <3>1. Len(share') = 0
        BY <2>1
      <3> QED
        BY <3>1 DEF EarlyInv
    <2> QED
      BY <1>1, <2>2, <2>3, ListedStep DEF HonourInv
  <1>2. ASSUME pc # "initialize", UNCHANGED sizes PROVE ListedInv'
    BY <1>2 DEF HonourInv, ListedInv, sizes
  <1>3. CASE PlaceOnLocalHost \/ PlaceOnNewHost \/ PlaceOnSameHost
    <2>1. /\ pc # "initialize" /\ pc \notin Binding /\ share' = share /\ UNCHANGED sizes
          /\ share = <<>>
      BY <1>3 DEF PlaceOnLocalHost, PlaceOnNewHost, PlaceOnSameHost, binding, SizesInv, Binding
    <2>2. EarlyInv'
      <3>1. Len(share') = 0
        BY <2>1
      <3> QED
        BY <3>1 DEF EarlyInv
    <2>3. ListedInv'
      BY <1>2, <2>1
    <2>4. CASE req.servers = <<>>
      BY <2>1, <2>2, <2>3, <2>4 DEF HonourInv, FillInv, SpreadInv, sizes
    <2>5. CASE req.servers # <<>>
      <3>1. perHost # 0
        BY <2>1, <2>5 DEF HonourInv, ListedInv
      <3>2. PlaceOnNewHost \/ PlaceOnSameHost
        BY <1>3, <3>1 DEF PlaceOnLocalHost
      <3> QED
        BY <2>2, <2>3, <2>5, <3>2, FillStep DEF HonourInv
    <2> QED
      BY <2>4, <2>5
  <1>4. ASSUME UNCHANGED <<sizes, placing>> PROVE FillInv' /\ SpreadInv'
    BY <1>4 DEF HonourInv, FillInv, SpreadInv, sizes, placing
  <1>5. ASSUME UNCHANGED <<sizes, placing, share>> PROVE EarlyInv'
    BY <1>5 DEF HonourInv, EarlyInv, sizes, placing
  <1>6. CASE StartBinding \/ RefuseToBind \/ Finish
    <2>1. pc # "initialize" /\ UNCHANGED <<sizes, placing, share>>
      BY <1>6 DEF StartBinding, RefuseToBind, Finish, binding
    <2> QED
      BY <1>2, <1>4, <1>5, <2>1 DEF HonourInv
  <1>7. CASE BindNode \/ BindBios
    <2>1. pc # "initialize" /\ UNCHANGED <<sizes, placing>>
      BY <1>7 DEF BindNode, BindBios
    <2> QED
      BY <1>2, <1>4, <1>7, <2>1, EarlyStep DEF HonourInv
  <1>8. CASE UNCHANGED vars
    <2>1. UNCHANGED <<sizes, placing, share>> /\ pc' = pc
      BY <1>8 DEF vars, sizes, placing
    <2>2. ListedInv'
      BY <2>1 DEF HonourInv, ListedInv, sizes
    <2> QED
      BY <1>4, <1>5, <2>1, <2>2 DEF HonourInv
  <1> QED
    BY <1>1, <1>3, <1>6, <1>7, <1>8 DEF Next

(* A node with producers stands before the first node of the servers that  *)
(* are no producer hosts.                                                  *)
LEMMA HostsFollow ==
  ASSUME TypeOK, PlaceInv, SizesInv, HonourInv
  PROVE  ProducersOnProducerHosts
  <1> SUFFICES ASSUME req.servers # <<>>, Cardinality(BiosNodes) <= 1, NEW k \in Producing
               PROVE  placed[k].host < req.prodServers
    BY DEF ProducersOnProducerHosts
  <1> DEFINE h == placed[k].host
             m == req.prodServers
             n == Len(req.servers)
             I(i) == Instances(req.servers, i)
  <1>1. /\ k \in 1..Len(share) /\ share[k].count > 0 /\ Len(share) \in Nat
        /\ k \in 1..Len(placed) /\ k \in Nat
    <2>1. /\ DOMAIN share = 1..Len(share) /\ Len(share) \in Nat /\ Len(placed) \in Nat
          /\ Len(share) <= Len(placed)
      BY DEF TypeOK, SizesInv
    <2> QED
      BY <2>1 DEF Producing
  <1>2. k <= prodNodes
    BY <1>1, OneBiosNode DEF HonourInv, EarlyInv
  <1>3. pc # "initialize"
    <2>1. Len(share) # 0
      BY <1>1
    <2> QED
      BY <2>1 DEF SizesInv, Binding
  <1>4. prodNodes <= I(m) /\ prodNodes \in Nat
    BY <1>3 DEF HonourInv, ListedInv, TypeOK
  <1>5. I(h) < k
    BY <1>1 DEF HonourInv, SpreadInv
  <1>6. h \in Nat /\ h < hostNdx /\ hostNdx <= n /\ hostNdx \in Nat
    <2>1. placed[k] \in Node
      BY <1>1 DEF TypeOK
    <2> QED
      BY <1>1, <2>1 DEF Node, PlaceInv, HonourInv, FillInv, TypeOK
  <1>7. req.servers \in Seq(Server) /\ n \in Nat /\ m \in 0..n
    BY RequestFields DEF TypeOK
  <1>8. h \in 0..n
    BY <1>6, <1>7
  <1>9. I(h) \in Nat /\ I(m) \in Nat
    BY <1>7, <1>8, InstancesAdd
  <1>10. m <= h => I(m) <= I(h)
    BY <1>7, <1>8, InstancesGrow
  <1> HIDE DEF h, m, n, I
  <1>11. h < m
    BY <1>1, <1>2, <1>4, <1>5, <1>6, <1>7, <1>9, <1>10
  <1> QED
    BY <1>11 DEF h, m

(* The first idle server is one, and those before it are not.              *)
LEMMA FirstIdleIs ==
  ASSUME NEW list \in Seq(Server)
  PROVE  /\ FirstIdle(list) \in 1..Len(list) + 1
         /\ FirstIdle(list) <= Len(list) => list[FirstIdle(list)].instances = 0
         /\ \A k \in 1..Len(list) : k < FirstIdle(list) => list[k].instances # 0
  <1> DEFINE n == Len(list)
             Idle == {k \in 1..n : list[k].instances = 0}
             All == Idle \cup {n + 1}
  <1>1. n \in Nat
    OBVIOUS
  <1>2. All # {} /\ All \subseteq Nat
    BY <1>1
  <1>3. \E least \in All : \A k \in All : least <= k
    <2> HIDE DEF All
    <2> QED
      BY <1>2, LeastNumber
  <1>4. FirstIdle(list) \in All /\ \A k \in All : FirstIdle(list) <= k
    <2>1. FirstIdle(list) = Min(All)
      BY DEF FirstIdle
    <2> HIDE DEF All
    <2> QED
      BY <1>3, <2>1 DEF Min
  <1> QED
    BY <1>1, <1>4

(* When the nodes are placed, the nodes of a server that was given any are *)
(* the ones after those of the servers before it.                          *)
LEMMA NodesOfServer ==
  ASSUME TypeOK, PlaceInv, HonourInv, req.servers # <<>>, NEW k \in 1..hostNdx,
         NEW last \in Nat,
         last = IF k < hostNdx THEN Instances(req.servers, k) ELSE Len(placed)
  PROVE  Cardinality({j \in DOMAIN placed : placed[j].host = k - 1}) =
            last - Instances(req.servers, k - 1)
  <1> DEFINE n == Len(req.servers)
             I(i) == Instances(req.servers, i)
             L == Len(placed)
             host(j) == placed[j].host
  <1>1. /\ req.servers \in Seq(Server) /\ n \in Nat /\ L \in Nat /\ DOMAIN placed = 1..L
        /\ hostNdx \in Nat /\ hostNdx <= n /\ phCount \in Int
        /\ L = I(hostNdx) - phCount /\ I(hostNdx - 1) < L
    BY RequestFields DEF TypeOK, HonourInv, FillInv
  <1>2. ASSUME NEW i \in 0..n PROVE I(i) \in Nat
    BY <1>1, InstancesAdd
  <1>3. ASSUME NEW i \in 0..n, NEW j \in 0..n, i <= j PROVE I(i) <= I(j)
    BY <1>1, <1>3, InstancesGrow
  <1>4. ASSUME NEW j \in 1..L
        PROVE  /\ host(j) \in 0..hostNdx - 1
               /\ I(host(j)) < j
               /\ host(j) < hostNdx - 1 => j <= I(host(j) + 1)
    <2>1. placed[j] \in Node
      BY DEF TypeOK
    <2>2. host(j) \in Nat /\ host(j) < hostNdx
      BY <2>1 DEF Node, PlaceInv
    <2>3. I(host(j)) < j /\ (host(j) < hostNdx - 1 => j <= I(host(j) + 1))
      BY DEF HonourInv, SpreadInv
    <2>4. host(j) \in 0..hostNdx - 1
      BY <1>1, <2>2
    <2> HIDE DEF host, I
    <2> QED
      BY <2>3, <2>4
  <1>5. k \in Nat /\ k - 1 \in Nat /\ k <= n /\ k - 1 \in 0..n /\ k \in 0..n /\ hostNdx \in 0..n
        /\ hostNdx - 1 \in 0..n
    BY <1>1
  <1> DEFINE On == {j \in 1..L : host(j) = k - 1}
  <1> HIDE DEF host, I, n, L
  <1>6. I(k) \in Nat /\ I(k - 1) \in Nat /\ I(hostNdx - 1) \in Nat
    BY <1>2, <1>5
  <1>7. I(k - 1) <= last /\ last <= L
    <2>1. CASE k < hostNdx
      <3>1. I(k - 1) <= I(k) /\ I(k) <= I(hostNdx - 1)
        BY <1>1, <1>3, <1>5, <2>1
      <3> QED
        BY <1>1, <1>6, <2>1, <3>1 DEF I, L
    <2>2. CASE ~(k < hostNdx)
      <3>1. k = hostNdx
        BY <1>1, <2>2
      <3> QED
        BY <1>1, <1>6, <2>2, <3>1 DEF L
    <2> QED
      BY <2>1, <2>2
  <1>8. ASSUME NEW j \in On PROVE j \in I(k - 1) + 1..last
    <2>1. j \in 1..L /\ host(j) = k - 1
      OBVIOUS
    <2>2. I(k - 1) < j /\ (k < hostNdx => j <= I((k - 1) + 1))
      BY <1>1, <1>4, <1>5, <2>1
    <2>3. j <= last
      BY <1>1, <1>5, <2>1, <2>2 DEF I, L
    <2> QED
      BY <1>6, <2>1, <2>2, <2>3
  <1>9. ASSUME NEW j \in I(k - 1) + 1..last PROVE j \in On
    <2>1. j \in 1..L /\ j \in Nat
      BY <1>1, <1>6, <1>7
    <2>2. /\ host(j) \in 0..hostNdx - 1 /\ I(host(j)) < j
          /\ host(j) < hostNdx - 1 => j <= I(host(j) + 1)
      BY <1>4, <2>1
    <2>3. host(j) \in 0..n /\ host(j) + 1 \in 0..n /\ host(j) \in Nat
      BY <1>1, <2>2
    <2>4. I(host(j)) \in Nat /\ I(host(j) + 1) \in Nat
      BY <1>2, <2>3
    <2>5. ~(host(j) + 1 <= k - 1)
      <3>1. host(j) + 1 <= k - 1 => host(j) < hostNdx - 1 /\ I(host(j) + 1) <= I(k - 1)
        BY <1>1, <1>3, <1>5, <2>3
      <3> QED
        BY <1>6, <2>1, <2>2, <2>4, <3>1
    <2>6. ~(k <= host(j))
      <3>1. k <= host(j) => k < hostNdx /\ I(k) <= I(host(j))
        BY <1>1, <1>3, <1>5, <2>2, <2>3
      <3>2. k < hostNdx => j <= I(k)
        BY DEF I
      <3> QED
        BY <1>6, <2>1, <2>2, <2>4, <3>1, <3>2
    <2>7. host(j) = k - 1
      BY <1>5, <2>3, <2>5, <2>6
    <2> QED
      BY <2>1, <2>7
  <1>10. On = I(k - 1) + 1..last
    BY <1>8, <1>9
  <1>11. Cardinality(I(k - 1) + 1..last) = last - I(k - 1)
    <2> DEFINE a == I(k - 1)
    <2>1. a \in Nat /\ last \in Nat /\ a <= last
      BY <1>6, <1>7
    <2> HIDE DEF a
    <2>2. Cardinality(a + 1..last) = IF a + 1 > last THEN 0 ELSE last - (a + 1) + 1
      <3>1. a + 1 \in Int /\ last \in Int
        BY <2>1
      <3> QED
        BY <3>1, FS_Interval, Zenon
    <2>3. Cardinality(a + 1..last) = last - a
      BY <2>1, <2>2
    <2> QED
      BY <2>3 DEF a
  <1>12. {j \in DOMAIN placed : placed[j].host = k - 1} = On
    BY <1>1 DEF host
  <1> HIDE DEF On
  <1> QED
    BY <1>10, <1>11, <1>12 DEF I

(* Of the servers that were given nodes only the last can be the idle one, *)
(* and if it is not, nodes have not been left for another.                 *)
LEMMA ServersAreFilled ==
  ASSUME TypeOK, PlaceInv, SizesInv, HonourInv
  PROVE  ServersFilled
  <1> DEFINE n == Len(req.servers)
             I(i) == Instances(req.servers, i)
             L == Len(placed)
             z == FirstIdle(req.servers)
             c(i) == req.servers[i].instances
  <1> SUFFICES ASSUME pc = "bound", NEW k \in DOMAIN req.servers
               PROVE  Cardinality({j \in DOMAIN placed : placed[j].host = k - 1}) =
                         IF k < z THEN c(k) ELSE IF k = z THEN I(n) - I(k) ELSE 0
    BY DEF ServersFilled
  <1>1. /\ req.servers \in Seq(Server) /\ n \in Nat /\ k \in 1..n
        /\ req.servers # <<>> /\ L \in Nat /\ DOMAIN placed = 1..L
        /\ hostNdx \in Nat /\ phCount \in Int
    BY RequestFields DEF TypeOK
  <1>2. /\ L = I(n) /\ hostNdx <= n /\ L = I(hostNdx) - phCount
        /\ \A i \in 1..hostNdx : c(i) = 0 <=> i = hostNdx /\ phCount < 0
        /\ phCount # 0 => hostNdx > 0
    BY <1>1 DEF HonourInv, ListedInv, FillInv, SizesInv, Binding, TypeOK
  <1>3. ASSUME NEW i \in 0..n PROVE I(i) \in Nat
    BY <1>1, InstancesAdd
  <1>4. ASSUME NEW i \in 1..n PROVE I(i) = I(i - 1) + c(i) /\ c(i) \in Nat
    BY <1>1, InstancesAdd
  <1>5. ASSUME NEW i \in 0..n, NEW j \in 0..n, i <= j PROVE I(i) <= I(j)
    BY <1>1, <1>5, InstancesGrow
  <1>6. /\ z \in 1..n + 1
        /\ z <= n => c(z) = 0
        /\ \A i \in 1..n : i < z => c(i) # 0
    BY <1>1, FirstIdleIs
  <1> HIDE DEF I, L, z, c, n
  <1>7. ASSUME k <= hostNdx, NEW last \in Nat, last = IF k < hostNdx THEN I(k) ELSE L
        PROVE  Cardinality({j \in DOMAIN placed : placed[j].host = k - 1}) = last - I(k - 1)
    <2>1. k \in 1..hostNdx
      <3>1. k \in Nat /\ 1 <= k
        BY <1>1
      <3> QED
        BY <1>1, <1>7, <3>1
    <2> QED
      BY <1>1, <1>7, <2>1, NodesOfServer, Zenon DEF I, L
  <1>8. /\ I(k) \in Nat /\ I(k - 1) \in Nat /\ I(n) \in Nat /\ I(hostNdx) \in Nat
        /\ I(k) = I(k - 1) + c(k) /\ c(k) \in Nat /\ k \in Nat
    <2>1. k \in 0..n /\ k - 1 \in 0..n /\ n \in 0..n /\ hostNdx \in 0..n /\ k \in Nat
      BY <1>1, <1>2
    <2>2. I(k) \in Nat /\ I(k - 1) \in Nat /\ I(n) \in Nat /\ I(hostNdx) \in Nat
      BY <1>3, <2>1
    <2>3. I(k) = I(k - 1) + c(k) /\ c(k) \in Nat
      BY <1>1, <1>4
    <2> QED
      BY <2>1, <2>2, <2>3
  <1>9. I(hostNdx) <= I(n)
    <2>1. n \in 0..n /\ hostNdx \in 0..n
      BY <1>1, <1>2
    <2> QED
      BY <1>2, <1>5, <2>1
  <1>10. CASE k < hostNdx
    <2>1. c(k) # 0 /\ k < z
      <3>1. c(k) # 0
        BY <1>1, <1>2, <1>10
      <3>2. ASSUME ~(k < z) PROVE FALSE
        <4>1. z \in 1..hostNdx /\ z # hostNdx /\ z <= n
          BY <1>1, <1>2, <1>6, <1>10, <3>2
        <4> QED
          BY <1>2, <1>6, <4>1
      <3> QED
        BY <3>1, <3>2
    <2>2. Cardinality({j \in DOMAIN placed : placed[j].host = k - 1}) = I(k) - I(k - 1)
      BY <1>7, <1>8, <1>10, <1>1
    <2> QED
      BY <1>8, <2>1, <2>2
  <1>11. CASE k = hostNdx
    <2>1. Cardinality({j \in DOMAIN placed : placed[j].host = k - 1}) = L - I(k - 1)
      BY <1>1, <1>7, <1>8, <1>11
    <2>2. \A i \in 1..k - 1 : c(i) # 0
      BY <1>1, <1>2, <1>11
    <2>3. CASE phCount < 0
      <3>1. c(k) = 0
        BY <1>1, <1>2, <1>11, <2>3
      <3>2. k = z
        <4>1. ~(k < z)
          BY <1>1, <1>6, <3>1
        <4>2. ~(z < k)
          <5>1. z < k => z \in 1..k - 1 /\ z <= n
            BY <1>1, <1>6
          <5> QED
            BY <1>6, <2>2, <5>1
        <4> QED
          BY <1>1, <1>6, <4>1, <4>2
      <3> QED
        BY <1>2, <1>8, <2>1, <3>1, <3>2
    <2>4. CASE phCount >= 0
      <3>1. phCount = 0
        BY <1>1, <1>2, <1>8, <1>9, <2>4
      <3>2. c(k) # 0
        BY <1>1, <1>2, <1>11, <3>1
      <3>3. k < z
        <4>1. z # k
          BY <1>1, <1>6, <3>2
        <4>2. ~(z < k)
          <5>1. z < k => z \in 1..k - 1 /\ z <= n
            BY <1>1, <1>6
          <5> QED
            BY <1>6, <2>2, <5>1
        <4> QED
          BY <1>1, <1>6, <4>1, <4>2
      <3>4. L = I(k)
        BY <1>2, <1>8, <1>11, <3>1
      <3> QED
        BY <1>8, <2>1, <3>3, <3>4
    <2> QED
      BY <1>1, <2>3, <2>4
  <1>12. CASE k > hostNdx
    <2>1. {j \in DOMAIN placed : placed[j].host = k - 1} = {}
      <3>1. ASSUME NEW j \in 1..L PROVE placed[j].host # k - 1
        <4>1. placed[j] \in Node
          BY DEF TypeOK, L
        <4>2. placed[j].host < hostNdx /\ placed[j].host \in Nat
          BY <4>1 DEF Node, PlaceInv, L
        <4> QED
          BY <1>1, <1>12, <4>2
      <3> QED
        BY <1>1, <3>1
    <2>2. Cardinality({j \in DOMAIN placed : placed[j].host = k - 1}) = 0
      BY <2>1, FS_EmptySet
    <2>3. CASE phCount < 0
      <3>1. hostNdx \in 1..hostNdx /\ hostNdx \in 1..n
        BY <1>1, <1>2, <2>3
      <3>2. c(hostNdx) = 0
        BY <1>2, <2>3, <3>1
      <3>3. ~(hostNdx < z)
        BY <1>6, <3>1, <3>2
      <3> QED
        BY <1>1, <1>6, <1>12, <2>2, <3>3
    <2>4. CASE phCount >= 0
      <3>1. I(hostNdx) = I(n)
        BY <1>1, <1>2, <1>8, <1>9, <2>4
      <3>2. I(hostNdx) <= I(k - 1) /\ I(k) <= I(n) /\ I(k - 1) <= I(k)
        <4>1. n \in 0..n /\ hostNdx \in 0..n /\ k \in 0..n /\ k - 1 \in 0..n
              /\ hostNdx <= k - 1 /\ k <= n /\ k - 1 <= k
          BY <1>1, <1>2, <1>12
        <4> QED
          BY <1>5, <4>1
      <3>3. c(k) = 0 /\ I(n) - I(k) = 0
        BY <1>8, <3>1, <3>2
      <3>4. ~(k < z)
        BY <1>1, <1>6, <3>3
      <3> QED
        BY <2>2, <3>3, <3>4
    <2> QED
      BY <1>1, <2>3, <2>4
  <1> QED
    BY <1>1, <1>10, <1>11, <1>12

(* ServersHonoured: for every server file, producers run on producer hosts *)
(* only; every server before the first idle one runs the nodes it is said  *)
(* to, the idle one all nodes of those after it, and these run none.       *)
THEOREM ServersAreHonoured == Spec => []ServersHonoured
  <1>1. Init => HonourInv
    <2> SUFFICES ASSUME Init PROVE HonourInv
      OBVIOUS
    <2>1. /\ Len(placed) = 0 /\ Len(share) = 0 /\ req \in Requests
          /\ hostNdx = 0 /\ phCount = 0 /\ pc = "initialize"
      BY DEF Init
    <2>2. req.servers \in Seq(Server) /\ Instances(req.servers, 0) = 0
      BY <2>1, RequestFields, InstancesAdd
    <2> QED
      BY <2>1, <2>2 DEF HonourInv, ListedInv, FillInv, SpreadInv, EarlyInv
  <1>2. Init => PlaceInv
    BY InitPlaceInv
  <1>3. TypeOK /\ PlaceInv /\ SizesInv /\ DealInv /\ HonourInv /\ [Next]_vars => HonourInv'
    BY HonourStep
  <1>4. TypeOK /\ PlaceInv /\ SizesInv /\ HonourInv => ServersHonoured
    BY HostsFollow, ServersAreFilled DEF ServersHonoured
  <1> QED
    BY <1>1, <1>2, <1>3, <1>4, DealHolds, PlaceStep, PTL DEF Spec

-----------------------------------------------------------------------------
(* A network without server file and hosts: what the options ask for, and  *)
(* the bios node in the first place and in no other.                       *)
AskedInv ==
    pc # "initialize" /\ req.servers = <<>> =>
        /\ perHost = req.perHost
        /\ prodNodes = ProducingAsked + 1
        /\ totalNodes = IF ProducingAsked > req.nodes THEN ProducingAsked + 1
                                                      ELSE req.nodes + 1

FirstIsBios ==
    /\ pc = "initialize" => placed = <<>>
    /\ perHost = 0 => \A k \in 1..Len(placed) : placed[k].bios <=> k = 1

LocalInv == AskedInv /\ FirstIsBios

(* Placing on the local host makes the first node the bios node.           *)
LEMMA LocalPlaced ==
    ASSUME TypeOK, LocalInv, PlaceOnLocalHost
    PROVE  FirstIsBios'
  <1>1. /\ Place(placed = <<>>, 0, hostCount) /\ hostCount \in Nat
        /\ pc' = pc /\ pc = "define_network" /\ perHost = 0
    BY DEF PlaceOnLocalHost, TypeOK
  <1>2. ASSUME NEW isBios \in BOOLEAN, Place(isBios, 0, hostCount)
        PROVE  /\ placed \in Seq(Node)
               /\ Len(placed') = Len(placed) + 1
               /\ \A k \in 1..Len(placed) : placed'[k] = placed[k]
               /\ placed'[Len(placed) + 1].bios = isBios
    <2>1. 0 \in Nat
      OBVIOUS
    <2>2. hostCount \in Nat
      BY <1>1
    <2>3. placed \in Seq(Node)
      BY DEF TypeOK
    <2> QED
      BY <1>2, <2>1, <2>2, <2>3, PlacedFields
  <1>3. /\ placed \in Seq(Node)
        /\ Len(placed') = Len(placed) + 1
        /\ \A k \in 1..Len(placed) : placed'[k] = placed[k]
        /\ placed'[Len(placed) + 1].bios = (placed = <<>>)
    BY <1>1, <1>2, Zenon
  <1>4. placed'[Len(placed) + 1].bios <=> placed = <<>>
    BY <1>3, Zenon
  <1>5. placed = <<>> <=> Len(placed) + 1 = 1
    BY <1>3
  <1>6. ASSUME NEW k \in 1..Len(placed')
        PROVE  placed'[k].bios <=> k = 1
    <2>1. CASE k = Len(placed) + 1
      BY <1>4, <1>5, <2>1, Zenon
    <2>2. CASE k \in 1..Len(placed)
      BY <1>1, <1>3, <2>2, Zenon DEF LocalInv, FirstIsBios
    <2> QED
      BY <1>3, <2>1, <2>2
  <1> QED
    BY <1>1, <1>6 DEF FirstIsBios

LEMMA LocalStep == TypeOK /\ LocalInv /\ [Next]_vars => LocalInv'
  <1> SUFFICES ASSUME TypeOK, LocalInv, [Next]_vars PROVE LocalInv'
    OBVIOUS
  <1>1. CASE Initialize
    <2>1. /\ req.pnodes \in Nat /\ req.nodes \in Nat /\ req.producers \in Nat
          /\ placed = <<>> /\ placed' = <<>> /\ req' = req
          /\ pc' = "define_network"
      BY <1>1, RequestFields DEF Initialize, TypeOK, LocalInv, FirstIsBios, placing
    <2>2. AskedInv'
      BY <1>1, <2>1 DEF AskedInv, ProducingAsked, Initialize, AskedProdNodes, AskedTotalNodes
    <2>3. FirstIsBios'
      BY <2>1 DEF FirstIsBios
    <2> QED
      BY <2>2, <2>3 DEF LocalInv
  <1>2. ASSUME pc # "initialize", pc' # "initialize", UNCHANGED sizes
        PROVE  AskedInv'
    BY <1>2 DEF LocalInv, AskedInv, ProducingAsked, sizes
  <1>3. CASE PlaceOnLocalHost
    BY <1>2, <1>3, LocalPlaced DEF PlaceOnLocalHost, LocalInv
  <1>4. CASE PlaceOnNewHost \/ PlaceOnSameHost
    <2>1. /\ pc = "define_network" /\ pc' = pc /\ perHost # 0 /\ UNCHANGED sizes
      BY <1>4 DEF PlaceOnNewHost, PlaceOnSameHost
    <2>2. FirstIsBios'
      BY <2>1 DEF FirstIsBios, sizes
    <2> QED
      BY <1>2, <2>1, <2>2 DEF LocalInv
  <1>5. CASE StartBinding \/ RefuseToBind \/ BindNode \/ BindBios \/ Finish
    <2>1. pc # "initialize" /\ pc' # "initialize" /\ UNCHANGED <<sizes, placing>>
      BY <1>5 DEF StartBinding, RefuseToBind, BindNode, BindBios, Finish, placing
    <2>2. FirstIsBios'
      BY <2>1 DEF LocalInv, FirstIsBios, sizes, placing
    <2> QED
      BY <1>2, <2>1, <2>2 DEF LocalInv
  <1>6. CASE UNCHANGED vars
    BY <1>6 DEF vars, sizes, placing, LocalInv, AskedInv, ProducingAsked, FirstIsBios
  <1> QED
    BY <1>1, <1>3, <1>4, <1>5, <1>6 DEF Next

(* The inductive parts imply the property.                                 *)
LEMMA LocalFollows ==
    TypeOK /\ SizesInv /\ DealInv /\ LocalInv => LocalNetworkAsAsked
  <1> SUFFICES ASSUME TypeOK, SizesInv, DealInv, LocalInv,
                      pc = "bound", req.servers = <<>>, req.perHost = 0
               PROVE  /\ BiosNodes = {1}
                      /\ Len(placed) = 1 + Max({req.nodes, ProducingAsked})
                      /\ Cardinality(Producing) = ProducingAsked
    BY DEF LocalNetworkAsAsked
  <1>1. /\ perHost = 0 /\ Len(placed) = totalNodes /\ totalNodes >= prodNodes
        /\ prodNodes >= 2 /\ prodNodes \in Nat /\ totalNodes \in Nat
        /\ DOMAIN placed = 1..Len(placed)
    BY DEF LocalInv, AskedInv, SizesInv, Binding, TypeOK
  <1>2. 1 \in 1..Len(placed)
    BY <1>1
  <1>3. \A k \in 1..Len(placed) : placed[k].bios <=> k = 1
    BY <1>1 DEF LocalInv, FirstIsBios
  <1>4. BiosNodes = {1}
    BY <1>1, <1>2, <1>3, Zenon DEF BiosNodes
  <1>5. /\ req.pnodes \in Nat /\ req.nodes \in Nat /\ req.producers \in Nat
    BY RequestFields DEF TypeOK
  <1>6. /\ prodNodes = ProducingAsked + 1
        /\ totalNodes = IF ProducingAsked > req.nodes THEN ProducingAsked + 1
                                                      ELSE req.nodes + 1
    BY DEF LocalInv, AskedInv
  <1>7. ProducingAsked \in Nat /\ ProducingAsked <= req.producers
    BY <1>1, <1>5, <1>6 DEF ProducingAsked
  <1>8. Max({req.nodes, ProducingAsked}) =
           IF ProducingAsked > req.nodes THEN ProducingAsked ELSE req.nodes
    BY <1>5, <1>7 DEF Max
  <1>9. Cardinality(Producing) = Takers
    <2>1. Cardinality({1}) = 1
      BY FS_Singleton
    <2>2. Cardinality(BiosNodes) <= 1
      BY <1>4, <2>1
    <2> QED
      BY <2>2, AllDealt
  <1>10. Takers = ProducingAsked
    BY <1>5, <1>6, <1>7 DEF Takers, NonBios
  <1> QED
    BY <1>1, <1>4, <1>5, <1>6, <1>7, <1>8, <1>9, <1>10

(* LocalNetworkAsAsked: without a server file and --per-host the network   *)
(* has one bios node, the first, as many others as the options ask for,    *)
(* and --pnodes that produce, or one less than there are producers.        *)
THEOREM LocalNetworkMatches == Spec => []LocalNetworkAsAsked
  <1>1. Init => LocalInv
    BY DEF Init, LocalInv, AskedInv, FirstIsBios
  <1> QED
    BY <1>1, DealHolds, LocalStep, LocalFollows, PTL DEF Spec

=============================================================================
