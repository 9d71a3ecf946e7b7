-------------------------- MODULE MerklePath_proofs --------------------------
(***************************************************************************)
(* The merkle paths of MerklePath for a first tree of any depth and a      *)
(* chain of any length: append keeps the roots of the full subtrees,       *)
(* inc_merkle_verify accepts what append makes, and every path that is     *)
(* collected is made of blocks of the chain, is the path of the merkle     *)
(* tree by definition, and verifies.                                       *)
(***************************************************************************)
EXTENDS MerklePath, FiniteSetTheorems, WellFoundedInduction, TLAPS

(* A set of natural numbers has a least one. *)
LEMMA LeastNumber ==
    ASSUME NEW T, T \subseteq Nat, T # {}
    PROVE  \E m \in T : \A k \in T : m <= k
  <1>1. \E m \in T : \A k \in T : <<k, m>> \notin OpToRel(<, Nat)
    BY WFMin, NatLessThanWellFounded
  <1>2. PICK m \in T : \A k \in T : <<k, m>> \notin OpToRel(<, Nat)
    BY <1>1
  <1>3. \A k \in T : ~(k < m)
    BY <1>2, Zenon DEF OpToRel
  <1> QED
    BY <1>3

-----------------------------------------------------------------------------
(* Powers of two.  The first ones, as the recursion has them ...           *)
Powers(f, n) == f = [k \in 0..n |-> IF k = 0 THEN 1 ELSE 2 * f[k - 1]]

LEMMA PowersExist ==
    ASSUME NEW n \in Nat
    PROVE  \E f : Powers(f, n)
  <1> DEFINE Missing == {m \in Nat : ~\E f : Powers(f, m)}
  <1>1. SUFFICES ASSUME Missing # {} PROVE FALSE
    OBVIOUS
  <1>2. PICK m \in Missing : \A k \in Missing : m <= k
    <2>1. Missing \subseteq Nat
      OBVIOUS
    <2> HIDE DEF Missing
    <2> QED
      BY <1>1, <2>1, LeastNumber
  <1>3. CASE m = 0
    <2> DEFINE f == [k \in 0..0 |-> 1]
    <2>1. f = [k \in 0..0 |-> IF k = 0 THEN 1 ELSE 2 * f[k - 1]]
      OBVIOUS
    <2>2. Powers(f, 0)
      BY <2>1 DEF Powers
    <2> QED
      BY <1>3, <2>2
  <1>4. CASE m # 0
    <2>1. m \in Nat /\ m - 1 \in Nat /\ m - 1 \notin Missing
      BY <1>2, <1>4
    <2>2. PICK g : Powers(g, m - 1)
      BY <2>1
    <2> DEFINE f == [k \in 0..m |-> IF k = m THEN 2 * g[m - 1] ELSE g[k]]
    <2>3. ASSUME NEW k \in 0..m PROVE f[k] = IF k = 0 THEN 1 ELSE 2 * f[k - 1]
      <3>1. CASE k = m
        BY <1>4, <2>1, <3>1
      <3>2. CASE k # m
        <4>1. k \in 0..m - 1 /\ (k # 0 => k - 1 \in 0..m - 1 /\ k - 1 # m)
          BY <2>1, <3>2
        <4>2. g[k] = IF k = 0 THEN 1 ELSE 2 * g[k - 1]
          BY <2>2, <4>1 DEF Powers
        <4> QED
          BY <3>2, <4>1, <4>2
      <3> QED
        BY <3>1, <3>2
    <2>4. Powers(f, m)
      <3>1. f = [k \in 0..m |-> f[k]]
        OBVIOUS
      <3> HIDE DEF f
      <3> QED
        BY <2>3, <3>1 DEF Powers
    <2> QED
      BY <2>4
  <1> QED
    BY <1>3, <1>4

(* ... which shorter and longer ones have in common ...                    *)
LEMMA PowersAgree ==
    ASSUME NEW m \in Nat, NEW n \in Nat, m <= n, NEW f, NEW g, Powers(f, m), Powers(g, n)
    PROVE  \A k \in 0..m : f[k] = g[k]
  <1> DEFINE Apart == {k \in 0..m : f[k] # g[k]}
  <1>1. SUFFICES ASSUME Apart # {} PROVE FALSE
    OBVIOUS
  <1>2. PICK k \in Apart : \A j \in Apart : k <= j
    <2>1. Apart \subseteq Nat
      OBVIOUS
    <2> HIDE DEF Apart
    <2> QED
      BY <1>1, <2>1, LeastNumber
  <1>3. f[k] = (IF k = 0 THEN 1 ELSE 2 * f[k - 1]) /\ g[k] = (IF k = 0 THEN 1 ELSE 2 * g[k - 1])
    BY DEF Powers
  <1>4. k # 0 => k - 1 \in 0..m /\ k - 1 \notin Apart
    BY <1>2
  <1> QED
    BY <1>3, <1>4

(* ... and then all of them.                                               *)
LEMMA TwoDef ==
    \A k \in Nat : two[k] = IF k = 0 THEN 1 ELSE 2 * two[k - 1]
  <1> DEFINE G(n) == CHOOSE g : Powers(g, n)
             all == [k \in Nat |-> G(k)[k]]
  <1>1. \A n \in Nat : Powers(G(n), n)
    BY PowersExist
  <1> HIDE DEF G
  <1>2. ASSUME NEW k \in Nat PROVE all[k] = IF k = 0 THEN 1 ELSE 2 * all[k - 1]
    <2>1. G(k)[k] = IF k = 0 THEN 1 ELSE 2 * G(k)[k - 1]
      BY <1>1 DEF Powers
    <2>2. k # 0 => G(k - 1)[k - 1] = G(k)[k - 1]
      <3> SUFFICES ASSUME k # 0 PROVE G(k - 1)[k - 1] = G(k)[k - 1]
        OBVIOUS
      <3>1. k - 1 \in Nat /\ k - 1 <= k /\ k - 1 \in 0..k - 1
        OBVIOUS
      <3>2. Powers(G(k - 1), k - 1) /\ Powers(G(k), k)
        BY <1>1, <3>1
      <3>3. \A j \in 0..k - 1 : G(k - 1)[j] = G(k)[j]
        BY <3>1, <3>2, PowersAgree
      <3> QED
        BY <3>1, <3>3
    <2> QED
      BY <2>1, <2>2
  <1>3. all = [k \in Nat |-> IF k = 0 THEN 1 ELSE 2 * all[k - 1]]
    <2>1. all = [k \in Nat |-> all[k]]
      OBVIOUS
    <2> HIDE DEF all
    <2> QED
      BY <1>2, <2>1
  <1> DEFINE IsTwo(f) == f = [k \in Nat |-> IF k = 0 THEN 1 ELSE 2 * f[k - 1]]
  <1>4. IsTwo(all)
    BY <1>3
  <1>5. two = CHOOSE f : IsTwo(f)
    BY Zenon DEF two
  <1>6. IsTwo(two)
    <2> HIDE DEF IsTwo, all
    <2> QED
      BY <1>4, <1>5
  <1> QED
    BY <1>6

(* They are natural numbers that grow with the exponent, and each divides  *)
(* the next.                                                               *)
LEMMA TwoFacts ==
    ASSUME NEW k \in Nat
    PROVE  /\ two[k] \in Nat \ {0} /\ two[k] > k
           /\ two[0] = 1
           /\ two[k + 1] = 2 * two[k]
  <1> DEFINE Bad == {n \in Nat : ~(two[n] \in Nat \ {0} /\ two[n] > n)}
  <1>1. two[0] = 1
    BY TwoDef
  <1>2. two[k + 1] = 2 * two[k]
    BY TwoDef
  <1>3. Bad = {}
    <2> SUFFICES ASSUME Bad # {} PROVE FALSE
      OBVIOUS
    <2>1. PICK n \in Bad : \A j \in Bad : n <= j
      <3>1. Bad \subseteq Nat
        OBVIOUS
      <3> HIDE DEF Bad
      <3> QED
        BY <3>1, LeastNumber
    <2>2. n # 0 /\ n - 1 \in Nat /\ n - 1 \notin Bad
      BY <1>1, <2>1
    <2>3. two[n] = 2 * two[n - 1] /\ two[n - 1] \in Nat \ {0} /\ two[n - 1] > n - 1
      BY <2>2, TwoDef
    <2> QED
      BY <2>2, <2>3
  <1> QED
    BY <1>1, <1>2, <1>3

LEMMA TwoGrows ==
    ASSUME NEW j \in Nat, NEW k \in Nat, j < k
    PROVE  2 * two[j] <= two[k]
  <1> DEFINE Bad == {n \in Nat : n > j /\ ~(2 * two[j] <= two[n])}
  <1> SUFFICES ASSUME Bad # {} PROVE FALSE
    OBVIOUS
  <1>1. PICK n \in Bad : \A i \in Bad : n <= i
    <2>1. Bad \subseteq Nat
      OBVIOUS
    <2> HIDE DEF Bad
    <2> QED
      BY <2>1, LeastNumber
  <1>2. n - 1 \in Nat /\ n - 1 >= j /\ n - 1 \notin Bad
    BY <1>1
  <1>3. two[n] = 2 * two[n - 1] /\ two[j] \in Nat /\ two[n - 1] \in Nat
    BY <1>2, TwoFacts
  <1>4. n - 1 = j \/ 2 * two[j] <= two[n - 1]
    BY <1>2
  <1> QED
    BY <1>3, <1>4

-----------------------------------------------------------------------------
(* Quotients: between a and a + 1 times the divisor there is one.          *)
LEMMA Quotient ==
    ASSUME NEW n \in Nat, NEW w \in Nat \ {0}
    PROVE  /\ n \div w \in Nat
           /\ (n \div w) * w <= n /\ n < (n \div w) * w + w
  OBVIOUS

LEMMA QuotientUnique ==
    ASSUME NEW n \in Nat, NEW w \in Nat \ {0}, NEW a \in Nat, a * w <= n, n < a * w + w
    PROVE  n \div w = a
  OBVIOUS

LEMMA HalvesAgree ==
    ASSUME NEW a \in Nat
    PROVE  /\ a \div 2 \in Nat /\ a % 2 \in {0, 1}
           /\ a = 2 * (a \div 2) + (a % 2)
  OBVIOUS

(* The bits of a number, and what is left of it without the last ones.     *)
LEMMA BitFacts ==
    ASSUME NEW n \in Nat, NEW k \in Nat
    PROVE  /\ n \div two[k] \in Nat /\ Bit(n, k) \in {0, 1}
           /\ n \div two[k] = 2 * (n \div two[k + 1]) + Bit(n, k)
           /\ (n \div two[k]) * two[k] <= n
           /\ n < (n \div two[k]) * two[k] + two[k]
  <1> DEFINE w == two[k]
             a == n \div w
             h == a \div 2
  <1>1. w \in Nat \ {0} /\ two[k + 1] = 2 * w
    BY TwoFacts
  <1>2. a \in Nat /\ a * w <= n /\ n < a * w + w
    BY <1>1, Quotient
  <1>3. h \in Nat /\ a % 2 \in {0, 1} /\ a = 2 * h + (a % 2)
    BY <1>2, HalvesAgree
  <1>4. n \div (2 * w) = h
    <2>1. 2 * w \in Nat \ {0}
      BY <1>1
    <2> HIDE DEF w, a, h
    <2>2. h * (2 * w) <= n /\ n < h * (2 * w) + 2 * w
      <3>1. CASE a = 2 * h
        BY <1>1, <1>2, <1>3, <3>1
      <3>2. CASE a = 2 * h + 1
        <4> DEFINE x == h * (2 * w)
        <4>1. a * w = x + w /\ x \in Nat
          BY <1>1, <1>3, <3>2
        <4> HIDE DEF x
        <4>2. x + w <= n /\ n < x + w + w
          BY <1>2, <4>1
        <4>3. x <= n /\ n < x + 2 * w
          BY <1>1, <4>1, <4>2
        <4> QED
          BY <4>3 DEF x
      <3> QED
        BY <1>3, <3>1, <3>2
    <2> QED
      BY <1>3, <2>1, <2>2, QuotientUnique
  <1> QED
    BY <1>1, <1>2, <1>3, <1>4 DEF Bit

LEMMA NoBitsAbove ==
    ASSUME NEW n \in Nat, NEW k \in Nat, n < two[k], NEW j \in Nat, j >= k
    PROVE  n \div two[j] = 0 /\ Bit(n, j) = 0
  <1>1. n < two[j] /\ two[j] \in Nat \ {0}
    <2>1. two[k] \in Nat /\ two[j] \in Nat \ {0}
      BY TwoFacts
    <2>2. j = k \/ 2 * two[k] <= two[j]
      BY TwoGrows
    <2> QED
      BY <2>1, <2>2
  <1>2. n \div two[j] = 0
    BY <1>1, QuotientUnique
  <1> QED
    BY <1>2 DEF Bit

(* max_depth: the last layer is the first that has room for all leaves in  *)
(* one node.                                                               *)
LEMMA DepthFacts ==
    ASSUME NEW n \in Nat \ {0}
    PROVE  /\ max_depth(n) \in Nat \ {0}
           /\ n <= two[max_depth(n) - 1]
           /\ max_depth(n) > 1 => two[max_depth(n) - 2] < n
  <1> DEFINE Enough(d) == two[d] >= n /\ (d = 0 \/ two[d - 1] < n)
             Large == {d \in Nat : two[d] >= n}
  <1>1. n \in Large
    BY TwoFacts
  <1>2. PICK d \in Large : \A e \in Large : d <= e
    <2>1. Large \subseteq Nat
      OBVIOUS
    <2> HIDE DEF Large
    <2> QED
      BY <1>1, <2>1, LeastNumber
  <1>3. d \in 0..n /\ Enough(d)
    <2>1. d # 0 => d - 1 \in Nat /\ d - 1 \notin Large
      BY <1>2
    <2>2. d # 0 => two[d - 1] < n
      <3>1. d # 0 => two[d - 1] \in Nat
        BY <2>1, TwoFacts
      <3> QED
        BY <2>1, <3>1
    <2> QED
      BY <1>1, <1>2, <2>2
  <1> DEFINE last == CHOOSE e \in 0..n : Enough(e)
  <1>4. last \in 0..n /\ Enough(last)
    <2> HIDE DEF Enough
    <2> QED
      BY <1>3
  <1>5. max_depth(n) = 1 + last
    BY DEF max_depth
  <1> HIDE DEF last
  <1>6. max_depth(n) - 1 = last /\ max_depth(n) - 2 = last - 1
    BY <1>4, <1>5
  <1> QED
    BY <1>4, <1>5, <1>6

(* A number of leaves that does not fill the tree has no bit for its root. *)
LEMMA DepthBits ==
    ASSUME NEW n \in Nat \ {0}, NEW j \in Nat, j >= max_depth(n)
    PROVE  Bit(n, j) = 0 /\ n \div two[j] = 0
  <1> DEFINE d == max_depth(n) - 1
  <1>1. d \in Nat /\ n <= two[d] /\ j >= d + 1
    BY DepthFacts
  <1>2. two[d + 1] = 2 * two[d] /\ two[d] \in Nat \ {0}
    BY <1>1, TwoFacts
  <1>3. n < two[d + 1] /\ d + 1 \in Nat
    BY <1>1, <1>2
  <1> QED
    BY <1>1, <1>3, NoBitsAbove

(* The number of ones among the bits.                                      *)
LEMMA OnesFacts ==
    ASSUME NEW n \in Nat, NEW k \in Nat
    PROVE  /\ Ones(n, k) \in Nat
           /\ Ones(n, 0) = 0
           /\ Ones(n, k + 1) = Ones(n, k) + Bit(n, k)
  <1> DEFINE S(l) == {j \in 0..l - 1 : Bit(n, j) = 1}
  <1>1. IsFiniteSet(S(k))
    <2>1. IsFiniteSet(0..k - 1)
      BY FS_Interval
    <2>2. S(k) \in SUBSET (0..k - 1)
      OBVIOUS
    <2> HIDE DEF S
    <2> QED
      BY <2>1, <2>2, FS_Subset
  <1>2. Cardinality(S(k)) \in Nat
    BY <1>1, FS_CardinalityType
  <1>3. S(0) = {}
    OBVIOUS
  <1>4. Cardinality(S(0)) = 0
    BY <1>3, FS_EmptySet
  <1>5. CASE Bit(n, k) = 1
    <2>1. S(k + 1) = S(k) \cup {k} /\ k \notin S(k)
      BY <1>5
    <2>2. Cardinality(S(k + 1)) = Cardinality(S(k)) + 1
      <3> HIDE DEF S
      <3> QED
        BY <1>1, <2>1, FS_AddElement
    <2> QED
      BY <1>2, <1>4, <1>5, <2>2 DEF Ones
  <1>6. CASE Bit(n, k) = 0
    <2>1. S(k + 1) = S(k)
      BY <1>6
    <2> QED
      BY <1>2, <1>4, <1>6, <2>1 DEF Ones
  <1> QED
    BY <1>5, <1>6, BitFacts

-----------------------------------------------------------------------------
(* The node above a leaf in a layer: the first that ends behind it.        *)
LEMMA AboveFacts ==
    ASSUME NEW n \in Nat \ {0}, NEW k \in Nat
    PROVE  /\ Above(n, k + 1) \in Nat \ {0}
           /\ n <= Above(n, k + 1) * two[k]
           /\ Above(n, k + 1) * two[k] < n + two[k]
  <1> DEFINE w == two[k]
             a == (n + w - 1) \div w
  <1>1. w \in Nat \ {0}
    BY TwoFacts
  <1>2. Above(n, k + 1) = a
    BY DEF Above
  <1> HIDE DEF w
  <1>3. n + w - 1 \in Nat
    BY <1>1
  <1>4. a \in Nat /\ a * w <= n + w - 1 /\ n + w - 1 < a * w + w
    BY <1>1, <1>3, Quotient
  <1> DEFINE x == a * w
  <1>5. x \in Nat /\ (a = 0 => x = 0)
    BY <1>1, <1>4
  <1>6. n <= x /\ x < n + w
    <2> HIDE DEF x, a
    <2>1. x <= n + w - 1 /\ n + w - 1 < x + w
      BY <1>4 DEF x
    <2> QED
      BY <1>1, <1>5, <2>1
  <1>7. a # 0
    BY <1>5, <1>6
  <1> QED
    BY <1>2, <1>4, <1>6, <1>7 DEF w

LEMMA AboveUnique ==
    ASSUME NEW n \in Nat \ {0}, NEW k \in Nat, NEW a \in Nat,
           n <= a * two[k], a * two[k] < n + two[k]
    PROVE  Above(n, k + 1) = a
  <1> DEFINE w == two[k]
             x == a * w
  <1>1. w \in Nat \ {0}
    BY TwoFacts
  <1>2. x \in Nat /\ n <= x /\ x < n + w
    BY <1>1
  <1>3. n + w - 1 \in Nat /\ x <= n + w - 1 /\ n + w - 1 < x + w
    <2> HIDE DEF w, x
    <2> QED
      BY <1>1, <1>2
  <1>4. (n + w - 1) \div w = a
    BY <1>1, <1>3, QuotientUnique
  <1> QED
    BY <1>4 DEF Above

LEMMA AboveNext ==
    ASSUME NEW n \in Nat \ {0}, NEW k \in Nat
    PROVE  Above(n, k + 2) = (Above(n, k + 1) + 1) \div 2
  <1> DEFINE w == two[k]
             a == Above(n, k + 1)
             h == (a + 1) \div 2
             x == a * w
  <1>1. w \in Nat \ {0} /\ two[k + 1] = 2 * w
    BY TwoFacts
  <1>2. a \in Nat \ {0} /\ n <= x /\ x < n + w
    BY AboveFacts
  <1>3. h \in Nat /\ (a = 2 * h \/ a = 2 * h - 1)
    BY <1>2
  <1>4. n <= h * (2 * w) /\ h * (2 * w) < n + 2 * w
    <2> DEFINE y == h * (2 * w)
    <2>1. y = x \/ y = x + w
      <3>1. CASE a = 2 * h
        <4> HIDE DEF w, a, h
        <4> QED
          BY <1>1, <1>2, <1>3, <3>1
      <3>2. CASE a = 2 * h - 1
        <4>1. 2 * h = a + 1
          BY <1>2, <1>3, <3>2
        <4>2. (a + 1) * w = x + w
          BY <1>1, <1>2
        <4>3. y = (2 * h) * w
          BY <1>1, <1>3
        <4> QED
          BY <4>1, <4>2, <4>3
      <3> QED
        BY <1>3, <3>1, <3>2
    <2>2. x \in Nat
      BY <1>1, <1>2
    <2> HIDE DEF w, x, y, h, a
    <2>3. n <= y /\ y < n + 2 * w
      BY <1>1, <1>2, <2>1, <2>2
    <2> QED
      BY <2>3 DEF y
  <1>5. Above(n, (k + 1) + 1) = h
    <2>1. k + 1 \in Nat
      OBVIOUS
    <2> HIDE DEF h, w
    <2> QED
      BY <1>1, <1>3, <1>4, <2>1, AboveUnique
  <1>6. (k + 1) + 1 = k + 2
    OBVIOUS
  <1> QED
    BY <1>5, <1>6

-----------------------------------------------------------------------------

(* The reference tree.                                                     *)
Positive == Nat \ {0}

LayerOf(f, l) ==
    [i \in Positive |->
        IF l = BaseDepth + 1 /\ i = 1 THEN Leaf(0)
        ELSE IF l = 1 THEN Leaf(i)
        ELSE Hash(f[l - 1][2 * i - 1], f[l - 1][2 * i])]

\* The first layers of it, as the recursion has them.
Layers(f, n) == f = [l \in 1..n |-> LayerOf(f, l)]

LEMMA LayersExist ==
    ASSUME NEW n \in Nat
    PROVE  \E f : Layers(f, n)
  <1> DEFINE Missing == {m \in Nat : ~\E f : Layers(f, m)}
  <1>1. SUFFICES ASSUME Missing # {} PROVE FALSE
    OBVIOUS
  <1>2. PICK m \in Missing : \A k \in Missing : m <= k
    <2>1. Missing \subseteq Nat
      OBVIOUS
    <2> HIDE DEF Missing
    <2> QED
      BY <1>1, <2>1, LeastNumber
  <1>3. CASE m = 0
    <2> DEFINE f == [l \in 1..0 |-> 0]
    <2>1. f = [l \in 1..0 |-> LayerOf(f, l)]
      OBVIOUS
    <2>2. Layers(f, 0)
      BY <2>1 DEF Layers
    <2> QED
      BY <1>3, <2>2
  <1>4. CASE m # 0
    <2>1. m \in Nat /\ m - 1 \in Nat /\ m - 1 \notin Missing
      BY <1>2, <1>4
    <2>2. PICK g : Layers(g, m - 1)
      BY <2>1
    <2> DEFINE f == [l \in 1..m |-> LayerOf(g, l)]
    <2>3. ASSUME NEW l \in 1..m PROVE f[l] = LayerOf(f, l)
      <3>1. f[l] = LayerOf(g, l)
        OBVIOUS
      <3>2. l # 1 => f[l - 1] = g[l - 1]
        <4> SUFFICES ASSUME l # 1 PROVE f[l - 1] = g[l - 1]
          OBVIOUS
        <4>1. l - 1 \in 1..m - 1 /\ l - 1 \in 1..m
          BY <2>1
        <4>2. g[l - 1] = LayerOf(g, l - 1)
          BY <2>2, <4>1 DEF Layers
        <4> QED
          BY <4>1, <4>2
      <3> HIDE DEF f
      <3>3. LayerOf(g, l) = LayerOf(f, l)
        BY <3>2 DEF LayerOf
      <3> QED
        BY <3>1, <3>3
    <2>4. Layers(f, m)
      <3>1. f = [l \in 1..m |-> f[l]]
        OBVIOUS
      <3> HIDE DEF f
      <3> QED
        BY <2>3, <3>1 DEF Layers
    <2> QED
      BY <2>4
  <1> QED
    BY <1>3, <1>4

LEMMA LayersAgree ==
    ASSUME NEW m \in Nat, NEW n \in Nat, m <= n, NEW f, NEW g, Layers(f, m), Layers(g, n)
    PROVE  \A l \in 1..m : f[l] = g[l]
  <1> DEFINE Apart == {l \in 1..m : f[l] # g[l]}
  <1>1. SUFFICES ASSUME Apart # {} PROVE FALSE
    OBVIOUS
  <1>2. PICK l \in Apart : \A j \in Apart : l <= j
    <2>1. Apart \subseteq Nat
      OBVIOUS
    <2> HIDE DEF Apart
    <2> QED
      BY <1>1, <2>1, LeastNumber
  <1>3. f[l] = LayerOf(f, l) /\ g[l] = LayerOf(g, l)
    <2>1. l \in 1..m /\ l \in 1..n
      OBVIOUS
    <2> HIDE DEF Apart
    <2> QED
      BY <2>1 DEF Layers
  <1>4. l # 1 => l - 1 \in 1..m /\ l - 1 \notin Apart
    BY <1>2
  <1>5. LayerOf(f, l) = LayerOf(g, l)
    BY <1>4 DEF LayerOf
  <1> QED
    BY <1>3, <1>5

LEMMA RefDigestDef ==
    \A l \in Positive : RefDigest[l] = LayerOf(RefDigest, l)
  <1> DEFINE G(n) == CHOOSE g : Layers(g, n)
             all == [l \in Positive |-> G(l)[l]]
  <1>1. \A n \in Nat : Layers(G(n), n)
    BY LayersExist
  <1> HIDE DEF G
  <1>2. ASSUME NEW l \in Positive
        PROVE  all[l] = LayerOf(all, l)
    <2>1. all[l] = G(l)[l] /\ l \in Nat /\ l \in 1..l
      BY DEF Positive
    <2>2. G(l)[l] = LayerOf(G(l), l)
      BY <1>1, <2>1 DEF Layers
    <2>3. l # 1 => all[l - 1] = G(l)[l - 1]
      <3> SUFFICES ASSUME l # 1 PROVE all[l - 1] = G(l)[l - 1]
        OBVIOUS
      <3>1. l - 1 \in Nat /\ l - 1 <= l /\ l - 1 \in 1..l - 1 /\ l - 1 \in Positive
        BY DEF Positive
      <3>2. all[l - 1] = G(l - 1)[l - 1]
        BY <3>1
      <3>3. Layers(G(l - 1), l - 1) /\ Layers(G(l), l)
        BY <1>1, <2>1, <3>1
      <3>4. \A k \in 1..l - 1 : G(l - 1)[k] = G(l)[k]
        <4> HIDE DEF all
        <4> QED
          BY <2>1, <3>1, <3>3, LayersAgree
      <3> QED
        BY <3>1, <3>2, <3>4
    <2> HIDE DEF all
    <2>4. LayerOf(G(l), l) = LayerOf(all, l)
      BY <2>3 DEF LayerOf
    <2> QED
      BY <2>1, <2>2, <2>4
  <1> DEFINE IsRef(f) == f = [l \in Positive |-> LayerOf(f, l)]
  <1>3. IsRef(all)
    <2>1. all = [l \in Positive |-> all[l]]
      OBVIOUS
    <2> HIDE DEF all
    <2> QED
      BY <1>2, <2>1
  <1>4. RefDigest = CHOOSE f : IsRef(f)
    BY Zenon DEF RefDigest, LayerOf, Positive
  <1>5. IsRef(RefDigest)
    <2> HIDE DEF IsRef, all
    <2> QED
      BY <1>3, <1>4
  <1> QED
    BY <1>5

(* Its leaves, its nodes and the node that is known from the start.        *)
LEMMA RefLeaf ==
    ASSUME NEW n \in Positive
    PROVE  RefDigest[1][n] = Leaf(n)
  <1>1. RefDigest[1] = LayerOf(RefDigest, 1)
    BY RefDigestDef DEF Positive
  <1>2. BaseDepth + 1 # 1
    BY OffsetsAssumption
  <1> QED
    BY <1>1, <1>2 DEF LayerOf

LEMMA RefNode ==
    ASSUME NEW k \in Nat, NEW i \in Positive, Base < i * two[k + 1]
    PROVE  RefDigest[k + 2][i] = Hash(RefDigest[k + 1][2 * i - 1], RefDigest[k + 1][2 * i])
  <1>1. RefDigest[k + 2] = LayerOf(RefDigest, k + 2)
    BY RefDigestDef DEF Positive
  <1>2. ~(k + 2 = BaseDepth + 1 /\ i = 1)
    <2> SUFFICES ASSUME k + 2 = BaseDepth + 1, i = 1 PROVE FALSE
      OBVIOUS
    <2>1. k + 1 = BaseDepth /\ two[k + 1] \in Nat
      BY TwoFacts, OffsetsAssumption
    <2>2. i * two[k + 1] = Base
      BY <2>1 DEF Base
    <2> QED
      BY <2>1, <2>2
  <1>3. k + 2 # 1 /\ (k + 2) - 1 = k + 1
    OBVIOUS
  <1> QED
    BY <1>1, <1>2, <1>3 DEF LayerOf

LEMMA RefBase == RefDigest[BaseDepth + 1][1] = Leaf(0)
  <1>1. BaseDepth + 1 \in Positive /\ 1 \in Positive
    BY OffsetsAssumption DEF Positive
  <1>2. RefDigest[BaseDepth + 1] = LayerOf(RefDigest, BaseDepth + 1)
    BY <1>1, RefDigestDef
  <1> QED
    BY <1>1, <1>2 DEF LayerOf

LEMMA RefSomething ==
    ASSUME NEW l \in Positive, NEW i \in Positive
    PROVE  RefDigest[l][i] # Nothing
  <1>1. RefDigest[l] = LayerOf(RefDigest, l)
    BY RefDigestDef
  <1>2. \/ RefDigest[l][i] = Leaf(0)
        \/ RefDigest[l][i] = Leaf(i)
        \/ RefDigest[l][i] = Hash(RefDigest[l - 1][2 * i - 1], RefDigest[l - 1][2 * i])
    BY <1>1 DEF LayerOf
  <1>3. \A x : <<x>> # <<>>
    OBVIOUS
  <1>4. \A x, y : <<x, y>> # <<>>
    OBVIOUS
  <1> QED
    BY <1>2, <1>3, <1>4, Zenon DEF Leaf, Hash, Nothing

LEMMA BaseFacts == Base \in Positive /\ Base % 2 = 0 /\ First = Base + 1
  <1>1. two[BaseDepth - 1] \in Positive /\ Base = 2 * two[BaseDepth - 1]
    BY TwoFacts, TwoDef, OffsetsAssumption DEF Base, Positive
  <1> QED
    BY <1>1 DEF First, Positive

-----------------------------------------------------------------------------
(* What append, inc_merkle_verify and HashUp do in a layer.                *)
Step(loop, a, s, k) ==
    IF loop = "append" THEN Collapse(a, s, k)
    ELSE IF loop = "verify" THEN VerifyLayer(a, s, Above(a.count, k + 1))
    ELSE IF a[k + 1].side = "left" THEN Hash(a[k + 1].value, s)
    ELSE Hash(s, a[k + 1].value)

Runs(f, loop, a, start, n) ==
    f = [k \in 0..n |-> IF k = 0 THEN start ELSE Step(loop, a, f[k - 1], k - 1)]

LEMMA LoopEnds ==
    ASSUME NEW loop, NEW a, NEW start, NEW n \in Nat
    PROVE  \E f : Runs(f, loop, a, start, n)
  <1> DEFINE Missing == {m \in Nat : ~\E f : Runs(f, loop, a, start, m)}
  <1>1. SUFFICES ASSUME Missing # {} PROVE FALSE
    OBVIOUS
  <1>2. PICK m \in Missing : \A k \in Missing : m <= k
    <2>1. Missing \subseteq Nat
      OBVIOUS
    <2> HIDE DEF Missing
    <2> QED
      BY <1>1, <2>1, LeastNumber
  <1>3. CASE m = 0
    <2> DEFINE f == [k \in 0..0 |-> start]
    <2>1. f = [k \in 0..0 |-> IF k = 0 THEN start ELSE Step(loop, a, f[k - 1], k - 1)]
      OBVIOUS
    <2>2. Runs(f, loop, a, start, 0)
      BY <2>1 DEF Runs
    <2> QED
      BY <1>3, <2>2
  <1>4. CASE m # 0
    <2>1. m \in Nat /\ m - 1 \in Nat /\ m - 1 \notin Missing
      BY <1>2, <1>4
    <2>2. PICK g : Runs(g, loop, a, start, m - 1)
      BY <2>1
    <2> DEFINE f == [k \in 0..m |-> IF k = m THEN Step(loop, a, g[m - 1], m - 1) ELSE g[k]]
    <2>3. ASSUME NEW k \in 0..m
          PROVE  f[k] = IF k = 0 THEN start ELSE Step(loop, a, f[k - 1], k - 1)
      <3>1. CASE k = m
        BY <1>4, <2>1, <3>1
      <3>2. CASE k # m
        <4>1. k \in 0..m - 1 /\ (k # 0 => k - 1 \in 0..m - 1 /\ k - 1 # m)
          BY <2>1, <3>2
        <4>2. g[k] = IF k = 0 THEN start ELSE Step(loop, a, g[k - 1], k - 1)
          BY <2>2, <4>1 DEF Runs
        <4> QED
          BY <3>2, <4>1, <4>2
      <3> QED
        BY <3>1, <3>2
    <2>4. Runs(f, loop, a, start, m)
      <3>1. f = [k \in 0..m |-> f[k]]
        OBVIOUS
      <3> HIDE DEF f
      <3> QED
        BY <2>3, <3>1 DEF Runs
    <2> QED
      BY <2>4
  <1> QED
    BY <1>3, <1>4

LEMMA AppendLayers ==
    ASSUME NEW m, NEW digest, m.count \in Nat
    PROVE  LET depth == max_depth(m.count + 1) - 1
           IN  \E f : /\ f[0] = [top |-> digest, partial |-> FALSE, keep |-> <<>>, next |-> 1]
                      /\ \A k \in 0..depth - 1 : f[k + 1] = Collapse(m, f[k], k)
                      /\ append(m, digest) = [count |-> m.count + 1,
                                              active |-> Append(f[depth].keep, f[depth].top)]
  <1> DEFINE depth == max_depth(m.count + 1) - 1
             start == [top |-> digest, partial |-> FALSE, keep |-> <<>>, next |-> 1]
             Is(f) == f = [k \in 0..depth |-> IF k = 0 THEN start
                                              ELSE Collapse(m, f[k - 1], k - 1)]
             layer == CHOOSE f : Is(f)
  <1>1. depth \in Nat
    BY DepthFacts
  <1>2. append(m, digest) = [count |-> m.count + 1,
                             active |-> Append(layer[depth].keep, layer[depth].top)]
    BY Zenon DEF append
  <1> HIDE DEF depth, start
  <1>3. \E f : Is(f)
    <2>1. PICK f : Runs(f, "append", m, start, depth)
      BY <1>1, LoopEnds
    <2>2. \A s, k : Step("append", m, s, k) = Collapse(m, s, k)
      BY DEF Step
    <2>3. Is(f)
      BY <2>1, <2>2 DEF Runs
    <2> QED
      BY <2>3
  <1>4. Is(layer)
    <2> HIDE DEF Is
    <2> QED
      BY <1>3
  <1> HIDE DEF layer
  <1>5. layer[0] = start
    BY <1>1, <1>4
  <1>6. ASSUME NEW k \in 0..depth - 1
        PROVE  layer[k + 1] = Collapse(m, layer[k], k)
    <2>1. k + 1 \in 0..depth /\ k + 1 # 0 /\ (k + 1) - 1 = k
      BY <1>1
    <2> QED
      BY <1>4, <2>1
  <1> QED
    BY <1>2, <1>5, <1>6 DEF depth, start

LEMMA VerifyLayers ==
    ASSUME NEW m, m.count \in Nat \ {0}
    PROVE  LET depth == max_depth(m.count) - 1
           IN  \E f : /\ f[0] = [top |-> Nothing, next |-> 1]
                      /\ \A k \in 0..depth - 1 :
                             f[k + 1] = VerifyLayer(m, f[k], Above(m.count, k + 1))
                      /\ inc_merkle_verify(m) = (Len(m.active) = 1 \/ f[depth].top = get_root(m))
  <1> DEFINE depth == max_depth(m.count) - 1
             start == [top |-> Nothing, next |-> 1]
             Is(f) == f = [k \in 0..depth |-> IF k = 0 THEN start
                                              ELSE VerifyLayer(m, f[k - 1], Above(m.count, k))]
             layer == CHOOSE f : Is(f)
  <1>1. depth \in Nat
    BY DepthFacts
  <1>2. inc_merkle_verify(m) = (Len(m.active) = 1 \/ layer[depth].top = get_root(m))
    BY Zenon DEF inc_merkle_verify
  <1> HIDE DEF depth, start
  <1>3. \E f : Is(f)
    <2>1. PICK f : Runs(f, "verify", m, start, depth)
      BY <1>1, LoopEnds
    <2>2. \A s, k : Step("verify", m, s, k) = VerifyLayer(m, s, Above(m.count, k + 1))
      BY DEF Step
    <2>3. \A k \in 0..depth : (k - 1) + 1 = k
      BY <1>1
    <2>4. \A k \in 0..depth : Step("verify", m, f[k - 1], k - 1) =
                                VerifyLayer(m, f[k - 1], Above(m.count, k))
      BY <2>2, <2>3
    <2>5. Is(f)
      BY <2>1, <2>4 DEF Runs
    <2> QED
      BY <2>5
  <1>4. Is(layer)
    <2> HIDE DEF Is
    <2> QED
      BY <1>3
  <1> HIDE DEF layer
  <1>5. layer[0] = start
    BY <1>1, <1>4
  <1>6. ASSUME NEW k \in 0..depth - 1
        PROVE  layer[k + 1] = VerifyLayer(m, layer[k], Above(m.count, k + 1))
    <2>1. k + 1 \in 0..depth /\ k + 1 # 0 /\ (k + 1) - 1 = k
      BY <1>1
    <2> QED
      BY <1>4, <2>1
  <1> QED
    BY <1>2, <1>5, <1>6 DEF depth, start

LEMMA HashLayers ==
    ASSUME NEW value, NEW digests, Len(digests) \in Nat
    PROVE  \E f : /\ f[0] = value
                  /\ \A k \in 1..Len(digests) :
                         f[k] = IF digests[k].side = "left" THEN Hash(digests[k].value, f[k - 1])
                                ELSE Hash(f[k - 1], digests[k].value)
                  /\ HashUp(value, digests) = f[Len(digests)]
  <1> DEFINE n == Len(digests)
             Is(f) == f = [k \in 0..n |->
                        IF k = 0 THEN value
                        ELSE IF digests[k].side = "left" THEN Hash(digests[k].value, f[k - 1])
                        ELSE Hash(f[k - 1], digests[k].value)]
             up == CHOOSE f : Is(f)
  <1>1. HashUp(value, digests) = up[n]
    BY Zenon DEF HashUp
  <1> HIDE DEF n
  <1>2. \E f : Is(f)
    <2>1. n \in Nat
      BY DEF n
    <2>2. PICK f : Runs(f, "hash", digests, value, n)
      BY <2>1, LoopEnds
    <2>3. \A s, k : Step("hash", digests, s, k) =
                    IF digests[k + 1].side = "left" THEN Hash(digests[k + 1].value, s)
                    ELSE Hash(s, digests[k + 1].value)
      BY DEF Step
    <2>4. \A k \in 0..n : (k - 1) + 1 = k
      BY <2>1
    <2>5. \A k \in 0..n : Step("hash", digests, f[k - 1], k - 1) =
                    IF digests[k].side = "left" THEN Hash(digests[k].value, f[k - 1])
                    ELSE Hash(f[k - 1], digests[k].value)
      BY <2>3, <2>4
    <2>6. Is(f)
      BY <2>2, <2>5 DEF Runs
    <2> QED
      BY <2>6
  <1>3. Is(up)
    <2> HIDE DEF Is
    <2> QED
      BY <1>2
  <1> HIDE DEF up
  <1>4. n \in Nat
    BY DEF n
  <1>5. up[0] = value
    BY <1>3, <1>4
  <1>6. ASSUME NEW k \in 1..n
        PROVE  up[k] = IF digests[k].side = "left" THEN Hash(digests[k].value, up[k - 1])
                       ELSE Hash(up[k - 1], digests[k].value)
    BY <1>3, <1>4
  <1> QED
    BY <1>1, <1>5, <1>6 DEF n

-----------------------------------------------------------------------------
(* The tree of n leaves: the active nodes, from the first, are the last    *)
(* nodes of the layers that end in a full subtree.                         *)
Tree(m, n) ==
    /\ m.count = n
    /\ \A j \in Nat : Bit(n, j) = 1 => m.active[1 + Ones(n, j)] = RefDigest[j + 1][n \div two[j]]

Digests == {RefDigest[l][i] : l \in Positive, i \in Positive}

(* append in layer k of a tree of c leaves with the new one: what is left  *)
(* of the new leaf is either part of the full subtree that ends with it,   *)
(* or there is a node without a right one below.                           *)
Whole(s, c, k) ==
    /\ s.partial = FALSE /\ s.keep = <<>> /\ s.next = 1 + k
    /\ Ones(c - 1, k) = k /\ Ones(c, k) = 0
    /\ \A j \in 0..k - 1 : Bit(c, j) = 0
    /\ (c \div two[k]) * two[k] = c
    /\ s.top = RefDigest[k + 1][c \div two[k]]

Partial(s, c, k) ==
    /\ s.partial = TRUE /\ s.keep \in Seq(Digests)
    /\ Len(s.keep) = Ones(c, k) /\ s.next = 1 + Ones(c - 1, k)
    /\ s.top # Nothing
    /\ (c - 1) \div two[k] = c \div two[k]
    /\ \A j \in 0..k - 1 : Bit(c, j) = 1 =>
            /\ 1 + Ones(c, j) \in 1..Len(s.keep)
            /\ s.keep[1 + Ones(c, j)] = RefDigest[j + 1][c \div two[j]]

\* A number that a power divides, and the one before it.
LEMMA WholeBits ==
    ASSUME NEW c \in Positive, NEW k \in Nat, (c \div two[k]) * two[k] = c
    PROVE  /\ c \div two[k] \in Positive
           /\ (c - 1) \div two[k] = (c \div two[k]) - 1
           /\ Bit(c, k) = 1 - Bit(c - 1, k)
           /\ Bit(c, k) = 0 => (c \div two[k + 1]) * two[k + 1] = c
           /\ Bit(c, k) = 1 => (c - 1) \div two[k + 1] = c \div two[k + 1]
  <1> DEFINE w == two[k]
             q == c \div w
             a == (c - 1) \div w
             h == c \div two[k + 1]
             g == (c - 1) \div two[k + 1]
  <1>1. w \in Positive /\ two[k + 1] = 2 * w /\ c - 1 \in Nat /\ c \in Nat
    BY TwoFacts DEF Positive
  <1>2. q \in Nat /\ q * w = c /\ h \in Nat /\ Bit(c, k) \in {0, 1} /\ q = 2 * h + Bit(c, k)
    BY <1>1, BitFacts, TwoFacts
  <1>3. a \in Nat /\ g \in Nat /\ Bit(c - 1, k) \in {0, 1} /\ a = 2 * g + Bit(c - 1, k)
    <2> DEFINE n == c - 1
    <2>1. n \in Nat /\ k + 1 \in Nat
      BY <1>1
    <2> HIDE DEF n
    <2>2. n \div two[k] \in Nat /\ Bit(n, k) \in {0, 1}
          /\ n \div two[k] = 2 * (n \div two[k + 1]) + Bit(n, k)
      BY <2>1, BitFacts
    <2>3. n \div two[k + 1] \in Nat
      BY <2>1, BitFacts
    <2> QED
      BY <2>2, <2>3 DEF n
  <1>4. q \in Positive
    BY <1>1, <1>2 DEF Positive
  <1>5. a = q - 1
    <2>1. (q - 1) * w = c - w
      BY <1>1, <1>2 DEF Positive
    <2>2. q - 1 \in Nat /\ (q - 1) * w <= c - 1 /\ c - 1 < (q - 1) * w + w
      BY <1>1, <1>4, <2>1 DEF Positive
    <2> HIDE DEF q, w
    <2>3. (c - 1) \div w = q - 1
      BY <1>1, <2>2, QuotientUnique DEF Positive
    <2> QED
      BY <2>3
  <1> HIDE DEF q, a, w, h, g
  <1>6. Bit(c, k) = 1 - Bit(c - 1, k) /\ (Bit(c, k) = 1 => g = h)
    BY <1>2, <1>3, <1>5
  <1>7. Bit(c, k) = 0 => h * two[k + 1] = c
    BY <1>1, <1>2 DEF Positive
  <1> QED
    BY <1>4, <1>5, <1>6, <1>7 DEF q, a, w, h, g

LEMMA CollapseWhole ==
    ASSUME NEW m, NEW c \in Positive, NEW k \in Nat, NEW s,
           Base < c, Tree(m, c - 1), Whole(s, c, k)
    PROVE  /\ Bit(c, k) = 0 => Whole(Collapse(m, s, k), c, k + 1)
           /\ Bit(c, k) = 1 => Partial(Collapse(m, s, k), c, k + 1)
           /\ Bit(c, k) = 1 => Collapse(m, s, k).top = Hash(s.top, s.top)
  <1> DEFINE q == c \div two[k]
             n == c - 1
             t == Collapse(m, s, k)
  <1>1. n \in Nat /\ c \in Nat /\ m.count = n
    BY DEF Positive, Tree
  <1>2. /\ q \in Positive /\ n \div two[k] = q - 1 /\ Bit(c, k) = 1 - Bit(n, k)
        /\ Bit(c, k) = 0 => (c \div two[k + 1]) * two[k + 1] = c
        /\ Bit(c, k) = 1 => n \div two[k + 1] = c \div two[k + 1]
    BY WholeBits DEF Whole
  <1>3. /\ Ones(n, k + 1) = k + Bit(n, k) /\ Ones(c, k + 1) = Bit(c, k)
        /\ Bit(n, k) \in {0, 1} /\ Bit(c, k) \in {0, 1}
    <2>1. Ones(n, k) = k /\ Ones(c, k) = 0
      BY DEF Whole
    <2> HIDE DEF n
    <2>2. Ones(n, k + 1) = Ones(n, k) + Bit(n, k) /\ Ones(c, k + 1) = Ones(c, k) + Bit(c, k)
      BY <1>1, OnesFacts
    <2>3. Bit(n, k) \in {0, 1} /\ Bit(c, k) \in {0, 1}
      BY <1>1, BitFacts
    <2> QED
      BY <2>1, <2>2, <2>3
  <1>4. s.partial = FALSE /\ s.keep = <<>> /\ s.next = 1 + k /\ s.top = RefDigest[k + 1][q]
    BY DEF Whole
  <1>5. k + 1 \in Positive /\ (k + 1) + 1 = k + 2
    BY DEF Positive
  <1>6. CASE Bit(c, k) = 0
    <2>1. /\ t.top = Hash(m.active[s.next], s.top) /\ t.partial = FALSE
          /\ t.keep = <<>> /\ t.next = s.next + 1
      <3>1. Bit(m.count, k) # 0
        BY <1>1, <1>2, <1>3, <1>6
      <3>2. t = [top |-> Hash(m.active[s.next], s.top), partial |-> s.partial,
                 keep |-> IF s.partial THEN Append(s.keep, m.active[s.next]) ELSE s.keep,
                 next |-> s.next + 1]
        BY <3>1, Zenon DEF Collapse
      <3>3. (IF s.partial THEN Append(s.keep, m.active[s.next]) ELSE s.keep) = <<>>
        BY <1>4
      <3> QED
        BY <1>4, <3>2, <3>3
    <2>2. m.active[s.next] = RefDigest[k + 1][q - 1]
      <3>1. Bit(n, k) = 1 /\ Ones(n, k) = k
        BY <1>2, <1>3, <1>6 DEF Whole
      <3> QED
        BY <1>2, <1>4, <3>1 DEF Tree
    <2> DEFINE h == c \div two[k + 1]
    <2>3. h \in Positive /\ q = 2 * h /\ h * two[k + 1] = c
      <3>1. h \in Nat /\ q = 2 * h
        BY <1>1, <1>6, BitFacts
      <3> QED
        BY <1>2, <1>6, <3>1 DEF Positive
    <2>4. RefDigest[k + 2][h] = Hash(RefDigest[k + 1][2 * h - 1], RefDigest[k + 1][2 * h])
      <3> HIDE DEF h
      <3> QED
        BY <2>3, RefNode
    <2>5. t.top = RefDigest[(k + 1) + 1][c \div two[k + 1]]
      BY <1>4, <1>5, <2>1, <2>2, <2>3, <2>4
    <2>6. \A j \in 0..(k + 1) - 1 : Bit(c, j) = 0
      BY <1>6 DEF Whole
    <2>7. t.partial = FALSE /\ t.keep = <<>> /\ t.next = 1 + (k + 1)
      BY <1>4, <2>1
    <2>8. Ones(c - 1, k + 1) = k + 1 /\ Ones(c, k + 1) = 0
      BY <1>2, <1>3, <1>6
    <2>9. Whole(t, c, k + 1)
      BY <2>3, <2>5, <2>6, <2>7, <2>8 DEF Whole
    <2> QED
      BY <1>6, <2>9
  <1>7. CASE Bit(c, k) = 1
    <2>1. /\ t.top = Hash(s.top, s.top) /\ t.partial = TRUE
          /\ t.keep = Append(<<>>, s.top) /\ t.next = s.next
      <3>1. Bit(m.count, k) = 0
        BY <1>1, <1>2, <1>3, <1>7
      <3>2. t = [top |-> Hash(s.top, s.top), partial |-> TRUE,
                 keep |-> IF s.partial THEN s.keep ELSE Append(s.keep, s.top),
                 next |-> s.next]
        BY <3>1, Zenon DEF Collapse
      <3>3. (IF s.partial THEN s.keep ELSE Append(s.keep, s.top)) = Append(<<>>, s.top)
        BY <1>4
      <3> QED
        BY <3>2, <3>3
    <2>2. s.top \in Digests
      BY <1>2, <1>4, <1>5 DEF Digests
    <2>3. t.keep \in Seq(Digests) /\ Len(t.keep) = 1 /\ t.keep[1] = s.top
      BY <2>1, <2>2
    <2>4. t.top = Hash(s.top, s.top) /\ t.top # Nothing
      <3>1. \A x, y : <<x, y>> # <<>>
        OBVIOUS
      <3> QED
        BY <2>1, <3>1 DEF Hash, Nothing
    <2>5. t.partial = TRUE /\ t.next = 1 + Ones(c - 1, k + 1) /\ Len(t.keep) = Ones(c, k + 1)
      BY <1>2, <1>3, <1>4, <1>7, <2>1, <2>3
    <2>6. ASSUME NEW j \in 0..(k + 1) - 1, Bit(c, j) = 1
          PROVE  /\ 1 + Ones(c, j) \in 1..Len(t.keep)
                 /\ t.keep[1 + Ones(c, j)] = RefDigest[j + 1][c \div two[j]]
      <3>1. j = k
        BY <2>6 DEF Whole
      <3>2. Ones(c, j) = 0
        BY <3>1 DEF Whole
      <3> QED
        BY <1>4, <2>3, <3>1, <3>2
    <2> HIDE DEF t
    <2>7. Partial(t, c, k + 1)
      BY <1>2, <1>7, <2>3, <2>4, <2>5, <2>6 DEF Partial
    <2> QED
      BY <1>7, <2>4, <2>7 DEF t
  <1> QED
    BY <1>3, <1>6, <1>7

LEMMA CollapsePartial ==
    ASSUME NEW m, NEW c \in Positive, NEW k \in Nat, NEW s,
           Base < c, Tree(m, c - 1), Partial(s, c, k)
    PROVE  /\ Partial(Collapse(m, s, k), c, k + 1)
           /\ Collapse(m, s, k).top =
                IF Bit(c, k) = 0 THEN Hash(s.top, s.top)
                ELSE Hash(RefDigest[k + 1][c \div two[k]], s.top)
  <1> DEFINE q == c \div two[k]
             n == c - 1
             t == Collapse(m, s, k)
  <1>1. n \in Nat /\ c \in Nat /\ m.count = n
    BY DEF Positive, Tree
  <1>2. n \div two[k] = q /\ Bit(n, k) = Bit(c, k) /\ Bit(c, k) \in {0, 1}
    BY <1>1, BitFacts DEF Partial, Bit
  <1>3. n \div two[k + 1] = c \div two[k + 1]
    <2>1. /\ n \div two[k] = 2 * (n \div two[k + 1]) + Bit(n, k)
          /\ c \div two[k] = 2 * (c \div two[k + 1]) + Bit(c, k)
          /\ n \div two[k + 1] \in Nat /\ c \div two[k + 1] \in Nat
      BY <1>1, BitFacts
    <2> QED
      BY <1>2, <2>1
  <1>4. /\ Ones(n, k + 1) = Ones(n, k) + Bit(c, k) /\ Ones(c, k + 1) = Ones(c, k) + Bit(c, k)
        /\ Ones(n, k) \in Nat /\ Ones(c, k) \in Nat
    BY <1>1, <1>2, OnesFacts
  <1>5. \A x, y : Hash(x, y) # Nothing
    <2>1. \A x, y : <<x, y>> # <<>>
      OBVIOUS
    <2> QED
      BY <2>1 DEF Hash, Nothing
  <1>6. CASE Bit(c, k) = 0
    <2>1. t = [top |-> Hash(s.top, s.top), partial |-> TRUE, keep |-> s.keep, next |-> s.next]
      BY <1>1, <1>2, <1>6 DEF Collapse, Partial
    <2>2. \A j \in 0..(k + 1) - 1 : Bit(c, j) = 1 =>
            /\ 1 + Ones(c, j) \in 1..Len(t.keep)
            /\ t.keep[1 + Ones(c, j)] = RefDigest[j + 1][c \div two[j]]
      <3>1. \A j \in 0..(k + 1) - 1 : Bit(c, j) = 1 => j \in 0..k - 1
        BY <1>6
      <3> QED
        BY <2>1, <3>1 DEF Partial
    <2>3. t.partial = TRUE /\ t.keep \in Seq(Digests) /\ Len(t.keep) = Ones(c, k + 1)
          /\ t.next = 1 + Ones(c - 1, k + 1) /\ t.top # Nothing
      BY <1>4, <1>5, <1>6, <2>1 DEF Partial
    <2> HIDE DEF t
    <2>4. Partial(t, c, k + 1)
      BY <1>3, <2>2, <2>3 DEF Partial
    <2> QED
      BY <1>6, <2>1, <2>4 DEF t
  <1>7. CASE Bit(c, k) = 1
    <2> DEFINE left == RefDigest[k + 1][q]
    <2>1. /\ t.top = Hash(m.active[s.next], s.top) /\ t.partial = TRUE
          /\ t.keep = Append(s.keep, m.active[s.next]) /\ t.next = s.next + 1
      <3>1. Bit(m.count, k) # 0 /\ s.partial = TRUE
        BY <1>1, <1>2, <1>7 DEF Partial
      <3>2. t = [top |-> Hash(m.active[s.next], s.top), partial |-> s.partial,
                 keep |-> IF s.partial THEN Append(s.keep, m.active[s.next]) ELSE s.keep,
                 next |-> s.next + 1]
        BY <3>1, Zenon DEF Collapse
      <3>3. (IF s.partial THEN Append(s.keep, m.active[s.next]) ELSE s.keep)
                = Append(s.keep, m.active[s.next])
        BY <3>1
      <3> QED
        BY <3>1, <3>2, <3>3
    <2>2. m.active[s.next] = left
      BY <1>2, <1>7 DEF Tree, Partial
    <2>3. left \in Digests
      <3>1. q \in Positive
        <4>1. q \in Nat /\ c \div two[k + 1] \in Nat
              /\ q = 2 * (c \div two[k + 1]) + Bit(c, k)
          BY <1>1, BitFacts
        <4> QED
          BY <1>7, <4>1 DEF Positive
      <3>2. k + 1 \in Positive
        BY DEF Positive
      <3> QED
        BY <3>1, <3>2 DEF Digests
    <2> HIDE DEF left
    <2>4. /\ t.keep = Append(s.keep, left) /\ s.keep \in Seq(Digests)
          /\ Len(s.keep) = Ones(c, k)
      BY <2>1, <2>2 DEF Partial
    <2>5. /\ t.keep \in Seq(Digests) /\ Len(t.keep) = Ones(c, k) + 1
          /\ t.keep[1 + Ones(c, k)] = left
          /\ \A i \in 1..Len(s.keep) : t.keep[i] = s.keep[i]
      BY <1>4, <2>3, <2>4
    <2>6. t.partial = TRUE /\ t.next = 1 + Ones(c - 1, k + 1) /\ t.top # Nothing
          /\ Len(t.keep) = Ones(c, k + 1)
      BY <1>4, <1>5, <1>7, <2>1, <2>5 DEF Partial
    <2>7. ASSUME NEW j \in 0..(k + 1) - 1, Bit(c, j) = 1
          PROVE  /\ 1 + Ones(c, j) \in 1..Len(t.keep)
                 /\ t.keep[1 + Ones(c, j)] = RefDigest[j + 1][c \div two[j]]
      <3>1. CASE j = k
        BY <1>4, <2>5, <3>1 DEF left
      <3>2. CASE j # k
        <4>1. j \in 0..k - 1
          BY <3>2
        <4>2. /\ 1 + Ones(c, j) \in 1..Len(s.keep)
              /\ s.keep[1 + Ones(c, j)] = RefDigest[j + 1][c \div two[j]]
          BY <2>7, <4>1 DEF Partial
        <4> HIDE DEF t
        <4>3. t.keep[1 + Ones(c, j)] = RefDigest[j + 1][c \div two[j]]
          BY <2>5, <4>2
        <4>4. 1 + Ones(c, j) \in 1..Len(t.keep)
          BY <1>4, <2>4, <2>5, <4>2
        <4> QED
          BY <4>3, <4>4
      <3> QED
        BY <3>1, <3>2
    <2> HIDE DEF t
    <2>8. Partial(t, c, k + 1)
      BY <1>3, <2>5, <2>6, <2>7 DEF Partial
    <2> QED
      BY <1>7, <2>1, <2>2, <2>8 DEF t, left
  <1> QED
    BY <1>2, <1>6, <1>7

(* inc_merkle_verify in a layer comes to the same node as append.          *)
LEMMA VerifyWhole ==
    ASSUME NEW m, NEW c \in Positive, NEW k \in Nat, NEW s, NEW v,
           Tree(m, c), Whole(s, c, k), v.top = Nothing, v.next = 1
    PROVE  LET t == VerifyLayer(m, v, Above(c, k + 1))
           IN  IF Bit(c, k) = 0 THEN t.top = Nothing /\ t.next = 1
               ELSE t.top = Hash(s.top, s.top) /\ t.next = 1 + Ones(c, k + 1)
  <1> DEFINE q == c \div two[k]
             t == VerifyLayer(m, v, Above(c, k + 1))
  <1>1. c \in Nat \ {0} /\ q \in Nat /\ q * two[k] = c /\ two[k] \in Nat \ {0}
    BY BitFacts, TwoFacts DEF Whole, Positive
  <1>2. Above(c, k + 1) = q
    <2> HIDE DEF q
    <2>1. c <= q * two[k] /\ q * two[k] < c + two[k]
      BY <1>1
    <2> QED
      BY <1>1, <2>1, AboveUnique
  <1>3. q % 2 = Bit(c, k) /\ Bit(c, k) \in {0, 1}
    BY <1>1, BitFacts DEF Bit
  <1>4. Ones(c, k) = 0 /\ Ones(c, k + 1) = Bit(c, k)
    BY <1>1, <1>3, OnesFacts DEF Whole
  <1>5. CASE Bit(c, k) = 0
    <2>1. t = v
      BY <1>2, <1>3, <1>5 DEF VerifyLayer
    <2> QED
      BY <1>5, <2>1
  <1>6. CASE Bit(c, k) = 1
    <2>1. t = [top |-> Hash(m.active[1], m.active[1]), next |-> 2]
      BY <1>2, <1>3, <1>6 DEF VerifyLayer
    <2>2. m.active[1] = s.top
      BY <1>4, <1>6 DEF Tree, Whole
    <2> QED
      BY <1>4, <1>6, <2>1, <2>2
  <1> QED
    BY <1>3, <1>5, <1>6

LEMMA VerifyPartial ==
    ASSUME NEW m, NEW c \in Positive, NEW k \in Nat, NEW s, NEW v,
           Tree(m, c), Partial(s, c, k), v.top = s.top, v.next = 1 + Ones(c, k)
    PROVE  LET t == VerifyLayer(m, v, Above(c, k + 1))
           IN  /\ t.top = IF Bit(c, k) = 0 THEN Hash(s.top, s.top)
                          ELSE Hash(RefDigest[k + 1][c \div two[k]], s.top)
               /\ t.next = 1 + Ones(c, k + 1)
  <1> DEFINE q == c \div two[k]
             w == two[k]
             t == VerifyLayer(m, v, Above(c, k + 1))
  <1>1. c \in Nat \ {0} /\ q \in Nat /\ w \in Nat \ {0} /\ c < q * w + w
    BY BitFacts, TwoFacts DEF Positive
  <1>2. q * w < c
    <2> DEFINE n == c - 1
    <2>1. n \in Nat
      BY <1>1
    <2>2. n \div two[k] = q
      BY DEF Partial
    <2> HIDE DEF n, q
    <2>3. q * w <= n
      BY <2>1, <2>2, BitFacts
    <2>4. n < c
      BY <1>1 DEF n
    <2> DEFINE x == q * w
    <2>5. x \in Nat
      BY <1>1
    <2> HIDE DEF x, w
    <2> QED
      BY <1>1, <2>1, <2>3, <2>4, <2>5 DEF x
  <1>3. Above(c, k + 1) = q + 1
    <2> HIDE DEF q
    <2>1. (q + 1) * w = q * w + w
      BY <1>1
    <2>2. q + 1 \in Nat /\ c <= (q + 1) * two[k] /\ (q + 1) * two[k] < c + two[k]
      BY <1>1, <1>2, <2>1
    <2> QED
      BY <1>1, <2>2, AboveUnique
  <1>4. q % 2 = Bit(c, k) /\ Bit(c, k) \in {0, 1}
    BY <1>1, BitFacts DEF Bit
  <1>5. Ones(c, k + 1) = Ones(c, k) + Bit(c, k) /\ Ones(c, k) \in Nat
    BY <1>1, OnesFacts
  <1>6. s.top # Nothing
    BY DEF Partial
  <1>7. CASE Bit(c, k) = 0
    <2>1. (q + 1) % 2 = 1
      <3> HIDE DEF q
      <3>1. q % 2 = 0
        BY <1>4, <1>7
      <3> QED
        BY <1>1, <3>1
    <2>2. t = [top |-> Hash(s.top, s.top), next |-> v.next]
      BY <1>3, <1>6, <2>1 DEF VerifyLayer
    <2> QED
      BY <1>5, <1>7, <2>2
  <1>8. CASE Bit(c, k) = 1
    <2>1. (q + 1) % 2 = 0
      <3> HIDE DEF q
      <3>1. q % 2 = 1
        BY <1>4, <1>8
      <3> QED
        BY <1>1, <3>1
    <2>2. t = [top |-> Hash(m.active[v.next], s.top), next |-> v.next + 1]
      BY <1>3, <1>6, <2>1 DEF VerifyLayer
    <2>3. m.active[v.next] = RefDigest[k + 1][q]
      BY <1>8 DEF Tree
    <2> QED
      BY <1>5, <1>8, <2>2, <2>3
  <1> QED
    BY <1>4, <1>7, <1>8

(* append makes the tree of one more leaf, and inc_merkle_verify accepts   *)
(* it.                                                                     *)
LEMMA AppendCorrect ==
    ASSUME NEW m, NEW c \in Positive, Base < c, Tree(m, c - 1)
    PROVE  LET t == append(m, RefDigest[1][c])
           IN  Tree(t, c) /\ inc_merkle_verify(t)
  <1> DEFINE t == append(m, RefDigest[1][c])
             depth == max_depth(c) - 1
  <1>1. c \in Nat \ {0} /\ c - 1 \in Nat /\ m.count = c - 1 /\ m.count + 1 = c
    BY DEF Positive, Tree
  <1>2. depth \in Nat /\ c <= two[depth] /\ two[depth] \in Positive
    BY <1>1, DepthFacts, TwoFacts DEF Positive
  <1>3. PICK f : /\ f[0] = [top |-> RefDigest[1][c], partial |-> FALSE, keep |-> <<>>, next |-> 1]
                 /\ \A k \in 0..depth - 1 : f[k + 1] = Collapse(m, f[k], k)
                 /\ t = [count |-> c, active |-> Append(f[depth].keep, f[depth].top)]
    BY <1>1, AppendLayers
  <1> HIDE DEF t
  <1> DEFINE Climbs(k) == Whole(f[k], c, k) \/ Partial(f[k], c, k)
  <1>4. Whole(f[0], c, 0)
    <2>1. Ones(c - 1, 0) = 0 /\ Ones(c, 0) = 0
      BY <1>1, OnesFacts
    <2>2. two[0] = 1 /\ c \div 1 = c
      BY <1>1, TwoDef
    <2>3. (c \div two[0]) * two[0] = c /\ f[0].top = RefDigest[0 + 1][c \div two[0]]
      BY <1>1, <1>3, <2>2
    <2> QED
      BY <1>3, <2>1, <2>3 DEF Whole
  <1>5. \A k \in 0..depth : Climbs(k)
    <2> DEFINE Bad == {k \in 0..depth : ~Climbs(k)}
    <2> SUFFICES ASSUME Bad # {} PROVE FALSE
      OBVIOUS
    <2>1. PICK k \in Bad : \A j \in Bad : k <= j
      <3>1. Bad \subseteq Nat
        OBVIOUS
      <3> HIDE DEF Bad
      <3> QED
        BY <3>1, LeastNumber
    <2>2. k # 0
      BY <1>4
    <2> DEFINE j == k - 1
    <2>3. j \in Nat /\ j \in 0..depth - 1 /\ k = j + 1 /\ Climbs(j)
      BY <1>2, <2>1, <2>2
    <2> HIDE DEF j
    <2>4. f[k] = Collapse(m, f[j], j)
      BY <1>3, <2>3
    <2>5. Bit(c, j) \in {0, 1}
      BY <1>1, <2>3, BitFacts
    <2>6. Climbs(k)
      BY <2>3, <2>4, <2>5, CollapseWhole, CollapsePartial
    <2> QED
      BY <2>1, <2>6
  <1>6. t.count = c /\ t.active = Append(f[depth].keep, f[depth].top)
    BY <1>3
  <1>7. \A j \in Nat : j > depth => Bit(c, j) = 0
    <2>1. max_depth(c) \in Nat
      BY <1>1, DepthFacts
    <2>2. \A j \in Nat : j > depth => j >= max_depth(c)
      BY <2>1
    <2> QED
      BY <1>1, <2>2, DepthBits
  <1>8. CASE Whole(f[depth], c, depth)
    <2>1. c \div two[depth] = 1
      <3> DEFINE q == c \div two[depth]
                 w == two[depth]
      <3>1. q \in Nat /\ q * w = c /\ c <= w /\ c > 0 /\ w \in Nat \ {0}
        <4>1. c \div two[depth] \in Nat
          <5> HIDE DEF depth
          <5> QED
            BY <1>1, <1>2, BitFacts
        <4>2. q * w = c
          BY <1>8 DEF Whole
        <4> HIDE DEF depth
        <4> QED
          BY <1>1, <1>2, <4>1, <4>2 DEF Positive
      <3> HIDE DEF q, w
      <3>2. q # 0
        BY <3>1
      <3>3. q >= 2 => q * w >= 2 * w
        BY <3>1
      <3>4. q = 1
        BY <3>1, <3>2, <3>3
      <3> QED
        BY <3>4 DEF q
    <2>2. /\ t.active = <<f[depth].top>> /\ f[depth].top = RefDigest[depth + 1][1]
          /\ Ones(c, depth) = 0
      BY <1>6, <1>8, <2>1 DEF Whole
    <2>3. Len(t.active) = 1 /\ t.active[1] = RefDigest[depth + 1][1]
      BY <2>2
    <2>4. Tree(t, c)
      <3> SUFFICES ASSUME NEW j \in Nat, Bit(c, j) = 1
                   PROVE  t.active[1 + Ones(c, j)] = RefDigest[j + 1][c \div two[j]]
        BY <1>6 DEF Tree
      <3>1. j = depth
        <4>1. ~(j > depth)
          BY <1>7
        <4>2. ~(j \in 0..depth - 1)
          BY <1>8 DEF Whole
        <4> QED
          BY <1>2, <4>1, <4>2
      <3> QED
        BY <2>1, <2>2, <2>3, <3>1
    <2>5. inc_merkle_verify(t)
      <3> HIDE DEF depth
      <3> QED
        BY <1>1, <1>6, <2>3, VerifyLayers
    <2> QED
      BY <2>4, <2>5 DEF t
  <1>9. CASE Partial(f[depth], c, depth)
    <2> DEFINE keep == f[depth].keep
    <2>1. keep \in Seq(Digests) /\ Len(keep) \in Nat
      BY <1>9 DEF Partial
    <2>2. /\ t.active[Len(keep) + 1] = f[depth].top /\ Len(t.active) = Len(keep) + 1
          /\ \A i \in 1..Len(keep) : t.active[i] = keep[i]
          /\ Last(t.active) = f[depth].top
      <3>1. \E T : keep \in Seq(T) /\ f[depth].top \in T
        <4>1. keep \in Seq(Digests \cup {f[depth].top})
          BY <2>1
        <4> QED
          BY <4>1
      <3> HIDE DEF keep
      <3>2. t.active = Append(keep, f[depth].top)
        BY <1>6 DEF keep
      <3> QED
        BY <2>1, <3>1, <3>2 DEF Last
    <2>3. Bit(c, depth) = 0
      <3> DEFINE n == c - 1
      <3>1. n \in Nat /\ n < two[depth]
        BY <1>1, <1>2 DEF Positive
      <3>2. n \div two[depth] = c \div two[depth]
        BY <1>9 DEF Partial
      <3> HIDE DEF n
      <3>3. n \div two[depth] = 0
        BY <1>2, <3>1, NoBitsAbove
      <3> QED
        BY <3>2, <3>3 DEF Bit
    <2>4. Tree(t, c)
      <3> SUFFICES ASSUME NEW j \in Nat, Bit(c, j) = 1
                   PROVE  t.active[1 + Ones(c, j)] = RefDigest[j + 1][c \div two[j]]
        BY <1>6 DEF Tree
      <3>1. j \in 0..depth - 1
        <4>1. ~(j > depth) /\ j # depth
          BY <1>7, <2>3
        <4> QED
          BY <1>2, <4>1
      <3>2. 1 + Ones(c, j) \in 1..Len(keep) /\ keep[1 + Ones(c, j)] = RefDigest[j + 1][c \div two[j]]
        BY <1>9, <3>1 DEF Partial
      <3> HIDE DEF keep
      <3> QED
        BY <2>2, <3>2
    <2>5. PICK v : /\ v[0] = [top |-> Nothing, next |-> 1]
                   /\ \A k \in 0..depth - 1 : v[k + 1] = VerifyLayer(t, v[k], Above(c, k + 1))
                   /\ inc_merkle_verify(t) = (Len(t.active) = 1 \/ v[depth].top = get_root(t))
      BY <1>1, <1>6, VerifyLayers
    <2> DEFINE Same(k) == \/ Whole(f[k], c, k) /\ v[k].top = Nothing /\ v[k].next = 1
                          \/ Partial(f[k], c, k) /\ v[k].top = f[k].top /\ v[k].next = 1 + Ones(c, k)
    <2>6. Same(0)
      BY <1>4, <2>5
    <2>7. \A k \in 0..depth : Same(k)
      <3> DEFINE Bad == {k \in 0..depth : ~Same(k)}
      <3> SUFFICES ASSUME Bad # {} PROVE FALSE
        OBVIOUS
      <3>1. PICK k \in Bad : \A j \in Bad : k <= j
        <4>1. Bad \subseteq Nat
          OBVIOUS
        <4> HIDE DEF Bad
        <4> QED
          BY <4>1, LeastNumber
      <3>2. k # 0
        BY <2>6
      <3> DEFINE j == k - 1
      <3>3. j \in Nat /\ j \in 0..depth - 1 /\ k = j + 1 /\ Same(j)
        BY <1>2, <3>1, <3>2
      <3> HIDE DEF j
      <3>4. f[k] = Collapse(m, f[j], j) /\ v[k] = VerifyLayer(t, v[j], Above(c, j + 1))
        BY <1>3, <2>5, <3>3
      <3>5. Bit(c, j) \in {0, 1}
        BY <1>1, <3>3, BitFacts
      <3>6. CASE Whole(f[j], c, j) /\ v[j].top = Nothing /\ v[j].next = 1
        <4>1. /\ Bit(c, j) = 0 => Whole(f[k], c, k)
              /\ Bit(c, j) = 1 => Partial(f[k], c, k)
              /\ Bit(c, j) = 1 => f[k].top = Hash(f[j].top, f[j].top)
          BY <3>3, <3>4, <3>6, CollapseWhole
        <4>2. IF Bit(c, j) = 0 THEN v[k].top = Nothing /\ v[k].next = 1
              ELSE v[k].top = Hash(f[j].top, f[j].top) /\ v[k].next = 1 + Ones(c, k)
          BY <2>4, <3>3, <3>4, <3>6, VerifyWhole
        <4> QED
          BY <3>5, <4>1, <4>2
      <3>7. CASE Partial(f[j], c, j) /\ v[j].top = f[j].top /\ v[j].next = 1 + Ones(c, j)
        <4>1. /\ Partial(f[k], c, k)
              /\ f[k].top = IF Bit(c, j) = 0 THEN Hash(f[j].top, f[j].top)
                            ELSE Hash(RefDigest[j + 1][c \div two[j]], f[j].top)
          BY <3>3, <3>4, <3>7, CollapsePartial
        <4>2. /\ v[k].top = IF Bit(c, j) = 0 THEN Hash(f[j].top, f[j].top)
                            ELSE Hash(RefDigest[j + 1][c \div two[j]], f[j].top)
              /\ v[k].next = 1 + Ones(c, k)
          BY <2>4, <3>3, <3>4, <3>7, VerifyPartial
        <4> QED
          BY <4>1, <4>2
      <3>8. Same(k)
        BY <3>3, <3>6, <3>7
      <3> QED
        BY <3>1, <3>8
    <2>8. v[depth].top = f[depth].top
      <3>1. Same(depth)
        BY <1>2, <2>7
      <3>2. ~Whole(f[depth], c, depth)
        BY <1>9 DEF Whole, Partial
      <3> QED
        BY <3>1, <3>2
    <2>9. get_root(t) = f[depth].top
      BY <1>1, <1>6, <2>2 DEF get_root
    <2>10. inc_merkle_verify(t)
      BY <2>5, <2>8, <2>9
    <2> QED
      BY <2>4, <2>10 DEF t
  <1>10. Climbs(depth)
    BY <1>2, <1>5
  <1> QED
    BY <1>8, <1>9, <1>10

-----------------------------------------------------------------------------
(* The multiples of a power end in zeros, and the numbers before them in   *)
(* ones.                                                                   *)
LEMMA PowerDivides ==
    ASSUME NEW k \in Nat, NEW l \in Nat, k <= l
    PROVE  \E e \in Positive : two[l] = e * two[k]
  <1> DEFINE Bad == {n \in Nat : n >= k /\ ~\E e \in Positive : two[n] = e * two[k]}
  <1> SUFFICES ASSUME Bad # {} PROVE FALSE
    OBVIOUS
  <1>1. PICK n \in Bad : \A j \in Bad : n <= j
    <2>1. Bad \subseteq Nat
      OBVIOUS
    <2> HIDE DEF Bad
    <2> QED
      BY <2>1, LeastNumber
  <1>2. two[k] \in Nat
    BY TwoFacts
  <1>3. CASE n = k
    <2>1. two[n] = 1 * two[k] /\ 1 \in Positive
      BY <1>2, <1>3 DEF Positive
    <2> QED
      BY <1>1, <2>1
  <1>4. CASE n # k
    <2> DEFINE m == n - 1
    <2>1. m \in Nat /\ m >= k /\ m \notin Bad /\ n = m + 1
      BY <1>1, <1>4
    <2>2. PICK e \in Positive : two[m] = e * two[k]
      BY <2>1
    <2> HIDE DEF m
    <2>3. two[n] = 2 * two[m]
      BY <2>1, TwoFacts
    <2>4. 2 * (e * two[k]) = (2 * e) * two[k] /\ 2 * e \in Positive
      BY <1>2 DEF Positive
    <2> QED
      BY <1>1, <2>2, <2>3, <2>4
  <1> QED
    BY <1>3, <1>4

LEMMA MultipleWhole ==
    ASSUME NEW i \in Positive, NEW l \in Nat, NEW k \in 0..l
    PROVE  LET c == i * two[l]
           IN  /\ c \in Positive
               /\ (c \div two[k]) * two[k] = c
               /\ k < l => Bit(c, k) = 0 /\ Bit(c - 1, k) = 1
  <1> DEFINE c == i * two[l]
  <1>1. two[l] \in Positive /\ two[k] \in Positive /\ k \in Nat /\ k <= l
    BY TwoFacts DEF Positive
  <1>2. c \in Positive
    BY <1>1 DEF Positive
  <1>3. ASSUME NEW j \in Nat, j <= l
        PROVE  \E x \in Positive : c = x * two[j] /\ c \div two[j] = x
    <2>1. PICK e \in Positive : two[l] = e * two[j]
      BY <1>3, PowerDivides
    <2>2. two[j] \in Positive
      BY TwoFacts DEF Positive
    <2>3. i * e \in Positive /\ i * (e * two[j]) = (i * e) * two[j]
      BY <2>2 DEF Positive
    <2> DEFINE x == i * e
    <2>4. c = x * two[j]
      BY <2>1, <2>3
    <2> HIDE DEF x, c
    <2>5. c \in Nat /\ x \in Nat
      BY <1>2, <2>3 DEF Positive, x
    <2>6. c \div two[j] = x
      BY <2>2, <2>4, <2>5, QuotientUnique DEF Positive
    <2> QED
      BY <2>3, <2>4, <2>6 DEF x
  <1> HIDE DEF c
  <1>4. (c \div two[k]) * two[k] = c
    BY <1>1, <1>3
  <1>5. ASSUME k < l PROVE Bit(c, k) = 0
    <2>1. PICK x \in Positive : c = x * two[k + 1] /\ c \div two[k + 1] = x
      BY <1>1, <1>3, <1>5
    <2>2. PICK y \in Positive : c = y * two[k] /\ c \div two[k] = y
      BY <1>1, <1>3
    <2>3. y = 2 * x + Bit(c, k) /\ Bit(c, k) \in {0, 1}
      BY <1>1, <1>2, <2>1, <2>2, BitFacts DEF Positive
    <2>4. two[k + 1] = 2 * two[k] /\ two[k] \in Nat \ {0}
      BY <1>1, TwoFacts
    <2> DEFINE w == two[k]
               z == x * w
    <2>5. x * (2 * w) = 2 * z /\ z \in Nat /\ (2 * x + 1) * w = 2 * z + w
      BY <2>4 DEF Positive
    <2>6. CASE Bit(c, k) = 1
      <3>1. y = 2 * x + 1
        BY <2>3, <2>6
      <3>2. c = 2 * z + w /\ c = 2 * z
        BY <2>1, <2>2, <2>4, <2>5, <3>1
      <3> HIDE DEF z, w
      <3> QED
        BY <2>4, <2>5, <3>2 DEF w
    <2> QED
      BY <2>3, <2>6
  <1>6. Bit(c, k) = 1 - Bit(c - 1, k)
    BY <1>1, <1>2, <1>4, WholeBits
  <1>7. Bit(c - 1, k) \in {0, 1}
    <2> DEFINE n == c - 1
    <2>1. n \in Nat
      BY <1>2 DEF Positive
    <2> HIDE DEF n
    <2>2. Bit(n, k) \in {0, 1}
      BY <1>1, <2>1, BitFacts
    <2> QED
      BY <2>2 DEF n
  <1> QED
    BY <1>2, <1>4, <1>5, <1>6, <1>7 DEF c

LEMMA MultipleOnes ==
    ASSUME NEW i \in Positive, NEW l \in Nat
    PROVE  \A k \in 0..l : Ones(i * two[l], k) = 0 /\ Ones(i * two[l] - 1, k) = k
  <1> DEFINE c == i * two[l]
             Bad == {k \in 0..l : ~(Ones(c, k) = 0 /\ Ones(c - 1, k) = k)}
  <1> SUFFICES ASSUME Bad # {} PROVE FALSE
    OBVIOUS
  <1>1. PICK k \in Bad : \A j \in Bad : k <= j
    <2>1. Bad \subseteq Nat
      OBVIOUS
    <2> HIDE DEF Bad
    <2> QED
      BY <2>1, LeastNumber
  <1>2. c \in Nat /\ c - 1 \in Nat
    <2>1. c \in Positive
      BY MultipleWhole
    <2> HIDE DEF c
    <2> QED
      BY <2>1 DEF Positive
  <1>3. k # 0
    <2> DEFINE n == c - 1
    <2>1. n \in Nat
      BY <1>2
    <2> HIDE DEF n
    <2>2. Ones(n, 0) = 0 /\ Ones(c, 0) = 0
      BY <1>2, <2>1, OnesFacts
    <2> QED
      BY <1>1, <2>2 DEF n
  <1> DEFINE j == k - 1
             n == c - 1
  <1>4. j \in 0..l /\ j \in Nat /\ j < l /\ k = j + 1 /\ j \notin Bad
    BY <1>1, <1>3
  <1>5. Ones(c, j) = 0 /\ Ones(n, j) = j
    BY <1>4
  <1>6. Bit(c, j) = 0 /\ Bit(n, j) = 1
    BY <1>4, MultipleWhole
  <1> HIDE DEF j, n
  <1>7. Ones(c, k) = Ones(c, j) + Bit(c, j) /\ Ones(n, k) = Ones(n, j) + Bit(n, j)
    <2>1. n \in Nat
      BY <1>2 DEF n
    <2> QED
      BY <1>2, <1>4, <2>1, OnesFacts
  <1>8. Ones(c, k) = 0 /\ Ones(n, k) = k
    BY <1>4, <1>5, <1>6, <1>7
  <1> QED
    BY <1>1, <1>8 DEF n

-----------------------------------------------------------------------------
(* The chain: block n holds the tree of the n - 1 blocks before it.        *)
Chain ==
    /\ \E T : sim_chain \in Seq(T)
    /\ Len(sim_chain) \in 1..ChainLength + 1
    /\ \A k \in 1..Len(sim_chain) :
            /\ sim_chain[k].id = Leaf(Base + k)
            /\ Tree(sim_chain[k].merkle, Base + k - 1)
            /\ inc_merkle_verify(sim_chain[k].merkle)

LEMMA KnownBlock ==
    ASSUME Chain, NEW num \in Known
    PROVE  /\ num \in Positive /\ Base < num
           /\ num - Base \in 1..Len(sim_chain)
           /\ block_id(num) = RefDigest[1][num]
           /\ Tree(inc_merkle(num), num - 1) /\ inc_merkle(num).count = num - 1
  <1>1. Base \in Nat /\ First = Base + 1 /\ Len(sim_chain) \in Nat
    BY BaseFacts, OffsetsAssumption DEF Chain, Positive
  <1> DEFINE k == num - Base
  <1>2. k \in 1..Len(sim_chain) /\ num = Base + k /\ num \in Positive /\ Base < num
    BY <1>1 DEF Known, Positive
  <1> HIDE DEF k
  <1>3. sim_chain[k].id = Leaf(num) /\ Tree(sim_chain[k].merkle, num - 1)
    <2>1. sim_chain[k].id = Leaf(Base + k) /\ Tree(sim_chain[k].merkle, Base + k - 1)
      BY <1>2 DEF Chain
    <2>2. Base + k - 1 = num - 1
      BY <1>1, <1>2
    <2> QED
      BY <1>2, <2>1, <2>2
  <1>4. RefDigest[1][num] = Leaf(num)
    BY <1>2, RefLeaf
  <1>5. block_id(num) = sim_chain[k].id /\ inc_merkle(num) = sim_chain[k].merkle
    BY DEF block_id, inc_merkle, k
  <1> QED
    BY <1>2, <1>3, <1>4, <1>5 DEF k, Tree

(* The right node of a pair, hashed from its last leaf.                    *)
LEMMA RightNodeCorrect ==
    ASSUME Chain, NEW i \in Positive, NEW l \in Nat, i * two[l] \in Known
    PROVE  RightNode(i * two[l], l + 1) = RefDigest[l + 1][i]
  <1> DEFINE c == i * two[l]
             m == inc_merkle(c)
             digests == [k \in 1..l |-> Digest(m.active[k], "left")]
             node(k) == RefDigest[k + 1][c \div two[k]]
  <1>1. /\ c \in Positive /\ Base < c /\ block_id(c) = RefDigest[1][c] /\ Tree(m, c - 1)
    BY KnownBlock
  <1>2. /\ \A k \in 0..l : (c \div two[k]) * two[k] = c
        /\ \A k \in 0..l - 1 : Bit(c, k) = 0 /\ Bit(c - 1, k) = 1 /\ Ones(c - 1, k) = k
    <2>1. \A k \in 0..l : k \in 0..l - 1 => k < l
      OBVIOUS
    <2>2. \A k \in 0..l - 1 : k \in 0..l
      OBVIOUS
    <2> QED
      BY <2>1, <2>2, MultipleWhole, MultipleOnes
  <1>3. c \div two[l] = i
    <2>1. two[l] \in Nat \ {0} /\ c \in Nat /\ i \in Nat
      BY <1>1, TwoFacts DEF Positive
    <2>2. i * two[l] <= c /\ c < i * two[l] + two[l]
      <3> DEFINE x == i * two[l]
      <3>1. c = x /\ x \in Nat
        BY <1>1 DEF Positive
      <3> HIDE DEF c, x
      <3>2. x <= c /\ c < x + two[l]
        BY <2>1, <3>1
      <3> QED
        BY <3>2 DEF x
    <2> HIDE DEF c
    <2> QED
      BY <2>1, <2>2, QuotientUnique
  <1>4. RightNode(c, l + 1) = HashUp(block_id(c), digests)
    <2>1. (l + 1) - 1 = l
      OBVIOUS
    <2> QED
      BY <2>1 DEF RightNode
  <1>5. Len(digests) = l
    OBVIOUS
  <1>6. \A k \in 1..l : digests[k].side = "left" /\ digests[k].value = m.active[k]
    BY DEF Digest
  <1> HIDE DEF c, m, digests
  <1>7. PICK f : /\ f[0] = block_id(c)
                 /\ \A k \in 1..l : f[k] = Hash(m.active[k], f[k - 1])
                 /\ HashUp(block_id(c), digests) = f[l]
    <2> DEFINE value == block_id(c)
    <2> HIDE DEF value
    <2>1. Len(digests) \in Nat
      BY <1>5
    <2>2. PICK f : /\ f[0] = value
                   /\ \A k \in 1..Len(digests) :
                         f[k] = IF digests[k].side = "left" THEN Hash(digests[k].value, f[k - 1])
                                ELSE Hash(f[k - 1], digests[k].value)
                   /\ HashUp(value, digests) = f[Len(digests)]
      BY <2>1, HashLayers
    <2>3. \A k \in 1..l : f[k] = Hash(m.active[k], f[k - 1])
      BY <1>5, <1>6, <2>2
    <2> QED
      BY <1>5, <2>2, <2>3 DEF value
  <1>8. f[0] = node(0)
    <2>1. two[0] = 1 /\ c \div 1 = c
      BY <1>1, TwoDef DEF Positive
    <2> QED
      BY <1>1, <1>7, <2>1
  <1> DEFINE Bad == {k \in 0..l : f[k] # node(k)}
  <1>9. Bad = {}
    <2> SUFFICES ASSUME Bad # {} PROVE FALSE
      OBVIOUS
    <2>1. PICK k \in Bad : \A j \in Bad : k <= j
      <3>1. Bad \subseteq Nat
        OBVIOUS
      <3> HIDE DEF Bad
      <3> QED
        BY <3>1, LeastNumber
    <2>2. k # 0
      BY <1>8, <2>1
    <2> DEFINE j == k - 1
    <2>3. j \in 0..l - 1 /\ j \in 0..l /\ j \in Nat /\ k = j + 1 /\ k \in 0..l /\ f[j] = node(j)
      BY <2>1, <2>2
    <2> HIDE DEF j
    <2> DEFINE q == c \div two[j]
               h == c \div two[k]
    <2>4. m.active[1 + j] = RefDigest[j + 1][q - 1]
      <3>1. Bit(c - 1, j) = 1 /\ Ones(c - 1, j) = j
        BY <1>2, <2>3
      <3>2. (c - 1) \div two[j] = q - 1
        BY <1>1, <1>2, <2>3, WholeBits
      <3> QED
        BY <1>1, <2>3, <3>1, <3>2 DEF Tree
    <2>5. q = 2 * h /\ h \in Positive /\ h * two[j + 1] = c
      <3>1. h \in Positive /\ h * two[k] = c
        BY <1>1, <1>2, <2>3, WholeBits
      <3>2. q = 2 * h + Bit(c, j) /\ Bit(c, j) = 0
        BY <1>1, <1>2, <2>3, BitFacts DEF Positive
      <3> QED
        BY <2>3, <3>1, <3>2 DEF Positive
    <2>6. RefDigest[j + 2][h] = Hash(RefDigest[j + 1][2 * h - 1], RefDigest[j + 1][2 * h])
      <3> HIDE DEF h
      <3> QED
        BY <1>1, <2>3, <2>5, RefNode
    <2>7. f[k] = Hash(m.active[k], f[j])
      <3>1. k \in 1..l /\ k - 1 = j
        BY <2>3
      <3> QED
        BY <1>7, <3>1
    <2>8. k = 1 + j /\ k + 1 = j + 2
      BY <2>3
    <2>9. f[k] = node(k)
      BY <2>3, <2>4, <2>5, <2>6, <2>7, <2>8
    <2> QED
      BY <2>1, <2>9
  <1>10. f[l] = RefDigest[l + 1][i]
    BY <1>3, <1>9
  <1> QED
    BY <1>4, <1>7, <1>10 DEF c

(* The left node of a pair, in the tree of a block under the right one.    *)
LEMMA LeftNodeCorrect ==
    ASSUME Chain, NEW num \in Known, NEW l \in Nat \ {0}, NEW i \in Positive,
           i % 2 = 1, Above(num, l + 1) = i + 1
    PROVE  LET p == [layer |-> l + 1, index |-> i]
           IN  /\ NodeValue(inc_merkle(num), p) = RefDigest[l + 1][i]
               /\ BlocksRead(inc_merkle(num), p) \subseteq {num}
  <1> DEFINE p == [layer |-> l + 1, index |-> i]
             m == inc_merkle(num)
             n == num - 1
             w == two[l]
             node == get_inc_merkle_layer_left_node(m, l + 1)
  <1>1. num \in Positive /\ Base < num /\ Tree(m, n) /\ m.count = n
    BY KnownBlock
  <1>2. n \in Nat \ {0} /\ num \in Nat \ {0} /\ n + 1 = num
    BY <1>1, BaseFacts DEF Positive
  <1>3. w \in Nat \ {0}
    BY TwoFacts
  <1>4. i * w <= n /\ n < i * w + w
    <2>1. num <= (i + 1) * w /\ (i + 1) * w < num + w
      BY <1>2, AboveFacts
    <2>2. (i + 1) * w = i * w + w /\ i * w \in Nat
      BY <1>3 DEF Positive
    <2> DEFINE x == i * w
    <2> HIDE DEF x, w, n
    <2>3. num <= x + w /\ x + w < num + w /\ x \in Nat
      BY <2>1, <2>2 DEF x
    <2>4. x <= n /\ n < x + w
      BY <1>2, <1>3, <2>3
    <2> QED
      BY <2>4 DEF x
  <1>5. n \div w = i
    <2> HIDE DEF n, w
    <2> QED
      BY <1>2, <1>3, <1>4, QuotientUnique DEF Positive
  <1>6. Bit(n, l) = 1
    BY <1>5 DEF Bit
  <1>7. m.active[1 + Ones(n, l)] = RefDigest[l + 1][i]
    <2> HIDE DEF n, m
    <2> QED
      BY <1>1, <1>5, <1>6 DEF Tree
  <1>8. p.index = i /\ p.layer = l + 1 /\ (l + 1) - 1 = l
    OBVIOUS
  <1>9. CASE l + 1 < max_depth(n)
    <2>1. node = m.active[1 + Ones(n, l)]
      <3>1. ~(m.count = 0 \/ l + 1 >= max_depth(m.count)) /\ l + 1 # 1
        <4>1. max_depth(n) \in Nat
          BY <1>2, DepthFacts
        <4> HIDE DEF n, m
        <4> QED
          BY <1>1, <1>2, <1>9, <4>1
      <3> HIDE DEF n, m
      <3> QED
        BY <1>1, <1>6, <1>8, <3>1 DEF get_inc_merkle_layer_left_node, ActiveAt
    <2>2. node # Nothing
      <3>1. l + 1 \in Positive
        BY DEF Positive
      <3> HIDE DEF node
      <3> QED
        BY <1>7, <2>1, <3>1, RefSomething
    <2>3. InReference(m, p)
      BY <1>8, <2>2 DEF InReference
    <2>4. NodeValue(m, p) = node
      <3> HIDE DEF m, p
      <3> QED
        BY <1>8, <2>3 DEF NodeValue
    <2>5. BlocksRead(m, p) = {}
      <3> HIDE DEF m, p
      <3> QED
        BY <1>8, <2>3 DEF BlocksRead
    <2> QED
      BY <1>7, <2>1, <2>4, <2>5
  <1>10. CASE ~(l + 1 < max_depth(n))
    <2> DEFINE d == max_depth(n)
    <2>1. d \in Nat \ {0} /\ n <= two[d - 1]
      BY <1>2, DepthFacts
    <2>2. l < d
      <3> SUFFICES ASSUME l >= d PROVE FALSE
        BY <2>1
      <3>1. Bit(n, l) = 0
        <4> HIDE DEF n
        <4> QED
          BY <1>2, DepthBits
      <3> QED
        BY <1>6, <3>1
    <2>3. d = l + 1
      BY <1>10, <2>1, <2>2
    <2>4. n <= w
      <3>1. d - 1 = l
        BY <2>3
      <3> QED
        BY <2>1, <3>1
    <2>5. i = 1 /\ n = w
      <3> HIDE DEF n, w
      <3>1. i >= 2 => i * w >= 2 * w
        BY <1>3 DEF Positive
      <3>2. 2 * w > w
        BY <1>3
      <3>3. ~(i >= 2)
        <4> DEFINE x == i * w
        <4>1. x \in Nat
          BY <1>3 DEF Positive
        <4> HIDE DEF x
        <4> QED
          BY <1>2, <1>3, <1>4, <2>4, <3>1, <4>1 DEF x
      <3>4. i = 1
        BY <3>3 DEF Positive
      <3>5. i * w = w
        BY <1>3, <3>4
      <3> QED
        BY <1>2, <1>3, <1>4, <2>4, <3>4, <3>5
    <2>6. Ones(n, l) = 0
      <3>1. n = 1 * two[l] /\ 1 \in Positive /\ l \in 0..l
        BY <1>3, <2>5 DEF Positive
      <3> QED
        BY <3>1, MultipleOnes
    <2>7. node = Nothing
      <3>1. l + 1 >= max_depth(m.count)
        BY <1>1, <2>1, <2>3
      <3> QED
        BY <3>1 DEF get_inc_merkle_layer_left_node
    <2>8. ~InReference(m, p)
      BY <1>8, <2>7 DEF InReference
    <2>9. BlockRead(p) = num
      BY <1>2, <1>8, <2>5 DEF BlockRead
    <2>10. NodeValue(m, p) = Head(m.active)
      <3> HIDE DEF p
      <3>1. p.index % 2 # 0
        BY <1>8
      <3>2. NodeValue(m, p) = Head(inc_merkle(BlockRead(p)).active)
        BY <2>8, <3>1 DEF NodeValue
      <3> QED
        BY <2>9, <3>2
    <2>11. BlocksRead(m, p) = {num}
      <3> HIDE DEF p, m
      <3> QED
        BY <2>8, <2>9 DEF BlocksRead
    <2>12. Head(m.active) = m.active[1]
      OBVIOUS
    <2> QED
      BY <1>7, <2>6, <2>10, <2>11, <2>12
  <1> QED
    BY <1>9, <1>10

-----------------------------------------------------------------------------
(* The pairs of nodes on the way up from a block.                          *)
LEMMA SiblingFacts ==
    ASSUME NEW num \in Positive, NEW l \in Nat
    PROVE  LET a == Above(num, l + 1)
               s == Beside(a)
               h == Above(num, l + 2)
           IN  /\ a \in Positive /\ s \in Positive /\ h \in Positive
               /\ num <= h * two[l + 1]
               /\ \/ a % 2 = 1 /\ s % 2 = 0 /\ a = 2 * h - 1 /\ s = 2 * h
                  \/ a % 2 = 0 /\ s % 2 = 1 /\ a = 2 * h /\ s = 2 * h - 1
  <1> DEFINE a == Above(num, l + 1)
             s == Beside(a)
             h == Above(num, l + 2)
  <1>1. num \in Nat \ {0} /\ l + 1 \in Nat /\ (l + 1) + 1 = l + 2
    BY DEF Positive
  <1>2. a \in Nat \ {0}
    BY <1>1, AboveFacts
  <1>3. h \in Nat \ {0} /\ num <= h * two[l + 1]
    <2>1. Above(num, (l + 1) + 1) \in Nat \ {0} /\ num <= Above(num, (l + 1) + 1) * two[l + 1]
      BY <1>1, AboveFacts
    <2> QED
      BY <1>1, <2>1
  <1>4. h = (a + 1) \div 2
    BY <1>1, AboveNext
  <1> HIDE DEF a, h
  <1>5. s = IF a % 2 = 1 THEN a + 1 ELSE a - 1
    BY DEF Beside
  <1>6. \/ a % 2 = 1 /\ s % 2 = 0 /\ a = 2 * h - 1 /\ s = 2 * h
        \/ a % 2 = 0 /\ s % 2 = 1 /\ a = 2 * h /\ s = 2 * h - 1
    BY <1>2, <1>4, <1>5
  <1>7. s \in Nat \ {0}
    BY <1>3, <1>6
  <1> QED
    BY <1>2, <1>3, <1>6, <1>7 DEF Positive, a, h

LEMMA AboveInside ==
    ASSUME NEW num \in Positive, NEW j \in Nat, NEW k \in Nat, j <= k, NEW b \in Positive,
           num <= b * two[k]
    PROVE  Above(num, j + 1) * two[j] <= b * two[k]
  <1> DEFINE w == two[j]
             a == Above(num, j + 1)
  <1>1. w \in Nat \ {0} /\ num \in Nat \ {0}
    BY TwoFacts DEF Positive
  <1>2. a \in Nat \ {0} /\ a * w < num + w
    BY <1>1, AboveFacts
  <1>3. PICK e \in Positive : two[k] = e * w
    BY PowerDivides
  <1> DEFINE x == b * e
  <1>4. x \in Nat /\ b * (e * w) = x * w
    BY <1>1, <1>3 DEF Positive
  <1>5. b * two[k] = x * w
    BY <1>3, <1>4
  <1> HIDE DEF w, a, x
  <1>6. a <= x
    <2> SUFFICES ASSUME a >= x + 1 PROVE FALSE
      BY <1>2, <1>4
    <2>1. a * w >= (x + 1) * w /\ (x + 1) * w = x * w + w
      BY <1>1, <1>2, <1>4
    <2> DEFINE y == a * w
               z == x * w
    <2>2. y \in Nat /\ z \in Nat /\ y < num + w /\ num <= z /\ y >= z + w
      BY <1>1, <1>2, <1>4, <1>5, <2>1
    <2> HIDE DEF y, z
    <2> QED
      BY <1>1, <2>2
  <1>7. a * w <= x * w
    BY <1>1, <1>2, <1>4, <1>6
  <1> QED
    BY <1>5, <1>7 DEF a, w

(* The root of a full subtree over a block in the tree of block a.         *)
RootOver(r, num, a) ==
    /\ r.layer \in Positive /\ r.index \in Positive
    /\ num <= r.index * two[r.layer - 1]
    /\ r.index * two[r.layer - 1] < a
    /\ Above(num, r.layer) = r.index
    /\ r.value = RefDigest[r.layer][r.index]

LEMMA RootFound ==
    ASSUME Chain, NEW num \in Known, NEW a \in Known, num < a
    PROVE  RootOver(FullRoot(num, inc_merkle(a)), num, a)
  <1> DEFINE m == inc_merkle(a)
             n == a - 1
             Covers(k) == num \in LastFull(m, k)
             Chosen(k) == Covers(k) /\ \A j \in 1..k - 1 : ~Covers(j)
             layer == CHOOSE k \in 1..max_depth(m.count) : Chosen(k)
  <1>1. num \in Nat \ {0} /\ n \in Nat \ {0} /\ num <= n /\ n < a /\ a \in Nat
    BY KnownBlock DEF Positive
  <1>2. Tree(m, n) /\ m.count = n
    BY KnownBlock
  <1> DEFINE d == max_depth(n)
             end(k) == (n \div two[k]) * two[k]
  <1>3. d \in Nat \ {0}
    BY <1>1, DepthFacts
  <1> HIDE DEF n, d, m
  <1>4. \A k \in Nat : end(k) \in Nat /\ two[k] \in Nat \ {0} /\ n \div two[k] \in Nat
    <2> TAKE k \in Nat
    <2>1. two[k] \in Nat \ {0} /\ n \div two[k] \in Nat
      BY <1>1, TwoFacts, BitFacts
    <2> QED
      BY <2>1
  <1>5. \A k \in Nat : Covers(k + 1) <=> Bit(n, k) = 1 /\ end(k) - two[k] + 1 <= num /\ num <= end(k)
    <2> TAKE k \in Nat
    <2>1. (k + 1) - 1 = k
      OBVIOUS
    <2>2. LastFull(m, k + 1) = IF Bit(n, k) = 1 THEN end(k) - two[k] + 1..end(k) ELSE {}
      BY <1>2, <2>1 DEF LastFull
    <2>3. num \in Int /\ end(k) \in Int /\ two[k] \in Int
      BY <1>1, <1>4
    <2> HIDE DEF end
    <2> QED
      BY <2>2, <2>3
  <1>6. \E k \in 1..d : Covers(k)
    <2> DEFINE Past == {k \in Nat : end(k) < num}
    <2>1. d \in Past
      <3>1. n \div two[d] = 0
        BY <1>1, <1>3, DepthBits DEF d
      <3>2. end(d) = 0
        BY <1>3, <1>4, <3>1
      <3> QED
        BY <1>1, <1>3, <3>2
    <2>2. PICK k \in Past : \A j \in Past : k <= j
      <3>1. Past \subseteq Nat
        OBVIOUS
      <3> HIDE DEF Past
      <3> QED
        BY <2>1, <3>1, LeastNumber
    <2>3. k # 0
      <3>1. two[0] = 1
        BY TwoDef
      <3>2. end(0) = n
        BY <1>1, <3>1
      <3> QED
        BY <1>1, <2>2, <3>2
    <2> DEFINE j == k - 1
    <2>4. j \in Nat /\ k = j + 1 /\ j \notin Past /\ k \in 1..d
      BY <1>3, <2>1, <2>2, <2>3
    <2>5. end(k) < num
      BY <2>2
    <2> HIDE DEF j
    <2> DEFINE w == two[j]
               q == n \div two[j]
               h == n \div two[k]
    <2>6. q = 2 * h + Bit(n, j) /\ Bit(n, j) \in {0, 1} /\ two[k] = 2 * w
      BY <1>1, <2>4, BitFacts, TwoFacts
    <2>7. w \in Nat \ {0} /\ h \in Nat /\ q \in Nat
      BY <1>4, <2>4
    <2>8. num <= end(j)
      BY <1>1, <1>4, <2>4
    <2>9. end(j) = q * w /\ end(k) = h * (2 * w)
      BY <2>6
    <2> HIDE DEF w, q, h, end
    <2> DEFINE x == h * (2 * w)
    <2>10. x \in Nat /\ (2 * h) * w = x /\ (2 * h + 1) * w = x + w
      BY <2>7
    <2>11. CASE Bit(n, j) = 0
      <3>1. end(j) = end(k)
        BY <2>6, <2>7, <2>9, <2>10, <2>11
      <3> HIDE DEF x
      <3> QED
        BY <1>1, <2>5, <2>8, <2>9, <2>10, <3>1 DEF x
    <2>12. CASE Bit(n, j) = 1
      <3>1. end(j) = x + w /\ end(k) = x
        BY <2>6, <2>9, <2>10, <2>12
      <3> HIDE DEF x
      <3>2. end(j) - w + 1 <= num
        BY <1>1, <2>5, <2>7, <2>10, <3>1
      <3> HIDE DEF Covers
      <3>3. Covers(j + 1)
        BY <1>5, <2>4, <2>8, <2>12, <3>2 DEF w
      <3> QED
        BY <2>4, <3>3
    <2> QED
      BY <2>6, <2>11, <2>12
  <1>7. \E k \in 1..d : Chosen(k)
    <2> DEFINE Some == {k \in 1..d : Covers(k)}
    <2> HIDE DEF Covers
    <2>1. Some # {}
      BY <1>6
    <2>2. PICK k \in Some : \A j \in Some : k <= j
      <3>1. Some \subseteq Nat
        OBVIOUS
      <3> HIDE DEF Some
      <3> QED
        BY <2>1, <3>1, LeastNumber
    <2>3. \A j \in 1..k - 1 : j \in 1..d /\ ~(k <= j)
      BY <1>3
    <2>4. Chosen(k)
      BY <2>2, <2>3
    <2> QED
      BY <2>4
  <1>8. layer \in 1..d /\ Covers(layer)
    <2>1. \E k \in 1..max_depth(m.count) : Chosen(k)
      BY <1>2, <1>7 DEF d
    <2> HIDE DEF Chosen
    <2>2. layer \in 1..max_depth(m.count) /\ Chosen(layer)
      BY <2>1
    <2> HIDE DEF layer
    <2> QED
      BY <1>2, <2>2 DEF d, Chosen
  <1>9. FullRoot(num, m) = [layer |-> layer, index |-> m.count \div two[layer - 1],
                            value |-> ActiveAt(m, layer)]
    BY DEF FullRoot
  <1> DEFINE j == layer - 1
             index == n \div two[j]
  <1> HIDE DEF layer
  <1>10. j \in Nat /\ layer = j + 1
    BY <1>3, <1>8
  <1> HIDE DEF j
  <1>11. layer - 1 = j
    BY <1>10
  <1>12. Bit(n, j) = 1 /\ end(j) - two[j] + 1 <= num /\ num <= end(j)
    <2> HIDE DEF Covers, end
    <2> QED
      BY <1>5, <1>8, <1>10
  <1>13. index \in Positive
    <2>1. index = 2 * (n \div two[j + 1]) + Bit(n, j) /\ n \div two[j + 1] \in Nat
      <3>1. j + 1 \in Nat
        BY <1>10
      <3> QED
        BY <1>1, <1>4, <1>10, <3>1, BitFacts
    <2> HIDE DEF index
    <2> QED
      BY <1>12, <2>1 DEF Positive
  <1>14. end(j) = index * two[j]
    OBVIOUS
  <1>15. index * two[j] < a /\ num <= index * two[j]
    <2>1. index * two[j] <= n
      BY <1>1, <1>10, BitFacts
    <2> HIDE DEF index
    <2> DEFINE x == index * two[j]
    <2>2. x \in Nat
      BY <1>4, <1>10, <1>13 DEF Positive
    <2>3. x <= n /\ num <= x
      <3> HIDE DEF end
      <3> QED
        BY <1>12, <1>14, <2>1
    <2> HIDE DEF x
    <2>4. x < a
      BY <1>1, <2>2, <2>3
    <2> QED
      BY <2>3, <2>4 DEF x
  <1>16. Above(num, j + 1) = index
    <2> HIDE DEF index
    <2> DEFINE x == index * two[j]
    <2>1. x \in Nat /\ two[j] \in Nat \ {0}
      BY <1>4, <1>10, <1>13 DEF Positive
    <2>2. end(j) = x
      BY <1>14
    <2> HIDE DEF x, end
    <2>3. num <= x /\ x < num + two[j]
      BY <1>1, <1>12, <2>1, <2>2
    <2>4. num <= index * two[j] /\ index * two[j] < num + two[j]
      BY <2>3 DEF x
    <2> QED
      BY <1>1, <1>10, <1>13, <2>4, AboveUnique DEF Positive
  <1>17. ActiveAt(m, layer) = RefDigest[layer][index]
    <2>1. m.active[1 + Ones(n, j)] = RefDigest[j + 1][n \div two[j]]
      BY <1>2, <1>10, <1>12 DEF Tree
    <2> QED
      BY <1>2, <1>10, <1>11, <2>1 DEF ActiveAt
  <1> DEFINE r == FullRoot(num, m)
  <1>18. r.layer = layer /\ r.index = index /\ r.value = RefDigest[layer][index]
    BY <1>2, <1>9, <1>11, <1>17
  <1> HIDE DEF r, index
  <1>19. RootOver(r, num, a)
    <2>1. layer \in Positive
      BY <1>10 DEF Positive
    <2> QED
      BY <1>10, <1>11, <1>13, <1>15, <1>16, <1>18, <2>1 DEF RootOver
  <1> QED
    BY <1>19 DEF r, m

(* What is read on the way to a root is in the chain.                      *)
LEMMA BelowRoot ==
    ASSUME Chain, NEW num \in Known, NEW a \in Known, NEW r, RootOver(r, num, a),
           NEW l \in Nat, l + 2 <= r.layer
    PROVE  Above(num, l + 2) * two[l + 1] \in Known
  <1> DEFINE k == r.layer - 1
             x == Above(num, l + 2) * two[l + 1]
             y == r.index * two[k]
  <1>1. /\ num \in Positive /\ num \in Nat /\ a \in Nat /\ First \in Nat
        /\ Known = First..First + Len(sim_chain) - 1 /\ Len(sim_chain) \in Nat
    <2>1. num \in Positive /\ a \in Positive
      BY KnownBlock
    <2>2. First \in Nat
      BY BaseFacts DEF Positive
    <2>3. Len(sim_chain) \in Nat
      BY DEF Chain
    <2> QED
      BY <2>1, <2>2, <2>3 DEF Known, Positive
  <1>2. k \in Nat /\ l + 1 \in Nat /\ l + 1 <= k /\ (l + 1) + 1 = l + 2 /\ r.index \in Positive
    BY DEF RootOver, Positive
  <1>3. num <= y /\ y < a
    BY DEF RootOver
  <1> HIDE DEF k
  <1>4. Above(num, (l + 1) + 1) * two[l + 1] <= y
    BY <1>1, <1>2, <1>3, AboveInside
  <1>5. x <= y
    BY <1>2, <1>4
  <1>6. num <= x
    BY <1>1, SiblingFacts
  <1>7. x \in Nat /\ y \in Nat
    <2>1. Above(num, l + 2) \in Nat /\ r.index \in Nat
      BY <1>1, <1>2, SiblingFacts DEF Positive
    <2>2. two[l + 1] \in Nat /\ two[k] \in Nat
      BY <1>2, TwoFacts
    <2> QED
      BY <2>1, <2>2
  <1> HIDE DEF x, y
  <1>8. x \in Known
    <2>1. First <= num /\ a <= First + Len(sim_chain) - 1
      BY <1>1
    <2> QED
      BY <1>1, <1>3, <1>5, <1>6, <1>7, <2>1
  <1> QED
    BY <1>8 DEF x

LEMMA SiblingCorrect ==
    ASSUME Chain, NEW num \in Known, NEW a \in Known, NEW r, RootOver(r, num, a),
           NEW l \in Nat \ {0}, l + 2 <= r.layer
    PROVE  LET p == [layer |-> l + 1, index |-> Beside(Above(num, l + 1))]
           IN  /\ NodeValue(inc_merkle(num), p) = RefDigest[l + 1][Beside(Above(num, l + 1))]
               /\ BlocksRead(inc_merkle(num), p) \subseteq Known
  <1> DEFINE b == Above(num, l + 1)
             s == Beside(b)
             h == Above(num, l + 2)
             p == [layer |-> l + 1, index |-> s]
             m == inc_merkle(num)
  <1>1. num \in Positive
    BY KnownBlock
  <1>2. /\ b \in Positive /\ s \in Positive /\ h \in Positive
        /\ \/ b % 2 = 1 /\ s % 2 = 0 /\ b = 2 * h - 1 /\ s = 2 * h
           \/ b % 2 = 0 /\ s % 2 = 1 /\ b = 2 * h /\ s = 2 * h - 1
    BY <1>1, SiblingFacts
  <1>3. p.layer = l + 1 /\ p.index = s /\ (l + 1) - 1 = l
    OBVIOUS
  <1>4. h * two[l + 1] \in Known
    BY BelowRoot
  <1>5. CASE s % 2 = 1
    <2>1. b = s + 1
      BY <1>2, <1>5 DEF Positive
    <2> HIDE DEF s
    <2> QED
      BY <1>2, <1>5, <2>1, LeftNodeCorrect DEF s
  <1>6. CASE s % 2 = 0
    <2>1. s * two[l] = h * two[l + 1]
      <3>1. two[l + 1] = 2 * two[l] /\ two[l] \in Nat
        BY TwoFacts
      <3>2. s = 2 * h
        BY <1>2, <1>6
      <3> HIDE DEF s, h
      <3>3. (2 * h) * two[l] = h * (2 * two[l])
        BY <1>2, <3>1 DEF Positive
      <3> QED
        BY <3>1, <3>2, <3>3
    <2>2. BlockRead(p) = s * two[l]
      <3>1. BlockRead(p) = s * two[l] + 0
        <4> HIDE DEF p, s
        <4> QED
          BY <1>3, <1>6 DEF BlockRead
      <3>2. s \in Nat /\ two[l] \in Nat
        BY <1>2, TwoFacts DEF Positive
      <3>3. s * two[l] \in Nat
        BY <3>2
      <3> HIDE DEF p, s
      <3> QED
        BY <3>1, <3>3
    <2> HIDE DEF p, s, h, m
    <2>3. BlocksRead(m, p) = {BlockRead(p)}
      BY <1>3, <1>6 DEF BlocksRead
    <2>4. NodeValue(m, p) = RightNode(BlockRead(p), l + 1)
      BY <1>3, <1>6 DEF NodeValue
    <2>5. RightNode(s * two[l], l + 1) = RefDigest[l + 1][s]
      BY <1>2, <1>4, <2>1, RightNodeCorrect
    <2>6. NodeValue(m, p) = RefDigest[l + 1][s] /\ BlocksRead(m, p) \subseteq Known
      BY <1>4, <2>1, <2>2, <2>3, <2>4, <2>5
    <2> QED
      BY <2>6 DEF p, s, m
  <1> QED
    BY <1>2, <1>5, <1>6

LEMMA PairKnown ==
    ASSUME Chain, NEW num \in Known, NEW a \in Known, NEW r, RootOver(r, num, a), r.layer >= 2
    PROVE  /\ Pair(num)[1] \in Known /\ Pair(num)[2] \in Known
           /\ Pair(num)[1] = 2 * Above(num, 2) - 1 /\ Pair(num)[2] = 2 * Above(num, 2)
           /\ Above(num, 2) \in Positive /\ num <= Above(num, 2) * two[1]
  <1>1. num \in Nat \ {0} /\ First \in Nat /\ First % 2 = 1 /\ First <= num
        /\ Known = First..First + Len(sim_chain) - 1 /\ Len(sim_chain) \in Nat
    <2>1. num \in Nat \ {0} /\ Base < num
      BY KnownBlock DEF Positive
    <2>2. Base \in Nat /\ Base % 2 = 0 /\ First = Base + 1
      BY BaseFacts DEF Positive
    <2>3. First \in Nat /\ First % 2 = 1 /\ First <= num
      BY <2>1, <2>2
    <2>4. Len(sim_chain) \in Nat
      BY DEF Chain
    <2> QED
      BY <2>1, <2>3, <2>4 DEF Known
  <1>2. two[1] = 2 /\ two[0] = 1
    BY TwoDef
  <1> DEFINE h == Above(num, 2)
  <1>3. h * two[1] \in Known /\ h \in Positive /\ num <= h * two[1]
    <2>1. 0 + 2 = 2 /\ 0 + 1 = 1 /\ 0 + 2 <= r.layer /\ 0 \in Nat /\ num \in Positive
      BY <1>1 DEF Positive
    <2>2. Above(num, 0 + 2) * two[0 + 1] \in Known
      BY <2>1, BelowRoot
    <2>3. Above(num, 0 + 2) \in Positive /\ num <= Above(num, 0 + 2) * two[0 + 1]
      BY <2>1, SiblingFacts
    <2> QED
      BY <2>1, <2>2, <2>3
  <1>4. h = (num + 1) \div 2
    <2>1. num + two[2 - 1] - 1 = num + 1 /\ two[2 - 1] = 2
      BY <1>1, <1>2
    <2> QED
      BY <2>1 DEF Above
  <1> HIDE DEF h
  <1>5. 2 * h \in Known /\ h \in Nat
    BY <1>2, <1>3 DEF Positive
  <1>6. CASE num % 2 = 1
    <2>1. Pair(num)[1] = num /\ Pair(num)[2] = num + 1
      BY <1>6 DEF Pair
    <2>2. num = 2 * h - 1
      BY <1>1, <1>4, <1>6
    <2> QED
      BY <1>1, <1>3, <1>5, <2>1, <2>2 DEF h
  <1>7. CASE num % 2 = 0
    <2>1. Pair(num)[1] = num - 1 /\ Pair(num)[2] = num
      BY <1>7 DEF Pair
    <2>2. num = 2 * h
      BY <1>1, <1>4, <1>7
    <2>3. num - 1 \in Known
      BY <1>1, <1>7
    <2> QED
      BY <1>1, <1>3, <1>5, <2>1, <2>2, <2>3 DEF h
  <1> QED
    BY <1>1, <1>6, <1>7

-----------------------------------------------------------------------------
(* A path from block num up to the digest of layer n, which is at n + 1.   *)
PathTo(path, num, n) ==
    /\ path[1].value = RefDigest[1][2 * Above(num, 2) - 1]
    /\ path[2].value = RefDigest[1][2 * Above(num, 2)]
    /\ \A k \in 3..n :
            LET s == Beside(Above(num, k - 1))
            IN  /\ path[k].value = RefDigest[k - 1][s]
                /\ path[k].side = IF s % 2 = 1 THEN "left" ELSE "right"

(* Hashed with the siblings, the pair comes to the root.                   *)
LEMMA PathHashes ==
    ASSUME Chain, NEW num \in Known, NEW n \in Nat \ {0, 1}, NEW T, NEW path \in Seq(T),
           Len(path) = n + 1, PathTo(path, num, n)
    PROVE  HashUp(Hash(path[1].value, path[2].value), SubSeq(path, 3, Len(path) - 1))
                = RefDigest[n][Above(num, n)]
  <1> DEFINE digests == SubSeq(path, 3, Len(path) - 1)
             start == Hash(path[1].value, path[2].value)
             node(k) == RefDigest[k + 2][Above(num, k + 2)]
  <1>1. Len(digests) = n - 2 /\ \A k \in 1..n - 2 : digests[k] = path[k + 2]
    <2>1. Len(path) - 1 = n /\ Len(path) \in Nat
      OBVIOUS
    <2> QED
      BY <2>1
  <1>2. num \in Positive /\ Base < num
    BY KnownBlock
  <1>3. \A l \in Nat : Base < Above(num, l + 2) * two[l + 1] /\ Above(num, l + 2) \in Positive
    <2> TAKE l \in Nat
    <2> DEFINE x == Above(num, l + 2) * two[l + 1]
    <2>1. Above(num, l + 2) \in Positive /\ num <= x
      BY <1>2, SiblingFacts
    <2>2. x \in Nat /\ Base \in Nat
      <3>1. l + 1 \in Nat
        OBVIOUS
      <3>2. two[l + 1] \in Nat /\ Base \in Nat
        BY <3>1, TwoFacts, BaseFacts DEF Positive
      <3> QED
        BY <2>1, <3>2 DEF Positive
    <2> HIDE DEF x
    <2>3. Base < x
      BY <1>2, <2>1, <2>2 DEF Positive
    <2> QED
      BY <2>1, <2>3 DEF x
  <1>4. start = node(0)
    <2> DEFINE h == Above(num, 2)
    <2>1. Base < h * two[0 + 1] /\ h \in Positive
      <3>1. 0 + 2 = 2 /\ 0 \in Nat
        OBVIOUS
      <3> QED
        BY <1>3, <3>1
    <2> HIDE DEF h
    <2>2. RefDigest[0 + 2][h] = Hash(RefDigest[0 + 1][2 * h - 1], RefDigest[0 + 1][2 * h])
      BY <2>1, RefNode
    <2> QED
      BY <2>2 DEF PathTo, h
  <1> HIDE DEF digests, start
  <1>5. PICK f : /\ f[0] = start
                 /\ \A k \in 1..n - 2 :
                        f[k] = IF digests[k].side = "left" THEN Hash(digests[k].value, f[k - 1])
                               ELSE Hash(f[k - 1], digests[k].value)
                 /\ HashUp(start, digests) = f[n - 2]
    <2>1. Len(digests) \in Nat
      BY <1>1
    <2>2. PICK f : /\ f[0] = start
                   /\ \A k \in 1..Len(digests) :
                         f[k] = IF digests[k].side = "left" THEN Hash(digests[k].value, f[k - 1])
                                ELSE Hash(f[k - 1], digests[k].value)
                   /\ HashUp(start, digests) = f[Len(digests)]
      BY ONLY <2>1, HashLayers
    <2> QED
      BY <1>1, <2>2
  <1> DEFINE Bad == {k \in 0..n - 2 : f[k] # node(k)}
  <1>6. Bad = {}
    <2> SUFFICES ASSUME Bad # {} PROVE FALSE
      OBVIOUS
    <2>1. PICK k \in Bad : \A j \in Bad : k <= j
      <3>1. Bad \subseteq Nat
        OBVIOUS
      <3> HIDE DEF Bad
      <3> QED
        BY <3>1, LeastNumber
    <2>2. k # 0
      BY <1>4, <1>5, <2>1
    <2> DEFINE j == k - 1
    <2>3. /\ j \in Nat /\ k = j + 1 /\ k - 1 = j /\ k \in 1..n - 2 /\ k \in 0..n - 2
          /\ f[j] = node(j)
      BY <2>1, <2>2
    <2> HIDE DEF j
    <2> DEFINE b == Above(num, j + 2)
               s == Beside(b)
               h == Above(num, j + 3)
    <2>4. /\ b \in Positive /\ h \in Positive
          /\ \/ b % 2 = 1 /\ s % 2 = 0 /\ b = 2 * h - 1 /\ s = 2 * h
             \/ b % 2 = 0 /\ s % 2 = 1 /\ b = 2 * h /\ s = 2 * h - 1
      <3>1. (j + 1) + 1 = j + 2 /\ (j + 1) + 2 = j + 3 /\ j + 1 \in Nat
        BY <2>3
      <3> QED
        BY <1>2, <3>1, SiblingFacts
    <2>5. RefDigest[j + 3][h] = Hash(RefDigest[j + 2][2 * h - 1], RefDigest[j + 2][2 * h])
      <3> DEFINE l == j + 1
      <3>1. l \in Nat /\ l + 2 = j + 3 /\ l + 1 = j + 2
        BY <2>3
      <3>2. Base < h * two[l + 1]
        BY <1>3, <3>1
      <3> HIDE DEF h, l
      <3>3. RefDigest[l + 2][h] = Hash(RefDigest[l + 1][2 * h - 1], RefDigest[l + 1][2 * h])
        BY <2>4, <3>1, <3>2, RefNode
      <3> QED
        BY <3>1, <3>3
    <2>6. /\ digests[k].value = RefDigest[j + 2][s]
          /\ digests[k].side = IF s % 2 = 1 THEN "left" ELSE "right"
      <3>1. k + 2 \in 3..n /\ (k + 2) - 1 = j + 2
        BY <2>3
      <3>2. digests[k] = path[k + 2]
        BY <1>1, <2>3
      <3> QED
        BY <3>1, <3>2 DEF PathTo
    <2>7. f[k] = IF digests[k].side = "left" THEN Hash(digests[k].value, f[j])
                 ELSE Hash(f[j], digests[k].value)
      BY <1>5, <2>3
    <2>8. f[j] = RefDigest[j + 2][b] /\ node(k) = RefDigest[j + 3][h]
      <3>1. k + 2 = j + 3
        BY <2>3
      <3> QED
        BY <2>3, <3>1
    <2> HIDE DEF s, b, h, node
    <2>9. f[k] = RefDigest[j + 3][h]
      BY <2>4, <2>5, <2>6, <2>7, <2>8
    <2> QED
      BY <2>1, <2>8, <2>9
  <1>7. f[n - 2] = RefDigest[n][Above(num, n)]
    <2>1. n - 2 \in 0..n - 2 /\ (n - 2) + 2 = n
      OBVIOUS
    <2> QED
      BY <1>6, <2>1
  <1> QED
    BY <1>5, <1>7 DEF digests, start

LEMMA PathAccepted ==
    ASSUME Chain, NEW num \in Known, NEW n \in Nat \ {0, 1}, NEW T, NEW path \in Seq(T),
           Len(path) = n + 1, PathTo(path, num, n),
           path[n + 1].value = RefDigest[n][Above(num, n)]
    PROVE  verify_merkle_path(path)
  <1>1. Last(path) = path[n + 1]
    BY DEF Last
  <1>2. path # <<>> /\ Len(path) # 1
    OBVIOUS
  <1>3. HashUp(Hash(path[1].value, path[2].value), SubSeq(path, 3, Len(path) - 1))
                = RefDigest[n][Above(num, n)]
    BY PathHashes
  <1> QED
    BY <1>1, <1>2, <1>3 DEF verify_merkle_path

-----------------------------------------------------------------------------
(* What is known of the other variables.  From the root on they tell how   *)
(* far the path has come.                                                  *)
Pcs == {"fill", "root", "pair", "path", "top", "verify", "verified"}

Ranges ==
    /\ pc \in Pcs
    /\ anchor \in First + FirstAnchor..First + LastAnchor
    /\ from \in First + FirstFrom..anchor - 1
    /\ pc # "fill" => Len(sim_chain) = ChainLength + 1

Sibling(num, layer) == [layer |-> layer, index |-> Beside(Above(num, layer))]

Entries == [value : Digests, side : {"left", "right", "none"}]

Collected ==
    /\ result \in Seq(Entries)
    /\ positions \in Seq([layer : Nat, index : Nat])
    /\ pc \in {"fill", "root", "top", "pair"} => result = <<>>
    /\ pc \notin {"fill", "root"} => RootOver(root, from, anchor)
    /\ \A k \in 1..Len(result) : k \in 3..root.layer \/ result[k].side = "none"
    /\ pc = "top" => root.layer = 1
    /\ pc = "pair" => /\ root.layer >= 2 /\ Len(positions) + 2 = root.layer
                      /\ \A k \in 1..Len(positions) : positions[k] = Sibling(from, k + 1)
    /\ pc = "path" => /\ Len(result) >= 2 /\ Len(positions) + Len(result) = root.layer
                      /\ \A k \in 1..Len(positions) : positions[k] = Sibling(from, Len(result) + k - 1)
                      /\ PathTo(result, from, Len(result))
    /\ pc \in {"verify", "verified"} =>
            /\ Len(result) = IF root.layer = 1 THEN 1 ELSE root.layer + 1
            /\ result[Len(result)].value = root.value
            /\ root.layer # 1 => PathTo(result, from, root.layer)
    /\ pc = "verified" => verdict = TRUE

Inv == Chain /\ Ranges /\ Collected

LEMMA RangesKnown ==
    ASSUME Inv, pc # "fill"
    PROVE  from \in Known /\ anchor \in Known /\ from < anchor
  <1>1. First \in Nat
    BY BaseFacts DEF Positive
  <1> QED
    BY <1>1, OffsetsAssumption DEF Inv, Ranges, Known

LEMMA StartCorrect == Init => Inv
  <1> SUFFICES ASSUME Init PROVE Inv
    OBVIOUS
  <1>1. First \in Nat /\ Base \in Nat /\ First = Base + 1
    BY BaseFacts DEF Positive
  <1> DEFINE m == [count |-> Base, active |-> <<Leaf(0)>>]
             block == [id |-> Leaf(First), merkle |-> m]
  <1>2. sim_chain = <<block>>
    BY DEF Init
  <1>3. Tree(m, Base)
    <2>1. m.count = Base /\ m.active[1] = Leaf(0)
      OBVIOUS
    <2>2. BaseDepth \in Nat /\ Base = 1 * two[BaseDepth] /\ Base \in Nat /\ 1 \in Positive
      BY <1>1, OffsetsAssumption DEF Base, Positive
    <2>3. \A j \in 0..BaseDepth : Ones(Base, j) = 0
      BY <2>2, MultipleOnes
    <2>4. \A j \in 0..BaseDepth : j < BaseDepth => Bit(Base, j) = 0
      BY <2>2, MultipleWhole
    <2>5. Base < two[BaseDepth + 1]
      BY <2>2, TwoFacts DEF Base
    <2>6. \A j \in Nat : j >= BaseDepth + 1 => Bit(Base, j) = 0
      BY <2>2, <2>5, NoBitsAbove
    <2>7. Base \div two[BaseDepth] = 1
      <3>1. two[BaseDepth] \in Nat \ {0} /\ Base = two[BaseDepth]
        BY <2>2, TwoFacts DEF Base
      <3> QED
        BY <3>1
    <2> HIDE DEF m
    <2> SUFFICES ASSUME NEW j \in Nat, Bit(Base, j) = 1
                 PROVE  m.active[1 + Ones(Base, j)] = RefDigest[j + 1][Base \div two[j]]
      BY <2>1 DEF Tree
    <2>8. j = BaseDepth
      BY <2>2, <2>4, <2>6
    <2>9. Ones(Base, j) = 0
      BY <2>2, <2>3, <2>8
    <2> QED
      BY <2>1, <2>7, <2>8, <2>9, RefBase
  <1>4. inc_merkle_verify(m)
    <2>1. m.count \in Nat \ {0} /\ Len(m.active) = 1
      BY <1>1, BaseFacts DEF Positive
    <2> HIDE DEF m
    <2> QED
      BY <2>1, VerifyLayers
  <1> HIDE DEF m
  <1>5. Chain
    <2>1. sim_chain \in Seq({block}) /\ Len(sim_chain) = 1 /\ sim_chain[1] = block
      BY <1>2
    <2>2. block.id = Leaf(Base + 1) /\ block.merkle = m
      BY <1>1
    <2>3. Base + 1 - 1 = Base
      BY <1>1
    <2> HIDE DEF block
    <2>4. ChainLength \in Nat
      BY OffsetsAssumption
    <2> QED
      BY <1>3, <1>4, <2>1, <2>2, <2>3, <2>4 DEF Chain
  <1>6. Ranges
    BY <1>1, OffsetsAssumption DEF Init, Ranges, Pcs
  <1>7. Collected
    BY DEF Init, Collected
  <1> QED
    BY <1>5, <1>6, <1>7 DEF Inv

LEMMA PushBlockCorrect ==
    ASSUME Inv, PushBlock
    PROVE  Inv'
  <1> DEFINE n == Len(sim_chain)
             back == sim_chain[n]
             c == Base + n
             t == append(back.merkle, back.id)
             block == [id |-> Leaf(First + n), merkle |-> t]
  <1>1. n \in Nat \ {0} /\ n <= ChainLength /\ pc = "fill" /\ ChainLength \in Nat
    BY OffsetsAssumption DEF Inv, Chain, PushBlock
  <1>2. First \in Nat /\ Base \in Nat /\ First = Base + 1
    BY BaseFacts DEF Positive
  <1>3. PICK T : sim_chain \in Seq(T)
    BY DEF Inv, Chain
  <1>4. sim_chain' = Append(sim_chain, block)
    <2>1. Last(sim_chain) = back
      BY DEF Last
    <2> QED
      BY <2>1 DEF PushBlock
  <1>5. back.id = Leaf(c) /\ Tree(back.merkle, c - 1) /\ c \in Positive /\ Base < c
    BY <1>1, <1>2 DEF Inv, Chain, Positive
  <1>6. back.id = RefDigest[1][c]
    BY <1>5, RefLeaf
  <1>7. Tree(t, c) /\ inc_merkle_verify(t)
    <2> HIDE DEF back, c
    <2> QED
      BY <1>5, <1>6, AppendCorrect
  <1> HIDE DEF t, back
  <1>8. Chain'
    <2>1. block.id = Leaf(Base + (n + 1)) /\ block.merkle = t
      BY <1>1, <1>2
    <2> HIDE DEF block
    <2>2. sim_chain' \in Seq(T \cup {block}) /\ Len(sim_chain') = n + 1
          /\ sim_chain'[n + 1] = block /\ \A k \in 1..n : sim_chain'[k] = sim_chain[k]
      BY <1>1, <1>3, <1>4
    <2>3. ASSUME NEW k \in 1..Len(sim_chain')
          PROVE  /\ sim_chain'[k].id = Leaf(Base + k)
                 /\ Tree(sim_chain'[k].merkle, Base + k - 1)
                 /\ inc_merkle_verify(sim_chain'[k].merkle)
      <3>1. CASE k = n + 1
        <4>1. Base + k - 1 = c
          BY <1>1, <1>2, <3>1
        <4> QED
          BY <1>7, <2>1, <2>2, <3>1, <4>1
      <3>2. CASE k # n + 1
        <4>1. k \in 1..n
          BY <1>1, <2>2, <3>2
        <4> QED
          BY <2>2, <4>1 DEF Inv, Chain
      <3> QED
        BY <3>1, <3>2
    <2>4. Len(sim_chain') \in 1..ChainLength + 1
      BY <1>1, <2>2
    <2> QED
      BY <2>2, <2>3, <2>4 DEF Chain
  <1>9. Ranges'
    BY <1>1 DEF Inv, Ranges, PushBlock
  <1>10. Collected'
    BY <1>1 DEF Inv, Collected, PushBlock
  <1> QED
    BY <1>8, <1>9, <1>10 DEF Inv

(* The other steps leave the chain as it is.                               *)
LEMMA ChainKept ==
    ASSUME Inv, UNCHANGED sim_chain
    PROVE  Chain'
  BY DEF Inv, Chain

LEMMA StartTestCorrect ==
    ASSUME Inv, StartTest
    PROVE  Inv'
  <1>1. Chain'
    BY ChainKept DEF StartTest
  <1>2. Len(sim_chain) = ChainLength + 1
    BY OffsetsAssumption DEF Inv, Chain, StartTest
  <1>3. Ranges'
    BY <1>2 DEF Inv, Ranges, StartTest, Pcs
  <1>4. Collected'
    BY DEF Inv, Collected, StartTest
  <1> QED
    BY <1>1, <1>3, <1>4 DEF Inv

LEMMA FindRootCorrect ==
    ASSUME Inv, FindRoot
    PROVE  Inv'
  <1>1. pc = "root" /\ from \in Known /\ anchor \in Known /\ from < anchor
    BY RangesKnown DEF FindRoot
  <1>2. Chain /\ Chain'
    BY ChainKept DEF Inv, FindRoot
  <1>3. RootOver(root', from, anchor)
    BY <1>1, <1>2, RootFound DEF FindRoot
  <1> DEFINE n == root'.layer
             p == PathPositions(from, n)
  <1>4. n \in Nat \ {0} /\ Above(from, n) = root'.index /\ root'.index \in Nat
    BY <1>3 DEF RootOver, Positive
  <1>5. from' = from /\ anchor' = anchor /\ sim_chain' = sim_chain /\ result' = result /\ result = <<>>
    BY <1>1 DEF FindRoot, Inv, Collected
  <1>6. RootOver(root', from', anchor')
    BY <1>3, <1>5
  <1>7. CASE n = 1
    <2>1. pc' = "top" /\ positions' = <<>>
      BY <1>7 DEF FindRoot
    <2>2. Ranges'
      BY <1>1, <1>5, <2>1 DEF Inv, Ranges, Pcs
    <2>3. Collected'
      BY <1>5, <1>6, <1>7, <2>1 DEF Collected
    <2> QED
      BY <1>2, <2>2, <2>3 DEF Inv
  <1>8. CASE n # 1
    <2>1. /\ positions' = Front(p)
          /\ pc' = IF Last(p).index = root'.index THEN "pair" ELSE "verify"
      BY <1>8 DEF FindRoot
    <2> DEFINE S == [layer : Nat, index : Nat]
    <2>2. ASSUME NEW k \in 1..n - 1
          PROVE  /\ p[k] = [layer |-> k + 1, index |-> IF k + 1 < n THEN Beside(Above(from, k + 1))
                                                       ELSE Above(from, n)]
                 /\ p[k] \in S
      <3>1. p[k] = [layer |-> k + 1, index |-> IF k + 1 < n THEN Beside(Above(from, k + 1))
                                               ELSE Above(from, n)]
        BY <2>2 DEF PathPositions
      <3>2. k \in Nat /\ k + 1 \in Nat
        BY <1>4
      <3>3. Beside(Above(from, k + 1)) \in Nat
        BY <1>1, <1>2, <3>2, KnownBlock, SiblingFacts DEF Positive
      <3> HIDE DEF p, n
      <3> QED
        BY <1>4, <3>1, <3>2, <3>3
    <2>3. p \in Seq(S) /\ Len(p) = n - 1
      <3>1. p = [k \in 1..n - 1 |-> p[k]]
        BY DEF PathPositions
      <3> HIDE DEF p, S, n
      <3>2. n - 1 \in Nat /\ p \in [1..n - 1 -> S]
        BY <1>4, <2>2, <3>1
      <3> QED
        BY <3>2
    <2>4. Last(p).index = root'.index
      <3>1. Last(p) = p[n - 1]
        <4> HIDE DEF p, n
        <4> QED
          BY <2>3 DEF Last
      <3>2. n - 1 \in 1..n - 1 /\ ~((n - 1) + 1 < n)
        BY <1>4, <1>8
      <3>3. p[n - 1].index = Above(from, n)
        <4> DEFINE k == n - 1
        <4>1. k \in 1..n - 1 /\ ~(k + 1 < n)
          BY <3>2
        <4> HIDE DEF p, n, k
        <4>2. p[k] = [layer |-> k + 1, index |-> Above(from, n)]
          BY <2>2, <4>1
        <4>3. p[k].index = Above(from, n)
          BY <4>2
        <4> QED
          BY <4>3 DEF k
      <3> QED
        BY <1>4, <3>1, <3>3
    <2>5. pc' = "pair"
      BY <2>1, <2>4
    <2>6. /\ positions' \in Seq(S) /\ Len(positions') = n - 2
          /\ \A k \in 1..n - 2 : positions'[k] = p[k]
      <3> HIDE DEF p, S, n
      <3>1. positions' = SubSeq(p, 1, Len(p) - 1)
        BY <2>1 DEF Front
      <3>2. (n - 1) - 1 = n - 2 /\ n - 2 \in Nat /\ n - 1 \in Nat
        BY <1>4, <1>8
      <3>3. positions' = SubSeq(p, 1, n - 2)
        BY <2>3, <3>1, <3>2
      <3> QED
        BY <2>3, <3>2, <3>3
    <2>7. ASSUME NEW k \in 1..n - 2
          PROVE  positions'[k] = [layer |-> k + 1, index |-> Beside(Above(from, k + 1))]
      <3>1. k \in 1..n - 1 /\ k + 1 < n
        BY <1>4
      <3> HIDE DEF p, n
      <3> QED
        BY <2>2, <2>6, <3>1
    <2>8. Ranges'
      BY <1>1, <1>5, <2>5 DEF Inv, Ranges, Pcs
    <2>9. Collected'
      <3>1. n >= 2 /\ Len(positions') + 2 = n
        BY <1>4, <1>8, <2>6
      <3>2. \A k \in 1..Len(positions') : positions'[k] = Sibling(from', k + 1)
        BY <1>5, <2>6, <2>7 DEF Sibling
      <3>3. Len(result') = 0 /\ result' \in Seq(Entries)
        BY <1>5
      <3> QED
        BY <1>5, <1>6, <2>5, <2>6, <3>1, <3>2, <3>3 DEF Collected
    <2> QED
      BY <1>2, <2>8, <2>9 DEF Inv
  <1> QED
    BY <1>7, <1>8

LEMMA AddPairCorrect ==
    ASSUME Inv, AddPair
    PROVE  Inv'
  <1>1. pc = "pair" /\ from \in Known /\ anchor \in Known /\ Chain /\ RootOver(root, from, anchor)
        /\ root.layer >= 2
    BY RangesKnown DEF AddPair, Inv, Collected
  <1>2. Chain'
    BY ChainKept DEF AddPair
  <1> DEFINE h == Above(from, 2)
  <1>3. /\ Pair(from)[1] \in Known /\ Pair(from)[2] \in Known
        /\ Pair(from)[1] = 2 * h - 1 /\ Pair(from)[2] = 2 * h
    BY <1>1, PairKnown
  <1>4. /\ block_id(Pair(from)[1]) = RefDigest[1][2 * h - 1] /\ 2 * h - 1 \in Positive
        /\ block_id(Pair(from)[2]) = RefDigest[1][2 * h] /\ 2 * h \in Positive
    BY <1>1, <1>3, KnownBlock
  <1> HIDE DEF h
  <1>5. /\ result' = [k \in 1..2 |-> Digest(block_id(Pair(from)[k]), "none")]
        /\ pc' = "path"
    <2>1. \A k \in 1..2 : Pair(from)[k] \in Known
      <3>1. \A k \in 1..2 : k = 1 \/ k = 2
        OBVIOUS
      <3> QED
        BY <1>3, <3>1
    <2> QED
      BY <2>1 DEF AddPair
  <1>6. /\ result'[1] = [value |-> RefDigest[1][2 * h - 1], side |-> "none"]
        /\ result'[2] = [value |-> RefDigest[1][2 * h], side |-> "none"]
        /\ Len(result') = 2
    BY <1>4, <1>5 DEF Digest
  <1>7. result' \in Seq(Entries)
    <2>1. RefDigest[1][2 * h - 1] \in Digests /\ RefDigest[1][2 * h] \in Digests
      BY <1>4 DEF Digests, Positive
    <2>2. result'[1] \in Entries /\ result'[2] \in Entries
      BY <1>6, <2>1 DEF Entries
    <2>3. \A k \in 1..2 : k = 1 \/ k = 2
      OBVIOUS
    <2>4. result' \in [1..2 -> Entries]
      BY <1>5, <2>2, <2>3
    <2>5. \A n \in Nat : [1..n -> Entries] \subseteq Seq(Entries)
      OBVIOUS
    <2> QED
      BY <2>4, <2>5
  <1>8. from' = from /\ anchor' = anchor /\ sim_chain' = sim_chain /\ root' = root
        /\ positions' = positions
    BY DEF AddPair
  <1>9. Ranges'
    BY <1>1, <1>5, <1>8 DEF Inv, Ranges, Pcs
  <1>10. PathTo(result', from', Len(result'))
    <2>1. 3..2 = {}
      OBVIOUS
    <2> QED
      BY <1>6, <1>8, <2>1 DEF PathTo, h
  <1>11. Collected'
    <2>1. \A k \in 1..Len(positions') : positions'[k] = Sibling(from', Len(result') + k - 1)
      <3>1. \A k \in 1..Len(positions) : positions[k] = Sibling(from, k + 1)
        BY <1>1 DEF Inv, Collected
      <3>2. ASSUME NEW k \in 1..Len(positions)
            PROVE  positions[k] = Sibling(from, Len(result') + k - 1)
        <4>1. Len(result') + k - 1 = k + 1
          BY <1>6
        <4> QED
          BY <3>1, <4>1
      <3> QED
        BY <1>8, <3>2
    <2>2. \A k \in 1..Len(result') : result'[k].side = "none"
      <3>1. \A k \in 1..2 : k = 1 \/ k = 2
        OBVIOUS
      <3> QED
        BY <1>6, <3>1
    <2>3. positions \in Seq([layer : Nat, index : Nat]) /\ Len(positions) + 2 = root.layer
      BY <1>1 DEF Inv, Collected
    <2> QED
      BY <1>1, <1>5, <1>6, <1>7, <1>8, <1>10, <2>1, <2>2, <2>3 DEF Collected
  <1> QED
    BY <1>2, <1>9, <1>11 DEF Inv

LEMMA AddSiblingCorrect ==
    ASSUME Inv, AddSibling
    PROVE  Inv'
  <1>1. pc = "path" /\ from \in Known /\ anchor \in Known /\ Chain /\ RootOver(root, from, anchor)
    BY RangesKnown DEF AddSibling, Inv, Collected
  <1>2. Chain'
    BY ChainKept DEF AddSibling
  <1> DEFINE n == Len(result)
             S == [layer : Nat, index : Nat]
  <1>3. /\ result \in Seq(Entries) /\ n \in Nat /\ n >= 2
        /\ positions \in Seq(S) /\ positions # <<>> /\ Len(positions) \in Nat \ {0}
        /\ Len(positions) + n = root.layer
        /\ PathTo(result, from, n)
        /\ \A k \in 1..Len(positions) : positions[k] = Sibling(from, n + k - 1)
        /\ \A k \in 1..n : k \in 3..root.layer \/ result[k].side = "none"
    BY <1>1 DEF Inv, Collected, AddSibling
  <1> HIDE DEF S
  <1> DEFINE l == n - 1
             s == Beside(Above(from, l + 1))
             side == IF s % 2 = 1 THEN "left" ELSE "right"
             entry == Digest(RefDigest[l + 1][s], side)
  <1>4. l \in Nat \ {0} /\ l + 1 = n /\ l + 2 <= root.layer
    BY <1>3
  <1> HIDE DEF l
  <1>5. Head(positions) = [layer |-> l + 1, index |-> s]
    <2>1. Head(positions) = positions[1] /\ 1 \in 1..Len(positions)
      BY <1>3
    <2>2. n + 1 - 1 = l + 1
      BY <1>3, <1>4
    <2>3. positions[1] = Sibling(from, n + 1 - 1)
      BY <1>3, <2>1
    <2> QED
      BY <2>1, <2>2, <2>3 DEF Sibling
  <1>6. /\ NodeValue(inc_merkle(from), Head(positions)) = RefDigest[l + 1][s]
        /\ BlocksRead(inc_merkle(from), Head(positions)) \subseteq Known
    BY <1>1, <1>4, <1>5, SiblingCorrect
  <1>7. Head(positions).index = s
    BY <1>5
  <1> HIDE DEF s
  <1>8. /\ result' = Append(result, entry) /\ pc' = "path" /\ positions' = Tail(positions)
        /\ from' = from /\ anchor' = anchor /\ sim_chain' = sim_chain /\ root' = root
        /\ verdict' = verdict
    BY <1>1, <1>6, <1>7 DEF AddSibling
  <1>9. entry \in Entries /\ entry.value = RefDigest[l + 1][s] /\ entry.side = side
    <2>1. s \in Positive /\ l + 1 \in Positive
      <3>1. from \in Positive /\ l \in Nat
        BY <1>1, <1>4, KnownBlock
      <3>2. s \in Positive
        BY <3>1, SiblingFacts DEF s
      <3> QED
        BY <3>1, <3>2 DEF Positive
    <2>2. RefDigest[l + 1][s] \in Digests
      BY <2>1 DEF Digests
    <2> QED
      BY <2>2 DEF Entries, Digest
  <1> HIDE DEF entry
  <1>10. /\ result' \in Seq(Entries) /\ Len(result') = n + 1 /\ result'[n + 1] = entry
         /\ \A k \in 1..n : result'[k] = result[k]
    BY <1>3, <1>8, <1>9
  <1>11. /\ positions' \in Seq(S) /\ Len(positions') = Len(positions) - 1
         /\ \A k \in 1..Len(positions') : positions'[k] = positions[k + 1]
    BY <1>3, <1>8
  <1>12. Ranges'
    BY <1>1, <1>8 DEF Inv, Ranges, Pcs
  <1>13. PathTo(result', from', n + 1)
    <2>1. 1 \in 1..n /\ 2 \in 1..n
      BY <1>3
    <2>2. ASSUME NEW k \in 3..n + 1
          PROVE  LET b == Beside(Above(from, k - 1))
                 IN  /\ result'[k].value = RefDigest[k - 1][b]
                     /\ result'[k].side = IF b % 2 = 1 THEN "left" ELSE "right"
      <3>1. CASE k = n + 1
        <4>1. k - 1 = l + 1
          BY <1>3, <1>4, <3>1
        <4> QED
          BY <1>9, <1>10, <3>1, <4>1 DEF s
      <3>2. CASE k # n + 1
        <4>1. k \in 3..n /\ k \in 1..n
          BY <1>3, <3>2
        <4> QED
          BY <1>3, <1>10, <4>1 DEF PathTo
      <3> QED
        BY <3>1, <3>2
    <2> QED
      BY <1>3, <1>8, <1>10, <2>1, <2>2 DEF PathTo
  <1>14. Collected'
    <2>1. ASSUME NEW k \in 1..Len(positions')
          PROVE  positions'[k] = Sibling(from', Len(result') + k - 1)
      <3>1. k + 1 \in 1..Len(positions) /\ n + (k + 1) - 1 = Len(result') + k - 1
        BY <1>3, <1>10, <1>11
      <3>2. positions'[k] = positions[k + 1]
        BY <1>11
      <3>3. positions[k + 1] = Sibling(from, n + (k + 1) - 1)
        BY <1>3, <3>1
      <3> QED
        BY <1>8, <3>1, <3>2, <3>3
    <2>2. ASSUME NEW k \in 1..Len(result')
          PROVE  k \in 3..root'.layer \/ result'[k].side = "none"
      <3>1. CASE k = n + 1
        BY <1>3, <1>4, <1>8, <3>1
      <3>2. CASE k # n + 1
        <4>1. k \in 1..n
          BY <1>3, <1>10, <3>2
        <4> QED
          BY <1>3, <1>8, <1>10, <4>1
      <3> QED
        BY <3>1, <3>2
    <2>3. Len(positions') + Len(result') = root'.layer /\ Len(result') >= 2
      BY <1>3, <1>8, <1>10, <1>11
    <2>4. RootOver(root', from', anchor')
      BY <1>1, <1>8
    <2> QED
      BY <1>8, <1>10, <1>11, <1>13, <2>1, <2>2, <2>3, <2>4 DEF Collected, S
  <1> QED
    BY <1>2, <1>12, <1>14 DEF Inv

LEMMA AddRootCorrect ==
    ASSUME Inv, AddRoot
    PROVE  Inv'
  <1>1. /\ pc \in {"top", "path"} /\ from \in Known /\ anchor \in Known /\ Chain
        /\ RootOver(root, from, anchor)
    <2>1. pc \in {"top", "path"}
      BY DEF AddRoot
    <2> QED
      BY <2>1, RangesKnown DEF Inv, Collected
  <1>2. Chain'
    BY ChainKept DEF AddRoot
  <1> DEFINE n == Len(result)
             entry == Digest(root.value, "none")
  <1>3. /\ result' = Append(result, entry) /\ pc' = "verify" /\ positions' = positions
        /\ from' = from /\ anchor' = anchor /\ sim_chain' = sim_chain /\ root' = root
    BY DEF AddRoot
  <1>4. entry \in Entries /\ entry.value = root.value /\ entry.side = "none"
    <2>1. root.value \in Digests
      BY <1>1 DEF RootOver, Digests
    <2> QED
      BY <2>1 DEF Entries, Digest
  <1> HIDE DEF entry
  <1>5. result \in Seq(Entries) /\ n \in Nat
    BY DEF Inv, Collected
  <1>6. /\ result' \in Seq(Entries) /\ Len(result') = n + 1 /\ result'[n + 1] = entry
        /\ \A k \in 1..n : result'[k] = result[k]
    BY <1>3, <1>4, <1>5
  <1>7. \/ root.layer = 1 /\ n = 0
        \/ root.layer = n /\ n >= 2 /\ PathTo(result, from, n)
    <2>1. CASE pc = "top"
      BY <2>1 DEF Inv, Collected
    <2>2. CASE pc = "path"
      <3>1. positions = <<>>
        BY <2>2 DEF AddRoot
      <3>2. Len(positions) = 0
        BY <3>1
      <3> QED
        BY <1>5, <2>2, <3>2 DEF Inv, Collected
    <2> QED
      BY <1>1, <2>1, <2>2
  <1>8. Ranges'
    BY <1>1, <1>3 DEF Inv, Ranges, Pcs
  <1>9. root.layer # 1 => PathTo(result', from', root.layer)
    <2> SUFFICES ASSUME root.layer # 1 PROVE PathTo(result', from, n)
      BY <1>3, <1>7
    <2>1. n >= 2 /\ PathTo(result, from, n)
      BY <1>7
    <2>2. 1 \in 1..n /\ 2 \in 1..n /\ \A k \in 3..n : k \in 1..n
      BY <1>5, <2>1
    <2>3. ASSUME NEW k \in 3..n
          PROVE  LET b == Beside(Above(from, k - 1))
                 IN  /\ result'[k].value = RefDigest[k - 1][b]
                     /\ result'[k].side = IF b % 2 = 1 THEN "left" ELSE "right"
      BY <1>6, <2>1, <2>2 DEF PathTo
    <2> QED
      BY <1>6, <2>1, <2>2, <2>3 DEF PathTo
  <1>10. Collected'
    <2>1. ASSUME NEW k \in 1..Len(result')
          PROVE  k \in 3..root'.layer \/ result'[k].side = "none"
      <3>1. CASE k = n + 1
        BY <1>4, <1>6, <3>1
      <3>2. CASE k # n + 1
        <4>1. k \in 1..n
          BY <1>5, <1>6, <3>2
        <4>2. k \in 3..root.layer \/ result[k].side = "none"
          BY <4>1 DEF Inv, Collected
        <4> QED
          BY <1>3, <1>6, <4>1, <4>2
      <3> QED
        BY <3>1, <3>2
    <2>2. Len(result') = IF root'.layer = 1 THEN 1 ELSE root'.layer + 1
      BY <1>3, <1>5, <1>6, <1>7
    <2>3. result'[Len(result')].value = root'.value
      BY <1>3, <1>4, <1>6
    <2>4. RootOver(root', from', anchor')
      BY <1>1, <1>3
    <2>5. positions' \in Seq([layer : Nat, index : Nat])
      BY <1>3 DEF Inv, Collected
    <2>6. root'.layer # 1 => PathTo(result', from', root'.layer)
      BY <1>3, <1>9
    <2> QED
      BY <1>3, <1>6, <2>1, <2>2, <2>3, <2>4, <2>5, <2>6 DEF Collected
  <1> QED
    BY <1>2, <1>8, <1>10 DEF Inv

LEMMA VerifyCorrect ==
    ASSUME Inv, Verify
    PROVE  Inv'
  <1>1. pc = "verify" /\ from \in Known /\ Chain /\ RootOver(root, from, anchor)
    BY RangesKnown DEF Verify, Inv, Collected
  <1>2. Chain'
    BY ChainKept DEF Verify
  <1>3. /\ verdict' = verify_merkle_path(result) /\ pc' = "verified"
        /\ from' = from /\ anchor' = anchor /\ sim_chain' = sim_chain /\ root' = root
        /\ positions' = positions /\ result' = result
    BY DEF Verify
  <1>4. /\ result \in Seq(Entries)
        /\ Len(result) = IF root.layer = 1 THEN 1 ELSE root.layer + 1
        /\ result[Len(result)].value = root.value
        /\ root.layer # 1 => PathTo(result, from, root.layer)
    BY <1>1 DEF Inv, Collected
  <1>5. verify_merkle_path(result) = TRUE
    <2>1. CASE root.layer = 1
      <3>1. Len(result) = 1
        BY <1>4, <2>1
      <3>2. result # <<>>
        BY <1>4, <3>1
      <3> QED
        BY <3>1, <3>2 DEF verify_merkle_path
    <2>2. CASE root.layer # 1
      <3> DEFINE n == root.layer
      <3>1. n \in Nat \ {0, 1} /\ root.value = RefDigest[n][Above(from, n)]
        BY <1>1, <2>2 DEF RootOver, Positive
      <3>2. Len(result) = n + 1 /\ PathTo(result, from, n)
        BY <1>4, <2>2
      <3>3. result[n + 1].value = RefDigest[n][Above(from, n)]
        BY <1>4, <3>1, <3>2
      <3> HIDE DEF n
      <3>4. verify_merkle_path(result)
        BY <1>1, <1>4, <3>1, <3>2, <3>3, PathAccepted
      <3>5. verify_merkle_path(result) \in BOOLEAN
        BY DEF verify_merkle_path
      <3> QED
        BY <3>4, <3>5
    <2> QED
      BY <2>1, <2>2
  <1>6. Ranges'
    BY <1>1, <1>3 DEF Inv, Ranges, Pcs
  <1>7. Collected'
    BY <1>1, <1>3, <1>5 DEF Inv, Collected
  <1> QED
    BY <1>2, <1>6, <1>7 DEF Inv

LEMMA NextTestCorrect ==
    ASSUME Inv, NextFrom \/ NextAnchor
    PROVE  Inv'
  <1>1. pc = "verified" /\ pc' = "root" /\ result' = <<>> /\ sim_chain' = sim_chain
        /\ positions' = positions
    BY DEF NextFrom, NextAnchor
  <1>2. Chain'
    BY <1>1, ChainKept
  <1>3. First \in Nat
    BY BaseFacts DEF Positive
  <1>4. Ranges'
    <2>1. CASE NextFrom
      BY <1>1, <1>3, <2>1, OffsetsAssumption DEF Inv, Ranges, Pcs, NextFrom
    <2>2. CASE NextAnchor
      BY <1>1, <1>3, <2>2, OffsetsAssumption DEF Inv, Ranges, Pcs, NextAnchor
    <2> QED
      BY <2>1, <2>2
  <1>5. Collected'
    BY <1>1 DEF Inv, Collected
  <1> QED
    BY <1>2, <1>4, <1>5 DEF Inv

LEMMA StepCorrect == Inv /\ [Next]_vars => Inv'
  <1> SUFFICES ASSUME Inv, [Next]_vars PROVE Inv'
    OBVIOUS
  <1>1. CASE UNCHANGED vars
    <2>1. Chain'
      BY <1>1, ChainKept DEF vars
    <2>2. Ranges'
      BY <1>1 DEF Inv, Ranges, vars
    <2>3. Collected'
      BY <1>1 DEF Inv, Collected, vars
    <2> QED
      BY <2>1, <2>2, <2>3 DEF Inv
  <1>2. CASE Return
    BY <1>1, <1>2 DEF Return
  <1> QED
    BY <1>1, <1>2, PushBlockCorrect, StartTestCorrect, FindRootCorrect, AddPairCorrect,
       AddSiblingCorrect, AddRootCorrect, VerifyCorrect, NextTestCorrect DEF Next

LEMMA Invariant == Spec => []Inv
  BY StartCorrect, StepCorrect, PTL DEF Spec

(* Every path that the program collects, for any block and any anchor of   *)
(* a chain of any length on a first tree of any depth, is accepted by      *)
(* verify_merkle_path.                                                     *)
THEOREM PathsVerify == Spec => []PathVerifies
  <1>1. Inv => PathVerifies
    BY DEF Inv, Collected, PathVerifies
  <1> QED
    BY <1>1, Invariant, PTL

(* Every digest on a path is that of the sibling of the node above the     *)
(* block in its layer, although it may come from the tree of another       *)
(* block, and the last one is that of a node that is over the block and    *)
(* whose leaves the anchor's tree has.                                     *)
THEOREM PathsAreExact == Spec => []PathExact
  <1>1. ASSUME Inv PROVE SiblingsExact
    <2> SUFFICES ASSUME NEW k \in DOMAIN result, result[k].side # "none"
                 PROVE  LET sibling == Beside(Above(from, k - 1))
                        IN  /\ result[k].value = RefDigest[k - 1][sibling]
                            /\ result[k].side = IF sibling % 2 = 1 THEN "left" ELSE "right"
      BY DEF SiblingsExact
    <2>1. result \in Seq(Entries) /\ Len(result) \in Nat /\ k \in 1..Len(result)
      BY <1>1 DEF Inv, Collected
    <2>2. k \in 3..root.layer
      BY <1>1, <2>1 DEF Inv, Collected
    <2>3. result # <<>>
      BY <2>1
    <2>4. pc \in {"path", "verify", "verified"}
      BY <1>1, <2>3 DEF Inv, Collected, Ranges, Pcs
    <2>5. root.layer \in Nat \ {0}
      BY <1>1, <2>4 DEF Inv, Collected, RootOver, Positive
    <2>6. CASE pc = "path"
      <3>1. PathTo(result, from, Len(result)) /\ k \in 3..Len(result)
        BY <1>1, <2>1, <2>2, <2>5, <2>6 DEF Inv, Collected
      <3> QED
        BY <3>1 DEF PathTo
    <2>7. CASE pc \in {"verify", "verified"}
      <3>1. PathTo(result, from, root.layer)
        BY <1>1, <2>2, <2>5, <2>7 DEF Inv, Collected
      <3> QED
        BY <2>2, <3>1 DEF PathTo
    <2> QED
      BY <2>4, <2>6, <2>7
  <1>2. ASSUME Inv PROVE RootCoversBlock
    <2> SUFFICES ASSUME pc = "verified"
                 PROVE  /\ Above(from, root.layer) = root.index
                        /\ root.index * two[root.layer - 1] < anchor
                        /\ Last(result).value = RefDigest[root.layer][root.index]
      BY DEF RootCoversBlock
    <2>1. RootOver(root, from, anchor) /\ result[Len(result)].value = root.value
      BY <1>2 DEF Inv, Collected
    <2> QED
      BY <2>1 DEF RootOver, Last
  <1> QED
    BY <1>1, <1>2, Invariant, PTL DEF PathExact

(* Collecting a path never reads a block that the chain does not have.     *)
THEOREM ReadsStayInChain == Spec => []ReadsInChain
  <1>1. ASSUME Inv PROVE TypeOK
    <2>1. First \in Nat
      BY BaseFacts DEF Positive
    <2>2. \E T : sim_chain \in Seq(T)
      BY <1>1 DEF Inv, Chain
    <2>3. \A k \in DOMAIN sim_chain : sim_chain[k].merkle.count = Base + k - 1
      <3>1. DOMAIN sim_chain = 1..Len(sim_chain)
        BY <2>2
      <3> QED
        BY <1>1, <3>1 DEF Inv, Chain, Tree
    <2>4. \A k \in DOMAIN result : result[k].side \in {"left", "right", "none"}
      <3>1. result \in Seq(Entries)
        BY <1>1 DEF Inv, Collected
      <3>2. \A k \in DOMAIN result : result[k] \in Entries
        BY <3>1
      <3> QED
        BY <3>2 DEF Entries
    <2>5. from < anchor /\ {from, anchor} \subseteq First..First + LastAnchor
      BY <1>1, <2>1, OffsetsAssumption DEF Inv, Ranges
    <2>6. /\ Len(sim_chain) \in 1..ChainLength + 1
          /\ pc \in {"fill", "root", "pair", "path", "top", "verify", "verified", "outside"}
      BY <1>1 DEF Inv, Ranges, Pcs, Chain
    <2> QED
      BY <2>3, <2>4, <2>5, <2>6 DEF TypeOK
  <1>2. Inv => pc # "outside"
    BY DEF Inv, Ranges, Pcs
  <1> QED
    BY <1>1, <1>2, Invariant, PTL DEF ReadsInChain

(* inc_merkle_verify, which climbs a tree with the positions of its last   *)
(* nodes, accepts the tree that append makes for every block.              *)
THEOREM TreesAreAccepted == Spec => []TreesVerify
  <1>1. ASSUME Inv PROVE TreesVerify
    <2>1. \E T : sim_chain \in Seq(T)
      BY <1>1 DEF Inv, Chain
    <2>2. DOMAIN sim_chain = 1..Len(sim_chain)
      BY <2>1
    <2> QED
      BY <1>1, <2>2 DEF Inv, Chain, TreesVerify
  <1> QED
    BY <1>1, Invariant, PTL

=============================================================================
