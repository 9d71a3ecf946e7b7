-------------------------- MODULE NodeConfig_proofs --------------------------
(***************************************************************************)
(* The shapes of a network and the files written from it, for any number   *)
(* of nodes, every place of the bios node among them, and all options.     *)
(***************************************************************************)
EXTENDS NodeConfig, FiniteSetTheorems, WellFoundedInduction, TLAPS

-----------------------------------------------------------------------------
(* Numbers: least and greatest ones, which the proofs use where the code   *)
(* looks for the first or the last of several, and in place of induction.  *)

(* A set of natural numbers has a least one. *)
LEMMA LeastNumber ==
    ASSUME NEW T, T \subseteq Nat, T # {}
    PROVE  \E m \in T : \A k \in T : m <= k
  <1>1. \E m \in T : \A k \in T : <<k, m>> \notin OpToRel(<, Nat)
    BY WFMin, NatLessThanWellFounded
  <1>2. PICK m \in T : \A k \in T : <<k, m>> \notin OpToRel(<, Nat)
    BY <1>1
  <1>3. \A k \in T : ~(k < m)
    BY <1>2, Zenon DEF OpToRel
  <1> QED
    BY <1>3

(* A set of numbers with a bound has a greatest one. *)
LEMMA GreatestNumber ==
    ASSUME NEW b \in Nat, NEW T, T \subseteq 0..b, T # {}
    PROVE  \E m \in T : \A k \in T : k <= m
  <1> DEFINE Gaps == {b - k : k \in T}
  <1>1. Gaps \subseteq Nat /\ Gaps # {}
    <2>1. ASSUME NEW k \in T PROVE b - k \in Nat
      <3>1. k \in 0..b
        OBVIOUS
      <3> QED
        BY <3>1
    <2>2. Gaps \subseteq Nat
      BY <2>1
    <2>3. PICK k \in T : TRUE
      OBVIOUS
    <2>4. b - k \in Gaps
      OBVIOUS
    <2> QED
      BY <2>2, <2>4
  <1>2. PICK g \in Gaps : \A h \in Gaps : g <= h
    <2> HIDE DEF Gaps
    <2> QED
      BY <1>1, LeastNumber
  <1>3. PICK m \in T : g = b - m
    OBVIOUS
  <1>4. ASSUME NEW k \in T PROVE k <= m
    <2>1. b - k \in Gaps
      OBVIOUS
    <2>2. b - m <= b - k
      BY <1>2, <1>3, <2>1
    <2> QED
      BY <2>2
  <1> QED
    BY <1>4

-----------------------------------------------------------------------------
(* Recursion over the natural numbers: what the first n applications of    *)
(* step, which may depend on their place, make of start.                   *)
Runs(step, start, n, g) ==
    /\ DOMAIN g = 0..n
    /\ g[0] = start
    /\ \A k \in 1..n : g[k] = step[k][g[k - 1]]

(* For every number of applications there are such results.                *)
LEMMA RunsExist ==
    ASSUME NEW step, NEW start, NEW n \in Nat
    PROVE  \E g : Runs(step, start, n, g)
  <1> DEFINE Missing == {m \in Nat : ~\E g : Runs(step, start, m, g)}
  <1>1. SUFFICES ASSUME Missing # {} PROVE FALSE
    OBVIOUS
  <1>2. PICK m \in Missing : \A k \in Missing : m <= k
    <2>1. Missing \subseteq Nat
      OBVIOUS
    <2> HIDE DEF Missing
    <2> QED
      BY <1>1, <2>1, LeastNumber
  <1>3. CASE m = 0
    <2>1. Runs(step, start, 0, [k \in 0..0 |-> start])
      BY DEF Runs
    <2> QED
      BY <1>3, <2>1
  <1>4. CASE m # 0
    <2>1. m - 1 \in Nat /\ m - 1 \notin Missing
      BY <1>2, <1>4
    <2>2. PICK g : Runs(step, start, m - 1, g)
      BY <2>1
    <2> DEFINE f == [k \in 0..m |-> IF k = m THEN step[m][g[m - 1]] ELSE g[k]]
    <2>3. f[0] = start
      BY <1>4, <2>2 DEF Runs
    <2>4. ASSUME NEW k \in 1..m PROVE f[k] = step[k][f[k - 1]]
      <3>1. f[k - 1] = g[k - 1]
        BY <1>4
      <3>2. CASE k = m
        BY <3>1, <3>2
      <3>3. CASE k # m
        <4>1. k \in 1..m - 1
          BY <3>3
        <4>2. g[k] = step[k][g[k - 1]]
          BY <2>2, <4>1 DEF Runs
        <4> QED
          BY <3>1, <3>3, <4>2
      <3> QED
        BY <3>2, <3>3
    <2>5. DOMAIN f = 0..m
      OBVIOUS
    <2>6. Runs(step, start, m, f)
      <3> HIDE DEF f
      <3> QED
        BY <2>3, <2>4, <2>5 DEF Runs
    <2> QED
      BY <2>6
  <1> QED
    BY <1>3, <1>4

(* The results of a shorter run are those of a longer one.                 *)
LEMMA RunsAgree ==
    ASSUME NEW step, NEW start, NEW m \in Nat, NEW n \in Nat, NEW g, NEW h,
           Runs(step, start, m, g), Runs(step, start, n, h), m <= n
    PROVE  \A k \in 0..m : g[k] = h[k]
  <1> DEFINE Apart == {k \in 0..m : g[k] # h[k]}
  <1>1. SUFFICES ASSUME Apart # {} PROVE FALSE
    OBVIOUS
  <1>2. PICK k \in Apart : \A j \in Apart : k <= j
    <2>1. Apart \subseteq Nat
      OBVIOUS
    <2> HIDE DEF Apart
    <2> QED
      BY <1>1, <2>1, LeastNumber
  <1>3. k # 0
    BY DEF Runs
  <1>4. k - 1 \in 0..m /\ k - 1 \notin Apart /\ k \in 1..m /\ k \in 1..n
    BY <1>2, <1>3
  <1>5. g[k - 1] = h[k - 1]
    BY <1>4
  <1>6. g[k] = step[k][g[k - 1]] /\ h[k] = step[k][h[k - 1]]
    BY <1>4 DEF Runs
  <1> QED
    BY <1>5, <1>6

(* The function with these results for every number.                       *)
Recurs(step, start, f) ==
    /\ f = [k \in Nat |-> f[k]]
    /\ \A k \in Nat : f[k] = IF k = 0 THEN start ELSE step[k][f[k - 1]]

(* Functions that are defined by recursion on their argument exist.        *)
LEMMA Recursion ==
    ASSUME NEW step, NEW start
    PROVE  \E f : Recurs(step, start, f)
  <1> DEFINE G(n) == CHOOSE g : Runs(step, start, n, g)
             f == [k \in Nat |-> G(k)[k]]
  <1>1. ASSUME NEW n \in Nat PROVE Runs(step, start, n, G(n))
    BY RunsExist
  <1> HIDE DEF G
  <1>2. ASSUME NEW k \in Nat
        PROVE  f[k] = IF k = 0 THEN start ELSE step[k][f[k - 1]]
    <2>1. CASE k = 0
      BY <1>1, <2>1 DEF Runs
    <2>2. CASE k # 0
      <3>1. k - 1 \in Nat /\ k \in 1..k /\ k - 1 \in 0..k - 1
        BY <2>2
      <3>2. G(k)[k] = step[k][G(k)[k - 1]]
        BY <1>1, <3>1 DEF Runs
      <3>3. Runs(step, start, k - 1, G(k - 1)) /\ Runs(step, start, k, G(k))
        BY <1>1, <3>1
      <3>4. G(k - 1)[k - 1] = G(k)[k - 1]
        <4>1. k - 1 <= k
          OBVIOUS
        <4>2. \A j \in 0..k - 1 : G(k - 1)[j] = G(k)[j]
          BY <3>1, <3>3, <4>1, RunsAgree
        <4> QED
          BY <3>1, <4>2
      <3> QED
        BY <2>2, <3>1, <3>2, <3>4
    <2> QED
      BY <2>1, <2>2
  <1>3. f = [k \in Nat |-> f[k]]
    OBVIOUS
  <1> HIDE DEF f
  <1> QED
    BY <1>2, <1>3 DEF Recurs

-----------------------------------------------------------------------------
\* No node but bios is named bios, whatever make_star renames.
AliasInv ==
    /\ net \in Cases
    /\ aliases \in [Names -> Names]
    /\ \A n \in Names : aliases[n] = net.bios <=> n = net.bios

(* The numbers of a network. *)
LEMMA NetNumbers ==
    ASSUME net \in Cases
    PROVE  /\ total \in Nat /\ total >= 2 /\ net.bios \in Names
           /\ non_bios \in Nat /\ non_bios = total - 1 /\ non_bios >= 1
           /\ net.shape \in {"ring", "star", "mesh"}
           /\ Names = 0..total - 1
  BY CasesAssumption DEF Case, total, non_bios, Names

(* Only the place of the bios node is that of the bios node. *)
LEMMA BiosPlace ==
    ASSUME AliasInv
    PROVE  /\ \A n \in Names : is_bios_ndx(n) <=> n = net.bios
           /\ start_ndx = IF net.bios = 0 THEN 1 ELSE 0
           /\ start_ndx \in Names /\ start_ndx # net.bios
  <1>1. total \in Nat /\ total >= 2 /\ Names = 0..total - 1
    BY NetNumbers DEF AliasInv
  <1>2. \A n \in Names : is_bios_ndx(n) <=> n = net.bios
    BY DEF AliasInv, is_bios_ndx
  <1>3. 0 \in Names /\ 1 \in Names
    BY <1>1
  <1> QED
    BY <1>1, <1>2, <1>3 DEF start_ndx

(* next_ndx goes to the next node that is not bios, cyclically.            *)
LEMMA NextNode ==
    ASSUME AliasInv, NEW n \in Names
    PROVE  /\ Step(n) = IF n + 1 = net.bios THEN n + 2 ELSE n + 1
           /\ Step(n) \in 1..total
           /\ ComesRound(n) <=> Step(n) = total
           /\ next_ndx(n) = IF Step(n) = total THEN start_ndx ELSE Step(n)
           /\ next_ndx(n) \in Names /\ next_ndx(n) # net.bios
  <1>1. total \in Nat /\ total >= 2 /\ Names = 0..total - 1 /\ net.bios \in Names
    BY NetNumbers DEF AliasInv
  <1>2. n + 1 < total => n + 1 \in Names
    BY <1>1
  <1>3. Step(n) = IF n + 1 = net.bios THEN n + 2 ELSE n + 1
    <2>1. n + 1 < total /\ is_bios_ndx(n + 1) <=> n + 1 = net.bios
      BY <1>1, <1>2, BiosPlace
    <2> QED
      BY <2>1 DEF Step
  <1>4. Step(n) \in 1..total
    BY <1>1, <1>3
  <1>5. ComesRound(n) <=> Step(n) = total
    BY DEF ComesRound
  <1>6. next_ndx(n) = IF Step(n) = total THEN start_ndx ELSE Step(n)
    BY DEF next_ndx
  <1>7. next_ndx(n) \in Names /\ next_ndx(n) # net.bios
    BY <1>1, <1>3, <1>4, <1>6, BiosPlace
  <1> QED
    BY <1>3, <1>4, <1>5, <1>6, <1>7

-----------------------------------------------------------------------------
\* The attempts of skip_ndx.
Turn(n, from) == IF is_bios_ndx(n) \/ n = from THEN next_ndx(n) ELSE n

Tries(g, from, offset) ==
    g = [k \in Nat |-> IF k = 0 THEN (from + offset) % total ELSE Turn(g[k - 1], from)]

(* From the first attempt on no index is that of bios.                     *)
LEMMA TriesLeaveBios ==
    ASSUME AliasInv, NEW from \in Names, NEW offset \in Nat,
           NEW g, Tries(g, from, offset)
    PROVE  \A k \in Nat : g[k] \in Names /\ (k > 0 => g[k] # net.bios)
  <1>1. ASSUME NEW k \in Nat
        PROVE  g[k] = IF k = 0 THEN (from + offset) % total ELSE Turn(g[k - 1], from)
    BY Zenon DEF Tries
  <1>2. ASSUME NEW n \in Names
        PROVE  Turn(n, from) \in Names /\ Turn(n, from) # net.bios
    BY NextNode, BiosPlace DEF Turn
  <1> DEFINE Out == {k \in Nat : g[k] \notin Names}
  <1>3. ASSUME Out # {} PROVE FALSE
    <2>1. PICK k \in Out : \A j \in Out : k <= j
      <3>1. Out \subseteq Nat
        OBVIOUS
      <3> HIDE DEF Out
      <3> QED
        BY <1>3, <3>1, LeastNumber
    <2>2. k # 0
      <3>1. total \in Nat /\ total >= 2 /\ Names = 0..total - 1
        BY NetNumbers DEF AliasInv
      <3>2. (from + offset) % total \in Names
        BY <3>1
      <3> QED
        BY <1>1, <3>2
    <2>3. k - 1 \in Nat /\ k - 1 \notin Out
      BY <2>1, <2>2
    <2>4. g[k - 1] \in Names
      BY <2>3
    <2> QED
      BY <1>1, <1>2, <2>2, <2>4
  <1>4. ASSUME NEW k \in Nat, k > 0 PROVE g[k] # net.bios
    <2>1. k - 1 \in Nat /\ k # 0
      BY <1>4
    <2>2. g[k - 1] \in Names
      BY <1>3, <2>1
    <2> QED
      BY <1>1, <1>2, <2>1, <2>2
  <1> QED
    BY <1>3, <1>4

LEMMA TriesExist ==
    ASSUME AliasInv, NEW from \in Names, NEW offset \in Nat
    PROVE  \E g : Tries(g, from, offset)
  <1> DEFINE start == (from + offset) % total
             step == [k \in Nat |-> [n \in Names |-> Turn(n, from)]]
  <1>1. PICK f : Recurs(step, start, f)
    <2> HIDE DEF step, start
    <2> QED
      BY Recursion
  <1>2. ASSUME NEW k \in Nat
        PROVE  f[k] = IF k = 0 THEN start ELSE step[k][f[k - 1]]
    <2> HIDE DEF step, start
    <2> QED
      BY <1>1 DEF Recurs
  <1>3. ASSUME NEW n \in Names PROVE Turn(n, from) \in Names
    BY NextNode DEF Turn
  <1>4. start \in Names
    BY NetNumbers DEF AliasInv
  <1> DEFINE Out == {k \in Nat : f[k] \notin Names}
  <1>5. ASSUME Out # {} PROVE FALSE
    <2>1. PICK k \in Out : \A j \in Out : k <= j
      <3>1. Out \subseteq Nat
        OBVIOUS
      <3> HIDE DEF Out
      <3> QED
        BY <1>5, <3>1, LeastNumber
    <2>2. k # 0
      BY <1>2, <1>4
    <2>3. k - 1 \in Nat /\ k - 1 \notin Out
      BY <2>1, <2>2
    <2>4. f[k - 1] \in Names
      BY <2>3
    <2>5. step[k][f[k - 1]] = Turn(f[k - 1], from)
      BY <2>4
    <2> QED
      BY <1>2, <1>3, <2>2, <2>4, <2>5
  <1>6. ASSUME NEW k \in Nat
        PROVE  f[k] = IF k = 0 THEN start ELSE Turn(f[k - 1], from)
    <2>1. CASE k = 0
      BY <1>2, <2>1
    <2>2. CASE k # 0
      <3>1. k - 1 \in Nat
        BY <2>2
      <3>2. f[k - 1] \in Names
        BY <1>5, <3>1
      <3>3. step[k][f[k - 1]] = Turn(f[k - 1], from)
        BY <3>2
      <3> QED
        BY <1>2, <2>2, <3>3
    <2> QED
      BY <2>1, <2>2
  <1>7. Tries(f, from, offset)
    <2>1. f = [k \in Nat |-> f[k]]
      BY <1>1, Zenon DEF Recurs
    <2> HIDE DEF step
    <2> QED
      BY <1>6, <2>1 DEF Tries
  <1> QED
    BY <1>7

(* skip_ndx finds a node that is not bios, when there is one to try.       *)
LEMMA SkipNode ==
    ASSUME AliasInv, total >= 3, NEW from \in Names, NEW offset \in Nat
    PROVE  skip_ndx(from, offset) \in Names /\ skip_ndx(from, offset) # net.bios
  <1> DEFINE g == CHOOSE f : Tries(f, from, offset)
  <1>1. Tries(g, from, offset)
    BY TriesExist
  <1>2. skip_ndx(from, offset) = g[IF total > 2 THEN total - 2 ELSE 0]
    BY Zenon DEF skip_ndx, Tries, Turn
  <1> HIDE DEF g
  <1>3. \A k \in Nat : g[k] \in Names /\ (k > 0 => g[k] # net.bios)
    BY <1>1, TriesLeaveBios
  <1>4. total \in Nat
    BY NetNumbers DEF AliasInv
  <1>5. total - 2 \in Nat /\ total - 2 > 0 /\ total > 2
    BY <1>4
  <1>6. skip_ndx(from, offset) = g[total - 2]
    BY <1>2, <1>5
  <1> QED
    BY <1>3, <1>5, <1>6

(* A node that is neither bios nor from is found at once.                  *)
LEMMA SkipStays ==
    ASSUME AliasInv, NEW from \in Names, NEW offset \in Nat, NEW n \in Names,
           (from + offset) % total = n, n # net.bios, n # from
    PROVE  skip_ndx(from, offset) = n
  <1> DEFINE g == CHOOSE f : Tries(f, from, offset)
  <1>1. Tries(g, from, offset)
    BY TriesExist
  <1>2. skip_ndx(from, offset) = g[IF total > 2 THEN total - 2 ELSE 0]
    BY Zenon DEF skip_ndx, Tries, Turn
  <1> HIDE DEF g
  <1>3. ASSUME NEW k \in Nat
        PROVE  g[k] = IF k = 0 THEN (from + offset) % total ELSE Turn(g[k - 1], from)
    BY <1>1, Zenon DEF Tries
  <1>4. Turn(n, from) = n
    BY BiosPlace DEF Turn
  <1> DEFINE Off == {k \in Nat : g[k] # n}
  <1>5. ASSUME Off # {} PROVE FALSE
    <2>1. PICK k \in Off : \A j \in Off : k <= j
      <3>1. Off \subseteq Nat
        OBVIOUS
      <3> HIDE DEF Off
      <3> QED
        BY <1>5, <3>1, LeastNumber
    <2>2. k # 0
      BY <1>3
    <2>3. k - 1 \in Nat /\ k - 1 \notin Off
      BY <2>1, <2>2
    <2> QED
      BY <1>3, <1>4, <2>2, <2>3
  <1>6. (IF total > 2 THEN total - 2 ELSE 0) \in Nat
    BY NetNumbers DEF AliasInv
  <1> HIDE DEF Off
  <1>7. \A k \in Nat : g[k] = n
    BY <1>5 DEF Off
  <1> QED
    BY <1>2, <1>6, <1>7

-----------------------------------------------------------------------------
(* The square root that links is computed from.                            *)
LEMMA RootExists ==
    ASSUME NEW n \in Nat
    PROVE  isqrt(n) \in 0..n
  <1> DEFINE Low == {r \in 0..n : r * r <= n}
  <1>1. 0 \in Low /\ Low \subseteq 0..n
    OBVIOUS
  <1>2. PICK m \in Low : \A k \in Low : k <= m
    <2> HIDE DEF Low
    <2> QED
      BY <1>1, GreatestNumber
  <1>3. m \in 0..n /\ m * m <= n
    BY <1>2
  <1>4. n < (m + 1) * (m + 1)
    <2>1. CASE m = n
      <3>1. (n + 1) * (n + 1) = n * n + 2 * n + 1 /\ n * n \in Nat
        OBVIOUS
      <3> QED
        BY <2>1, <3>1
    <2>2. CASE m # n
      <3>1. m + 1 \in 0..n /\ m + 1 \notin Low
        BY <1>2, <1>3, <2>2
      <3>2. ~((m + 1) * (m + 1) <= n)
        BY <3>1
      <3>3. (m + 1) * (m + 1) \in Nat
        BY <3>1
      <3> QED
        BY <3>2, <3>3
    <2> QED
      BY <2>1, <2>2
  <1>5. \E r \in 0..n : r * r <= n /\ n < (r + 1) * (r + 1)
    BY <1>3, <1>4
  <1> QED
    BY <1>5 DEF isqrt

(* The number of links of a star and the gap between them.                 *)
LEMMA StarNumbers ==
    ASSUME net \in Cases
    PROVE  links \in Nat /\ links >= 2 /\ (non_bios >= 4 => gap \in Nat)
  <1>1. non_bios \in Nat
    BY NetNumbers
  <1>2. links \in Nat /\ links >= 2 /\ (non_bios <= 12 => links = 3)
    BY <1>1, RootExists DEF links
  <1>3. ASSUME non_bios >= 4 PROVE gap \in Nat
    <2> DEFINE first == IF non_bios > 6 THEN 3 ELSE (non_bios - links) \div 2 + 1
               fits(g) == g >= first /\ non_bios % g # 0
               Fitting == {g \in 1..non_bios + 1 : fits(g)}
    <2>1. first \in Nat /\ first <= non_bios + 1
      <3>1. non_bios <= 6 => non_bios - links \in {1, 2, 3}
        BY <1>1, <1>2, <1>3
      <3>2. 1 \div 2 = 0 /\ 2 \div 2 = 1 /\ 3 \div 2 = 1
        OBVIOUS
      <3> QED
        BY <1>1, <1>3, <3>1, <3>2
    <2>2. non_bios % (non_bios + 1) # 0
      BY <1>1, <1>3
    <2> HIDE DEF first
    <2>3. non_bios + 1 \in Fitting /\ Fitting \subseteq Nat
      BY <1>1, <2>1, <2>2
    <2>4. PICK m \in Fitting : \A k \in Fitting : m <= k
      <3> HIDE DEF Fitting
      <3> QED
        BY <2>3, LeastNumber
    <2>5. m \in 1..non_bios + 1 /\ fits(m)
      BY <2>4
    <2>6. ASSUME NEW h \in 1..m - 1 PROVE ~fits(h)
      <3>1. h \in 1..non_bios + 1 /\ ~(m <= h)
        BY <1>1, <2>5
      <3>2. h \notin Fitting
        BY <2>4, <3>1
      <3> QED
        BY <3>1, <3>2
    <2> HIDE DEF fits
    <2>7. (CHOOSE g \in 1..non_bios + 1 : fits(g) /\ \A h \in 1..g - 1 : ~fits(h))
             \in 1..non_bios + 1
      BY <2>5, <2>6
    <2>8. gap = CHOOSE g \in 1..non_bios + 1 : fits(g) /\ \A h \in 1..g - 1 : ~fits(h)
      BY Zenon DEF gap, fits, first
    <2> QED
      BY <1>1, <2>7, <2>8
  <1> QED
    BY <1>2, <1>3

-----------------------------------------------------------------------------
(* The indices and the name that the loops work with are never those of    *)
(* the bios node.                                                          *)
WalkInv ==
    /\ pc \in {"ring", "star", "check", "mesh", "done"}
    /\ i \in Nodes /\ current \in Nodes /\ ndx \in Nodes /\ slot \in Nodes
    /\ pc \in {"star", "check"} => non_bios >= 4
    /\ l \in 1..links + total
    /\ pc = "check" => l <= links

PeersInv ==
    /\ peers \in [Names -> Seq(Nodes)]
    /\ peers[net.bios] = <<>>
    /\ peersToFrom \in [Names -> SUBSET Names]

IInv == AliasInv /\ WalkInv /\ PeersInv

(* What is computed from the network does not change unless it does.       *)
LEMMA NetFixes ==
    ASSUME net' = net
    PROVE  /\ total' = total /\ non_bios' = non_bios /\ Names' = Names
           /\ Nodes' = Nodes /\ links' = links /\ Shaped' = Shaped
  BY DEF total, non_bios, Names, Nodes, links, isqrt, Shaped

LEMMA InitIInv == Init => IInv
  <1> SUFFICES ASSUME Init PROVE IInv
    OBVIOUS
  <1>1. /\ net \in Cases
        /\ total \in Nat /\ total >= 2 /\ net.bios \in Names
        /\ non_bios \in Nat /\ non_bios >= 1
        /\ net.shape \in {"ring", "star", "mesh"}
        /\ Names = 0..total - 1 /\ links \in Nat /\ links >= 2
    BY NetNumbers, StarNumbers DEF Init
  <1>2. AliasInv
    BY <1>1 DEF Init, AliasInv
  <1>3. i \in Nodes
    BY <1>1 DEF Init, Nodes
  <1>4. PeersInv
    <2>1. <<>> \in Seq(Nodes)
      OBVIOUS
    <2> QED
      BY <1>1, <2>1 DEF Init, PeersInv
  <1>5. pc \in {"ring", "star", "mesh", "done"} /\ (pc = "star" => non_bios >= 4)
    BY <1>1 DEF Init, Shaped
  <1>6. l \in 1..links + total
    BY <1>1 DEF Init
  <1>7. current = i /\ ndx = i /\ slot = i
    BY DEF Init
  <1> QED
    BY <1>2, <1>3, <1>4, <1>5, <1>6, <1>7 DEF IInv, WalkInv

(* A connection between nodes that are not bios. *)
LEMMA ConnectStep ==
    ASSUME IInv, net' = net, NEW a \in Nodes, NEW b \in Nodes, Connect(a, b),
           \/ peersToFrom' = peersToFrom
           \/ peersToFrom' = [peersToFrom EXCEPT ![a] = @ \cup {b}]
    PROVE  PeersInv'
  <1>1. /\ a \in Names /\ b \in Names /\ a # net.bios /\ net.bios \in Names
        /\ Names' = Names /\ Nodes' = Nodes
    BY NetFixes, NetNumbers DEF Nodes, IInv, AliasInv
  <1>2. peers[a] \in Seq(Nodes) /\ peers \in [Names -> Seq(Nodes)]
    BY <1>1 DEF IInv, PeersInv
  <1>3. Append(peers[a], b) \in Seq(Nodes)
    BY <1>2
  <1>4. /\ peers' \in [Names -> Seq(Nodes)]
        /\ peers'[net.bios] = peers[net.bios]
    BY <1>1, <1>2, <1>3 DEF Connect
  <1>5. peersToFrom' \in [Names -> SUBSET Names]
    <2>1. peersToFrom \in [Names -> SUBSET Names]
      BY DEF IInv, PeersInv
    <2>2. peersToFrom[a] \cup {b} \in SUBSET Names
      <3>1. peersToFrom[a] \in SUBSET Names
        BY <1>1, <2>1
      <3> QED
        BY <1>1, <3>1
    <2> QED
      BY <2>1, <2>2
  <1> QED
    BY <1>1, <1>4, <1>5 DEF PeersInv, IInv

(* Indices and names of nodes that are not bios lead to one another.       *)
LEMMA NodesStay ==
    ASSUME IInv
    PROVE  /\ \A n \in Nodes : aliases[n] \in Nodes /\ next_ndx(n) \in Nodes
           /\ start_ndx \in Nodes
           /\ \A n \in Nodes, k \in Nat :
                 total >= 3 => skip_ndx(n, k) \in Nodes
  <1>1. AliasInv
    BY DEF IInv
  <1>2. \A n \in Nodes : aliases[n] \in Nodes
    BY <1>1 DEF AliasInv, Nodes
  <1>3. \A n \in Nodes : next_ndx(n) \in Nodes
    BY <1>1, NextNode DEF Nodes
  <1>4. start_ndx \in Nodes
    BY <1>1, BiosPlace DEF Nodes
  <1>5. \A n \in Nodes, k \in Nat : total >= 3 => skip_ndx(n, k) \in Nodes
    BY <1>1, SkipNode DEF Nodes
  <1> QED
    BY <1>2, <1>3, <1>4, <1>5

LEMMA IInvStep == IInv /\ [Next]_vars => IInv'
  <1> SUFFICES ASSUME IInv, [Next]_vars PROVE IInv'
    OBVIOUS
  <1>1. /\ net' = net
    BY DEF Next, vars, Terminating, RingNode, RingPair, MeshPeer, MeshNextNode,
       StarPick, StarMoveOn, StarConnect, StarNextNode
  <1>2. /\ total' = total /\ non_bios' = non_bios /\ Names' = Names
        /\ Nodes' = Nodes /\ links' = links
    BY <1>1, NetFixes
  <1>3. /\ total \in Nat /\ total >= 2 /\ net.bios \in Names
        /\ non_bios \in Nat /\ non_bios = total - 1 /\ net \in Cases
        /\ Names = 0..total - 1 /\ links \in Nat /\ links >= 2
        /\ (non_bios >= 4 => gap \in Nat)
    BY NetNumbers, StarNumbers DEF IInv, AliasInv
  <1>4. /\ \A n \in Nodes : aliases[n] \in Nodes /\ next_ndx(n) \in Nodes
        /\ start_ndx \in Nodes
        /\ \A n \in Nodes, k \in Nat : total >= 3 => skip_ndx(n, k) \in Nodes
    BY NodesStay
  <1>5. /\ i \in Nodes /\ current \in Nodes /\ ndx \in Nodes /\ slot \in Nodes
        /\ pc \in {"star", "check"} => non_bios >= 4
        /\ l \in 1..links + total
        /\ pc = "check" => l <= links
    BY DEF IInv, WalkInv
  <1>6. aliases' = aliases => AliasInv'
    BY <1>1, <1>2 DEF IInv, AliasInv
  <1>7. UNCHANGED <<peers, peersToFrom>> => PeersInv'
    BY <1>1, <1>2 DEF IInv, PeersInv
  <1>8. CASE RingNode
    <2>1. /\ Connect(aliases[i], aliases[next_ndx(i)]) /\ peersToFrom' = peersToFrom
          /\ UNCHANGED star /\ i' = next_ndx(i) /\ pc' \in {"ring", "done"}
      BY <1>8 DEF RingNode
    <2>2. PeersInv'
      BY <1>1, <1>4, <1>5, <2>1, ConnectStep
    <2>3. WalkInv'
      BY <1>2, <1>4, <1>5, <2>1 DEF WalkInv, star
    <2> QED
      BY <1>6, <2>1, <2>2, <2>3 DEF IInv, star
  <1>9. CASE RingPair
    <2> DEFINE n0 == aliases[start_ndx]
               n1 == aliases[next_ndx(start_ndx)]
    <2>1. /\ peers' = [peers EXCEPT ![n0] = Append(@, n1), ![n1] = Append(@, n0)]
          /\ UNCHANGED star /\ i' = i /\ pc' = "done" /\ peersToFrom' = peersToFrom
      BY <1>9 DEF RingPair
    <2>2. n0 \in Nodes /\ n1 \in Nodes
      BY <1>4
    <2> HIDE DEF n0, n1
    <2>3. PeersInv'
      <3>1. /\ n0 \in Names /\ n1 \in Names /\ n0 # net.bios /\ n1 # net.bios
        BY <2>2 DEF Nodes
      <3>2. peers \in [Names -> Seq(Nodes)]
        BY DEF IInv, PeersInv
      <3>3. peers[n0] \in Seq(Nodes) /\ peers[n1] \in Seq(Nodes)
        BY <3>1, <3>2
      <3>4. /\ Append(peers[n0], n1) \in Seq(Nodes)
            /\ Append(peers[n1], n0) \in Seq(Nodes)
        BY <2>2, <3>3
      <3>5. Append(Append(peers[n0], n1), n0) \in Seq(Nodes)
        BY <2>2, <3>4
      <3>6. /\ peers' \in [Names -> Seq(Nodes)]
            /\ peers'[net.bios] = peers[net.bios]
        BY <1>3, <2>1, <3>1, <3>2, <3>4, <3>5
      <3> QED
        BY <1>1, <1>2, <2>1, <3>6 DEF IInv, PeersInv
    <2>4. WalkInv'
      BY <1>2, <1>5, <2>1 DEF WalkInv, star
    <2> QED
      BY <1>6, <2>1, <2>3, <2>4 DEF IInv, star
  <1>10. CASE MeshPeer
    <2>1. /\ pc = "mesh" /\ l < non_bios /\ l' = l + 1
          /\ UNCHANGED <<pc, aliases, i, current, ndx, slot>>
          /\ \/ /\ Connect(aliases[i], aliases[skip_ndx(i, l)])
                /\ peersToFrom' =
                     [peersToFrom EXCEPT ![aliases[i]] = @ \cup {aliases[skip_ndx(i, l)]}]
             \/ UNCHANGED <<peers, peersToFrom>>
      BY <1>10 DEF MeshPeer
    <2>2. total >= 3 /\ l \in Nat /\ l + 1 \in 1..links + total
      BY <1>3, <1>5, <2>1
    <2>3. aliases[i] \in Nodes /\ aliases[skip_ndx(i, l)] \in Nodes
      BY <1>4, <1>5, <2>2
    <2>4. PeersInv'
      BY <1>1, <1>7, <2>1, <2>3, ConnectStep
    <2>5. WalkInv'
      BY <1>2, <1>5, <2>1, <2>2 DEF WalkInv
    <2> QED
      BY <1>6, <2>1, <2>4, <2>5 DEF IInv
  <1>11. CASE MeshNextNode
    <2>1. /\ UNCHANGED <<aliases, peers, peersToFrom, current, ndx, slot>>
          /\ i' = next_ndx(i) /\ l' = 1 /\ pc' \in {"mesh", "done"}
      BY <1>11 DEF MeshNextNode
    <2>2. WalkInv'
      BY <1>2, <1>3, <1>4, <1>5, <2>1 DEF WalkInv
    <2> QED
      BY <1>6, <1>7, <2>1, <2>2 DEF IInv
  <1>12. CASE StarPick
    <2>1. /\ pc = "star" /\ l <= links /\ ndx' = skip_ndx(ndx, l * gap)
          /\ slot' = ndx' /\ pc' = "check"
          /\ UNCHANGED <<aliases, peers, peersToFrom, i, current, l>>
      BY <1>12 DEF StarPick
    <2>2. total >= 3 /\ l \in Nat /\ gap \in Nat /\ non_bios >= 4
      BY <1>3, <1>5, <2>1
    <2>3. l * gap \in Nat
      BY <2>2
    <2>4. ndx' \in Nodes
      BY <1>4, <1>5, <2>1, <2>2, <2>3
    <2>5. WalkInv'
      BY <1>2, <1>5, <2>1, <2>2, <2>4 DEF WalkInv
    <2> QED
      BY <1>6, <1>7, <2>1, <2>5 DEF IInv
  <1>13. CASE StarMoveOn
    <2>1. /\ pc = "check"
          /\ ndx' = IF next_ndx(ndx) = i THEN next_ndx(i) ELSE next_ndx(ndx)
          /\ aliases' = [aliases EXCEPT ![slot] = aliases[ndx']]
          /\ UNCHANGED <<pc, peers, peersToFrom, i, current, l, slot>>
      BY <1>13 DEF StarMoveOn
    <2>2. ndx' \in Nodes
      BY <1>4, <1>5, <2>1
    <2>3. AliasInv'
      <3>1. aliases[ndx'] \in Nodes /\ slot \in Nodes
        BY <1>4, <1>5, <2>2
      <3>2. /\ aliases[ndx'] \in Names /\ aliases[ndx'] # net.bios
            /\ slot \in Names /\ slot # net.bios
        BY <3>1 DEF Nodes
      <3> QED
        BY <1>1, <1>2, <2>1, <3>2 DEF IInv, AliasInv
    <2>4. WalkInv'
      BY <1>2, <1>5, <2>1, <2>2 DEF WalkInv
    <2> QED
      BY <1>7, <2>1, <2>3, <2>4 DEF IInv
  <1>14. CASE StarConnect
    <2>1. /\ pc = "check" /\ l' = l + 1 /\ pc' = "star"
          /\ UNCHANGED <<aliases, i, current, ndx, slot>>
          /\ \/ /\ Connect(current, aliases[slot])
                /\ peersToFrom' = [peersToFrom EXCEPT ![current] = @ \cup {aliases[slot]}]
             \/ UNCHANGED <<peers, peersToFrom>>
      BY <1>14 DEF StarConnect
    <2>2. PeersInv'
      BY <1>1, <1>4, <1>5, <1>7, <2>1, ConnectStep
    <2>3. l + 1 \in 1..links + total
      BY <1>3, <1>5, <2>1
    <2>4. WalkInv'
      BY <1>2, <1>5, <2>1, <2>3 DEF WalkInv
    <2> QED
      BY <1>6, <2>1, <2>2, <2>4 DEF IInv
  <1>15. CASE StarNextNode
    <2>1. /\ pc = "star" /\ i' = next_ndx(i) /\ pc' \in {"star", "done"}
          /\ current' = aliases[i'] /\ ndx' = i' /\ l' = 1
          /\ UNCHANGED <<aliases, peers, peersToFrom, slot>>
      BY <1>15 DEF StarNextNode
    <2>2. i' \in Nodes /\ current' \in Nodes /\ ndx' \in Nodes
      BY <1>4, <1>5, <2>1
    <2>3. WalkInv'
      BY <1>2, <1>3, <1>5, <2>1, <2>2 DEF WalkInv
    <2> QED
      BY <1>6, <1>7, <2>1, <2>3 DEF IInv
  <1>16. CASE Terminating \/ UNCHANGED vars
    <2>1. UNCHANGED vars
      BY <1>16 DEF Terminating
    <2> QED
      BY <1>2, <1>6, <1>7, <2>1 DEF vars, IInv, WalkInv
  <1> QED
    BY <1>8, <1>9, <1>10, <1>11, <1>12, <1>13, <1>14, <1>15, <1>16 DEF Next

-----------------------------------------------------------------------------
LEMMA IInvGives == IInv => TypeOK /\ BiosStaysOut
  <1> SUFFICES ASSUME IInv PROVE TypeOK /\ BiosStaysOut
    OBVIOUS
  <1>1. TypeOK
    <2>1. Nodes \subseteq Names
      BY DEF Nodes
    <2>2. peers \in [Names -> Seq(Names)]
      <3>1. \A n \in Names : peers[n] \in Seq(Nodes)
        BY DEF IInv, PeersInv
      <3>2. \A n \in Names : peers[n] \in Seq(Names)
        BY <2>1, <3>1
      <3> QED
        BY <3>2 DEF IInv, PeersInv
    <2> QED
      BY <2>1, <2>2 DEF IInv, AliasInv, WalkInv, PeersInv, TypeOK
  <1>2. ASSUME NEW n \in Nodes PROVE net.bios \notin PeerSet(n)
    <2>1. peers[n] \in Seq(Nodes)
      BY DEF IInv, PeersInv, Nodes
    <2>2. \A k \in DOMAIN peers[n] : peers[n][k] \in Nodes
      BY <2>1
    <2> QED
      BY <2>2 DEF PeerSet, Nodes
  <1>3. peers[net.bios] = <<>>
    BY DEF IInv, PeersInv
  <1> QED
    BY <1>1, <1>2, <1>3 DEF BiosStaysOut

(* The shapes are connected as Topology has it, whatever is written to the *)
(* configurations afterwards.                                              *)
LEMMA ConfigFollowsTopology == ConfigSpec => Spec
  <1>1. ConfigInit => Init
    BY DEF ConfigInit
  <1>2. [ConfigNext]_cvars => [Next]_vars
    BY DEF ConfigNext, Shape, WriteConfigFile, cvars
  <1> QED
    BY <1>1, <1>2, PTL DEF ConfigSpec, Spec

(* The indices of the loops stay among the nodes, also for the star, and   *)
(* whatever it renames.                                                    *)
THEOREM TypeCorrect == ConfigSpec => []TypeOK
  BY ConfigFollowsTopology, InitIInv, IInvStep, IInvGives, PTL DEF Spec

(* BiosStaysOut: the bios node takes part in no connection, in a network   *)
(* of any size, wherever it stands, and however make_star renames nodes.   *)
THEOREM BiosUnconnected == ConfigSpec => []BiosStaysOut
  BY ConfigFollowsTopology, InitIInv, IInvStep, IInvGives, PTL DEF Spec

-----------------------------------------------------------------------------
(* Rings: every node behind i has the next one for its peer.               *)
RingInv ==
    Shaped = "ring" /\ non_bios >= 2 =>
        /\ pc \in {"ring", "done"}
        /\ \A n \in Names : aliases[n] = n
        /\ \A n \in Nodes :
              peers[n] = IF pc = "done" \/ n < i THEN <<next_ndx(n)>> ELSE <<>>
        /\ pc = "ring" /\ non_bios = 2 => i = start_ndx

LEMMA InitRing == Init => RingInv
  <1> SUFFICES ASSUME Init, Shaped = "ring", non_bios >= 2 PROVE RingInv
    BY DEF RingInv
  <1>1. IInv
    BY InitIInv
  <1>2. /\ start_ndx = IF net.bios = 0 THEN 1 ELSE 0
        /\ start_ndx \in Names /\ start_ndx # net.bios
    BY <1>1, BiosPlace DEF IInv
  <1>3. i = start_ndx
    BY <1>2 DEF Init
  <1>4. total \in Nat /\ Names = 0..total - 1
    BY <1>1, NetNumbers DEF IInv, AliasInv
  <1>5. \A n \in Nodes : ~(n < i)
    BY <1>2, <1>3, <1>4 DEF Nodes
  <1>6. \A n \in Names : peers[n] = <<>> /\ aliases[n] = n
    BY DEF Init
  <1>7. pc = "ring"
    <2>1. ~(non_bios < 2)
      BY <1>1, NetNumbers DEF IInv, AliasInv
    <2> QED
      BY <2>1 DEF Init
  <1> QED
    BY <1>3, <1>5, <1>6, <1>7 DEF RingInv, Nodes

(* What next_ndx is does not change while aliases do not.                  *)
LEMMA NextFixes ==
    ASSUME net' = net, aliases' = aliases, NEW n
    PROVE  next_ndx(n)' = next_ndx(n) /\ start_ndx' = start_ndx
  BY DEF next_ndx, start_ndx, Step, is_bios_ndx, total

(* next_ndx in numbers. *)
LEMMA NextNumbers ==
    ASSUME IInv, NEW n \in Nodes
    PROVE  /\ ComesRound(n) => next_ndx(n) = start_ndx /\ \A m \in Nodes : m <= n
           /\ ~ComesRound(n) =>
                 /\ next_ndx(n) > n
                 /\ \A m \in Nodes : m < next_ndx(n) <=> m < n \/ m = n
  <1>1. AliasInv /\ n \in Names
    BY DEF IInv, Nodes
  <1>2. /\ Step(n) = IF n + 1 = net.bios THEN n + 2 ELSE n + 1
        /\ Step(n) \in 1..total
        /\ ComesRound(n) <=> Step(n) = total
        /\ next_ndx(n) = IF Step(n) = total THEN start_ndx ELSE Step(n)
    BY <1>1, NextNode
  <1>3. total \in Nat /\ Names = 0..total - 1 /\ net.bios \in Names
    BY <1>1, NetNumbers DEF AliasInv
  <1>4. ASSUME ComesRound(n)
        PROVE  next_ndx(n) = start_ndx /\ \A m \in Nodes : m <= n
    BY <1>1, <1>2, <1>3, <1>4 DEF Nodes
  <1>5. ASSUME ~ComesRound(n)
        PROVE  /\ next_ndx(n) > n
               /\ \A m \in Nodes : m < next_ndx(n) <=> m < n \/ m = n
    BY <1>1, <1>2, <1>3, <1>5 DEF Nodes
  <1> QED
    BY <1>4, <1>5

LEMMA RingStep == IInv /\ RingInv /\ [Next]_vars => RingInv'
  <1> SUFFICES ASSUME IInv, RingInv, [Next]_vars PROVE RingInv'
    OBVIOUS
  <1>n. net' = net
    BY DEF Next, vars, Terminating, RingNode, RingPair, MeshPeer, MeshNextNode,
       StarPick, StarMoveOn, StarConnect, StarNextNode
  <1>f. Shaped' = Shaped /\ non_bios' = non_bios
    BY <1>n, NetFixes
  <1> SUFFICES ASSUME Shaped = "ring", non_bios >= 2 PROVE RingInv'
    BY <1>f DEF RingInv
  <1>1. /\ pc \in {"ring", "done"}
        /\ \A n \in Names : aliases[n] = n
        /\ \A n \in Nodes :
              peers[n] = IF pc = "done" \/ n < i THEN <<next_ndx(n)>> ELSE <<>>
        /\ pc = "ring" /\ non_bios = 2 => i = start_ndx
    BY DEF RingInv
  <1>2. /\ total \in Nat /\ total >= 2 /\ Names = 0..total - 1 /\ net.bios \in Names
        /\ non_bios = total - 1
    BY NetNumbers DEF IInv, AliasInv
  <1>3. ASSUME UNCHANGED <<net, aliases>>
        PROVE  /\ Names' = Names /\ Nodes' = Nodes /\ non_bios' = non_bios
               /\ Shaped' = Shaped /\ start_ndx' = start_ndx
               /\ \A n \in Nodes : next_ndx(n)' = next_ndx(n)
    BY <1>3, NetFixes, NextFixes
  <1>4. /\ i \in Nodes /\ start_ndx \in Nodes
        /\ \A n \in Nodes : next_ndx(n) \in Nodes
    BY NodesStay DEF IInv, WalkInv
  <1>5. Nodes \subseteq Names
    BY DEF Nodes
  <1>6. CASE RingNode
    <2>1. /\ pc = "ring" /\ non_bios > 2 /\ UNCHANGED <<net, aliases>>
          /\ peers' = [peers EXCEPT ![i] = Append(@, next_ndx(i))]
          /\ i' = next_ndx(i)
          /\ pc' = IF ComesRound(i) THEN "done" ELSE pc
      <3>1. aliases[i] = i /\ aliases[next_ndx(i)] = next_ndx(i)
        BY <1>1, <1>4, <1>5
      <3> QED
        BY <1>6, <3>1 DEF RingNode, Connect, star
    <2>2. i \in Names /\ DOMAIN peers = Names
      BY <1>4, <1>5 DEF IInv, PeersInv
    <2>3. peers[i] = <<>>
      <3>1. ~(i < i) /\ ~(pc = "done")
        BY <1>2, <2>1, <2>2
      <3> QED
        BY <1>1, <1>4, <3>1
    <2>4. peers'[i] = <<next_ndx(i)>>
      BY <2>1, <2>2, <2>3
    <2>5. \A n \in Nodes : n # i => peers'[n] = peers[n]
      BY <1>5, <2>1, <2>2
    <2>6. ASSUME NEW n \in Nodes
          PROVE  peers'[n] = IF pc' = "done" \/ n < i' THEN <<next_ndx(n)>> ELSE <<>>
      <3>1. pc' = "done" \/ n < i' <=> n < i \/ n = i
        <4>1. CASE ComesRound(i)
          <5>1. n <= i
            BY <1>4, <4>1, NextNumbers
          <5> QED
            BY <1>2, <1>4, <1>5, <2>1, <4>1, <5>1
        <4>2. CASE ~ComesRound(i)
          <5>1. n < i' <=> n < i \/ n = i
            BY <1>4, <2>1, <4>2, NextNumbers
          <5> QED
            BY <2>1, <4>2, <5>1
        <4> QED
          BY <4>1, <4>2
      <3>2. CASE n = i
        BY <2>4, <3>1, <3>2
      <3>3. CASE n # i
        <4>1. peers'[n] = IF n < i THEN <<next_ndx(n)>> ELSE <<>>
          BY <1>1, <2>1, <2>5, <3>3
        <4> QED
          BY <3>1, <3>3, <4>1
      <3> QED
        BY <3>2, <3>3
    <2>7. ~(non_bios = 2) /\ pc' \in {"ring", "done"}
      BY <1>2, <2>1
    <2> QED
      BY <1>1, <1>3, <2>1, <2>6, <2>7 DEF RingInv
  <1>7. CASE RingPair
    <2> DEFINE n0 == start_ndx
               n1 == next_ndx(start_ndx)
    <2>1. /\ pc = "ring" /\ non_bios = 2 /\ UNCHANGED <<net, aliases>> /\ pc' = "done"
          /\ peers' = [peers EXCEPT ![n0] = Append(@, n1), ![n1] = Append(@, n0)]
      <3>1. aliases[n0] = n0 /\ aliases[n1] = n1
        BY <1>1, <1>4, <1>5
      <3> QED
        BY <1>7, <3>1 DEF RingPair, star
    <2>2. /\ n0 = (IF net.bios = 0 THEN 1 ELSE 0)
          /\ Step(n0) = IF n0 + 1 = net.bios THEN n0 + 2 ELSE n0 + 1
          /\ n1 = IF Step(n0) = total THEN n0 ELSE Step(n0)
      BY <1>4, <1>5, BiosPlace, NextNode DEF IInv
    <2>3. /\ Step(n1) = IF n1 + 1 = net.bios THEN n1 + 2 ELSE n1 + 1
          /\ next_ndx(n1) = IF Step(n1) = total THEN n0 ELSE Step(n1)
      BY <1>4, <1>5, NextNode DEF IInv
    <2>4. n0 \in Nodes /\ n1 \in Nodes
      BY <1>4
    <2> HIDE DEF n0, n1
    <2>5. total = 3 /\ net.bios \in {0, 1, 2}
      BY <1>2, <2>1
    <2>6. n0 # n1 /\ next_ndx(n1) = n0
      BY <2>2, <2>3, <2>5
    <2>7. \A n \in Nodes : n = n0 \/ n = n1
      BY <1>2, <2>2, <2>4, <2>5 DEF Nodes
    <2>8. peers[n0] = <<>> /\ peers[n1] = <<>>
      <3>1. i = n0 /\ ~(n0 < n0) /\ ~(n1 < n0)
        BY <1>1, <1>2, <2>1, <2>2, <2>5 DEF n0
      <3> QED
        BY <1>1, <2>1, <2>4, <3>1
    <2>9. n0 \in Names /\ n1 \in Names /\ DOMAIN peers = Names
      BY <1>5, <2>4 DEF IInv, PeersInv
    <2>10. peers'[n0] = <<n1>> /\ peers'[n1] = <<n0>>
      BY <2>1, <2>6, <2>8, <2>9
    <2>11. \A n \in Nodes : peers'[n] = <<next_ndx(n)>>
      BY <2>6, <2>7, <2>10 DEF n0, n1
    <2> QED
      BY <1>1, <1>3, <2>1, <2>11 DEF RingInv
  <1>8. CASE Terminating \/ UNCHANGED vars
    <2>1. UNCHANGED vars
      BY <1>8 DEF Terminating
    <2>2. UNCHANGED <<net, aliases, pc, peers, i>>
      BY <2>1 DEF vars
    <2> QED
      BY <1>1, <1>3, <2>2 DEF RingInv
  <1>9. ~(MeshPeer \/ MeshNextNode \/ StarPick \/ StarMoveOn \/ StarConnect \/ StarNextNode)
    BY <1>1 DEF MeshPeer, MeshNextNode, StarPick, StarMoveOn, StarConnect, StarNextNode
  <1> QED
    BY <1>6, <1>7, <1>8, <1>9 DEF Next

(* No two nodes have the same next one. *)
LEMMA NextInjective ==
    ASSUME IInv, NEW m \in Nodes, NEW k \in Nodes, next_ndx(m) = next_ndx(k)
    PROVE  m = k
  <1>1. /\ total \in Nat /\ Names = 0..total - 1 /\ Nodes \subseteq Names
    BY NetNumbers DEF IInv, AliasInv, Nodes
  <1>2. \A n \in Nodes : start_ndx <= n
    BY <1>1, BiosPlace DEF IInv, Nodes
  <1>3. m \in Nat /\ k \in Nat /\ start_ndx \in Nat
    <2>1. start_ndx \in Nodes
      BY NodesStay
    <2>2. \A n \in Nodes : n \in Nat
      BY <1>1
    <2> QED
      BY <2>1, <2>2
  <1>4. ASSUME ComesRound(m), ComesRound(k) PROVE m = k
    <2>1. k <= m /\ m <= k
      BY <1>4, NextNumbers
    <2> QED
      BY <1>3, <2>1
  <1>5. ASSUME NEW a \in Nodes, NEW b \in Nodes, next_ndx(a) = next_ndx(b),
               ComesRound(a), ~ComesRound(b)
        PROVE  FALSE
    <2>1. next_ndx(a) = start_ndx /\ next_ndx(b) > b
      BY <1>5, NextNumbers
    <2>2. start_ndx <= b /\ b \in Nat
      BY <1>1, <1>2
    <2> QED
      BY <1>3, <1>5, <2>1, <2>2
  <1>6. ASSUME ~ComesRound(m), ~ComesRound(k) PROVE m = k
    <2>1. next_ndx(m) > m /\ next_ndx(k) > k
      BY <1>6, NextNumbers
    <2>2. m < next_ndx(k) /\ k < next_ndx(m)
      BY <2>1
    <2>3. (m < k \/ m = k) /\ (k < m \/ k = m)
      BY <1>6, <2>2, NextNumbers
    <2> QED
      BY <1>3, <2>3
  <1> QED
    BY <1>4, <1>5, <1>6

(* Every node is the next one of another. *)
LEMMA PreviousNode ==
    ASSUME IInv, NEW n \in Nodes
    PROVE  \E m \in Nodes : next_ndx(m) = n
  <1>1. /\ total \in Nat /\ total >= 2 /\ Names = 0..total - 1 /\ net.bios \in Names
        /\ AliasInv
    BY NetNumbers DEF IInv, AliasInv
  <1>2. start_ndx = IF net.bios = 0 THEN 1 ELSE 0
    BY <1>1, BiosPlace
  <1> DEFINE m == IF n = start_ndx
                  THEN IF net.bios = total - 1 THEN total - 2 ELSE total - 1
                  ELSE IF n - 1 = net.bios THEN n - 2 ELSE n - 1
  <1>3. n \in 0..total - 1 /\ n # net.bios
    BY <1>1 DEF Nodes
  <1>4. m \in 0..total - 1 /\ m # net.bios
    BY <1>1, <1>2, <1>3
  <1>5. (IF m + 1 = net.bios THEN m + 2 ELSE m + 1) =
           IF n = start_ndx THEN total ELSE n
    BY <1>1, <1>2, <1>3
  <1> HIDE DEF m
  <1>6. /\ Step(m) = IF m + 1 = net.bios THEN m + 2 ELSE m + 1
        /\ next_ndx(m) = IF Step(m) = total THEN start_ndx ELSE Step(m)
    BY <1>1, <1>4, NextNode
  <1>7. next_ndx(m) = n
    BY <1>1, <1>3, <1>5, <1>6
  <1> QED
    BY <1>1, <1>4, <1>7 DEF Nodes

LEMMA RingFollows == IInv /\ RingInv => RingIsCycle
  <1> SUFFICES ASSUME IInv, RingInv, pc = "done", Shaped = "ring", non_bios >= 2,
                      NEW n \in Nodes
               PROVE  /\ Len(peers[n]) = 1
                      /\ Cardinality({m \in Nodes : n \in PeerSet(m)}) = 1
    BY DEF RingIsCycle
  <1>1. \A m \in Nodes : peers[m] = <<next_ndx(m)>>
    BY DEF RingInv
  <1>2. ASSUME NEW m \in Nodes PROVE PeerSet(m) = {next_ndx(m)}
    <2>1. peers[m] = <<next_ndx(m)>>
      BY <1>1
    <2>2. DOMAIN peers[m] = {1} /\ peers[m][1] = next_ndx(m)
      BY <2>1
    <2> QED
      BY <2>2 DEF PeerSet
  <1>3. PICK p \in Nodes : next_ndx(p) = n
    BY PreviousNode
  <1>4. {m \in Nodes : n \in PeerSet(m)} = {p}
    <2>1. \A m \in Nodes : n \in PeerSet(m) <=> next_ndx(m) = n
      BY <1>2
    <2>2. \A m \in Nodes : next_ndx(m) = n => m = p
      BY <1>3, NextInjective
    <2> QED
      BY <1>3, <2>1, <2>2
  <1>5. Cardinality({p}) = 1
    BY FS_Singleton
  <1> QED
    BY <1>1, <1>4, <1>5

(* RingIsCycle: a finished ring of any number of nodes leads from every    *)
(* node to one other and back to every node from one, over the place of    *)
(* the bios node, wherever it is.                                          *)
THEOREM RingsClose == ConfigSpec => []RingIsCycle
  BY ConfigFollowsTopology, InitIInv, IInvStep, InitRing, RingStep, RingFollows,
     PTL DEF Spec

-----------------------------------------------------------------------------
(* Meshes: a node has every peer that the offsets so far lead to, unless   *)
(* they lead to the node itself or to bios.                                *)
MeshInv ==
    Shaped = "mesh" =>
        /\ pc \in {"mesh", "done"}
        /\ \A n \in Names : aliases[n] = n
        /\ \A n \in Nodes, b \in Nodes, j \in 1..non_bios - 1 :
              (n + j) % total = b /\ b # n
              /\ (pc = "done" \/ n < i \/ (n = i /\ j < l)) =>
                 \E k \in DOMAIN peers[n] : peers[n][k] = b

LEMMA InitMesh == Init => MeshInv
  <1> SUFFICES ASSUME Init, Shaped = "mesh" PROVE MeshInv
    BY DEF MeshInv
  <1>1. IInv /\ pc = "mesh" /\ l = 1
    BY InitIInv DEF Init
  <1>2. /\ total \in Nat /\ Names = 0..total - 1
    BY <1>1, NetNumbers DEF IInv, AliasInv
  <1>3. \A n \in Nodes : ~(n < i)
    BY <1>2 DEF Init, Nodes
  <1>4. \A j \in 1..non_bios - 1 : ~(j < 1)
    BY <1>1, NetNumbers DEF IInv, AliasInv
  <1>5. \A n \in Names : aliases[n] = n
    BY DEF Init
  <1> QED
    BY <1>1, <1>3, <1>4, <1>5 DEF MeshInv

(* The check for an established connection never holds anything back.      *)
LEMMA NeverEstablished ==
    ASSUME NEW name, NEW peer
    PROVE  NotEstablished(name, peer)
  <1> DEFINE S == peersToFrom[peer] \cap {name}
  <1>1. IsFiniteSet({name}) /\ Cardinality({name}) = 1
    BY FS_Singleton
  <1>2. S \in SUBSET {name}
    OBVIOUS
  <1> HIDE DEF S
  <1>3. IsFiniteSet(S) /\ Cardinality(S) <= Cardinality({name})
    BY <1>1, <1>2, FS_Subset
  <1>4. Cardinality(S) \in Nat
    BY <1>3, FS_CardinalityType
  <1>5. Cardinality(S) < 2
    BY <1>1, <1>3, <1>4
  <1> QED
    BY <1>5 DEF S, NotEstablished

LEMMA MeshStep == IInv /\ MeshInv /\ [Next]_vars => MeshInv'
  <1> SUFFICES ASSUME IInv, MeshInv, [Next]_vars PROVE MeshInv'
    OBVIOUS
  <1>n. net' = net
    BY DEF Next, vars, Terminating, RingNode, RingPair, MeshPeer, MeshNextNode,
       StarPick, StarMoveOn, StarConnect, StarNextNode
  <1>f. /\ Shaped' = Shaped /\ non_bios' = non_bios /\ total' = total
        /\ Names' = Names /\ Nodes' = Nodes
    BY <1>n, NetFixes
  <1> SUFFICES ASSUME Shaped = "mesh" PROVE MeshInv'
    BY <1>f DEF MeshInv
  <1> DEFINE Has(n, b) == \E k \in DOMAIN peers[n] : peers[n][k] = b
             Due(n, j) == pc = "done" \/ n < i \/ (n = i /\ j < l)
  <1>1. /\ pc \in {"mesh", "done"}
        /\ \A n \in Names : aliases[n] = n
        /\ \A n \in Nodes, b \in Nodes, j \in 1..non_bios - 1 :
              (n + j) % total = b /\ b # n /\ Due(n, j) => Has(n, b)
    BY DEF MeshInv
  <1>2. /\ total \in Nat /\ total >= 2 /\ Names = 0..total - 1 /\ net.bios \in Names
        /\ non_bios = total - 1 /\ Nodes \subseteq Names
    BY NetNumbers DEF IInv, AliasInv, Nodes
  <1>3. i \in Nodes /\ i \in Nat /\ l \in Nat /\ l >= 1
    <2>1. i \in Nodes /\ l \in 1..links + total
      BY DEF IInv, WalkInv
    <2>2. links \in Nat
      BY StarNumbers DEF IInv, AliasInv
    <2> QED
      BY <1>2, <2>1, <2>2
  \* It is enough to look at the peers of a node and an offset.
  <1>4. ASSUME UNCHANGED aliases, pc' \in {"mesh", "done"},
               \A n \in Nodes, b \in Nodes, j \in 1..non_bios - 1 :
                  (n + j) % total = b /\ b # n /\ Due(n, j)' => Has(n, b)'
        PROVE  MeshInv'
    BY <1>1, <1>f, <1>4 DEF MeshInv
  <1>5. CASE MeshPeer
    <2> DEFINE peer == aliases[skip_ndx(i, l)]
    <2>1. /\ UNCHANGED <<pc, aliases, i>> /\ l' = l + 1 /\ l < non_bios
          /\ Connect(i, peer)
      <3>1. aliases[i] = i
        BY <1>1, <1>2, <1>3
      <3>2. NotEstablished(i, peer)
        BY NeverEstablished
      <3> QED
        BY <1>5, <3>1, <3>2 DEF MeshPeer
    <2> HIDE DEF peer
    <2>2. peers[i] \in Seq(Nodes) /\ DOMAIN peers = Names /\ i \in Names
      BY <1>2, <1>3 DEF IInv, PeersInv
    <2>3. peers' = [peers EXCEPT ![i] = Append(@, peer)]
      BY <2>1 DEF Connect
    <2>4. peers'[i] = Append(peers[i], peer)
      BY <2>2, <2>3
    <2>5. \E k \in DOMAIN peers'[i] : peers'[i][k] = peer
      <3>1. Len(peers[i]) + 1 \in DOMAIN peers'[i] /\ peers'[i][Len(peers[i]) + 1] = peer
        BY <2>2, <2>4
      <3> QED
        BY <3>1
    <2>6. ASSUME NEW n \in Nodes, NEW b, Has(n, b) PROVE Has(n, b)'
      <3>1. CASE n # i
        <4>1. peers'[n] = peers[n]
          BY <1>2, <2>2, <2>3, <3>1
        <4> QED
          BY <2>6, <4>1
      <3>2. CASE n = i
        <4>1. PICK k \in DOMAIN peers[i] : peers[i][k] = b
          BY <2>6, <3>2
        <4>2. k \in DOMAIN peers'[i] /\ peers'[i][k] = b
          BY <2>2, <2>4, <4>1
        <4> QED
          BY <2>1, <3>2, <4>2
      <3> QED
        BY <3>1, <3>2
    <2>7. ASSUME NEW n \in Nodes, NEW b \in Nodes, NEW j \in 1..non_bios - 1,
                 (n + j) % total = b, b # n, Due(n, j)'
          PROVE  Has(n, b)'
      <3>1. CASE Due(n, j)
        <4>1. Has(n, b)
          BY <1>1, <2>7, <3>1
        <4> QED
          BY <2>6, <4>1
      <3>2. CASE ~Due(n, j)
        <4>1. n = i /\ j = l
          <5>1. n = i /\ j < l + 1 /\ ~(j < l)
            BY <2>1, <2>7, <3>2
          <5> QED
            BY <1>3, <5>1
        <4>2. skip_ndx(i, l) = b
          <5>1. i \in Names /\ b \in Names /\ b # net.bios /\ AliasInv
            BY <1>2, <1>3 DEF Nodes, IInv
          <5> QED
            BY <1>3, <2>7, <4>1, <5>1, SkipStays
        <4>3. peer = b
          BY <1>1, <1>2, <4>2 DEF peer
        <4> QED
          BY <2>5, <4>1, <4>3
      <3> QED
        BY <3>1, <3>2
    <2> HIDE DEF Has, Due
    <2> QED
      BY <1>1, <1>4, <2>1, <2>7
  <1>6. CASE MeshNextNode
    <2>1. /\ UNCHANGED <<aliases, peers>> /\ l >= non_bios /\ l' = 1 /\ pc = "mesh"
          /\ i' = next_ndx(i) /\ pc' = IF ComesRound(i) THEN "done" ELSE pc
      BY <1>6 DEF MeshNextNode
    <2>2. ASSUME NEW n \in Nodes, NEW j \in 1..non_bios - 1, Due(n, j)'
          PROVE  Due(n, j)
      <3>1. j \in Nat /\ j < l /\ ~(j < 1) /\ n \in Nat
        BY <1>2, <1>3, <2>1
      <3>2. CASE ComesRound(i)
        <4>1. n <= i
          BY <1>3, <3>2, NextNumbers
        <4> QED
          BY <1>3, <3>1, <4>1
      <3>3. CASE ~ComesRound(i)
        <4>1. n < i' <=> n < i \/ n = i
          BY <1>3, <2>1, <3>3, NextNumbers
        <4>2. n < i'
          BY <2>1, <2>2, <3>1, <3>3
        <4> QED
          BY <3>1, <4>1, <4>2
      <3> QED
        BY <3>2, <3>3
    <2>3. ASSUME NEW n \in Nodes, NEW b \in Nodes, NEW j \in 1..non_bios - 1,
                 (n + j) % total = b, b # n, Due(n, j)'
          PROVE  Has(n, b)'
      <3>1. Has(n, b)
        BY <1>1, <2>2, <2>3
      <3> QED
        BY <2>1, <3>1
    <2>4. pc' \in {"mesh", "done"}
      BY <2>1
    <2> HIDE DEF Has, Due
    <2> QED
      BY <1>4, <2>1, <2>3, <2>4
  <1>7. CASE Terminating \/ UNCHANGED vars
    <2>1. UNCHANGED vars
      BY <1>7 DEF Terminating
    <2>2. UNCHANGED <<aliases, pc, peers, i, l>>
      BY <2>1 DEF vars
    <2> QED
      BY <1>1, <1>4, <2>2
  <1>8. ~(RingNode \/ RingPair \/ StarPick \/ StarMoveOn \/ StarConnect \/ StarNextNode)
    BY <1>1 DEF RingNode, RingPair, StarPick, StarMoveOn, StarConnect, StarNextNode
  <1> QED
    BY <1>5, <1>6, <1>7, <1>8 DEF Next

(* Of any two nodes one reaches the other by an offset that is tried.      *)
LEMMA MeshFollows == IInv /\ MeshInv => MeshIsComplete
  <1> SUFFICES ASSUME IInv, MeshInv, pc = "done", Shaped = "mesh",
                      NEW a \in Nodes, NEW b \in Nodes, a # b
               PROVE  Linked(a, b)
    BY DEF MeshIsComplete
  <1>1. /\ total \in Nat /\ total >= 2 /\ Names = 0..total - 1 /\ net.bios \in Names
        /\ non_bios = total - 1 /\ Nodes \subseteq Names
    BY NetNumbers DEF IInv, AliasInv, Nodes
  <1>2. ASSUME NEW m \in Nodes, NEW n \in Nodes, m # n, NEW j \in 1..non_bios - 1,
               (m + j) % total = n
        PROVE  n \in PeerSet(m)
    BY <1>2 DEF MeshInv, PeerSet
  <1>3. ASSUME NEW n \in 0..total - 1
        PROVE  n % total = n /\ (n + total) % total = n
    BY <1>1
  <1>4. a \in 0..total - 1 /\ b \in 0..total - 1 /\ net.bios \in 0..total - 1
        /\ a # net.bios /\ b # net.bios
    BY <1>1 DEF Nodes
  <1>5. total >= 3
    BY <1>1, <1>4
  <1> DEFINE d == IF b > a THEN b - a ELSE b - a + total
  <1>6. d \in 1..total - 1 /\ (a + d) % total = b
    <2>1. CASE b > a
      BY <1>1, <1>3, <1>4, <2>1
    <2>2. CASE ~(b > a)
      <3>1. a + d = b + total /\ d \in 1..total - 1
        BY <1>1, <1>4, <2>2
      <3> QED
        BY <1>3, <1>4, <3>1
    <2> QED
      BY <2>1, <2>2
  <1>7. CASE d < total - 1
    <2>1. d \in 1..non_bios - 1
      BY <1>1, <1>6, <1>7
    <2> HIDE DEF d
    <2>2. b \in PeerSet(a)
      BY <1>2, <1>6, <2>1
    <2> QED
      BY <2>2 DEF Linked
  <1>8. CASE d = total - 1
    <2>1. b + 1 = a \/ b + 1 = a + total
      BY <1>1, <1>4, <1>8
    <2>2. (b + 1) % total = a
      <3>1. CASE b + 1 = a
        BY <1>3, <1>4, <3>1
      <3>2. CASE b + 1 = a + total
        BY <1>3, <1>4, <3>2
      <3> QED
        BY <2>1, <3>1, <3>2
    <2>3. 1 \in 1..non_bios - 1
      BY <1>1, <1>5
    <2>4. a \in PeerSet(b)
      BY <1>2, <2>2, <2>3
    <2> QED
      BY <2>4 DEF Linked
  <1>9. d < total - 1 \/ d = total - 1
    <2> HIDE DEF d
    <2> QED
      BY <1>1, <1>6
  <1> QED
    BY <1>7, <1>8, <1>9

(* MeshIsComplete: in a finished mesh every two nodes are connected, for   *)
(* any number of nodes, also past the place of the bios node.              *)
THEOREM MeshesComplete == ConfigSpec => []MeshIsComplete
  BY ConfigFollowsTopology, InitIInv, IInvStep, InitMesh, MeshStep, MeshFollows,
     PTL DEF Spec

-----------------------------------------------------------------------------
(* No node is led to itself, and none is given peers twice.                *)

(* next_ndx moves on when there are two nodes to move between.             *)
LEMMA NextMoves ==
    ASSUME IInv, non_bios >= 2, NEW n \in Nodes
    PROVE  next_ndx(n) # n
  <1>1. /\ total \in Nat /\ Names = 0..total - 1 /\ net.bios \in Names
        /\ non_bios = total - 1 /\ n \in Names /\ n # net.bios
    BY NetNumbers DEF IInv, AliasInv, Nodes
  <1>2. /\ Step(n) = IF n + 1 = net.bios THEN n + 2 ELSE n + 1
        /\ next_ndx(n) = IF Step(n) = total THEN start_ndx ELSE Step(n)
        /\ start_ndx = IF net.bios = 0 THEN 1 ELSE 0
    BY <1>1, NextNode, BiosPlace DEF IInv
  <1> QED
    BY <1>1, <1>2

(* skip_ndx leaves the node from which it starts.                          *)
LEMMA SkipMoves ==
    ASSUME IInv, NEW from \in Nodes, NEW offset \in 1..non_bios - 1
    PROVE  skip_ndx(from, offset) # from
  <1>1. /\ total \in Nat /\ Names = 0..total - 1 /\ net.bios \in Names
        /\ non_bios = total - 1 /\ from \in Names /\ from # net.bios
        /\ offset \in Nat /\ AliasInv
    BY NetNumbers DEF IInv, AliasInv, Nodes
  <1>2. total >= 3 /\ non_bios >= 2
    BY <1>1
  <1> DEFINE g == CHOOSE f : Tries(f, from, offset)
  <1>3. Tries(g, from, offset)
    BY <1>1, TriesExist
  <1>4. skip_ndx(from, offset) = g[IF total > 2 THEN total - 2 ELSE 0]
    BY Zenon DEF skip_ndx, Tries, Turn
  <1> HIDE DEF g
  <1>5. \A k \in Nat : g[k] \in Names /\ (k > 0 => g[k] # net.bios)
    BY <1>1, <1>3, TriesLeaveBios
  <1>6. ASSUME NEW k \in Nat
        PROVE  g[k] = IF k = 0 THEN (from + offset) % total ELSE Turn(g[k - 1], from)
    BY <1>3, Zenon DEF Tries
  <1>7. skip_ndx(from, offset) = g[total - 2] /\ total - 2 \in Nat
    BY <1>1, <1>2, <1>4
  <1>8. next_ndx(from) # from
    BY <1>2, NextMoves
  <1>9. CASE total > 3
    <2>1. total - 3 \in Nat /\ total - 3 > 0 /\ (total - 2) - 1 = total - 3 /\ total - 2 # 0
      BY <1>1, <1>9
    <2>2. g[total - 3] \in Names /\ g[total - 3] # net.bios
      BY <1>5, <2>1
    <2>3. g[total - 2] = Turn(g[total - 3], from)
      BY <1>6, <1>7, <2>1
    <2>4. ~is_bios_ndx(g[total - 3])
      BY <1>1, <2>2, BiosPlace
    <2> QED
      BY <1>7, <1>8, <2>3, <2>4 DEF Turn
  <1>10. CASE total = 3
    <2>1. offset = 1 /\ from \in {0, 1, 2} /\ net.bios \in {0, 1, 2}
      BY <1>1, <1>10
    <2>2. g[0] = (from + 1) % 3 /\ g[1] = Turn(g[0], from)
      BY <1>6, <1>10, <2>1
    <2>3. 1 % 3 = 1 /\ 2 % 3 = 2 /\ 3 % 3 = 0
      OBVIOUS
    <2>4. g[0] = IF from = 2 THEN 0 ELSE from + 1
      BY <2>1, <2>2, <2>3
    <2>5. g[0] \in Names /\ g[0] # from
      BY <1>1, <1>10, <2>1, <2>4
    <2>6. /\ Step(g[0]) = IF g[0] + 1 = net.bios THEN g[0] + 2 ELSE g[0] + 1
          /\ next_ndx(g[0]) = IF Step(g[0]) = total THEN start_ndx ELSE Step(g[0])
          /\ start_ndx = IF net.bios = 0 THEN 1 ELSE 0
      BY <1>1, <2>5, NextNode, BiosPlace
    <2>7. is_bios_ndx(g[0]) <=> g[0] = net.bios
      BY <1>1, <2>5, BiosPlace
    <2>8. g[1] # from
      <3>1. CASE g[0] = net.bios
        <4>1. g[1] = next_ndx(g[0])
          BY <2>2, <2>7, <3>1 DEF Turn
        <4>2. next_ndx(g[0]) # from
          BY <1>1, <1>10, <2>1, <2>4, <2>6, <3>1
        <4> QED
          BY <4>1, <4>2
      <3>2. CASE g[0] # net.bios
        BY <2>2, <2>5, <2>7, <3>2 DEF Turn
      <3> QED
        BY <3>1, <3>2
    <2> QED
      BY <1>7, <1>10, <2>8
  <1> QED
    BY <1>1, <1>2, <1>9, <1>10

(* Nobody has itself for a peer or more peers than its rounds gave it.     *)
CountInv ==
    /\ Shaped = "ring" /\ non_bios < 2 =>
          pc = "done" /\ \A n \in Nodes : peers[n] = <<>>
    /\ Shaped = "mesh" =>
          /\ l <= non_bios
          /\ \A n \in Nodes :
                /\ Len(peers[n]) = IF pc = "done" \/ n < i THEN non_bios - 1
                                   ELSE IF n = i THEN l - 1 ELSE 0
                /\ \A k \in DOMAIN peers[n] : peers[n][k] # n

LEMMA InitCount == Init => CountInv
  <1> SUFFICES ASSUME Init PROVE CountInv
    OBVIOUS
  <1>1. /\ total \in Nat /\ Names = 0..total - 1 /\ Nodes \subseteq Names
        /\ non_bios \in Nat /\ non_bios >= 1
    BY NetNumbers DEF Init, Nodes
  <1>2. \A n \in Nodes : peers[n] = <<>> /\ ~(n < i) /\ l = 1
    BY <1>1 DEF Init, Nodes
  <1>3. Shaped = "ring" /\ non_bios < 2 => pc = "done"
    BY DEF Init
  <1>4. Shaped = "mesh" => pc = "mesh"
    BY DEF Init
  <1>5. ASSUME NEW n \in Nodes, pc = "mesh"
        PROVE  /\ Len(peers[n]) = IF pc = "done" \/ n < i THEN non_bios - 1
                                  ELSE IF n = i THEN l - 1 ELSE 0
               /\ \A k \in DOMAIN peers[n] : peers[n][k] # n
    <2>1. peers[n] = <<>> /\ ~(n < i) /\ l = 1
      BY <1>2
    <2> QED
      BY <1>5, <2>1
  <1>6. l <= non_bios
    BY <1>1 DEF Init
  <1> QED
    BY <1>2, <1>3, <1>4, <1>5, <1>6 DEF CountInv

LEMMA CountStep == IInv /\ MeshInv /\ CountInv /\ [Next]_vars => CountInv'
  <1> SUFFICES ASSUME IInv, MeshInv, CountInv, [Next]_vars PROVE CountInv'
    OBVIOUS
  <1>n. net' = net
    BY DEF Next, vars, Terminating, RingNode, RingPair, MeshPeer, MeshNextNode,
       StarPick, StarMoveOn, StarConnect, StarNextNode
  <1>f. /\ Shaped' = Shaped /\ non_bios' = non_bios /\ total' = total
        /\ Names' = Names /\ Nodes' = Nodes
    BY <1>n, NetFixes
  <1>1. /\ total \in Nat /\ Names = 0..total - 1 /\ Nodes \subseteq Names
        /\ non_bios \in Nat /\ non_bios = total - 1 /\ non_bios >= 1
    BY NetNumbers DEF IInv, AliasInv, Nodes
  <1>2. CASE UNCHANGED vars
    BY <1>2, <1>f DEF vars, CountInv
  <1>3. CASE Shaped = "ring" /\ non_bios < 2
    <2>1. pc = "done"
      BY <1>3 DEF CountInv
    <2>2. ~(non_bios > 2) /\ ~(non_bios = 2)
      BY <1>1, <1>3
    <2>3. UNCHANGED vars
      BY <2>1 DEF Next, Terminating, RingNode, RingPair, MeshPeer, MeshNextNode,
         StarPick, StarMoveOn, StarConnect, StarNextNode
    <2> QED
      BY <1>2, <2>3
  <1>4. CASE Shaped = "mesh"
    <2>0. Shaped # "ring"
      BY <1>4
    <2>1. /\ pc \in {"mesh", "done"} /\ \A n \in Names : aliases[n] = n
          /\ l <= non_bios
          /\ \A n \in Nodes :
                /\ Len(peers[n]) = IF pc = "done" \/ n < i THEN non_bios - 1
                                   ELSE IF n = i THEN l - 1 ELSE 0
                /\ \A k \in DOMAIN peers[n] : peers[n][k] # n
      BY <1>4 DEF MeshInv, CountInv
    <2>2. i \in Nodes /\ i \in Nat /\ l \in Nat /\ l >= 1
      <3>1. i \in Nodes /\ l \in 1..links + total
        BY DEF IInv, WalkInv
      <3>2. links \in Nat
        BY StarNumbers DEF IInv, AliasInv
      <3> QED
        BY <1>1, <3>1, <3>2
    <2>3. ASSUME l' <= non_bios,
                 \A n \in Nodes :
                    /\ Len(peers'[n]) = IF pc' = "done" \/ n < i' THEN non_bios - 1
                                        ELSE IF n = i' THEN l' - 1 ELSE 0
                    /\ \A k \in DOMAIN peers'[n] : peers'[n][k] # n
          PROVE  CountInv'
      BY <1>f, <2>0, <2>3 DEF CountInv
    <2>4. CASE MeshPeer
      <3> DEFINE peer == aliases[skip_ndx(i, l)]
      <3>1. /\ UNCHANGED <<pc, aliases, i>> /\ l' = l + 1 /\ l < non_bios /\ pc = "mesh"
            /\ Connect(i, peer)
        <4>1. aliases[i] = i
          BY <1>1, <2>1, <2>2
        <4>2. NotEstablished(i, peer)
          BY NeverEstablished
        <4> QED
          BY <2>4, <4>1, <4>2 DEF MeshPeer
      <3>2. peer # i /\ peer \in Nodes
        <4>1. l \in 1..non_bios - 1 /\ total >= 3
          BY <1>1, <2>2, <3>1
        <4>2. skip_ndx(i, l) # i /\ skip_ndx(i, l) \in Nodes
          BY <2>2, <4>1, SkipMoves, NodesStay
        <4> QED
          BY <1>1, <2>1, <4>2
      <3> HIDE DEF peer
      <3>3. peers[i] \in Seq(Nodes) /\ DOMAIN peers = Names /\ i \in Names
        BY <1>1, <2>2 DEF IInv, PeersInv
      <3>4. peers' = [peers EXCEPT ![i] = Append(@, peer)]
        BY <3>1 DEF Connect
      <3>5. peers'[i] = Append(peers[i], peer)
        BY <3>3, <3>4
      <3>6. ASSUME NEW n \in Nodes
            PROVE  /\ Len(peers'[n]) = IF pc' = "done" \/ n < i' THEN non_bios - 1
                                       ELSE IF n = i' THEN l' - 1 ELSE 0
                   /\ \A k \in DOMAIN peers'[n] : peers'[n][k] # n
        <4>1. CASE n = i
          <5>1. Len(peers[i]) = l - 1
            BY <2>1, <2>2, <3>1
          <5>2. Len(peers'[i]) = l
            BY <2>2, <3>3, <3>5, <5>1
          <5>3. \A k \in DOMAIN peers'[i] : peers'[i][k] # i
            <6>1. \A k \in DOMAIN peers[i] : peers[i][k] # i
              BY <2>1, <2>2
            <6> QED
              BY <3>2, <3>3, <3>5, <6>1
          <5>4. ~(i < i) /\ pc' # "done" /\ l' - 1 = l
            BY <2>2, <3>1
          <5> QED
            BY <3>1, <4>1, <5>2, <5>3, <5>4
        <4>2. CASE n # i
          <5>1. peers'[n] = peers[n]
            BY <1>1, <3>3, <3>4, <4>2
          <5> QED
            BY <2>1, <3>1, <4>2, <5>1
        <4> QED
          BY <4>1, <4>2
      <3>7. l' <= non_bios
        BY <1>1, <2>2, <3>1
      <3> QED
        BY <2>3, <3>6, <3>7
    <2>5. CASE MeshNextNode
      <3>1. /\ UNCHANGED <<aliases, peers>> /\ l >= non_bios /\ l' = 1 /\ pc = "mesh"
            /\ i' = next_ndx(i) /\ pc' = IF ComesRound(i) THEN "done" ELSE pc
        BY <2>5 DEF MeshNextNode
      <3>2. l = non_bios /\ l' <= non_bios
        BY <1>1, <2>1, <2>2, <3>1
      <3>3. ASSUME NEW n \in Nodes
            PROVE  Len(peers'[n]) = IF pc' = "done" \/ n < i' THEN non_bios - 1
                                    ELSE IF n = i' THEN l' - 1 ELSE 0
        <4>1. n \in Nat
          BY <1>1
        <4>2. Len(peers'[n]) = IF n < i \/ n = i THEN non_bios - 1 ELSE 0
          BY <2>1, <2>2, <3>1, <3>2, <4>1
        <4>3. CASE ComesRound(i)
          <5>1. n <= i
            BY <2>2, <4>3, NextNumbers
          <5> QED
            BY <2>2, <3>1, <4>1, <4>2, <4>3, <5>1
        <4>4. CASE ~ComesRound(i)
          <5>1. n < i' <=> n < i \/ n = i
            BY <2>2, <3>1, <4>4, NextNumbers
          <5> QED
            BY <3>1, <4>2, <4>4, <5>1
        <4> QED
          BY <4>3, <4>4
      <3> QED
        BY <2>1, <2>3, <3>1, <3>2, <3>3
    <2>6. CASE Terminating
      BY <1>2, <2>6 DEF Terminating
    <2>7. ~(RingNode \/ RingPair \/ StarPick \/ StarMoveOn \/ StarConnect \/ StarNextNode)
      BY <2>1 DEF RingNode, RingPair, StarPick, StarMoveOn, StarConnect, StarNextNode
    <2> QED
      BY <1>2, <2>4, <2>5, <2>6, <2>7 DEF Next
  <1>5. CASE Shaped # "mesh" /\ ~(Shaped = "ring" /\ non_bios < 2)
    BY <1>f, <1>5 DEF CountInv
  <1> QED
    BY <1>3, <1>4, <1>5

-----------------------------------------------------------------------------
(* What Reach adds to the nodes it has.                                    *)
Widen(R) == R \cup {b \in Nodes \ R : \E a \in R : Linked(a, b)}

Grows(g, S) == g = [k \in Nat |-> IF k = 0 THEN S ELSE Widen(g[k - 1])]

LEMMA GrowthExists ==
    ASSUME NEW S \in SUBSET Nodes
    PROVE  \E g : Grows(g, S)
  <1> DEFINE step == [k \in Nat |-> [R \in SUBSET Nodes |-> Widen(R)]]
  <1>1. PICK f : Recurs(step, S, f)
    <2> HIDE DEF step
    <2> QED
      BY Recursion
  <1>2. ASSUME NEW k \in Nat
        PROVE  f[k] = IF k = 0 THEN S ELSE step[k][f[k - 1]]
    <2> HIDE DEF step
    <2> QED
      BY <1>1 DEF Recurs
  <1>3. ASSUME NEW R \in SUBSET Nodes PROVE Widen(R) \in SUBSET Nodes
    BY DEF Widen
  <1> DEFINE Out == {k \in Nat : f[k] \notin SUBSET Nodes}
  <1>4. ASSUME Out # {} PROVE FALSE
    <2>1. PICK k \in Out : \A j \in Out : k <= j
      <3>1. Out \subseteq Nat
        OBVIOUS
      <3> HIDE DEF Out
      <3> QED
        BY <1>4, <3>1, LeastNumber
    <2>2. k # 0
      BY <1>2
    <2>3. k - 1 \in Nat /\ k - 1 \notin Out
      BY <2>1, <2>2
    <2>4. f[k - 1] \in SUBSET Nodes
      BY <2>3
    <2>5. step[k][f[k - 1]] = Widen(f[k - 1])
      BY <2>4
    <2>6. f[k] = Widen(f[k - 1])
      BY <1>2, <2>2, <2>5
    <2> QED
      BY <1>3, <2>4, <2>6
  <1>5. ASSUME NEW k \in Nat
        PROVE  f[k] = IF k = 0 THEN S ELSE Widen(f[k - 1])
    <2>1. CASE k = 0
      BY <1>2, <2>1
    <2>2. CASE k # 0
      <3>1. k - 1 \in Nat
        BY <2>2
      <3>2. f[k - 1] \in SUBSET Nodes
        BY <1>4, <3>1
      <3>3. step[k][f[k - 1]] = Widen(f[k - 1])
        BY <3>2
      <3> QED
        BY <1>2, <2>2, <3>3
    <2> QED
      BY <2>1, <2>2
  <1>6. Grows(f, S)
    <2>1. f = [k \in Nat |-> f[k]]
      BY <1>1, Zenon DEF Recurs
    <2> HIDE DEF step
    <2> QED
      BY <1>5, <2>1 DEF Grows
  <1> QED
    BY <1>6

(* When every node is linked with the one after it, all are reached from   *)
(* any: after k steps, those no more than k places away.                   *)
LEMMA ChainReaches ==
    ASSUME IInv, NEW n \in Nodes,
           \A p \in Nodes, m \in Nodes :
              m = p + 1 \/ (m = p + 2 /\ p + 1 = net.bios) => Linked(p, m)
    PROVE  Reach({n}) = Nodes
  <1>1. /\ total \in Nat /\ Names = 0..total - 1 /\ net.bios \in Names
        /\ Nodes = Names \ {net.bios}
    BY NetNumbers DEF IInv, AliasInv, Nodes
  <1> DEFINE g == CHOOSE f : Grows(f, {n})
  <1>2. Grows(g, {n})
    <2>1. {n} \in SUBSET Nodes
      OBVIOUS
    <2> QED
      BY <2>1, GrowthExists
  <1>3. Reach({n}) = g[total]
    BY Zenon DEF Reach, Grows, Widen
  <1> HIDE DEF g
  <1>4. ASSUME NEW k \in Nat
        PROVE  g[k] = IF k = 0 THEN {n} ELSE Widen(g[k - 1])
    BY <1>2, Zenon DEF Grows
  <1> DEFINE Near(k) == {m \in Nodes : n - k <= m /\ m <= n + k}
             Bad == {k \in Nat : ~(Near(k) \subseteq g[k] /\ g[k] \subseteq Nodes)}
  <1>5. ASSUME Bad # {} PROVE FALSE
    <2>1. PICK k \in Bad : \A j \in Bad : k <= j
      <3>1. Bad \subseteq Nat
        OBVIOUS
      <3> HIDE DEF Bad
      <3> QED
        BY <1>5, <3>1, LeastNumber
    <2>2. k # 0
      <3>1. Near(0) = {n} /\ g[0] = {n}
        BY <1>1, <1>4
      <3> QED
        BY <3>1
    <2>3. k - 1 \in Nat /\ k - 1 \notin Bad
      BY <2>1, <2>2
    <2>4. Near(k - 1) \subseteq g[k - 1] /\ g[k - 1] \subseteq Nodes
      BY <2>3
    <2>5. g[k] = Widen(g[k - 1])
      BY <1>4, <2>2
    <2>6. g[k] \subseteq Nodes
      BY <2>4, <2>5 DEF Widen
    <2>7. ASSUME NEW m \in Near(k), NEW p \in Near(k - 1),
                 Linked(p, m)
          PROVE  m \in g[k]
      BY <2>4, <2>5, <2>7 DEF Widen
    <2>8. ASSUME NEW m \in Near(k - 1) PROVE m \in g[k]
      BY <2>4, <2>5 DEF Widen
    <2>9. ASSUME NEW m \in Near(k) PROVE m \in g[k]
      <3>1. m \in Nodes /\ m \in Nat /\ n \in Nat /\ k \in Nat
        BY <1>1
      <3>2. CASE m \in Near(k - 1)
        BY <2>8, <3>2
      <3>3. CASE m \notin Near(k - 1)
        <4>1. m = n + k \/ m = n - k
          BY <2>9, <3>1, <3>3
        <4>2. CASE m = n + k
          <5> DEFINE p == IF m - 1 = net.bios THEN m - 2 ELSE m - 1
          <5>1. p \in Near(k - 1) /\ (m = p + 1 \/ (m = p + 2 /\ p + 1 = net.bios))
            BY <1>1, <2>2, <3>1, <4>2
          <5> HIDE DEF p
          <5>2. Linked(p, m)
            BY <3>1, <5>1
          <5> QED
            BY <2>7, <5>1, <5>2
        <4>3. CASE m = n - k
          <5> DEFINE p == IF m + 1 = net.bios THEN m + 2 ELSE m + 1
          <5>1. p \in Near(k - 1) /\ (p = m + 1 \/ (p = m + 2 /\ m + 1 = net.bios))
            BY <1>1, <2>2, <3>1, <4>3
          <5> HIDE DEF p
          <5>2. Linked(m, p)
            BY <3>1, <5>1
          <5>3. Linked(p, m)
            BY <5>2 DEF Linked
          <5> QED
            BY <2>7, <5>1, <5>3
        <4> QED
          BY <4>1, <4>2, <4>3
      <3> QED
        BY <3>2, <3>3
    <2> HIDE DEF Near
    <2> QED
      BY <2>1, <2>6, <2>9
  <1>6. Near(total) \subseteq g[total] /\ g[total] \subseteq Nodes
    BY <1>1, <1>5
  <1>7. Nodes \subseteq Near(total)
    BY <1>1
  <1> QED
    BY <1>3, <1>6, <1>7

LEMMA ShapeFollows ==
    IInv /\ RingInv /\ MeshInv /\ CountInv => ShapeComplete
  <1> SUFFICES ASSUME IInv, RingInv, MeshInv, CountInv PROVE ShapeComplete
    OBVIOUS
  <1>1. /\ total \in Nat /\ Names = 0..total - 1 /\ net.bios \in Names
        /\ Nodes = Names \ {net.bios} /\ non_bios = total - 1 /\ non_bios \in Nat
        /\ non_bios >= 1 /\ net.shape \in {"ring", "star", "mesh"}
    BY NetNumbers DEF IInv, AliasInv, Nodes
  <1>2. Shaped \in {"ring", "star", "mesh"}
    BY <1>1 DEF Shaped
  <1>3. RingIsCycle /\ MeshIsComplete
    BY RingFollows, MeshFollows
  <1>4. ASSUME NEW n \in Nodes, Shaped = "ring"
        PROVE  \/ peers[n] = <<next_ndx(n)>> /\ next_ndx(n) # n
               \/ peers[n] = <<>>
    <2>1. CASE non_bios < 2
      BY <1>4, <2>1 DEF CountInv
    <2>2. CASE non_bios >= 2
      BY <1>4, <2>2, NextMoves DEF RingInv
    <2> QED
      BY <1>1, <2>1, <2>2
  <1>5. ASSUME NEW n \in Nodes, Shaped = "ring"
        PROVE  n \notin PeerSet(n) /\ Len(peers[n]) <= 1
    <2>1. CASE peers[n] = <<next_ndx(n)>> /\ next_ndx(n) # n
      <3>1. DOMAIN peers[n] = {1} /\ peers[n][1] # n /\ Len(peers[n]) = 1
        BY <2>1
      <3> QED
        BY <3>1 DEF PeerSet
    <2>2. CASE peers[n] = <<>>
      <3>1. DOMAIN peers[n] = {} /\ Len(peers[n]) = 0
        BY <2>2
      <3> QED
        BY <3>1 DEF PeerSet
    <2> QED
      BY <1>4, <1>5, <2>1, <2>2
  <1>6. ASSUME NEW n \in Nodes, Shaped = "mesh"
        PROVE  n \notin PeerSet(n) /\ Len(peers[n]) <= non_bios - 1
    <2>1. /\ l <= non_bios
          /\ Len(peers[n]) = IF pc = "done" \/ n < i THEN non_bios - 1
                             ELSE IF n = i THEN l - 1 ELSE 0
          /\ \A k \in DOMAIN peers[n] : peers[n][k] # n
      BY <1>6 DEF CountInv
    <2>2. l \in Int
      <3>1. l \in 1..links + total
        BY DEF IInv, WalkInv
      <3>2. links \in Nat
        BY StarNumbers DEF IInv, AliasInv
      <3> QED
        BY <1>1, <3>1, <3>2
    <2> QED
      BY <1>1, <2>1, <2>2 DEF PeerSet
  <1>7. NoSelfPeer /\ NoSecondRound
    BY <1>2, <1>5, <1>6 DEF NoSelfPeer, NoSecondRound
  <1>8. RingAndMeshConnect
    <2> SUFFICES ASSUME pc = "done", Shaped # "star", NEW n \in Nodes
                 PROVE  Reach({n}) = Nodes
      BY DEF RingAndMeshConnect
    <2>1. ASSUME NEW p \in Nodes, NEW m \in Nodes,
                 m = p + 1 \/ (m = p + 2 /\ p + 1 = net.bios)
          PROVE  Linked(p, m)
      <3>1. p # m
        BY <1>1, <2>1
      <3>2. CASE Shaped = "mesh"
        BY <1>3, <3>1, <3>2 DEF MeshIsComplete
      <3>3. CASE Shaped = "ring"
        <4>1. non_bios >= 2
          BY <1>1, <2>1
        <4>2. peers[p] = <<next_ndx(p)>>
          BY <3>3, <4>1 DEF RingInv
        <4>3. next_ndx(p) = m
          <5>1. /\ p \in Names /\ AliasInv
            BY <1>1 DEF IInv
          <5>2. /\ Step(p) = IF p + 1 = net.bios THEN p + 2 ELSE p + 1
                /\ next_ndx(p) = IF Step(p) = total THEN start_ndx ELSE Step(p)
            BY <5>1, NextNode
          <5> QED
            BY <1>1, <2>1, <5>2
        <4>4. m \in PeerSet(p)
          <5>1. 1 \in DOMAIN peers[p] /\ peers[p][1] = m
            BY <4>2, <4>3
          <5> QED
            BY <5>1 DEF PeerSet
        <4> QED
          BY <4>4 DEF Linked
      <3> QED
        BY <1>2, <3>2, <3>3
    <2> QED
      BY <2>1, ChainReaches
  <1> QED
    BY <1>3, <1>7, <1>8 DEF ShapeComplete

(* ShapeComplete: for any number of nodes and every place of the bios      *)
(* node, a ring is one cycle that connects all of them, a mesh connects    *)
(* every two, nobody is its own peer, and each node gets its peers once.   *)
THEOREM ShapesComplete == ConfigSpec => []ShapeComplete
  BY ConfigFollowsTopology, InitIInv, IInvStep, InitRing, RingStep, InitMesh, MeshStep,
     InitCount, CountStep, ShapeFollows, PTL DEF Spec

-----------------------------------------------------------------------------
(* The files.  What goes into them does not change any more once the       *)
(* network is connected.                                                   *)
LEMMA ConfigFixes ==
    ASSUME UNCHANGED <<vars, setup>>, NEW n
    PROVE  Config(n)' = Config(n) /\ NoFile' = NoFile /\ Names' = Names
  <1>1. /\ net' = net /\ peers' = peers /\ setup' = setup
    BY DEF vars
  <1>2. Names' = Names /\ Nodes' = Nodes /\ \A m : host(m)' = host(m)
    BY <1>1, NetFixes DEF host
  <1>3. \A m : Slot(m)' = Slot(m)
    BY <1>2 DEF Slot
  <1>4. \A m : p2p_port(m)' = p2p_port(m) /\ http_port(m)' = http_port(m)
    BY <1>1, <1>3 DEF p2p_port, http_port
  <1>5. \A m : p2p_endpoint(m)' = p2p_endpoint(m)
    BY <1>2, <1>4 DEF p2p_endpoint
  <1>6. \A m : ExtraPorts(m)' = ExtraPorts(m) /\ BiosLine(m)' = BiosLine(m)
    BY <1>1, <1>4, <1>5 DEF ExtraPorts, BiosLine
  <1>7. [k \in 1..Len(peers[n]) |-> p2p_endpoint(peers[n][k])]' =
           [k \in 1..Len(peers[n]) |-> p2p_endpoint(peers[n][k])]
    BY <1>1, <1>5
  <1>8. AllowedLines(setup.modes)' = AllowedLines(setup.modes)
    BY <1>1
  <1> QED
    BY <1>2, <1>4, <1>6, <1>7, <1>8 DEF Config, NoFile

FilesInv ==
    /\ setup \in Setups
    /\ DOMAIN ini = Names
    /\ \A n \in Names : ini[n] # NoFile => pc = "done" /\ ini[n] = Config(n)

LEMMA InitFiles == ConfigInit => FilesInv
  BY DEF ConfigInit, FilesInv

LEMMA FilesStep == IInv /\ FilesInv /\ [ConfigNext]_cvars => FilesInv'
  <1> SUFFICES ASSUME IInv, FilesInv, [ConfigNext]_cvars PROVE FilesInv'
    OBVIOUS
  <1>1. CASE UNCHANGED <<vars, setup, ini>>
    <2>1. pc' = pc
      BY <1>1 DEF vars
    <2> QED
      BY <1>1, <2>1, ConfigFixes DEF FilesInv
  <1>2. CASE Shape /\ ~UNCHANGED vars
    <2>1. pc # "done"
      BY <1>2 DEF Shape, Next, Terminating, RingNode, RingPair, MeshPeer, MeshNextNode,
         StarPick, StarMoveOn, StarConnect, StarNextNode
    <2>2. \A n \in Names : ini[n] = NoFile
      BY <2>1 DEF FilesInv
    <2>3. net' = net /\ UNCHANGED <<setup, ini>>
      BY <1>2 DEF Shape, Next, vars, Terminating, RingNode, RingPair, MeshPeer, MeshNextNode,
         StarPick, StarMoveOn, StarConnect, StarNextNode
    <2>4. Names' = Names /\ NoFile' = NoFile
      BY <2>3, NetFixes DEF NoFile
    <2> QED
      BY <2>2, <2>3, <2>4 DEF FilesInv
  <1>3. ASSUME NEW n \in Names, WriteConfigFile(n) PROVE FilesInv'
    <2>1. /\ UNCHANGED <<vars, setup>> /\ pc = "done" /\ pc' = "done"
          /\ ini' = [ini EXCEPT ![n] = Config(n)]
      BY <1>3 DEF WriteConfigFile, vars
    <2>2. Names' = Names
      BY <2>1, ConfigFixes
    <2>3. \A m \in Names : ini'[m] # NoFile => ini'[m] = Config(m)
      BY <2>1 DEF FilesInv
    <2>4. NoFile' = NoFile /\ \A m \in Names : Config(m)' = Config(m)
      BY <2>1, ConfigFixes
    <2> QED
      BY <2>1, <2>2, <2>3, <2>4 DEF FilesInv
  <1> QED
    BY <1>1, <1>2, <1>3 DEF ConfigNext, Shape, cvars

-----------------------------------------------------------------------------
(* Numbers of the files. *)
LEMMA SetupFields ==
    ASSUME IInv, FilesInv
    PROVE  /\ setup.perHost \in Nat \ {0} /\ setup.plugin \in {"net", "bnet"}
           /\ setup.modes \in Seq(Modes)
           /\ P2PBase \in Nat /\ HttpBase \in Nat /\ BiosGap \in Nat /\ ExtraGap \in Nat
           /\ 0 < BiosGap /\ BiosGap <= HttpBase
           /\ HttpBase + total <= P2PBase - BiosGap /\ total + BiosGap <= ExtraGap
  <1>1. setup \in Setup /\ net \in Cases
    BY SetupsAssumption DEF FilesInv, IInv, AliasInv
  <1> QED
    BY <1>1, PortsAssumption DEF Setup, total

(* The slot of a node is below the number of nodes, and the nodes of a     *)
(* host have different ones.                                               *)
LEMMA SlotsApart ==
    ASSUME IInv, FilesInv
    PROVE  /\ \A n \in Names : Slot(n) \in Nat /\ Slot(n) < total /\ host(n) \in Nat
           /\ \A m \in Nodes, n \in Nodes :
                 host(m) = host(n) /\ Slot(m) = Slot(n) => m = n
  <1>1. /\ total \in Nat /\ Names = 0..total - 1 /\ Nodes \subseteq Names
        /\ setup.perHost \in Nat \ {0}
    BY NetNumbers, SetupFields DEF IInv, AliasInv, Nodes
  <1> DEFINE Below(n) == {m \in Nodes : m < n /\ host(m) = host(n)}
  <1>2. ASSUME NEW n \in Names
        PROVE  /\ IsFiniteSet(Below(n))
               /\ Cardinality(Below(n)) \in Nat /\ Cardinality(Below(n)) < total
    <2>1. n \in Nat /\ n < total /\ Below(n) \in SUBSET (0..n - 1)
      <3>1. n \in Nat /\ n < total
        BY <1>1
      <3>2. ASSUME NEW x \in Below(n) PROVE x \in 0..n - 1
        <4>1. x \in Names /\ x < n
          BY <1>1
        <4> QED
          BY <1>1, <3>1, <4>1
      <3> HIDE DEF Below
      <3> QED
        BY <3>1, <3>2
    <2> HIDE DEF Below
    <2>2. IsFiniteSet(0..n - 1) /\ Cardinality(0..n - 1) = n
      <3>1. 0 \in Int /\ n - 1 \in Int
        BY <2>1
      <3>2. Cardinality(0..n - 1) = IF 0 > n - 1 THEN 0 ELSE n - 1 - 0 + 1
        BY <3>1, FS_Interval
      <3>3. IsFiniteSet(0..n - 1)
        BY <3>1, FS_Interval
      <3> QED
        BY <2>1, <3>2, <3>3
    <2>3. IsFiniteSet(Below(n)) /\ Cardinality(Below(n)) <= Cardinality(0..n - 1)
      BY <2>1, <2>2, FS_Subset
    <2>4. Cardinality(Below(n)) \in Nat
      BY <2>3, FS_CardinalityType
    <2> QED
      BY <1>1, <2>1, <2>2, <2>3, <2>4
  <1>3. ASSUME NEW n \in Names PROVE host(n) \in Nat
    BY <1>1 DEF host
  <1>4. ASSUME NEW m \in Nodes, NEW n \in Nodes, host(m) = host(n), m < n
        PROVE  Slot(m) # Slot(n)
    <2>1. Below(m) \in SUBSET Below(n) /\ m \in Below(n) /\ m \notin Below(m)
      <3>1. m \in Nat /\ n \in Nat
        BY <1>1
      <3>2. ASSUME NEW x \in Below(m) PROVE x \in Below(n)
        <4>1. x \in Nodes /\ x < m /\ host(x) = host(m)
          OBVIOUS
        <4>2. x \in Nat
          BY <1>1, <4>1
        <4>3. x < n
          BY <1>4, <3>1, <4>1, <4>2
        <4> QED
          BY <1>4, <4>1, <4>3
      <3>3. m \in Below(n)
        BY <1>4
      <3>4. m \notin Below(m)
        <4>1. ~(m < m)
          BY <3>1
        <4> QED
          BY <4>1
      <3> HIDE DEF Below
      <3> QED
        BY <3>2, <3>3, <3>4
    <2>2. IsFiniteSet(Below(n))
      BY <1>1, <1>2
    <2> HIDE DEF Below
    <2>3. Cardinality(Below(n)) # Cardinality(Below(m))
      BY <2>1, <2>2, FS_Subset
    <2> QED
      BY <2>3 DEF Slot, Below
  <1>5. ASSUME NEW m \in Nodes, NEW n \in Nodes, host(m) = host(n), Slot(m) = Slot(n)
        PROVE  m = n
    <2>1. ~(m < n) /\ ~(n < m)
      BY <1>4, <1>5
    <2> QED
      BY <1>1, <2>1
  <1> QED
    BY <1>2, <1>3, <1>5 DEF Slot

(* Where the port number j of a node is above those its host starts from.  *)
Above(n) == IF n = net.bios THEN 0 - BiosGap ELSE Slot(n)

LEMMA AboveApart ==
    ASSUME IInv, FilesInv
    PROVE  /\ \A n \in Names : Above(n) \in Int /\ Above(n) < total /\ Above(n) >= 0 - BiosGap
           /\ \A m, n \in Names : host(m) = host(n) /\ Above(m) = Above(n) => m = n
  <1>1. BiosGap \in Nat /\ 0 < BiosGap /\ total \in Nat
    BY SetupFields, NetNumbers DEF IInv, AliasInv
  <1>2. Nodes = Names \ {net.bios}
    BY DEF Nodes
  <1>3. ASSUME NEW n \in Names PROVE Slot(n) \in Nat /\ Slot(n) < total
    BY SlotsApart
  <1>4. ASSUME NEW n \in Names
        PROVE  Above(n) \in Int /\ Above(n) < total /\ Above(n) >= 0 - BiosGap
    BY <1>1, <1>3 DEF Above
  <1>5. ASSUME NEW m \in Names, NEW n \in Names, host(m) = host(n), Above(m) = Above(n)
        PROVE  m = n
    <2>1. CASE m \in Nodes /\ n \in Nodes
      BY <1>2, <1>5, <2>1, SlotsApart DEF Above
    <2>2. CASE m = net.bios \/ n = net.bios
      BY <1>1, <1>3, <1>5, <2>2 DEF Above
    <2> QED
      BY <1>2, <2>1, <2>2
  <1> QED
    BY <1>4, <1>5

LEMMA PortNumbers ==
    ASSUME IInv, FilesInv, NEW n \in Names
    PROVE  /\ http_port(n) = HttpBase + Above(n) /\ http_port(n) \in Nat
           /\ p2p_port(n) = P2PBase + Above(n) /\ p2p_port(n) \in Nat
           /\ p2p_port(n) + ExtraGap \in Nat
  <1>1. /\ P2PBase \in Nat /\ HttpBase \in Nat /\ BiosGap \in Nat /\ ExtraGap \in Nat
        /\ BiosGap <= HttpBase /\ HttpBase + total <= P2PBase - BiosGap /\ total \in Nat
    BY SetupFields, NetNumbers DEF IInv, AliasInv
  <1>2. Above(n) \in Int /\ Above(n) >= 0 - BiosGap
    BY AboveApart
  <1>3. http_port(n) = HttpBase + Above(n) /\ p2p_port(n) = P2PBase + Above(n)
    BY <1>1 DEF http_port, p2p_port, Above
  <1> QED
    BY <1>1, <1>2, <1>3

\* The ports of the file of n: of http, of p2p, and under bnet one more.
Port(n, j) == IF j = 1 THEN http_port(n)
              ELSE IF j = 2 THEN p2p_port(n) ELSE p2p_port(n) + ExtraGap

LEMMA ConfigPorts ==
    ASSUME IInv, FilesInv, NEW n \in Names
    PROVE  /\ Config(n).ports \in Seq(Nat)
           /\ 1..Len(Config(n).ports) \subseteq 1..3
           /\ 2 \in 1..Len(Config(n).ports)
           /\ \A j \in 1..Len(Config(n).ports) : Config(n).ports[j] = Port(n, j)
  <1>1. http_port(n) \in Nat /\ p2p_port(n) \in Nat /\ p2p_port(n) + ExtraGap \in Nat
    BY PortNumbers
  <1>2. setup.plugin \in {"net", "bnet"}
    BY SetupFields
  <1>3. Config(n).ports = <<http_port(n), p2p_port(n)>> \o ExtraPorts(n)
    BY DEF Config
  <1>4. CASE setup.plugin = "bnet"
    <2>1. ASSUME NEW a \in Nat, NEW b \in Nat, NEW c \in Nat, NEW s, s = <<a, b>> \o <<c>>
          PROVE  s \in Seq(Nat) /\ Len(s) = 3 /\ s[1] = a /\ s[2] = b /\ s[3] = c
      <3>1. /\ <<a, b>> \in Seq(Nat) /\ <<c>> \in Seq(Nat)
            /\ Len(<<a, b>>) = 2 /\ Len(<<c>>) = 1
        OBVIOUS
      <3> QED
        BY <2>1, <3>1
    <2>2. ExtraPorts(n) = <<p2p_port(n) + ExtraGap>>
      BY <1>4 DEF ExtraPorts
    <2> DEFINE s == Config(n).ports
    <2>3. s = <<http_port(n), p2p_port(n)>> \o <<p2p_port(n) + ExtraGap>>
      BY <1>3, <2>2
    <2> HIDE DEF s
    <2>4. /\ s \in Seq(Nat) /\ Len(s) = 3
          /\ s[1] = http_port(n) /\ s[2] = p2p_port(n) /\ s[3] = p2p_port(n) + ExtraGap
      BY <1>1, <2>1, <2>3
    <2>5. 1..Len(s) = 1..3 /\ \A j \in 1..3 : s[j] = Port(n, j)
      BY <2>4 DEF Port
    <2> QED
      BY <2>4, <2>5 DEF s
  <1>5. CASE setup.plugin # "bnet"
    <2>1. Config(n).ports = <<http_port(n), p2p_port(n)>>
      BY <1>1, <1>3, <1>5 DEF ExtraPorts
    <2> QED
      BY <1>1, <2>1 DEF Port
  <1> QED
    BY <1>2, <1>4, <1>5

(* Two different ports of the nodes of a host are never the same number.   *)
LEMMA PortsApart ==
    ASSUME IInv, FilesInv, NEW m \in Names, NEW n \in Names, host(m) = host(n),
           NEW j \in 1..3, NEW k \in 1..3, Port(m, j) = Port(n, k)
    PROVE  m = n /\ j = k
  <1>1. /\ P2PBase \in Nat /\ HttpBase \in Nat /\ BiosGap \in Nat /\ ExtraGap \in Nat
        /\ HttpBase + total <= P2PBase - BiosGap /\ total + BiosGap <= ExtraGap
        /\ total \in Nat
    BY SetupFields, NetNumbers DEF IInv, AliasInv
  <1>2. /\ Above(m) \in Int /\ Above(m) < total /\ Above(m) >= 0 - BiosGap
        /\ Above(n) \in Int /\ Above(n) < total /\ Above(n) >= 0 - BiosGap
    BY AboveApart
  <1>3. /\ http_port(m) = HttpBase + Above(m) /\ p2p_port(m) = P2PBase + Above(m)
        /\ http_port(n) = HttpBase + Above(n) /\ p2p_port(n) = P2PBase + Above(n)
    BY PortNumbers
  <1>4. (j = 1 \/ j = 2 \/ j = 3) /\ (k = 1 \/ k = 2 \/ k = 3)
    OBVIOUS
  <1>5. j = k
    BY <1>1, <1>2, <1>3, <1>4 DEF Port
  <1>6. Above(m) = Above(n)
    BY <1>1, <1>2, <1>3, <1>4, <1>5 DEF Port
  <1> QED
    BY <1>5, <1>6, AboveApart

-----------------------------------------------------------------------------
(* The connection modes: what is there after the first k of them.          *)
Tally(f, modes) ==
    f = [k \in Nat |-> IF k = 0 THEN {}
                       ELSE IF modes[k] = "none" THEN {} ELSE f[k - 1] \cup {modes[k]}]

LEMMA TallyExists ==
    ASSUME NEW modes
    PROVE  \E f : Tally(f, modes)
  <1> DEFINE All == SUBSET {modes[k] : k \in Nat}
             step == [k \in Nat |-> [S \in All |->
                         IF modes[k] = "none" THEN {} ELSE S \cup {modes[k]}]]
  <1>1. PICK f : Recurs(step, {}, f)
    <2> HIDE DEF step
    <2> QED
      BY Recursion
  <1>2. ASSUME NEW k \in Nat
        PROVE  f[k] = IF k = 0 THEN {} ELSE step[k][f[k - 1]]
    <2> HIDE DEF step
    <2> QED
      BY <1>1 DEF Recurs
  <1>3. ASSUME NEW k \in Nat, NEW S \in All
        PROVE  /\ step[k][S] = IF modes[k] = "none" THEN {} ELSE S \cup {modes[k]}
               /\ step[k][S] \in All
    OBVIOUS
  <1>4. {} \in All
    OBVIOUS
  <1> HIDE DEF All, step
  <1> DEFINE Out == {k \in Nat : f[k] \notin All}
  <1>5. ASSUME Out # {} PROVE FALSE
    <2>1. PICK k \in Out : \A j \in Out : k <= j
      <3>1. Out \subseteq Nat
        OBVIOUS
      <3> HIDE DEF Out
      <3> QED
        BY <1>5, <3>1, LeastNumber
    <2>2. k # 0
      BY <1>2, <1>4
    <2>3. k - 1 \in Nat /\ k - 1 \notin Out
      BY <2>1, <2>2
    <2>4. f[k - 1] \in All
      BY <2>3
    <2>5. f[k] = step[k][f[k - 1]]
      BY <1>2, <2>2
    <2>6. f[k] \in All
      BY <1>3, <2>4, <2>5
    <2> QED
      BY <2>6
  <1>6. ASSUME NEW k \in Nat
        PROVE  f[k] = IF k = 0 THEN {}
                      ELSE IF modes[k] = "none" THEN {} ELSE f[k - 1] \cup {modes[k]}
    <2>1. CASE k = 0
      BY <1>2, <2>1
    <2>2. CASE k # 0
      <3>1. k - 1 \in Nat
        BY <2>2
      <3>2. f[k - 1] \in All
        BY <1>5, <3>1
      <3> QED
        BY <1>2, <1>3, <2>2, <3>2
    <2> QED
      BY <2>1, <2>2
  <1>7. f = [k \in Nat |-> f[k]]
    BY <1>1, Zenon DEF Recurs
  <1>8. Tally(f, modes)
    BY <1>6, <1>7 DEF Tally
  <1> QED
    BY <1>8

\* The places of the modes up to the k-th that no "none" follows.
Lasts(modes, k) == {m \in 1..k : \A j \in m..k : modes[j] # "none"}

LEMMA AllowedAre ==
    ASSUME NEW modes \in Seq(Modes)
    PROVE  allowed_connections(modes) = {modes[m] : m \in Lasts(modes, Len(modes))}
  <1> DEFINE f == CHOOSE g : Tally(g, modes)
  <1>1. Tally(f, modes)
    BY TallyExists
  <1>2. allowed_connections(modes) = f[Len(modes)]
    BY Zenon DEF allowed_connections, Tally
  <1> HIDE DEF f
  <1>3. ASSUME NEW k \in Nat
        PROVE  f[k] = IF k = 0 THEN {}
                      ELSE IF modes[k] = "none" THEN {} ELSE f[k - 1] \cup {modes[k]}
    BY <1>1, Zenon DEF Tally
  <1> DEFINE Kept(k) == {modes[m] : m \in Lasts(modes, k)}
             Bad == {k \in Nat : f[k] # Kept(k)}
  <1>4. ASSUME NEW k \in Nat, k # 0, modes[k] = "none" PROVE Lasts(modes, k) = {}
    BY <1>4 DEF Lasts
  <1>5. ASSUME NEW k \in Nat, k # 0, modes[k] # "none"
        PROVE  Lasts(modes, k) = Lasts(modes, k - 1) \cup {k}
    <2>1. ASSUME NEW m \in Lasts(modes, k), m # k PROVE m \in Lasts(modes, k - 1)
      BY <2>1 DEF Lasts
    <2>2. ASSUME NEW m \in Lasts(modes, k - 1) PROVE m \in Lasts(modes, k)
      <3>1. m \in 1..k
        BY DEF Lasts
      <3>2. ASSUME NEW j \in m..k PROVE modes[j] # "none"
        <4>1. j = k \/ j \in m..k - 1
          BY <3>1
        <4> QED
          BY <1>5, <4>1 DEF Lasts
      <3> QED
        BY <3>1, <3>2 DEF Lasts
    <2>3. k \in Lasts(modes, k)
      BY <1>5 DEF Lasts
    <2> QED
      BY <2>1, <2>2, <2>3
  <1>6. ASSUME Bad # {} PROVE FALSE
    <2>1. PICK k \in Bad : \A j \in Bad : k <= j
      <3>1. Bad \subseteq Nat
        OBVIOUS
      <3> HIDE DEF Bad
      <3> QED
        BY <1>6, <3>1, LeastNumber
    <2>2. k # 0
      <3>1. Kept(0) = {}
        BY DEF Lasts
      <3> QED
        BY <1>3, <3>1
    <2>3. k - 1 \in Nat /\ k - 1 \notin Bad
      BY <2>1, <2>2
    <2>4. f[k - 1] = Kept(k - 1)
      BY <2>3
    <2>5. CASE modes[k] = "none"
      BY <1>3, <1>4, <2>2, <2>5
    <2>6. CASE modes[k] # "none"
      <3>1. f[k] = Kept(k - 1) \cup {modes[k]}
        BY <1>3, <2>2, <2>4, <2>6
      <3>2. Kept(k) = Kept(k - 1) \cup {modes[k]}
        BY <1>5, <2>2, <2>6
      <3> QED
        BY <3>1, <3>2
    <2> QED
      BY <2>5, <2>6
  <1>7. Len(modes) \in Nat
    OBVIOUS
  <1>8. f[Len(modes)] = Kept(Len(modes))
    BY <1>6, <1>7
  <1> QED
    BY <1>2, <1>8

LEMMA ModesFollow == IInv /\ FilesInv => ModesHonoured
  <1> SUFFICES ASSUME IInv, FilesInv, NEW n \in Names, ini[n] # NoFile
               PROVE  LET Lasting == {k \in 1..Len(setup.modes) :
                                  \A j \in k..Len(setup.modes) : setup.modes[j] # "none"}
                          asked == {setup.modes[k] : k \in Lasting}
                      IN  ini[n].allowed = IF asked = {} THEN {"none"}
                                           ELSE IF "any" \in asked THEN {"any"} ELSE asked
    BY DEF ModesHonoured
  <1> DEFINE asked == {setup.modes[k] : k \in Lasts(setup.modes, Len(setup.modes))}
  <1>1. ini[n] = Config(n)
    BY DEF FilesInv
  <1>2. ini[n].allowed = AllowedLines(setup.modes)
    BY <1>1 DEF Config
  <1>3. allowed_connections(setup.modes) = asked
    BY SetupFields, AllowedAre
  <1> HIDE DEF asked
  <1>4. ini[n].allowed = IF asked = {} THEN {"none"}
                         ELSE IF "any" \in asked THEN {"any"} ELSE asked
    BY <1>2, <1>3 DEF AllowedLines
  <1> QED
    BY <1>4 DEF asked, Lasts

(* ModesHonoured: for every list of modes, of any length, the lines that   *)
(* write_config_file writes for them are those asked for since the last    *)
(* "none".                                                                 *)
THEOREM ModesWritten == ConfigSpec => []ModesHonoured
  BY ConfigFollowsTopology, InitIInv, IInvStep, InitFiles, FilesStep, ModesFollow, PTL
     DEF Spec, ConfigSpec

-----------------------------------------------------------------------------
(* The addresses in the files.                                             *)
LEMMA AddressesApart ==
    ASSUME IInv, FilesInv
    PROVE  /\ \A n \in Names : p2p_endpoint(n) \in Nat \X Nat
           /\ \A m, n \in Names :
                 host(m) = host(n) /\ p2p_port(m) = p2p_port(n) => m = n
           /\ \A m, n \in Names : p2p_endpoint(m) = p2p_endpoint(n) => m = n
  <1>1. ASSUME NEW n \in Names PROVE host(n) \in Nat /\ p2p_port(n) \in Nat
    BY SlotsApart, PortNumbers
  <1>2. ASSUME NEW m \in Names, NEW n \in Names, host(m) = host(n), p2p_port(m) = p2p_port(n)
        PROVE  m = n
    <2>1. Port(m, 2) = Port(n, 2) /\ 2 \in 1..3
      BY <1>2 DEF Port
    <2> QED
      BY <1>2, <2>1, PortsApart
  <1> QED
    BY <1>1, <1>2 DEF p2p_endpoint

\* The line for the bios node comes first in every file but its own.
LEMMA ConfigPeers ==
    ASSUME IInv, FilesInv, NEW n \in Names
    PROVE  /\ peers[n] \in Seq(Nodes) /\ net.bios \in Names
           /\ Config(n).peers \in Seq(Nat \X Nat)
           /\ n = net.bios => Config(n).peers = <<>>
           /\ n # net.bios =>
                 /\ Len(Config(n).peers) = Len(peers[n]) + 1
                 /\ Config(n).peers[1] = p2p_endpoint(net.bios)
                 /\ \A k \in 1..Len(peers[n]) :
                       Config(n).peers[k + 1] = p2p_endpoint(peers[n][k])
  <1>1. peers[n] \in Seq(Nodes) /\ net.bios \in Names /\ Nodes \subseteq Names
    BY NetNumbers DEF IInv, PeersInv, AliasInv, Nodes
  <1>2. \A m \in Names : p2p_endpoint(m) \in Nat \X Nat
    BY AddressesApart
  <1> DEFINE lines == [k \in 1..Len(peers[n]) |-> p2p_endpoint(peers[n][k])]
  <1>3. Len(peers[n]) \in Nat /\ \A k \in 1..Len(peers[n]) : peers[n][k] \in Names
    BY <1>1
  <1>4. lines \in Seq(Nat \X Nat) /\ Len(lines) = Len(peers[n])
    BY <1>2, <1>3
  <1>5. \A k \in 1..Len(peers[n]) : lines[k] = p2p_endpoint(peers[n][k])
    OBVIOUS
  <1>6. Config(n).peers = BiosLine(n) \o lines
    BY DEF Config
  <1> HIDE DEF lines
  <1>7. CASE n = net.bios
    <2>1. BiosLine(n) = <<>> /\ Len(lines) = 0
      BY <1>4, <1>7 DEF BiosLine, IInv, PeersInv
    <2>2. Config(n).peers = <<>>
      BY <1>4, <1>6, <2>1
    <2> QED
      BY <1>1, <1>7, <2>2
  <1>8. CASE n # net.bios
    <2>1. ASSUME NEW a \in Nat \X Nat, NEW s, s = <<a>> \o lines
          PROVE  /\ s \in Seq(Nat \X Nat) /\ Len(s) = Len(lines) + 1 /\ s[1] = a
                 /\ \A k \in 1..Len(lines) : s[k + 1] = lines[k]
      <3>1. <<a>> \in Seq(Nat \X Nat) /\ Len(<<a>>) = 1
        OBVIOUS
      <3> QED
        BY <1>4, <2>1, <3>1
    <2>2. BiosLine(n) = <<p2p_endpoint(net.bios)>>
      BY <1>8 DEF BiosLine
    <2> QED
      BY <1>1, <1>2, <1>4, <1>5, <1>6, <1>8, <2>1, <2>2
  <1> QED
    BY <1>7, <1>8

LEMMA AllowedType == IInv /\ FilesInv => AllowedLines(setup.modes) \in SUBSET Modes
  <1> SUFFICES ASSUME IInv, FilesInv PROVE AllowedLines(setup.modes) \in SUBSET Modes
    OBVIOUS
  <1>1. setup.modes \in Seq(Modes)
    BY SetupFields
  <1>2. ASSUME NEW m \in Lasts(setup.modes, Len(setup.modes))
        PROVE  setup.modes[m] \in Modes
    BY <1>1 DEF Lasts
  <1>3. allowed_connections(setup.modes) \subseteq Modes
    BY <1>1, <1>2, AllowedAre
  <1> QED
    BY <1>3 DEF AllowedLines, Modes

LEMMA ConfigType ==
    ASSUME IInv, FilesInv, NEW n \in Names
    PROVE  Config(n) \in Ini /\ NoFile \in Ini
  <1>1. Config(n).ports \in Seq(Nat) /\ Config(n).peers \in Seq(Nat \X Nat)
    BY ConfigPorts, ConfigPeers
  <1>2. AllowedLines(setup.modes) \in SUBSET Modes
    BY AllowedType
  <1>3. NoFile \in Ini
    BY DEF NoFile, Ini
  <1> DEFINE p == <<http_port(n), p2p_port(n)>> \o ExtraPorts(n)
             q == BiosLine(n) \o [k \in 1..Len(peers[n]) |-> p2p_endpoint(peers[n][k])]
  <1>4. /\ Config(n) = [ports |-> p, peers |-> q, allowed |-> AllowedLines(setup.modes)]
        /\ Config(n).ports = p /\ Config(n).peers = q
    BY DEF Config
  <1> HIDE DEF p, q
  <1>5. Config(n) \in Ini
    BY <1>1, <1>2, <1>4 DEF Ini
  <1> QED
    BY <1>3, <1>5

LEMMA ListenersFollow == IInv /\ FilesInv => ListenersDistinct
  <1> SUFFICES ASSUME IInv, FilesInv PROVE ListenersDistinct
    OBVIOUS
  <1>1. ConfigTypeOK
    <2>1. \A n \in Names : ini[n] \in Ini
      BY ConfigType DEF FilesInv
    <2> QED
      BY <2>1, IInvGives DEF ConfigTypeOK, FilesInv
  <1>2. ASSUME AllWritten, NEW m \in Names, NEW n \in Names, host(m) = host(n),
               NEW j \in 1..Len(ini[m].ports), NEW k \in 1..Len(ini[n].ports),
               ini[m].ports[j] = ini[n].ports[k]
        PROVE  m = n /\ j = k
    <2>1. ini[m] = Config(m) /\ ini[n] = Config(n)
      BY <1>2 DEF AllWritten, FilesInv
    <2>2. j \in 1..3 /\ k \in 1..3 /\ Port(m, j) = Port(n, k)
      BY <1>2, <2>1, ConfigPorts
    <2> QED
      BY <1>2, <2>2, PortsApart
  <1> QED
    BY <1>1, <1>2 DEF ListenersDistinct

(* ListenersDistinct: for any number of nodes, however many there are on a *)
(* host, and with either plugin, no two ports that write_config_file has   *)
(* the nodes of a host open are the same.                                  *)
THEOREM ListenersApart == ConfigSpec => []ListenersDistinct
  BY ConfigFollowsTopology, InitIInv, IInvStep, InitFiles, FilesStep, ListenersFollow, PTL
     DEF Spec, ConfigSpec

-----------------------------------------------------------------------------
(* Stars: the loop that moves on from the peers a node has already sees to *)
(* it that no peer is listed twice, whatever becomes of aliases meanwhile. *)
StarInv ==
    Shaped = "star" =>
        /\ pc \in {"star", "check", "done"}
        /\ \A n \in Names : \A j, k \in 1..Len(peers[n]) : peers[n][j] = peers[n][k] => j = k

LEMMA InitStar == Init => StarInv
  <1> SUFFICES ASSUME Init, Shaped = "star" PROVE StarInv
    BY DEF StarInv
  <1>1. pc = "star" /\ \A n \in Names : peers[n] = <<>>
    BY DEF Init
  <1> QED
    BY <1>1 DEF StarInv

LEMMA StarStep == IInv /\ StarInv /\ [Next]_vars => StarInv'
  <1> SUFFICES ASSUME IInv, StarInv, [Next]_vars, Shaped' = "star" PROVE StarInv'
    BY DEF StarInv
  <1>1. net' = net
    BY DEF vars, Next, Terminating, RingNode, RingPair, MeshPeer, MeshNextNode,
       StarPick, StarMoveOn, StarConnect, StarNextNode
  <1>2. Names' = Names /\ Shaped = "star"
    BY <1>1, NetFixes
  <1>3. /\ pc \in {"star", "check", "done"}
        /\ \A n \in Names : \A j, k \in 1..Len(peers[n]) : peers[n][j] = peers[n][k] => j = k
    BY <1>2 DEF StarInv
  <1>4. CASE StarConnect /\ peers' # peers
    <2>1. /\ pc' = "star" /\ ~IsPeer(aliases[slot])
          /\ peers' = [peers EXCEPT ![current] = Append(@, aliases[slot])]
      BY <1>4 DEF StarConnect, Connect
    <2>2. /\ current \in Names /\ current \in Nodes /\ slot \in Nodes
          /\ peers \in [Names -> Seq(Nodes)]
      BY DEF IInv, WalkInv, PeersInv, Nodes
    <2>3. aliases[slot] \in Nodes
      BY <2>2, NodesStay
    <2> DEFINE p == aliases[slot]
               s == peers[current]
    <2>4. s \in Seq(Nodes) /\ Len(s) \in Nat /\ DOMAIN s = 1..Len(s)
      BY <2>2
    <2>5. \A k \in 1..Len(s) : s[k] # p
      BY <2>1, <2>4 DEF IsPeer
    <2>6. \A j, k \in 1..Len(s) : s[j] = s[k] => j = k
      BY <1>3, <2>2
    <2>7. peers'[current] = Append(s, p)
      BY <2>1, <2>2
    <2> HIDE DEF s, p
    <2>8. /\ Len(Append(s, p)) = Len(s) + 1 /\ Append(s, p)[Len(s) + 1] = p
          /\ \A k \in 1..Len(s) : Append(s, p)[k] = s[k]
      BY <2>4
    <2>9. \A j, k \in 1..Len(s) + 1 : Append(s, p)[j] = Append(s, p)[k] => j = k
      <3> SUFFICES ASSUME NEW j \in 1..Len(s) + 1, NEW k \in 1..Len(s) + 1,
                          Append(s, p)[j] = Append(s, p)[k]
                   PROVE  j = k
        OBVIOUS
      <3>1. j = Len(s) + 1 \/ j \in 1..Len(s)
        BY <2>4
      <3>2. k = Len(s) + 1 \/ k \in 1..Len(s)
        BY <2>4
      <3> QED
        BY <2>5, <2>6, <2>8, <3>1, <3>2
    <2>10. ASSUME NEW n \in Names
           PROVE  \A j, k \in 1..Len(peers'[n]) : peers'[n][j] = peers'[n][k] => j = k
      <3>1. CASE n = current
        BY <2>7, <2>8, <2>9, <3>1
      <3>2. CASE n # current
        <4>1. peers'[n] = peers[n]
          BY <2>1, <2>2, <3>2
        <4> QED
          BY <1>3, <4>1
      <3> QED
        BY <3>1, <3>2
    <2> QED
      BY <1>2, <2>1, <2>10 DEF StarInv
  <1>5. CASE ~(StarConnect /\ peers' # peers)
    <2>1. peers' = peers /\ pc' \in {"star", "check", "done"}
      BY <1>3, <1>5 DEF vars, Next, Terminating, RingNode, RingPair, MeshPeer, MeshNextNode,
         StarPick, StarMoveOn, StarConnect, StarNextNode
    <2> QED
      BY <1>2, <1>3, <2>1 DEF StarInv
  <1> QED
    BY <1>4, <1>5

\* The nodes that listen at an address of one of them.
LEMMA OneListens ==
    ASSUME IInv, FilesInv, AllWritten, NEW n \in Names
    PROVE  /\ ListensAt(n, p2p_endpoint(n))
           /\ \A m \in Names : ListensAt(m, p2p_endpoint(n)) => m = n
  <1>1. ASSUME NEW m \in Names PROVE ini[m].ports[2] = p2p_port(m)
    <2>1. ini[m] = Config(m)
      BY DEF AllWritten, FilesInv
    <2>2. Config(m).ports[2] = Port(m, 2)
      BY ConfigPorts
    <2> QED
      BY <2>1, <2>2 DEF Port
  <1>2. p2p_endpoint(n)[1] = host(n) /\ p2p_endpoint(n)[2] = p2p_port(n)
    BY DEF p2p_endpoint
  <1> QED
    BY <1>1, <1>2, AddressesApart DEF ListensAt

LEMMA PeersFollow ==
    IInv /\ FilesInv /\ StarInv /\ ShapeComplete => PeersListen
  <1> SUFFICES ASSUME IInv, FilesInv, StarInv, ShapeComplete, AllWritten, NEW n \in Names
               PROVE  LET list == ini[n].peers
                      IN  /\ \A k \in 1..Len(list) :
                                Cardinality({m \in Names : ListensAt(m, list[k])}) = 1
                          /\ Shaped # "mesh" =>
                                \A j, k \in 1..Len(list) : list[j] = list[k] => j = k
    BY DEF PeersListen
  <1> DEFINE list == ini[n].peers
  <1>1. list = Config(n).peers /\ pc = "done"
    BY DEF AllWritten, FilesInv
  <1>2. ASSUME NEW m \in Names
        PROVE  Cardinality({x \in Names : ListensAt(x, p2p_endpoint(m))}) = 1
    <2>1. {x \in Names : ListensAt(x, p2p_endpoint(m))} = {m}
      BY OneListens
    <2> QED
      BY <2>1, FS_Singleton
  <1>3. CASE n = net.bios
    <2>1. list = <<>>
      BY <1>1, <1>3, ConfigPeers
    <2> QED
      BY <2>1
  <1>4. CASE n # net.bios
    <2> DEFINE s == peers[n]
    <2>1. s \in Seq(Nodes) /\ net.bios \in Names /\ Nodes = Names \ {net.bios}
      BY ConfigPeers DEF Nodes
    <2>2. /\ Len(list) = Len(s) + 1 /\ list[1] = p2p_endpoint(net.bios)
          /\ \A k \in 1..Len(s) : list[k + 1] = p2p_endpoint(s[k])
      BY <1>1, <1>4, ConfigPeers
    <2>3. Shaped # "mesh" => \A j, k \in 1..Len(s) : s[j] = s[k] => j = k
      <3>1. CASE Shaped = "star"
        BY <3>1 DEF StarInv
      <3>2. CASE Shaped # "star" /\ Shaped # "mesh"
        <4>1. Shaped = "ring" /\ n \in Nodes
          <5>1. net.shape \in {"ring", "star", "mesh"}
            BY NetNumbers DEF IInv, AliasInv
          <5> QED
            BY <1>4, <2>1, <3>2, <5>1 DEF Shaped
        <4>2. Len(s) <= 1
          BY <4>1 DEF ShapeComplete, NoSecondRound
        <4>3. Len(s) \in Nat
          BY <2>1
        <4> QED
          BY <4>2, <4>3
      <3> QED
        BY <3>1, <3>2
    <2> HIDE DEF list, s
    <2>4. Len(s) \in Nat /\ \A k \in 1..Len(s) : s[k] \in Names /\ s[k] # net.bios
      BY <2>1
    <2>5. ASSUME NEW k \in 1..Len(list)
          PROVE  k = 1 \/ (k - 1 \in 1..Len(s) /\ list[k] = p2p_endpoint(s[k - 1]))
      <3>1. CASE k # 1
        <4>1. k - 1 \in 1..Len(s) /\ (k - 1) + 1 = k
          BY <2>2, <2>4, <3>1
        <4> QED
          BY <2>2, <4>1
      <3> QED
        BY <3>1
    <2>6. ASSUME NEW k \in 1..Len(list)
          PROVE  Cardinality({m \in Names : ListensAt(m, list[k])}) = 1
      <3>1. \E x \in Names : list[k] = p2p_endpoint(x)
        BY <2>1, <2>2, <2>4, <2>5
      <3>2. PICK x \in Names : list[k] = p2p_endpoint(x)
        BY <3>1
      <3> QED
        BY <1>2, <3>2, Zenon
    <2>7. ASSUME Shaped # "mesh", NEW j \in 1..Len(list), NEW k \in 1..Len(list),
                 list[j] = list[k]
          PROVE  j = k
      <3>1. \A m, x \in Names : p2p_endpoint(m) = p2p_endpoint(x) => m = x
        BY AddressesApart
      <3>2. CASE j = 1 /\ k # 1
        BY <2>1, <2>2, <2>4, <2>5, <2>7, <3>1, <3>2
      <3>3. CASE j # 1 /\ k = 1
        BY <2>1, <2>2, <2>4, <2>5, <2>7, <3>1, <3>3
      <3>4. CASE j # 1 /\ k # 1
        <4>1. /\ j - 1 \in 1..Len(s) /\ k - 1 \in 1..Len(s)
              /\ p2p_endpoint(s[j - 1]) = p2p_endpoint(s[k - 1])
          BY <2>5, <2>7, <3>4
        <4>2. s[j - 1] = s[k - 1]
          BY <2>4, <3>1, <4>1
        <4>3. j - 1 = k - 1
          BY <2>3, <2>7, <4>1, <4>2
        <4>4. j \in Int /\ k \in Int
          OBVIOUS
        <4> QED
          BY <4>3, <4>4
      <3> QED
        BY <3>2, <3>3, <3>4
    <2>8. Shaped # "mesh" => \A j, k \in 1..Len(list) : list[j] = list[k] => j = k
      BY <2>7
    <2>9. \A k \in 1..Len(list) : Cardinality({m \in Names : ListensAt(m, list[k])}) = 1
      BY <2>6
    <2> QED
      BY <2>8, <2>9, Zenon DEF list
  <1> QED
    BY <1>3, <1>4

(* PeersListen: in every network and on any number of hosts, an address in *)
(* a config.ini is that of one node, and rings and stars list none twice.  *)
THEOREM AddressesListen == ConfigSpec => []PeersListen
  BY ConfigFollowsTopology, InitIInv, IInvStep, InitFiles, FilesStep, InitStar, StarStep,
     ShapesComplete, PeersFollow, PTL DEF Spec, ConfigSpec

=============================================================================
