--------------------------- MODULE OperatorLemmas ---------------------------
(***************************************************************************)
(* Lemmas about the operators that several models are built from, for the  *)
(* modules of proofs: induction, sums over a finite set, and the reference *)
(* traversal of module TenantGraph.  Induction is stated for sets instead  *)
(* of predicates, from the well-foundedness of < on Nat and of inclusion   *)
(* on finite sets; with it the recursive functions behind a sum and behind *)
(* Within are shown to exist, to be unique and to satisfy their equations. *)
(***************************************************************************)
EXTENDS TenantGraph, FiniteSets, FiniteSetsExt, TLAPS, FiniteSetTheorems

(* The least-number principle.                                             *)
LEMMA LeastNumber ==
  ASSUME NEW T, T \subseteq Nat, T # {}
  PROVE  \E m \in T : \A k \in T : m <= k
<1> DEFINE Less == {p \in Nat \X Nat : p[1] < p[2]}
<1>1. IsWellFoundedOn(Less, Nat)
  <2>1. Less = OpToRel(<, Nat)
    BY DEF OpToRel
  <2> QED BY <2>1, NatLessThanWellFounded
<1>2. \A x, y \in Nat : <<y, x>> \notin Less => x <= y
  OBVIOUS
<1> HIDE DEF Less
<1>3. PICK m \in T : \A k \in T : <<k, m>> \notin Less
  BY <1>1, WFMin
<1> QED BY <1>2, <1>3

(* Induction over the natural numbers that a set holds.                    *)
LEMMA SetInduction ==
  ASSUME NEW S, 0 \in S, \A k \in Nat : k \in S => k + 1 \in S
  PROVE  Nat \subseteq S
<1> SUFFICES ASSUME Nat \ S # {} PROVE FALSE
  OBVIOUS
<1>1. PICK m \in Nat \ S : \A k \in Nat \ S : m <= k
  <2>1. Nat \ S \subseteq Nat
    OBVIOUS
  <2> QED BY <2>1, LeastNumber
<1>2. m - 1 \in Nat /\ m - 1 \notin Nat \ S
  BY <1>1
<1> QED BY <1>1, <1>2

(* Induction over the subsets of a finite set.                             *)
LEMMA SubsetInduction ==
  ASSUME NEW S, IsFiniteSet(S), NEW T,
         \A s \in SUBSET S : (\A r \in SUBSET s : r # s => r \in T) => s \in T
  PROVE  SUBSET S \subseteq T
<1> SUFFICES ASSUME (SUBSET S) \ T # {} PROVE FALSE
  OBVIOUS
<1>1. IsWellFoundedOn(StrictSubsetOrdering(S), SUBSET S)
  <2>1. IsWellFoundedOn(StrictSubsetOrdering(S), FiniteSubsetsOf(S))
    BY FS_StrictSubsetOrderingWellFounded
  <2>2. FiniteSubsetsOf(S) = SUBSET S
    BY FS_FiniteSubsetsOfFinite
  <2> QED BY <2>1, <2>2, Zenon
<1>2. PICK s \in (SUBSET S) \ T :
        \A r \in (SUBSET S) \ T : <<r, s>> \notin StrictSubsetOrdering(S)
  <2> DEFINE U == (SUBSET S) \ T
  <2>1. U \subseteq SUBSET S /\ U # {}
    OBVIOUS
  <2> HIDE DEF U
  <2>2. \E s \in U : \A r \in U : ~(<<r, s>> \in StrictSubsetOrdering(S))
    BY <1>1, <2>1, WFMin
  <2> QED BY <2>2 DEF U
<1>3. ASSUME NEW r \in SUBSET s, r # s PROVE r \in T
  <2>1. r \in SUBSET S /\ <<r, s>> \in StrictSubsetOrdering(S)
    BY <1>3 DEF StrictSubsetOrdering
  <2> QED BY <2>1, <1>2
<1> QED BY <1>2, <1>3

-----------------------------------------------------------------------------
(* The sum of f over S.  MapThenSumSet folds S in an order that a CHOOSE   *)
(* picks; the order is shown not to matter.                                *)
SetSum(f, S) == MapThenSumSet(LAMBDA c : f[c], S)

Pick(S) == CHOOSE x \in S : TRUE

(* The equation of the function that the fold defines.                     *)
SumTable(f, g, S) ==
  g = [s \in SUBSET S |-> IF s = {} THEN 0 ELSE f[Pick(s)] + g[s \ {Pick(s)}]]

LEMMA SumTableValues ==
  ASSUME NEW f, NEW g, NEW S
  PROVE  SumTable(f, g, S) <=>
           /\ g = [s \in SUBSET S |-> g[s]]
           /\ g[{}] = 0
           /\ \A s \in SUBSET S : s # {} => g[s] = f[Pick(s)] + g[s \ {Pick(s)}]
<1>1. ASSUME SumTable(f, g, S)
      PROVE  /\ g = [s \in SUBSET S |-> g[s]]
             /\ g[{}] = 0
             /\ \A s \in SUBSET S : s # {} => g[s] = f[Pick(s)] + g[s \ {Pick(s)}]
  BY <1>1 DEF SumTable
<1>2. ASSUME /\ g = [s \in SUBSET S |-> g[s]]
             /\ g[{}] = 0
             /\ \A s \in SUBSET S : s # {} => g[s] = f[Pick(s)] + g[s \ {Pick(s)}]
      PROVE  SumTable(f, g, S)
  <2>1. \A s \in SUBSET S :
          g[s] = IF s = {} THEN 0 ELSE f[Pick(s)] + g[s \ {Pick(s)}]
    BY <1>2
  <2> QED BY <1>2, <2>1 DEF SumTable
<1> QED BY <1>1, <1>2

LEMMA SetSumIsTable ==
  ASSUME NEW f, NEW S
  PROVE  SetSum(f, S) = (CHOOSE g : SumTable(f, g, S))[S]
BY DEF SetSum, MapThenSumSet, MapThenFoldSet, SumTable, Pick

LEMMA PickIn ==
  ASSUME NEW S, S # {}
  PROVE  Pick(S) \in S
BY DEF Pick

(* The recursion of the sum, in the order of the fold.                     *)
LEMMA SumUnfolds ==
  ASSUME NEW f, NEW S, IsFiniteSet(S)
  PROVE  SetSum(f, S) = IF S = {} THEN 0 ELSE f[Pick(S)] + SetSum(f, S \ {Pick(S)})
<1> DEFINE Unfolds(s) ==
             SetSum(f, s) = IF s = {} THEN 0 ELSE f[Pick(s)] + SetSum(f, s \ {Pick(s)})
           T == {s \in SUBSET S : Unfolds(s)}
<1>1. ASSUME NEW s \in SUBSET S, \A r \in SUBSET s : r # s => r \in T
      PROVE  s \in T
  <2> DEFINE h == [r \in SUBSET s |->
                     IF r = {} THEN 0 ELSE f[Pick(r)] + SetSum(f, r \ {Pick(r)})]
  <2>1. /\ h = [r \in SUBSET s |-> h[r]]
        /\ \A r \in SUBSET s :
             h[r] = IF r = {} THEN 0 ELSE f[Pick(r)] + SetSum(f, r \ {Pick(r)})
    OBVIOUS
  <2> HIDE DEF h
  <2>2. ASSUME NEW r \in SUBSET s, r # {}
        PROVE  h[r] = f[Pick(r)] + h[r \ {Pick(r)}]
    <3>1. /\ r \ {Pick(r)} \in SUBSET s /\ r \ {Pick(r)} # s
      BY <2>2, PickIn
    <3>2. Unfolds(r \ {Pick(r)})
      BY <1>1, <3>1
    <3>3. h[r \ {Pick(r)}] = SetSum(f, r \ {Pick(r)})
      BY <3>1, <3>2, <2>1
    <3> QED BY <2>1, <2>2, <3>3
  <2>3. SumTable(f, h, s)
    <3>1. {} \in SUBSET s
      OBVIOUS
    <3>2. h[{}] = 0
      BY <2>1, <3>1
    <3> QED BY <2>1, <2>2, <3>2, SumTableValues
  <2>4. ASSUME NEW g, SumTable(f, g, s) PROVE g[s] = h[s]
    <3> DEFINE R == {r \in SUBSET s : g[r] = h[r]}
    <3>1. /\ g[{}] = 0
          /\ \A r \in SUBSET s : r # {} => g[r] = f[Pick(r)] + g[r \ {Pick(r)}]
      BY <2>4, SumTableValues
    <3>2. /\ h[{}] = 0
          /\ \A r \in SUBSET s : r # {} => h[r] = f[Pick(r)] + h[r \ {Pick(r)}]
      BY <2>3, SumTableValues
    <3>3. ASSUME NEW r \in SUBSET s, \A q \in SUBSET r : q # r => q \in R
          PROVE  r \in R
      <4>1. CASE r = {}
        BY <4>1, <3>1, <3>2
      <4>2. CASE r # {}
        <5>1. r \ {Pick(r)} \in SUBSET r /\ r \ {Pick(r)} # r
          BY <4>2, PickIn
        <5>2. g[r \ {Pick(r)}] = h[r \ {Pick(r)}]
          BY <5>1, <3>3
        <5> QED BY <5>2, <4>2, <3>1, <3>2
      <4> QED BY <4>1, <4>2
    <3>4. IsFiniteSet(s)
      BY FS_Subset
    <3> HIDE DEF R
    <3>5. SUBSET s \subseteq R
      BY <3>3, <3>4, SubsetInduction
    <3> QED BY <3>5 DEF R
  <2>5. SetSum(f, s) = h[s]
    <3>1. SumTable(f, CHOOSE g : SumTable(f, g, s), s)
      BY <2>3
    <3> QED BY <3>1, <2>4, SetSumIsTable
  <2> QED BY <2>1, <2>5
<1> HIDE DEF T
<1>2. SUBSET S \subseteq T
  BY <1>1, SubsetInduction
<1> QED BY <1>2 DEF T

(* The order does not matter: any element can be taken out first.          *)
LEMMA SumRemove ==
  ASSUME NEW S, IsFiniteSet(S), NEW f, \A x \in S : f[x] \in Nat
  PROVE  /\ SetSum(f, S) \in Nat
         /\ SetSum(f, {}) = 0
         /\ \A c \in S : SetSum(f, S) = f[c] + SetSum(f, S \ {c})
<1> DEFINE Splits(s) == /\ SetSum(f, s) \in Nat
                        /\ \A c \in s : SetSum(f, s) = f[c] + SetSum(f, s \ {c})
           T == {s \in SUBSET S : Splits(s)}
<1>0. SetSum(f, {}) = 0
  BY SumUnfolds, FS_EmptySet
<1>1. ASSUME NEW s \in SUBSET S, \A r \in SUBSET s : r # s => r \in T
      PROVE  s \in T
  <2>1. CASE s = {}
    BY <2>1, <1>0
  <2>2. CASE s # {}
    <3> DEFINE p == Pick(s)
    <3>1. p \in s /\ f[p] \in Nat
      BY <2>2, PickIn
    <3> HIDE DEF p
    <3>2. SetSum(f, s) = f[p] + SetSum(f, s \ {p})
      <4>1. IsFiniteSet(s)
        BY FS_Subset
      <4> QED BY <4>1, <2>2, SumUnfolds DEF p
    <3>3. \A c \in s : s \ {c} \in T
      BY <1>1
    <3>4. \A c \in s : SetSum(f, s \ {c}) \in Nat
      BY <3>3
    <3>5. ASSUME NEW c \in s, c # p
          PROVE  SetSum(f, s) = f[c] + SetSum(f, s \ {c})
      <4>1. c \in s \ {p} /\ p \in s \ {c} /\ (s \ {p}) \ {c} = (s \ {c}) \ {p}
        BY <3>1, <3>5
      <4>2. SetSum(f, s \ {p}) = f[c] + SetSum(f, (s \ {p}) \ {c})
        BY <3>1, <3>3, <4>1
      <4>3. SetSum(f, s \ {c}) = f[p] + SetSum(f, (s \ {c}) \ {p})
        BY <3>3, <4>1
      <4>4. SetSum(f, (s \ {p}) \ {c}) \in Nat /\ f[c] \in Nat
        <5>1. (s \ {p}) \ {c} \in T
          <6>1. (s \ {p}) \ {c} \in SUBSET s /\ (s \ {p}) \ {c} # s
            BY <3>1
          <6> QED BY <6>1, <1>1
        <5> QED BY <5>1
      <4> QED BY <3>1, <3>2, <4>1, <4>2, <4>3, <4>4
    <3> QED BY <3>1, <3>2, <3>4, <3>5
  <2> QED BY <2>1, <2>2
<1> HIDE DEF T
<1>2. SUBSET S \subseteq T
  BY <1>1, SubsetInduction
<1> QED BY <1>0, <1>2 DEF T

(* Functions that agree on the set have the same sum.                      *)
LEMMA SumAgrees ==
  ASSUME NEW S, IsFiniteSet(S), NEW f, NEW h, \A x \in S : f[x] = h[x]
  PROVE  SetSum(f, S) = SetSum(h, S)
<1> DEFINE T == {s \in SUBSET S : SetSum(f, s) = SetSum(h, s)}
<1>1. ASSUME NEW s \in SUBSET S, \A r \in SUBSET s : r # s => r \in T
      PROVE  s \in T
  <2>0. IsFiniteSet(s)
    BY FS_Subset
  <2>1. CASE s = {}
    BY <2>0, <2>1, SumUnfolds
  <2>2. CASE s # {}
    <3>1. Pick(s) \in s /\ s \ {Pick(s)} \in SUBSET s /\ s \ {Pick(s)} # s
      BY <2>2, PickIn
    <3>2. SetSum(f, s \ {Pick(s)}) = SetSum(h, s \ {Pick(s)})
      BY <3>1, <1>1
    <3>3. /\ SetSum(f, s) = f[Pick(s)] + SetSum(f, s \ {Pick(s)})
          /\ SetSum(h, s) = h[Pick(s)] + SetSum(h, s \ {Pick(s)})
      BY <2>0, <2>2, SumUnfolds
    <3> QED BY <3>1, <3>2, <3>3
  <2> QED BY <2>1, <2>2
<1> HIDE DEF T
<1>2. SUBSET S \subseteq T
  BY <1>1, SubsetInduction
<1> QED BY <1>2 DEF T

-----------------------------------------------------------------------------
(* One step along the edges of tenant t, from the nodes of X.              *)
Onward(E, t, X) == X \cup {E[i].to : i \in Leaving(E, t, X)}

(* The equation of the function that Within defines.                       *)
Layers(g, E, t, s, k) ==
  g = [j \in 0..k |->
         IF j = 0 THEN {s} ELSE g[j - 1] \cup {E[i].to : i \in Leaving(E, t, g[j - 1])}]

LEMMA LayerValues ==
  ASSUME NEW g, NEW E, NEW t, NEW s, NEW k \in Nat
  PROVE  Layers(g, E, t, s, k) <=>
           /\ g = [j \in 0..k |-> g[j]]
           /\ g[0] = {s}
           /\ \A j \in 0..k : j # 0 => g[j] = Onward(E, t, g[j - 1])
BY DEF Layers, Onward

LEMMA LayersExist ==
  ASSUME NEW E, NEW t, NEW s
  PROVE  \A k \in Nat : \E g : Layers(g, E, t, s, k)
<1> DEFINE S == {k \in Nat : \E g : Layers(g, E, t, s, k)}
<1>1. 0 \in S
  <2> DEFINE g == [j \in 0..0 |-> {s}]
  <2>1. g = [j \in 0..0 |-> g[j]] /\ g[0] = {s} /\ \A j \in 0..0 : j = 0
    OBVIOUS
  <2> HIDE DEF g
  <2>2. Layers(g, E, t, s, 0)
    BY <2>1, LayerValues
  <2> QED BY <2>2
<1>2. ASSUME NEW k \in Nat, k \in S PROVE k + 1 \in S
  <2>1. PICK g : Layers(g, E, t, s, k)
    BY <1>2
  <2>2. g[0] = {s} /\ \A j \in 0..k : j # 0 => g[j] = Onward(E, t, g[j - 1])
    BY <2>1, LayerValues
  <2> DEFINE h == [j \in 0..(k + 1) |-> IF j = k + 1 THEN Onward(E, t, g[k]) ELSE g[j]]
  <2>3. h = [j \in 0..(k + 1) |-> h[j]] /\ h[0] = {s}
    BY <2>2
  <2>4. ASSUME NEW j \in 0..(k + 1), j # 0 PROVE h[j] = Onward(E, t, h[j - 1])
    <3>1. CASE j = k + 1
      <4>1. j - 1 = k /\ k \in 0..(k + 1) /\ k # k + 1
        BY <3>1
      <4> QED BY <3>1, <4>1
    <3>2. CASE j # k + 1
      <4>1. j \in 0..k /\ j - 1 \in 0..(k + 1) /\ j - 1 # k + 1
        BY <2>4, <3>2
      <4> QED BY <2>2, <2>4, <3>2, <4>1
    <3> QED BY <3>1, <3>2
  <2> HIDE DEF h
  <2>5. Layers(h, E, t, s, k + 1)
    <3>1. k + 1 \in Nat
      OBVIOUS
    <3> QED BY <2>3, <2>4, <3>1, LayerValues
  <2> QED BY <2>5
<1> HIDE DEF S
<1>3. Nat \subseteq S
  BY <1>1, <1>2, SetInduction
<1> QED BY <1>3 DEF S

LEMMA LayersAgree ==
  ASSUME NEW E, NEW t, NEW s, NEW k \in Nat, NEW m \in Nat, k <= m,
         NEW g, NEW h, Layers(g, E, t, s, k), Layers(h, E, t, s, m)
  PROVE  g[k] = h[k]
<1> DEFINE S == {j \in Nat : j <= k => g[j] = h[j]}
<1>1. /\ g[0] = {s} /\ \A j \in 0..k : j # 0 => g[j] = Onward(E, t, g[j - 1])
      /\ h[0] = {s} /\ \A j \in 0..m : j # 0 => h[j] = Onward(E, t, h[j - 1])
  BY LayerValues
<1>2. 0 \in S
  BY <1>1
<1>3. ASSUME NEW j \in Nat, j \in S PROVE j + 1 \in S
  <2> SUFFICES ASSUME j + 1 <= k PROVE g[j + 1] = h[j + 1]
    OBVIOUS
  <2>1. g[j] = h[j] /\ j + 1 \in 0..k /\ j + 1 \in 0..m /\ j + 1 # 0 /\ (j + 1) - 1 = j
    BY <1>3
  <2> QED BY <1>1, <2>1
<1> HIDE DEF S
<1>4. Nat \subseteq S
  BY <1>2, <1>3, SetInduction
<1> QED BY <1>4 DEF S

LEMMA WithinIsLayer ==
  ASSUME NEW E, NEW t, NEW s, NEW k \in Nat
  PROVE  \E g : Layers(g, E, t, s, k) /\ Within(E, t, s, k) = g[k]
<1>1. Within(E, t, s, k) = (CHOOSE g : Layers(g, E, t, s, k))[k]
  BY DEF Within, Layers
<1>2. \E g : Layers(g, E, t, s, k)
  BY LayersExist
<1> QED BY <1>1, <1>2

(* The recursion of Within, as equations.                                  *)
LEMMA WithinStart ==
  ASSUME NEW E, NEW t, NEW s
  PROVE  Within(E, t, s, 0) = {s}
<1>1. PICK g : Layers(g, E, t, s, 0) /\ Within(E, t, s, 0) = g[0]
  BY WithinIsLayer
<1> QED BY <1>1, LayerValues

LEMMA WithinNext ==
  ASSUME NEW E, NEW t, NEW s, NEW k \in Nat
  PROVE  Within(E, t, s, k + 1) = Onward(E, t, Within(E, t, s, k))
<1>1. PICK g : Layers(g, E, t, s, k) /\ Within(E, t, s, k) = g[k]
  BY WithinIsLayer
<1>2. PICK h : Layers(h, E, t, s, k + 1) /\ Within(E, t, s, k + 1) = h[k + 1]
  BY WithinIsLayer
<1>3. g[k] = h[k]
  BY <1>1, <1>2, LayersAgree
<1>4. h[k + 1] = Onward(E, t, h[(k + 1) - 1])
  <2>1. k + 1 \in Nat /\ k + 1 \in 0..(k + 1) /\ k + 1 # 0
    OBVIOUS
  <2> QED BY <1>2, <2>1, LayerValues
<1>5. (k + 1) - 1 = k
  OBVIOUS
<1> QED BY <1>1, <1>2, <1>3, <1>4, <1>5
-----------------------------------------------------------------------------
(* Going further reaches no less.                                          *)
LEMMA WithinGrows ==
  ASSUME NEW E, NEW t, NEW s, NEW j \in Nat, NEW k \in Nat, j <= k
  PROVE  Within(E, t, s, j) \subseteq Within(E, t, s, k)
<1> DEFINE S == {m \in Nat : j <= m => Within(E, t, s, j) \subseteq Within(E, t, s, m)}
<1>1. 0 \in S
  <2>1. j <= 0 => j = 0
    OBVIOUS
  <2> QED BY <2>1
<1>2. ASSUME NEW m \in Nat, m \in S PROVE m + 1 \in S
  <2> SUFFICES ASSUME j <= m + 1
               PROVE  Within(E, t, s, j) \subseteq Within(E, t, s, m + 1)
    OBVIOUS
  <2>1. CASE j = m + 1
    BY <2>1
  <2>2. CASE j <= m
    <3>1. Within(E, t, s, j) \subseteq Within(E, t, s, m)
      BY <1>2, <2>2
    <3>2. Within(E, t, s, m) \subseteq Within(E, t, s, m + 1)
      <4>1. Within(E, t, s, m + 1) = Onward(E, t, Within(E, t, s, m))
        BY WithinNext
      <4> QED BY <4>1 DEF Onward
    <3> QED BY <3>1, <3>2
  <2> QED BY <2>1, <2>2
<1> HIDE DEF S
<1>3. Nat \subseteq S
  BY <1>1, <1>2, SetInduction
<1> QED BY <1>3 DEF S

(* A depth that reaches nothing new is as far as any other.                *)
LEMMA WithinCloses ==
  ASSUME NEW E, NEW t, NEW s, NEW j \in Nat, NEW k \in Nat, j <= k,
         \A i \in Leaving(E, t, Within(E, t, s, j)) : E[i].to \in Within(E, t, s, j)
  PROVE  Within(E, t, s, k) = Within(E, t, s, j)
<1> DEFINE S == {m \in Nat : j <= m => Within(E, t, s, m) = Within(E, t, s, j)}
<1>1. 0 \in S
  <2>1. j <= 0 => j = 0
    OBVIOUS
  <2> QED BY <2>1
<1>2. ASSUME NEW m \in Nat, m \in S PROVE m + 1 \in S
  <2> SUFFICES ASSUME j <= m + 1
               PROVE  Within(E, t, s, m + 1) = Within(E, t, s, j)
    OBVIOUS
  <2>1. CASE j = m + 1
    BY <2>1
  <2>2. CASE j <= m
    <3>1. Within(E, t, s, m) = Within(E, t, s, j)
      BY <1>2, <2>2
    <3>2. Onward(E, t, Within(E, t, s, j)) = Within(E, t, s, j)
      BY DEF Onward
    <3> QED BY <3>1, <3>2, WithinNext
  <2> QED BY <2>1, <2>2
<1> HIDE DEF S
<1>3. Nat \subseteq S
  BY <1>1, <1>2, SetInduction
<1> QED BY <1>3 DEF S

(* A set that holds the start and where its edges lead holds all there is  *)
(* within reach.                                                           *)
LEMMA WithinInside ==
  ASSUME NEW E, NEW t, NEW s, NEW X, s \in X,
         \A i \in Leaving(E, t, X) : E[i].to \in X
  PROVE  \A k \in Nat : Within(E, t, s, k) \subseteq X
<1> DEFINE S == {k \in Nat : Within(E, t, s, k) \subseteq X}
<1>1. 0 \in S
  BY WithinStart
<1>2. ASSUME NEW k \in Nat, k \in S PROVE k + 1 \in S
  <2>1. Within(E, t, s, k + 1) = Onward(E, t, Within(E, t, s, k))
    BY WithinNext
  <2>2. Within(E, t, s, k) \subseteq X
    BY <1>2
  <2>3. Leaving(E, t, Within(E, t, s, k)) \subseteq Leaving(E, t, X)
    BY <2>2 DEF Leaving
  <2>4. Onward(E, t, Within(E, t, s, k)) \subseteq X
    BY <2>2, <2>3 DEF Onward
  <2> QED BY <2>1, <2>4
<1> HIDE DEF S
<1>3. Nat \subseteq S
  BY <1>1, <1>2, SetInduction
<1> QED BY <1>3 DEF S

(* The edges D are the first of the edges E, as when edges are appended.   *)
IsPrefixOf(D, E) ==
  /\ Len(D) \in Nat /\ Len(E) \in Nat /\ Len(D) <= Len(E)
  /\ \A i \in 1..Len(D) : D[i] = E[i]

LEMMA PrefixLeaving ==
  ASSUME NEW D, NEW E, IsPrefixOf(D, E), NEW t, NEW X, NEW Y, X \subseteq Y
  PROVE  Leaving(D, t, X) \subseteq Leaving(E, t, Y)
BY DEF IsPrefixOf, Leaving

LEMMA PrefixOnward ==
  ASSUME NEW D, NEW E, IsPrefixOf(D, E), NEW t, NEW X, NEW Y, X \subseteq Y
  PROVE  Onward(D, t, X) \subseteq Onward(E, t, Y)
<1>1. Leaving(D, t, X) \subseteq Leaving(E, t, Y)
  BY PrefixLeaving
<1>2. \A i \in Leaving(D, t, X) : D[i] = E[i]
  BY DEF IsPrefixOf, Leaving
<1> QED BY <1>1, <1>2 DEF Onward

(* More edges reach no less.                                               *)
LEMMA PrefixWithin ==
  ASSUME NEW D, NEW E, IsPrefixOf(D, E), NEW t, NEW s
  PROVE  \A k \in Nat : Within(D, t, s, k) \subseteq Within(E, t, s, k)
<1> DEFINE S == {k \in Nat : Within(D, t, s, k) \subseteq Within(E, t, s, k)}
<1>1. 0 \in S
  BY WithinStart
<1>2. ASSUME NEW k \in Nat, k \in S PROVE k + 1 \in S
  <2>1. Within(D, t, s, k + 1) = Onward(D, t, Within(D, t, s, k))
    BY WithinNext
  <2>2. Within(E, t, s, k + 1) = Onward(E, t, Within(E, t, s, k))
    BY WithinNext
  <2>3. Within(D, t, s, k) \subseteq Within(E, t, s, k)
    BY <1>2
  <2>4. Onward(D, t, Within(D, t, s, k)) \subseteq Onward(E, t, Within(E, t, s, k))
    BY <2>3, PrefixOnward
  <2> QED BY <2>1, <2>2, <2>4
<1> HIDE DEF S
<1>3. Nat \subseteq S
  BY <1>1, <1>2, SetInduction
<1> QED BY <1>3 DEF S

LEMMA PrefixTraversed ==
  ASSUME NEW D, NEW E, IsPrefixOf(D, E), NEW t, NEW s, NEW d \in Nat
  PROVE  Traversed(D, t, s, d) \subseteq Traversed(E, t, s, d)
<1>1. CASE d = 0
  BY <1>1 DEF Traversed
<1>2. CASE d # 0
  <2>1. d - 1 \in Nat
    BY <1>2
  <2>2. Within(D, t, s, d - 1) \subseteq Within(E, t, s, d - 1)
    BY <2>1, PrefixWithin
  <2> QED BY <1>2, <2>2, PrefixLeaving DEF Traversed
<1> QED BY <1>1, <1>2
=============================================================================
