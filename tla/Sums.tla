-------------------------------- MODULE Sums --------------------------------
(***************************************************************************)
(* Sums over finite functions (SumFunction of the community modules), for  *)
(* any domain. An induction over finite sets is stated with a set instead  *)
(* of a predicate: a set of counterexamples from which an element can      *)
(* always be taken away is empty.                                          *)
(***************************************************************************)
EXTENDS Functions, FiniteSets, FiniteSetTheorems, WellFoundedInduction, TLAPS

LEMMA LeastNumber ==
    ASSUME NEW T, T \subseteq Nat, T # {}
    PROVE  \E n \in T : \A m \in T : ~(m < n)
<1>1. PICK n \in T : \A m \in T : <<m, n>> \notin OpToRel(<, Nat)
  BY NatLessThanWellFounded, WFMin
<1>2. \A m \in T : m < n => <<m, n>> \in OpToRel(<, Nat)
  BY DEF OpToRel
<1> QED
  BY <1>1, <1>2

\* The element that a fold takes next.
Taken(s) == CHOOSE x \in s : TRUE

LEMMA TakeOne ==
    ASSUME NEW s, IsFiniteSet(s), s # {}
    PROVE  /\ Taken(s) \in s /\ IsFiniteSet(s \ {Taken(s)})
           /\ Cardinality(s) \in Nat /\ Cardinality(s) # 0
           /\ Cardinality(s \ {Taken(s)}) = Cardinality(s) - 1
<1>1. Taken(s) \in s
  BY DEF Taken
<1> QED
  BY <1>1, FS_CardinalityType, FS_RemoveElement, FS_EmptySet

LEMMA SetInduction ==
    ASSUME NEW S, IsFiniteSet(S), NEW bad, bad \subseteq SUBSET S,
           \A s \in bad : s # {} /\ s \ {Taken(s)} \in bad
    PROVE  bad = {}
<1> SUFFICES ASSUME bad # {} PROVE FALSE
  OBVIOUS
<1>1. \A s \in bad : IsFiniteSet(s) /\ Cardinality(s) \in Nat
  BY FS_Subset, FS_CardinalityType
<1> DEFINE sizes == {Cardinality(s) : s \in bad}
<1>0. sizes \subseteq Nat /\ sizes # {}
  BY <1>1
<1>2. PICK n \in sizes : \A m \in sizes : ~(m < n)
  <2> HIDE DEF sizes
  <2> QED
    BY <1>0, LeastNumber
<1>3. PICK s \in bad : n = Cardinality(s)
  BY <1>2
<1>4. s \ {Taken(s)} \in bad /\ Cardinality(s \ {Taken(s)}) = Cardinality(s) - 1
  BY <1>1, TakeOne
<1> QED
  BY <1>1, <1>2, <1>3, <1>4

-----------------------------------------------------------------------------
(* The fold has the partial sums that its definition asks for.             *)

Partial(f, D, g) ==
    g = [s \in D |-> IF s = {} THEN 0 ELSE f[Taken(s)] + g[s \ {Taken(s)}]]
Small(S, n) == {s \in SUBSET S : Cardinality(s) <= n}

LEMMA PartialSums ==
    ASSUME NEW f, NEW S, IsFiniteSet(S)
    PROVE  \E g : Partial(f, SUBSET S, g)
<1> DEFINE bad == {n \in Nat : ~\E g : Partial(f, Small(S, n), g)}
<1>1. \A s \in SUBSET S : IsFiniteSet(s) /\ Cardinality(s) \in Nat
  BY FS_Subset, FS_CardinalityType
<1>2. ASSUME NEW n \in bad, \A m \in bad : ~(m < n) PROVE FALSE
  <2>1. CASE n = 0
    <3> DEFINE g == [s \in Small(S, 0) |-> 0]
    <3>1. \A s \in Small(S, 0) : s = {}
      BY <1>1, FS_EmptySet DEF Small
    <3>2. Partial(f, Small(S, 0), g)
      BY <3>1 DEF Partial
    <3> QED
      BY <2>1, <3>2
  <2>2. CASE n # 0
    <3>1. n - 1 \in Nat /\ n - 1 \notin bad
      BY <1>2, <2>2
    <3>2. PICK g : Partial(f, Small(S, n - 1), g)
      BY <3>1
    <3> DEFINE h == [s \in Small(S, n) |->
                       IF s = {} THEN 0 ELSE f[Taken(s)] + g[s \ {Taken(s)}]]
    <3>3. \A s \in Small(S, n - 1) : s \in Small(S, n) /\ h[s] = g[s]
      <4> SUFFICES ASSUME NEW s \in Small(S, n - 1) PROVE s \in Small(S, n) /\ h[s] = g[s]
        OBVIOUS
      <4>1. s \in Small(S, n)
        BY <1>1, <3>1 DEF Small
      <4>2. g[s] = IF s = {} THEN 0 ELSE f[Taken(s)] + g[s \ {Taken(s)}]
        BY <3>2 DEF Partial
      <4> QED
        BY <4>1, <4>2
    <3>4. \A s \in Small(S, n) : s # {} => s \ {Taken(s)} \in Small(S, n - 1)
      BY <1>1, <3>1, TakeOne DEF Small
    <3>5. Partial(f, Small(S, n), h)
      BY <3>3, <3>4 DEF Partial
    <3> QED
      BY <3>5
  <2> QED
    BY <2>1, <2>2
<1>3. bad = {}
  BY <1>2, LeastNumber
<1>4. Cardinality(S) \in Nat /\ Small(S, Cardinality(S)) = SUBSET S
  BY FS_Subset, FS_CardinalityType DEF Small
<1>5. Cardinality(S) \notin bad
  BY <1>3
<1> QED
  BY <1>4, <1>5

\* The partial sums that the fold computes.
Sums(f) == CHOOSE g : Partial(f, SUBSET DOMAIN f, g)

LEMMA SumIsPartial ==
    ASSUME NEW f, IsFiniteSet(DOMAIN f)
    PROVE  /\ SumFunction(f) = Sums(f)[DOMAIN f]
           /\ Sums(f)[{}] = 0
           /\ \A s \in SUBSET DOMAIN f : s # {} =>
                Sums(f)[s] = f[Taken(s)] + Sums(f)[s \ {Taken(s)}]
<1>1. SumFunction(f) = Sums(f)[DOMAIN f]
  BY DEF SumFunction, SumFunctionOnSet, FoldFunctionOnSet, MapThenFoldSet, Sums, Partial, Taken
<1>2. Partial(f, SUBSET DOMAIN f, Sums(f))
  BY PartialSums DEF Sums
<1> QED
  BY <1>1, <1>2 DEF Partial

-----------------------------------------------------------------------------
LEMMA SumOfZeros ==
    ASSUME NEW f, IsFiniteSet(DOMAIN f), \A x \in DOMAIN f : f[x] = 0
    PROVE  SumFunction(f) = 0
<1> DEFINE bad == {s \in SUBSET DOMAIN f : Sums(f)[s] # 0}
<1>1. ASSUME NEW s \in bad PROVE s # {} /\ s \ {Taken(s)} \in bad
  <2>1. s # {}
    BY SumIsPartial
  <2>2. Taken(s) \in s
    BY <2>1 DEF Taken
  <2>3. Sums(f)[s] = 0 + Sums(f)[s \ {Taken(s)}]
    BY <2>1, <2>2, SumIsPartial
  <2> QED
    BY <2>1, <2>3
<1>2. bad = {}
  BY <1>1, SetInduction
<1> QED
  BY <1>2, SumIsPartial

LEMMA SumType ==
    ASSUME NEW f, IsFiniteSet(DOMAIN f), \A x \in DOMAIN f : f[x] \in Nat
    PROVE  /\ SumFunction(f) \in Nat
           /\ \A s \in SUBSET DOMAIN f : Sums(f)[s] \in Nat
<1> DEFINE bad == {s \in SUBSET DOMAIN f : Sums(f)[s] \notin Nat}
<1>1. ASSUME NEW s \in bad PROVE s # {} /\ s \ {Taken(s)} \in bad
  <2>1. s # {}
    <3>1. Sums(f)[{}] = 0 /\ Sums(f)[s] \notin Nat
      BY SumIsPartial
    <3> QED
      BY <3>1
  <2>2. Taken(s) \in s /\ f[Taken(s)] \in Nat
    BY <2>1 DEF Taken
  <2>3. Sums(f)[s] = f[Taken(s)] + Sums(f)[s \ {Taken(s)}]
    BY <2>1, SumIsPartial
  <2> QED
    BY <2>1, <2>2, <2>3
<1>2. bad = {}
  BY <1>1, SetInduction
<1> QED
  BY <1>2, SumIsPartial

\* One more in one place is one more in the sum.
LEMMA SumOfOneMore ==
    ASSUME NEW f, IsFiniteSet(DOMAIN f), \A x \in DOMAIN f : f[x] \in Nat,
           NEW h, DOMAIN h = DOMAIN f, NEW d \in DOMAIN f, h[d] = f[d] + 1,
           \A x \in DOMAIN f \ {d} : h[x] = f[x]
    PROVE  SumFunction(h) = SumFunction(f) + 1
<1> DEFINE one(s) == IF d \in s THEN 1 ELSE 0
           bad == {s \in SUBSET DOMAIN f : Sums(h)[s] # Sums(f)[s] + one(s)}
<1>0. \A s \in SUBSET DOMAIN f : Sums(f)[s] \in Nat /\ Sums(h)[s] \in Nat
  <2>1. \A x \in DOMAIN h : h[x] \in Nat
    OBVIOUS
  <2> QED
    BY <2>1, SumType
<1>1. ASSUME NEW s \in bad PROVE s # {} /\ s \ {Taken(s)} \in bad
  <2>1. s # {}
    <3>1. Sums(f)[{}] = 0 /\ Sums(h)[{}] = 0 /\ Sums(h)[s] # Sums(f)[s] + one(s)
      BY SumIsPartial
    <3>2. one({}) = 0
      OBVIOUS
    <3> QED
      BY <3>1, <3>2
  <2> DEFINE x == Taken(s)
  <2>2. x \in s
    BY <2>1 DEF Taken
  <2> HIDE DEF x
  <2>3. /\ Sums(f)[s] = f[x] + Sums(f)[s \ {x}]
        /\ Sums(h)[s] = h[x] + Sums(h)[s \ {x}]
    BY <2>1, SumIsPartial DEF x
  <2>4. /\ f[x] \in Nat /\ Sums(f)[s \ {x}] \in Nat /\ Sums(h)[s \ {x}] \in Nat
        /\ h[x] = IF x = d THEN f[x] + 1 ELSE f[x]
    BY <1>0, <2>2
  <2>5. one(s) = one(s \ {x}) + IF x = d THEN 1 ELSE 0
    BY <2>2
  <2>6. Sums(h)[s \ {x}] # Sums(f)[s \ {x}] + one(s \ {x})
    <3>1. Sums(h)[s] # Sums(f)[s] + one(s)
      OBVIOUS
    <3> QED
      BY <2>3, <2>4, <2>5, <3>1
  <2> QED
    BY <2>1, <2>6 DEF x
<1>2. bad = {}
  BY <1>1, SetInduction
<1>3. Sums(h)[DOMAIN f] = Sums(f)[DOMAIN f] + 1
  BY <1>2
<1> QED
  BY <1>3, SumIsPartial
=============================================================================
