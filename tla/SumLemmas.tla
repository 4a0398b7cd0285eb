------------------------------ MODULE SumLemmas ------------------------------
(***************************************************************************)
(* What the sum of a function over a finite set is: the facts the gates'   *)
(* proofs use of MapThenSumSet, whose definition removes one element at a  *)
(* time.  The theorems of the library that reason by induction take the    *)
(* formula to prove as an operator; here a formula is the set of subsets   *)
(* it holds of, or fails for, and the induction a smallest element of that *)
(* set (WFMin).                                                            *)
(***************************************************************************)
EXTENDS FiniteSetsExt, Integers, TLAPS, FiniteSetTheorems, WellFoundedInduction

(* Of the sets in Bad there is one with no smaller one among its subsets.  *)
LEMMA SmallestBad ==
  ASSUME NEW S, IsFiniteSet(S), NEW Bad, Bad \subseteq SUBSET S, Bad # {}
  PROVE  \E T \in Bad : \A V \in SUBSET T : V # T => V \notin Bad
  <1>1. PICK T \in Bad : \A V \in Bad : <<V, T>> \notin StrictSubsetOrdering(S)
    BY FS_FiniteSubsetsOfFinite, WFMin, FS_StrictSubsetOrderingWellFounded
  <1> QED BY <1>1 DEF StrictSubsetOrdering

(* A family that has the empty set and keeps up as elements are added.     *)
LEMMA GrowsToAll ==
  ASSUME NEW S, IsFiniteSet(S), NEW C, {} \in C,
         \A T \in SUBSET S : \A x \in S \ T : T \in C => T \cup {x} \in C
  PROVE  S \in C
  <1> DEFINE Bad == {T \in SUBSET S : T \notin C}
  <1>1. ASSUME Bad # {} PROVE FALSE
    <2>1. PICK T \in Bad : \A V \in SUBSET T : V # T => V \notin Bad
      <3>1. Bad \subseteq SUBSET S
        OBVIOUS
      <3> HIDE DEF Bad
      <3> QED BY <1>1, <3>1, SmallestBad
    <2>2. PICK x \in T : TRUE
      OBVIOUS
    <2> DEFINE V == T \ {x}
    <2>3. V \in SUBSET S /\ x \in S \ V /\ V \cup {x} = T
      OBVIOUS
    <2>4. V \notin Bad
      BY <2>1
    <2> QED BY <2>1, <2>3, <2>4
  <1> QED BY <1>1

----------------------------------------------------------------------------

(* The sum of f over T, as MapThenSumSet has it.                           *)
SumOver(f, T) == MapThenSumSet(LAMBDA x : f[x], T)

(* Its definition: a function g of the sets, whose value at a set is the   *)
(* value of f at one element and g at the others.                          *)
Picked(s) == CHOOSE x \in s : TRUE
SumBody(f, g, s) == IF s = {} THEN 0 ELSE f[Picked(s)] + g[s \ {Picked(s)}]

IsSummer(f, g, S) == g = [s \in SUBSET S |-> SumBody(f, g, s)]

LEMMA SumOverUnfold ==
  ASSUME NEW f, NEW S
  PROVE  SumOver(f, S) = (CHOOSE g : IsSummer(f, g, S))[S]
  BY DEF SumOver, MapThenSumSet, MapThenFoldSet, SumBody, Picked, IsSummer

LEMMA PickedIsElement == \A s : s # {} => Picked(s) \in s
  BY DEF Picked

(* There is such a function on the subsets of any finite set: one that is  *)
(* right for all sets with fewer than n elements can be made right for     *)
(* those with n as well.                                                   *)
LEMMA SummerExists ==
  ASSUME NEW f, NEW S, IsFiniteSet(S)
  PROVE  \E g : IsSummer(f, g, S)
  <1> DEFINE Below(n) == {s \in SUBSET S : Cardinality(s) < n}
             C == {T \in SUBSET S : \E g : /\ g = [s \in SUBSET S |-> g[s]]
                                           /\ \A s \in Below(Cardinality(T) + 1) :
                                                g[s] = SumBody(f, g, s)}
  <1>0. \A s \in SUBSET S : IsFiniteSet(s) /\ Cardinality(s) \in Nat
    BY FS_Subset, FS_CardinalityType
  <1>1. {} \in C
    <2> DEFINE g == [s \in SUBSET S |-> 0]
    <2>1. \A s \in Below(Cardinality({}) + 1) : s = {}
      BY <1>0, FS_EmptySet
    <2>2. \A s \in Below(Cardinality({}) + 1) : g[s] = SumBody(f, g, s)
      BY <2>1 DEF SumBody
    <2> QED BY <2>2
  <1>2. ASSUME NEW T \in SUBSET S, NEW x \in S \ T, T \in C
        PROVE  T \cup {x} \in C
    <2> DEFINE n == Cardinality(T) + 1
    <2>1. PICK g : /\ g = [s \in SUBSET S |-> g[s]]
                   /\ \A s \in Below(n) : g[s] = SumBody(f, g, s)
      BY <1>2
    <2>2. Cardinality(T \cup {x}) = n /\ n \in Nat
      BY <1>0, FS_AddElement
    <2> DEFINE h == [s \in SUBSET S |-> IF Cardinality(s) = n THEN SumBody(f, g, s) ELSE g[s]]
    <2>3. ASSUME NEW s \in Below(n + 1) PROVE h[s] = SumBody(f, h, s)
      <3>1. h[s] = SumBody(f, g, s)
        <4>1. CASE Cardinality(s) = n
          BY <4>1
        <4>2. CASE Cardinality(s) # n
          <5>1. Cardinality(s) \in Nat /\ Cardinality(s) < n + 1 /\ s \in SUBSET S
            BY <1>0
          <5>2. s \in Below(n)
            BY <2>2, <4>2, <5>1
          <5>3. h[s] = g[s]
            BY <4>2, <5>1
          <5> QED BY <2>1, <5>2, <5>3
        <4> QED BY <4>1, <4>2
      <3>2. CASE s = {}
        BY <3>1, <3>2 DEF SumBody
      <3>3. CASE s # {}
        <4> DEFINE r == s \ {Picked(s)}
        <4>1. r \in SUBSET S /\ Cardinality(r) = Cardinality(s) - 1
          BY <1>0, <3>3, PickedIsElement, FS_RemoveElement
        <4>2. h[r] = g[r]
          BY <4>1, <1>0, <2>2, <2>3
        <4> HIDE DEF h
        <4> QED BY <4>2, <3>1 DEF SumBody
      <3> QED BY <3>2, <3>3
    <2>4. h = [s \in SUBSET S |-> h[s]]
      OBVIOUS
    <2> HIDE DEF h
    <2> QED BY <2>2, <2>3, <2>4
  <1> HIDE DEF C
  <1>3. S \in C
    BY <1>1, <1>2, GrowsToAll
  <1>4. PICK g : /\ g = [s \in SUBSET S |-> g[s]]
                 /\ \A s \in Below(Cardinality(S) + 1) : g[s] = SumBody(f, g, s)
    BY <1>3 DEF C
  <1>5. \A s \in SUBSET S : s \in Below(Cardinality(S) + 1)
    BY <1>0, FS_Subset
  <1>6. \A s \in SUBSET S : g[s] = SumBody(f, g, s)
    BY <1>4, <1>5
  <1> QED BY <1>4, <1>6 DEF IsSummer

Summer(f, S) == CHOOSE g : IsSummer(f, g, S)

LEMMA SummerIsSummer ==
  ASSUME NEW f, NEW S, IsFiniteSet(S)
  PROVE  IsSummer(f, Summer(f, S), S)
  BY SummerExists DEF Summer

(* Two such functions agree wherever both are defined.                     *)
LEMMA SummersAgree ==
  ASSUME NEW f, NEW S, IsFiniteSet(S), NEW T \in SUBSET S
  PROVE  SumOver(f, T) = Summer(f, S)[T]
  <1> DEFINE g == Summer(f, S)
             h == Summer(f, T)
             Bad == {s \in SUBSET T : g[s] # h[s]}
  <1>1. IsFiniteSet(T)
    BY FS_Subset
  <1>2. IsSummer(f, g, S) /\ IsSummer(f, h, T)
    BY <1>1, SummerIsSummer
  <1>3. SumOver(f, T) = h[T]
    BY SumOverUnfold DEF Summer
  <1> HIDE DEF g, h
  <1>4. ASSUME Bad # {} PROVE FALSE
    <2>1. PICK s \in Bad : \A V \in SUBSET s : V # s => V \notin Bad
      <3>1. Bad \subseteq SUBSET T
        OBVIOUS
      <3> HIDE DEF Bad
      <3> QED BY <1>1, <1>4, <3>1, SmallestBad
    <2>2. g[s] = SumBody(f, g, s) /\ h[s] = SumBody(f, h, s)
      BY <1>2 DEF IsSummer
    <2>3. s # {}
      BY <2>1, <2>2 DEF SumBody
    <2> DEFINE r == s \ {Picked(s)}
    <2>4. r \in SUBSET s /\ r # s
      BY <2>3, PickedIsElement
    <2>5. g[r] = h[r]
      BY <2>1, <2>4
    <2> QED BY <2>1, <2>2, <2>5 DEF SumBody
  <1>5. T \notin Bad
    BY <1>4
  <1> QED BY <1>3, <1>5 DEF g

(* The facts that are used elsewhere: of the empty set, of an element taken*)
(* out or added, of a smaller set.                                         *)
LEMMA SumOverEmpty ==
  ASSUME NEW f
  PROVE  SumOver(f, {}) = 0
  <1>1. IsSummer(f, Summer(f, {}), {})
    BY SummerIsSummer, FS_EmptySet
  <1> QED BY <1>1, SumOverUnfold DEF IsSummer, SumBody, Summer

LEMMA SumOverPicked ==
  ASSUME NEW f, NEW S, IsFiniteSet(S), S # {}
  PROVE  SumOver(f, S) = f[Picked(S)] + SumOver(f, S \ {Picked(S)})
  <1> DEFINE r == S \ {Picked(S)}
  <1>1. Summer(f, S)[S] = f[Picked(S)] + Summer(f, S)[r]
    <2>1. IsSummer(f, Summer(f, S), S)
      BY SummerIsSummer
    <2>2. Summer(f, S)[S] = SumBody(f, Summer(f, S), S)
      BY <2>1 DEF IsSummer
    <2> QED BY <2>2 DEF SumBody
  <1>2. r \in SUBSET S /\ S \in SUBSET S
    OBVIOUS
  <1> HIDE DEF r
  <1>3. SumOver(f, r) = Summer(f, S)[r] /\ SumOver(f, S) = Summer(f, S)[S]
    BY <1>2, SummersAgree
  <1> QED BY <1>1, <1>3 DEF r

LEMMA SumOverType ==
  ASSUME NEW D, NEW f \in [D -> Nat], NEW S \in SUBSET D, IsFiniteSet(S)
  PROVE  SumOver(f, S) \in Nat
  <1> DEFINE Bad == {T \in SUBSET S : SumOver(f, T) \notin Nat}
  <1>1. ASSUME Bad # {} PROVE FALSE
    <2>1. PICK T \in Bad : \A V \in SUBSET T : V # T => V \notin Bad
      <3>1. Bad \subseteq SUBSET S
        OBVIOUS
      <3> HIDE DEF Bad
      <3> QED BY <1>1, <3>1, SmallestBad
    <2>2. T # {}
      <3>1. SumOver(f, T) \notin Nat
        BY <2>1
      <3> QED BY <3>1, SumOverEmpty
    <2>3. IsFiniteSet(T) /\ Picked(T) \in T
      BY <2>2, FS_Subset, PickedIsElement
    <2>4. SumOver(f, T \ {Picked(T)}) \in Nat
      BY <2>1, <2>3
    <2>5. SumOver(f, T) = f[Picked(T)] + SumOver(f, T \ {Picked(T)})
      BY <2>2, <2>3, SumOverPicked
    <2>6. f[Picked(T)] \in Nat
      BY <2>3
    <2>7. SumOver(f, T) \in Nat
      BY <2>4, <2>5, <2>6
    <2> QED BY <2>1, <2>7
  <1> QED BY <1>1

LEMMA SumOverSplit ==
  ASSUME NEW D, NEW f \in [D -> Nat], NEW S \in SUBSET D, IsFiniteSet(S)
  PROVE  \A x \in S : SumOver(f, S) = f[x] + SumOver(f, S \ {x})
  <1> DEFINE Split(T) == \A x \in T : SumOver(f, T) = f[x] + SumOver(f, T \ {x})
             Bad == {T \in SUBSET S : ~Split(T)}
  <1>1. ASSUME Bad # {} PROVE FALSE
    <2>1. PICK T \in Bad : \A V \in SUBSET T : V # T => V \notin Bad
      <3>1. Bad \subseteq SUBSET S
        OBVIOUS
      <3> HIDE DEF Bad
      <3> QED BY <1>1, <3>1, SmallestBad
    <2>2. PICK x \in T : SumOver(f, T) # f[x] + SumOver(f, T \ {x})
      OBVIOUS
    <2> DEFINE y == Picked(T)
    <2>3. IsFiniteSet(T) /\ x \in T /\ y \in T
      BY <2>2, FS_Subset, PickedIsElement
    <2>4. SumOver(f, T) = f[y] + SumOver(f, T \ {y})
      BY <2>3, SumOverPicked
    <2> HIDE DEF y
    <2>5. x # y
      BY <2>2, <2>4
    <2>6. Split(T \ {y}) /\ Split(T \ {x})
      BY <2>1, <2>3
    <2> DEFINE r == (T \ {x}) \ {y}
    <2>7. r = (T \ {y}) \ {x}
      OBVIOUS
    <2>8. SumOver(f, T \ {y}) = f[x] + SumOver(f, r)
      BY <2>3, <2>5, <2>6, <2>7
    <2>9. SumOver(f, T \ {x}) = f[y] + SumOver(f, r)
      BY <2>3, <2>5, <2>6
    <2>10. SumOver(f, r) \in Nat /\ f[x] \in Nat /\ f[y] \in Nat
      BY <2>3, FS_Subset, SumOverType
    <2> HIDE DEF r
    <2> QED BY <2>2, <2>4, <2>8, <2>9, <2>10
  <1>2. Split(S)
    BY <1>1
  <1> QED BY <1>2

LEMMA SumOverAdd ==
  ASSUME NEW D, NEW f \in [D -> Nat], NEW S \in SUBSET D, IsFiniteSet(S), NEW x \in D \ S
  PROVE  SumOver(f, S \cup {x}) = SumOver(f, S) + f[x]
  <1>1. S \cup {x} \in SUBSET D /\ IsFiniteSet(S \cup {x}) /\ x \in S \cup {x}
    BY FS_AddElement
  <1>2. (S \cup {x}) \ {x} = S
    OBVIOUS
  <1>3. SumOver(f, S \cup {x}) = f[x] + SumOver(f, S)
    BY <1>1, <1>2, SumOverSplit
  <1>4. f[x] \in Nat /\ SumOver(f, S) \in Nat
    BY SumOverType
  <1> QED BY <1>3, <1>4

LEMMA SumOverMonotone ==
  ASSUME NEW D, NEW f \in [D -> Nat], NEW S \in SUBSET D, IsFiniteSet(S), NEW T \in SUBSET S
  PROVE  SumOver(f, T) <= SumOver(f, S)
  <1> DEFINE C == {V \in SUBSET (S \ T) : SumOver(f, T) <= SumOver(f, T \cup V)}
  <1>0. \A V \in SUBSET S : IsFiniteSet(V) /\ SumOver(f, V) \in Nat
    BY FS_Subset, SumOverType
  <1>1. {} \in C
    <2>1. T \cup {} = T
      OBVIOUS
    <2> QED BY <1>0, <2>1
  <1>2. ASSUME NEW V \in SUBSET (S \ T), NEW x \in (S \ T) \ V, V \in C
        PROVE  V \cup {x} \in C
    <2>1. SumOver(f, (T \cup V) \cup {x}) = SumOver(f, T \cup V) + f[x]
      <3> DEFINE W == T \cup V
      <3>1. W \in SUBSET D /\ IsFiniteSet(W) /\ x \in D \ W
        BY <1>0
      <3> HIDE DEF W
      <3>2. SumOver(f, W \cup {x}) = SumOver(f, W) + f[x]
        BY <3>1, SumOverAdd
      <3> QED BY <3>2 DEF W
    <2>2. (T \cup V) \cup {x} = T \cup (V \cup {x})
      OBVIOUS
    <2>3. f[x] \in Nat /\ SumOver(f, T) \in Nat /\ SumOver(f, T \cup V) \in Nat
      BY <1>0
    <2>4. SumOver(f, T) <= SumOver(f, T \cup V)
      BY <1>2
    <2>5. SumOver(f, T \cup (V \cup {x})) = SumOver(f, T \cup V) + f[x]
      BY <2>1, <2>2
    <2>6. SumOver(f, T) <= SumOver(f, T \cup (V \cup {x}))
      BY <2>3, <2>4, <2>5
    <2> QED BY <2>6
  <1>3. IsFiniteSet(S \ T)
    BY <1>0
  <1> HIDE DEF C
  <1>4. S \ T \in C
    BY <1>1, <1>2, <1>3, GrowsToAll
  <1>5. T \cup (S \ T) = S
    OBVIOUS
  <1> QED BY <1>4, <1>5 DEF C
=============================================================================
