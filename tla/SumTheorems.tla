----------------------------- MODULE SumTheorems -----------------------------
(***************************************************************************)
(* What the sums of module Sums obey, for every finite set of rows.  The   *)
(* proofs about the till, the shelf and the books cite these lemmas.       *)
(***************************************************************************)
EXTENDS Sums, FiniteSetTheorems, WellFoundedInduction, TLAPS

-----------------------------------------------------------------------------
(* Induction over the subsets of a finite set, in terms of the set of the  *)
(* subsets for which the claim holds.                                      *)

\* A family of subsets of S that has {} and grows by one element has S.
LEMMA SubsetInduction ==
  ASSUME NEW S, IsFiniteSet(S), NEW T, {} \in T,
         \A A \in SUBSET S : A \in T => \A x \in S \ A : A \cup {x} \in T
  PROVE  S \in T
<1>. DEFINE Bad == {A \in SUBSET S : A \notin T}
<1>. SUFFICES ASSUME S \notin T PROVE FALSE
  OBVIOUS
<1>1. IsWellFoundedOn(StrictSubsetOrdering(S), SUBSET S)
  BY FS_StrictSubsetOrderingWellFounded, FS_FiniteSubsetsOfFinite
<1>2. Bad \subseteq SUBSET S /\ Bad # {}
  OBVIOUS
<1>3. PICK A \in Bad : \A B \in Bad : <<B, A>> \notin StrictSubsetOrdering(S)
  <2>. HIDE DEF Bad
  <2>. QED
    BY <1>1, <1>2, WFMin
<1>4. A # {} /\ A \in SUBSET S /\ A \notin T
  BY <1>3
<1>5. PICK x : x \in A
  BY <1>4
<1>. DEFINE B == A \ {x}
<1>6. B \in SUBSET S /\ B \subseteq A /\ B # A /\ B \cup {x} = A /\ x \in S \ B
  BY <1>4, <1>5
<1>7. <<B, A>> \in StrictSubsetOrdering(S)
  BY <1>4, <1>6 DEF StrictSubsetOrdering
<1>8. B \in T
  BY <1>3, <1>6, <1>7
<1>. QED
  BY <1>4, <1>6, <1>8

-----------------------------------------------------------------------------
(* Sums.                                                                   *)

\* The units of one row: as many as its column says.
LEMMA RowUnits ==
  ASSUME NEW x, NEW n \in Nat
  PROVE  IsFiniteSet({x} \X (1 .. n)) /\ Cardinality({x} \X (1 .. n)) = n
<1>1. IsFiniteSet({x}) /\ Cardinality({x}) = 1
  BY FS_Singleton
<1>2. IsFiniteSet(1 .. n) /\ Cardinality(1 .. n) = n
  BY FS_Interval
<1>3. /\ IsFiniteSet({x} \X (1 .. n))
      /\ Cardinality({x} \X (1 .. n)) = Cardinality({x}) * Cardinality(1 .. n)
  BY <1>1, <1>2, FS_Product
<1>. QED
  BY <1>1, <1>2, <1>3

\* Finitely many rows hold finitely many units, and their sum is a natural
\* number.
LEMMA SumNat ==
  ASSUME NEW S, IsFiniteSet(S), NEW f, \A x \in S : f[x] \in Nat
  PROVE  IsFiniteSet(Units(f, S)) /\ SumOver(f, S) \in Nat
<1>. DEFINE rows == {{x} \X (1 .. f[x]) : x \in S}
            g == [x \in S |-> {x} \X (1 .. f[x])]
<1>1. g \in Surjection(S, rows)
  BY DEF Surjection
<1>2. IsFiniteSet(rows)
  <2>. HIDE DEF g, rows
  <2>. QED
    BY <1>1, FS_Surjection
<1>3. \A U \in rows : IsFiniteSet(U)
  <2>1. ASSUME NEW x \in S PROVE IsFiniteSet({x} \X (1 .. f[x]))
    BY RowUnits, f[x] \in Nat
  <2>. QED
    BY <2>1
<1>4. IsFiniteSet(UNION rows)
  <2>. HIDE DEF rows
  <2>. QED
    BY <1>2, <1>3, FS_UNION
<1>. QED
  BY <1>4, FS_CardinalityType DEF Units, SumOver

LEMMA SumEmpty == \A f : SumOver(f, {}) = 0
BY FS_EmptySet DEF Units, SumOver

\* The sum over two sets of rows with nothing in common.
LEMMA SumUnion ==
  ASSUME NEW S, IsFiniteSet(S), NEW T, IsFiniteSet(T), S \cap T = {},
         NEW f, \A x \in S \cup T : f[x] \in Nat
  PROVE  SumOver(f, S \cup T) = SumOver(f, S) + SumOver(f, T)
<1>1. /\ IsFiniteSet(Units(f, S)) /\ SumOver(f, S) \in Nat
      /\ IsFiniteSet(Units(f, T)) /\ SumOver(f, T) \in Nat
  BY SumNat
<1>2. Units(f, S \cup T) = Units(f, S) \cup Units(f, T)
  BY DEF Units
<1>3. Units(f, S) \cap Units(f, T) = {}
  BY DEF Units
<1>. DEFINE A == Units(f, S)  B == Units(f, T)
<1>4. /\ IsFiniteSet(A) /\ Cardinality(A) \in Nat
      /\ IsFiniteSet(B) /\ Cardinality(B) \in Nat /\ A \cap B = {}
  BY <1>1, <1>3 DEF SumOver
<1>5. Cardinality(A \cup B) = Cardinality(A) + Cardinality(B)
  <2>. HIDE DEF A, B
  <2>1. Cardinality(A \cup B)
          = Cardinality(A) + Cardinality(B) - Cardinality(A \cap B)
    BY <1>4, FS_Union
  <2>2. Cardinality(A \cap B) = 0
    BY <1>4, FS_EmptySet
  <2>. QED
    BY <1>4, <2>1, <2>2
<1>. QED
  BY <1>2, <1>5 DEF SumOver

LEMMA SumOne ==
  ASSUME NEW x, NEW f, f[x] \in Nat
  PROVE  SumOver(f, {x}) = f[x]
<1>1. Units(f, {x}) = {x} \X (1 .. f[x])
  BY DEF Units
<1>. QED
  BY <1>1, RowUnits DEF SumOver

\* One more row.
LEMMA SumAdd ==
  ASSUME NEW S, IsFiniteSet(S), NEW x, x \notin S,
         NEW f, \A y \in S \cup {x} : f[y] \in Nat
  PROVE  SumOver(f, S \cup {x}) = SumOver(f, S) + f[x]
<1>1. IsFiniteSet({x}) /\ S \cap {x} = {} /\ f[x] \in Nat
  BY FS_Singleton
<1>2. SumOver(f, S \cup {x}) = SumOver(f, S) + SumOver(f, {x})
  BY <1>1, SumUnion
<1>. QED
  BY <1>1, <1>2, SumOne

\* One row taken out of the rest.
LEMMA SumRemove ==
  ASSUME NEW S, IsFiniteSet(S), NEW x \in S, NEW f, \A y \in S : f[y] \in Nat
  PROVE  /\ SumOver(f, S) = SumOver(f, S \ {x}) + f[x]
         /\ SumOver(f, S \ {x}) \in Nat
<1>1. IsFiniteSet(S \ {x}) /\ x \notin S \ {x} /\ (S \ {x}) \cup {x} = S
  BY FS_RemoveElement
<1>2. SumOver(f, (S \ {x}) \cup {x}) = SumOver(f, S \ {x}) + f[x]
  BY <1>1, SumAdd
<1>. QED
  BY <1>1, <1>2, SumNat

\* Fewer rows, or smaller ones, hold no more.
LEMMA SumMonotone ==
  ASSUME NEW S, IsFiniteSet(S), NEW T \in SUBSET S, NEW f, NEW g,
         \A x \in S : g[x] \in Nat,
         \A x \in T : f[x] \in Nat /\ f[x] <= g[x]
  PROVE  SumOver(f, T) <= SumOver(g, S)
<1>1. IsFiniteSet(Units(g, S))
  BY SumNat
<1>2. Units(f, T) \subseteq Units(g, S)
  BY DEF Units
<1>. QED
  BY <1>1, <1>2, FS_Subset DEF SumOver

\* Only the column matters, and only over the rows summed.
LEMMA SumSame ==
  ASSUME NEW S, NEW f, NEW g, \A x \in S : f[x] = g[x]
  PROVE  SumOver(f, S) = SumOver(g, S)
<1>1. Units(f, S) = Units(g, S)
  BY DEF Units
<1>. QED
  BY <1>1 DEF SumOver

LEMMA SumZero ==
  ASSUME NEW S, NEW f, \A x \in S : f[x] = 0
  PROVE  SumOver(f, S) = 0
<1>1. Units(f, S) = {}
  BY DEF Units
<1>. QED
  BY <1>1, FS_EmptySet DEF SumOver

\* WHERE: the rows left out count nothing.
LEMMA SumWhere ==
  ASSUME NEW S, NEW T \in SUBSET S, NEW f, NEW g,
         \A x \in T : g[x] = f[x], \A x \in S \ T : g[x] = 0
  PROVE  SumOver(g, S) = SumOver(f, T)
<1>1. Units(g, S) = Units(f, T)
  <2>1. ASSUME NEW x \in S \ T PROVE {x} \X (1 .. g[x]) = {}
    OBVIOUS
  <2>. QED
    BY <2>1 DEF Units
<1>. QED
  BY <1>1 DEF SumOver

\* Every row is part of the sum.
LEMMA SumMember ==
  ASSUME NEW S, IsFiniteSet(S), NEW x \in S, NEW f, \A y \in S : f[y] \in Nat
  PROVE  f[x] <= SumOver(f, S)
<1>1. SumOver(f, S) = SumOver(f, S \ {x}) + f[x] /\ SumOver(f, S \ {x}) \in Nat
  BY SumRemove
<1>. QED
  BY <1>1, f[x] \in Nat

\* One row changes.
LEMMA SumUpdate ==
  ASSUME NEW S, IsFiniteSet(S), NEW x \in S, NEW f, NEW g,
         \A y \in S : f[y] \in Nat, g[x] \in Nat,
         \A y \in S \ {x} : g[y] = f[y]
  PROVE  SumOver(g, S) = SumOver(f, S) - f[x] + g[x]
<1>1. /\ SumOver(f, S) = SumOver(f, S \ {x}) + f[x]
      /\ SumOver(f, S \ {x}) \in Nat
  BY SumRemove
<1>2. SumOver(g, S) = SumOver(g, S \ {x}) + g[x]
  BY SumRemove
<1>3. SumOver(g, S \ {x}) = SumOver(f, S \ {x})
  BY SumSame
<1>. QED
  BY <1>1, <1>2, <1>3

\* Two columns added row by row.
LEMMA SumPlus ==
  ASSUME NEW S, IsFiniteSet(S), NEW f, NEW g, NEW h,
         \A x \in S : f[x] \in Nat /\ g[x] \in Nat /\ h[x] = f[x] + g[x]
  PROVE  SumOver(h, S) = SumOver(f, S) + SumOver(g, S)
<1>. DEFINE T == {A \in SUBSET S : SumOver(h, A) = SumOver(f, A) + SumOver(g, A)}
<1>1. {} \in T
  BY SumEmpty
<1>2. ASSUME NEW A \in SUBSET S, A \in T, NEW x \in S \ A
      PROVE  A \cup {x} \in T
  <2>1. IsFiniteSet(A)
    BY FS_Subset
  <2>2. SumOver(f, A) \in Nat /\ SumOver(g, A) \in Nat
    BY <2>1, SumNat
  <2>3. /\ SumOver(f, A \cup {x}) = SumOver(f, A) + f[x]
        /\ SumOver(g, A \cup {x}) = SumOver(g, A) + g[x]
        /\ SumOver(h, A \cup {x}) = SumOver(h, A) + h[x]
    <3>1. \A y \in A \cup {x} : f[y] \in Nat /\ g[y] \in Nat /\ h[y] \in Nat
      OBVIOUS
    <3>. QED
      BY <2>1, <3>1, SumAdd
  <2>4. /\ SumOver(h, A) = SumOver(f, A) + SumOver(g, A)
        /\ h[x] = f[x] + g[x] /\ f[x] \in Nat /\ g[x] \in Nat
    BY <1>2
  <2>5. SumOver(h, A \cup {x}) = SumOver(f, A \cup {x}) + SumOver(g, A \cup {x})
    BY <2>2, <2>3, <2>4
  <2>. QED
    BY <2>5
<1>3. S \in T
  <2>. HIDE DEF T
  <2>. QED
    BY <1>1, <1>2, SubsetInduction
<1>. QED
  BY <1>3

\* GROUP BY: the sums of the groups add up to the sum of the rows.
THEOREM SumGroups ==
  ASSUME NEW S, IsFiniteSet(S), NEW f, \A x \in S : f[x] \in Nat,
         NEW I, IsFiniteSet(I), NEW key, \A x \in S : key[x] \in I,
         NEW groups,
         \A i \in I : groups[i] = SumOver(f, {x \in S : key[x] = i})
  PROVE  SumOver(groups, I) = SumOver(f, S)
<1>. DEFINE Of(J) == {x \in S : key[x] \in J}
            T == {J \in SUBSET I : SumOver(groups, J) = SumOver(f, Of(J))}
<1>0. \A J : IsFiniteSet(Of(J)) /\ \A x \in Of(J) : f[x] \in Nat
  BY FS_Subset
<1>1. {} \in T
  BY SumEmpty
<1>2. ASSUME NEW J \in SUBSET I, J \in T, NEW i \in I \ J
      PROVE  J \cup {i} \in T
  <2>. DEFINE G == {x \in S : key[x] = i}
  <2>1. IsFiniteSet(J) /\ \A j \in I : groups[j] \in Nat
    <3>1. ASSUME NEW j \in I PROVE groups[j] \in Nat
      <4>. DEFINE R == {x \in S : key[x] = j}
      <4>1. IsFiniteSet(R) /\ \A x \in R : f[x] \in Nat
        BY FS_Subset
      <4>2. SumOver(f, R) \in Nat
        <5>. HIDE DEF R
        <5>. QED
          BY <4>1, SumNat
      <4>. QED
        BY <4>2
    <3>. QED
      BY <3>1, FS_Subset
  <2>2. Of(J \cup {i}) = Of(J) \cup G /\ Of(J) \cap G = {} /\ IsFiniteSet(G)
    BY FS_Subset
  <2>3. \A x \in Of(J) \cup G : f[x] \in Nat
    OBVIOUS
  <2>4. SumOver(groups, J \cup {i}) = SumOver(groups, J) + groups[i]
    BY <2>1, SumAdd
  <2>5. SumOver(groups, J) = SumOver(f, Of(J)) /\ groups[i] = SumOver(f, G)
    BY <1>2
  <2>6. SumOver(f, Of(J) \cup G) = SumOver(f, Of(J)) + SumOver(f, G)
    <3>. HIDE DEF G, Of
    <3>. QED
      BY <1>0, <2>2, <2>3, SumUnion
  <2>7. SumOver(groups, J \cup {i}) = SumOver(f, Of(J \cup {i}))
    <3>. HIDE DEF G, Of
    <3>. QED
      BY <2>2, <2>4, <2>5, <2>6
  <2>. QED
    BY <2>7
<1>3. I \in T
  <2>. HIDE DEF T
  <2>. QED
    BY <1>1, <1>2, SubsetInduction
<1>4. Of(I) = S
  OBVIOUS
<1>. QED
  BY <1>3, <1>4
=============================================================================
