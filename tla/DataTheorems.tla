---------------------------- MODULE DataTheorems ----------------------------
(* Facts about induction, recursive functions, sequences and sums that the  *)
(* proofs of several modules rest on.  Nothing here is about the router.    *)
(*                                                                          *)
(* Induction is taken over sets: the set of naturals (or of subsets) that   *)
(* have a property is the whole set, by a least element outside it (WFMin)  *)
(* of the orderings the library proves well founded.                        *)
EXTENDS Integers, Sequences, Functions, FiniteSetsExt, FiniteSetTheorems, SequenceTheorems,
        WellFoundedInduction, TLAPS

(* Induction over the naturals, with a set in place of a predicate. *)
LEMMA NatSetInduction ==
  ASSUME NEW G, 0 \in G, \A n \in Nat : n \in G => n + 1 \in G
  PROVE  Nat \subseteq G
<1> SUFFICES ASSUME Nat \ G # {} PROVE FALSE
  OBVIOUS
<1> DEFINE R == OpToRel(<, Nat)  B == Nat \ G
<1>1. PICK m \in B : \A k \in B : <<k, m>> \notin R
  <2> HIDE DEF R
  <2>1. IsWellFoundedOn(R, Nat) BY NatLessThanWellFounded DEF R
  <2>2. B \subseteq Nat /\ B # {} OBVIOUS
  <2> QED BY <2>1, <2>2, WFMin
<1>2. m # 0 OBVIOUS
<1>3. m - 1 \in Nat /\ m - 1 < m BY <1>2
<1>4. m - 1 \notin B BY <1>1, <1>3 DEF OpToRel
<1>5. (m - 1) + 1 \in G BY <1>3, <1>4
<1> QED BY <1>5

(* Induction over the subsets of a finite set, one element at a time. *)
LEMMA SubsetInduction ==
  ASSUME NEW S, IsFiniteSet(S), NEW G, {} \in G,
         \A T \in SUBSET S : \A x \in S \ T : T \in G => T \cup {x} \in G
  PROVE  SUBSET S \subseteq G
<1> DEFINE R == StrictSubsetOrdering(S)  B == (SUBSET S) \ G
<1> SUFFICES ASSUME B # {} PROVE FALSE
  OBVIOUS
<1>1. PICK T \in B : \A U \in B : <<U, T>> \notin R
  <2> HIDE DEF R
  <2>1. IsWellFoundedOn(R, SUBSET S)
    BY FS_StrictSubsetOrderingWellFounded, FS_FiniteSubsetsOfFinite DEF R
  <2>2. B \subseteq SUBSET S /\ B # {} OBVIOUS
  <2> HIDE DEF B
  <2> QED BY <2>1, <2>2, WFMin
<1>2. PICK x \in T : TRUE OBVIOUS
<1>3. T \ {x} \in SUBSET S /\ T \ {x} # T OBVIOUS
<1>4. T \ {x} \notin B
  BY <1>1, <1>3 DEF StrictSubsetOrdering
<1>5. (T \ {x}) \cup {x} \in G
  BY <1>2, <1>3, <1>4
<1> QED BY <1>5, <1>2

-----------------------------------------------------------------------------
(* Sums of a function over a finite set (MapThenSumSet of FiniteSetsExt),   *)
(* proved from the definition the community module gives them: the sum, and *)
(* the function of subsets its definition chooses.                          *)
SumOver(f, S) == MapThenSumSet(LAMBDA x : f[x], S)

Chosen(s) == CHOOSE x \in s : TRUE

IsSum(g, f, S) == g = [s \in SUBSET S |-> IF s = {} THEN 0 ELSE f[Chosen(s)] + g[s \ {Chosen(s)}]]

(* The community module's definition, spelled out. *)
LEMMA SumUnfold == \A f, S : SumOver(f, S) = (CHOOSE g : IsSum(g, f, S))[S]
BY DEF SumOver, MapThenSumSet, MapThenFoldSet, IsSum, Chosen

(* The function the sum's definition chooses exists: the recursion is over  *)
(* the cardinality.                                                         *)
LEMMA SumExists ==
  ASSUME NEW S, IsFiniteSet(S), NEW f
  PROVE  \E g : IsSum(g, f, S)
<1> DEFINE Level(n) == {s \in SUBSET S : Cardinality(s) <= n}
           Part(g, n) == \A s \in Level(n) :
                           g[s] = IF s = {} THEN 0 ELSE f[Chosen(s)] + g[s \ {Chosen(s)}]
           G == {n \in Nat : \E g : Part(g, n)}
<1>1. \A s \in SUBSET S : /\ IsFiniteSet(s) /\ Cardinality(s) \in Nat /\ (Cardinality(s) = 0 <=> s = {})
                          /\ s # {} => /\ Chosen(s) \in s /\ s \ {Chosen(s)} \in SUBSET S
                                       /\ Cardinality(s \ {Chosen(s)}) = Cardinality(s) - 1
  BY FS_Subset, FS_CardinalityType, FS_RemoveElement, FS_EmptySet DEF Chosen
<1>2. 0 \in G
  <2>1. \A s \in Level(0) : s = {}
    <3> SUFFICES ASSUME NEW s \in SUBSET S, Cardinality(s) <= 0 PROVE s = {}
      OBVIOUS
    <3>1. Cardinality(s) \in Nat /\ (Cardinality(s) = 0 => s = {})
      BY FS_Subset, FS_CardinalityType, FS_EmptySet
    <3> QED BY <3>1
  <2>2. Part([s \in SUBSET S |-> 0], 0)
    BY <2>1
  <2> HIDE DEF Part
  <2> QED BY <2>2
<1>3. ASSUME NEW n \in Nat, n \in G PROVE n + 1 \in G
  <2>1. PICK g : Part(g, n)
    BY <1>3
  <2> DEFINE h == [s \in SUBSET S |-> IF s \in Level(n) THEN g[s]
                                     ELSE f[Chosen(s)] + g[s \ {Chosen(s)}]]
  <2>2. ASSUME NEW s \in Level(n + 1)
        PROVE  h[s] = IF s = {} THEN 0 ELSE f[Chosen(s)] + h[s \ {Chosen(s)}]
    <3>1. s # {} => s \ {Chosen(s)} \in Level(n) /\ h[s \ {Chosen(s)}] = g[s \ {Chosen(s)}]
      BY <1>1
    <3>2. {} \in Level(n)
      BY <1>1, SMTT(30)
    <3> QED BY <3>1, <3>2, <2>1
  <2>3. Part(h, n + 1)
    BY <2>2
  <2> HIDE DEF Part
  <2> QED BY <2>3
<1>4. Cardinality(S) \in G
  <2> HIDE DEF G
  <2> QED BY <1>1, <1>2, <1>3, NatSetInduction
<1>5. PICK g : Part(g, Cardinality(S))
  BY <1>4
<1>6. Level(Cardinality(S)) = SUBSET S
  BY FS_Subset
<1> DEFINE h == [s \in SUBSET S |-> g[s]]
<1>7. \A s \in SUBSET S : h[s] = IF s = {} THEN 0 ELSE f[Chosen(s)] + h[s \ {Chosen(s)}]
  BY <1>5, <1>6, <1>1
<1>8. h = [s \in SUBSET S |-> IF s = {} THEN 0 ELSE f[Chosen(s)] + h[s \ {Chosen(s)}]]
  <2> HIDE DEF h
  <2>1. h = [s \in SUBSET S |-> h[s]] BY DEF h
  <2> QED BY <2>1, <1>7
<1> QED BY <1>8 DEF IsSum

(* g satisfies the recurrence of the sum of f on the subsets of S. *)
Sums(g, f, S) ==
  \A s \in SUBSET S : g[s] = IF s = {} THEN 0 ELSE f[Chosen(s)] + g[s \ {Chosen(s)}]

(* The sum is given by a function that satisfies the recurrence. *)
LEMMA SumSelf ==
  ASSUME NEW S, IsFiniteSet(S), NEW f
  PROVE  \E g : SumOver(f, S) = g[S] /\ Sums(g, f, S)
<1> DEFINE g == CHOOSE g : IsSum(g, f, S)
<1>1. IsSum(g, f, S)
  BY SumExists
<1>2. SumOver(f, S) = g[S]
  BY SumUnfold
<1> HIDE DEF g
<1>3. Sums(g, f, S)
  BY <1>1 DEF IsSum, Sums
<1> QED BY <1>2, <1>3

(* The recurrence has one solution, whatever set it is stated on. *)
LEMMA SumUnique ==
  ASSUME NEW S, IsFiniteSet(S), NEW f, NEW T \in SUBSET S, NEW g, Sums(g, f, S), NEW h, Sums(h, f, T)
  PROVE  g[T] = h[T]
<1> DEFINE G == {n \in Nat : \A s \in SUBSET T : Cardinality(s) = n => g[s] = h[s]}
<1>1. \A s \in SUBSET T : /\ IsFiniteSet(s) /\ Cardinality(s) \in Nat /\ (Cardinality(s) = 0 <=> s = {})
                          /\ s # {} => /\ Chosen(s) \in s /\ s \ {Chosen(s)} \in SUBSET T
                                       /\ Cardinality(s \ {Chosen(s)}) = Cardinality(s) - 1
  BY FS_Subset, FS_CardinalityType, FS_RemoveElement, FS_EmptySet DEF Chosen
<1>2. 0 \in G
  BY <1>1 DEF Sums
<1>3. ASSUME NEW n \in Nat, n \in G PROVE n + 1 \in G
  <2> SUFFICES ASSUME NEW s \in SUBSET T, Cardinality(s) = n + 1 PROVE g[s] = h[s]
    OBVIOUS
  <2>1. s # {} /\ s \in SUBSET S
    <3>1. Cardinality(s) # 0 OBVIOUS
    <3> QED BY <3>1, <1>1
  <2>2. g[s \ {Chosen(s)}] = h[s \ {Chosen(s)}]
    BY <2>1, <1>1, <1>3
  <2> QED BY <2>1, <2>2 DEF Sums
<1>4. Cardinality(T) \in G
  <2>1. IsFiniteSet(T) /\ Cardinality(T) \in Nat
    BY FS_Subset, FS_CardinalityType
  <2> HIDE DEF G
  <2> QED BY <2>1, <1>2, <1>3, NatSetInduction
<1> QED BY <1>4

(* A sum is the sum of one element and of the others, the first one being   *)
(* the element the definition chooses.                                      *)
LEMMA SumRecursion ==
  ASSUME NEW S, IsFiniteSet(S), NEW f
  PROVE  SumOver(f, S) = IF S = {} THEN 0 ELSE f[Chosen(S)] + SumOver(f, S \ {Chosen(S)})
<1>1. PICK g : SumOver(f, S) = g[S] /\ Sums(g, f, S)
  BY SumSelf
<1>2. CASE S = {}
  BY <1>1, <1>2 DEF Sums
<1>3. CASE S # {}
  <2> DEFINE T == S \ {Chosen(S)}
  <2>1. T \in SUBSET S /\ IsFiniteSet(T)
    BY FS_Subset
  <2>2. g[S] = f[Chosen(S)] + g[T]
    BY <1>1, <1>3 DEF Sums
  <2> HIDE DEF T
  <2>3. PICK h : SumOver(f, T) = h[T] /\ Sums(h, f, T)
    BY <2>1, SumSelf
  <2>4. g[T] = h[T]
    BY <1>1, <2>1, <2>3, SumUnique
  <2> QED BY <1>1, <1>3, <2>2, <2>3, <2>4 DEF T
<1> QED BY <1>2, <1>3

(* A function that satisfies the recurrence is the sum. *)
LEMMA SumIs ==
  ASSUME NEW S, IsFiniteSet(S), NEW f, NEW g, Sums(g, f, S)
  PROVE  g[S] = SumOver(f, S)
<1>1. PICK h : SumOver(f, S) = h[S] /\ Sums(h, f, S)
  BY SumSelf
<1> QED BY <1>1, SumUnique

(* A sum of naturals is a natural, one of integers an integer. *)
LEMMA SumType ==
  ASSUME NEW S, IsFiniteSet(S), NEW f, NEW V \in {Nat, Int}, \A x \in S : f[x] \in V
  PROVE  SumOver(f, S) \in V
<1> DEFINE G == {n \in Nat : \A s \in SUBSET S : Cardinality(s) = n => SumOver(f, s) \in V}
<1>1. \A s \in SUBSET S : /\ IsFiniteSet(s) /\ Cardinality(s) \in Nat /\ (Cardinality(s) = 0 <=> s = {})
                          /\ s # {} => /\ Chosen(s) \in s /\ s \ {Chosen(s)} \in SUBSET S
                                       /\ Cardinality(s \ {Chosen(s)}) = Cardinality(s) - 1
  BY FS_Subset, FS_CardinalityType, FS_RemoveElement, FS_EmptySet DEF Chosen
<1>2. 0 \in G
  <2>1. SumOver(f, {}) = 0
    BY FS_EmptySet, SumRecursion
  <2>2. 0 \in V
    OBVIOUS
  <2> QED BY <1>1, <2>1, <2>2
<1>3. ASSUME NEW n \in Nat, n \in G PROVE n + 1 \in G
  <2> SUFFICES ASSUME NEW s \in SUBSET S, Cardinality(s) = n + 1 PROVE SumOver(f, s) \in V
    OBVIOUS
  <2>1. s # {} /\ SumOver(f, s \ {Chosen(s)}) \in V /\ f[Chosen(s)] \in V
    BY <1>1, <1>3
  <2>2. SumOver(f, s) = f[Chosen(s)] + SumOver(f, s \ {Chosen(s)})
    BY <2>1, <1>1, SumRecursion
  <2> QED BY <2>1, <2>2
<1>4. Cardinality(S) \in G
  <2> HIDE DEF G
  <2> QED BY <1>1, <1>2, <1>3, NatSetInduction
<1> QED BY <1>4

(* Any element can be taken off a sum, not just the chosen one. *)
LEMMA SumRemove ==
  ASSUME NEW S, IsFiniteSet(S), NEW f, \A x \in S : f[x] \in Int, NEW x \in S
  PROVE  SumOver(f, S) = f[x] + SumOver(f, S \ {x})
<1> DEFINE G == {n \in Nat : \A s \in SUBSET S : Cardinality(s) = n =>
                   \A y \in s : SumOver(f, s) = f[y] + SumOver(f, s \ {y})}
<1>1. \A s \in SUBSET S : /\ IsFiniteSet(s) /\ Cardinality(s) \in Nat /\ (Cardinality(s) = 0 <=> s = {})
                          /\ SumOver(f, s) \in Int
                          /\ \A y \in s : /\ s \ {y} \in SUBSET S
                                         /\ Cardinality(s \ {y}) = Cardinality(s) - 1
                          /\ s # {} => Chosen(s) \in s
  <2> TAKE s \in SUBSET S
  <2>1. IsFiniteSet(s) /\ Cardinality(s) \in Nat /\ (Cardinality(s) = 0 <=> s = {})
        /\ (\A y \in s : Cardinality(s \ {y}) = Cardinality(s) - 1)
        /\ (s # {} => Chosen(s) \in s)
    BY FS_Subset, FS_CardinalityType, FS_RemoveElement, FS_EmptySet DEF Chosen
  <2>2. SumOver(f, s) \in Int
    BY <2>1, SumType
  <2> QED BY <2>1, <2>2
<1>2. 0 \in G
  BY <1>1
<1>3. ASSUME NEW n \in Nat, n \in G PROVE n + 1 \in G
  <2> SUFFICES ASSUME NEW s \in SUBSET S, Cardinality(s) = n + 1, NEW y \in s
               PROVE  SumOver(f, s) = f[y] + SumOver(f, s \ {y})
    OBVIOUS
  <2> DEFINE c == Chosen(s)
  <2>1. SumOver(f, s) = f[c] + SumOver(f, s \ {c}) /\ c \in s /\ c \in S /\ y \in S
    BY <1>1, SumRecursion
  <2>2. CASE c = y
    BY <2>1, <2>2
  <2>3. CASE c # y
    <3>1. /\ Cardinality(s \ {c}) = n /\ s \ {c} \in SUBSET S /\ y \in s \ {c}
          /\ Cardinality(s \ {y}) = n /\ s \ {y} \in SUBSET S /\ c \in s \ {y}
      BY <1>1, <2>1, <2>3
    <3>2. SumOver(f, s \ {c}) = f[y] + SumOver(f, (s \ {c}) \ {y})
      BY <3>1, <1>3
    <3>3. SumOver(f, s \ {y}) = f[c] + SumOver(f, (s \ {y}) \ {c})
      BY <3>1, <1>3
    <3>4. (s \ {y}) \ {c} = (s \ {c}) \ {y} /\ (s \ {y}) \ {c} \in SUBSET S
      OBVIOUS
    <3>5. SumOver(f, (s \ {y}) \ {c}) \in Int /\ f[c] \in Int /\ f[y] \in Int
      BY <3>4, <1>1, <2>1
    <3>6. SumOver(f, s) = f[c] + (f[y] + SumOver(f, (s \ {y}) \ {c}))
      BY <2>1, <3>2, <3>4
    <3> HIDE DEF c
    <3> QED BY <3>3, <3>5, <3>6
  <2> QED BY <2>2, <2>3
<1>4. Cardinality(S) \in G
  <2> HIDE DEF G
  <2> QED BY <1>1, <1>2, <1>3, NatSetInduction
<1> QED BY <1>4

(* Adding an element adds its value. *)
LEMMA SumAdd ==
  ASSUME NEW S, IsFiniteSet(S), NEW x, x \notin S, NEW f, \A y \in S \cup {x} : f[y] \in Int
  PROVE  SumOver(f, S \cup {x}) = f[x] + SumOver(f, S)
<1> DEFINE T == S \cup {x}
<1>1. IsFiniteSet(T) /\ x \in T /\ T \ {x} = S
  BY FS_AddElement
<1> HIDE DEF T
<1>2. \A y \in T : f[y] \in Int
  BY DEF T
<1> QED BY <1>1, <1>2, SumRemove DEF T

(* Functions equal on the set have equal sums. *)
LEMMA SumEqual ==
  ASSUME NEW S, IsFiniteSet(S), NEW f, NEW h, \A x \in S : f[x] \in Int /\ h[x] = f[x]
  PROVE  SumOver(h, S) = SumOver(f, S)
<1> DEFINE G == {T \in SUBSET S : SumOver(h, T) = SumOver(f, T)}
<1>1. {} \in G
  BY FS_EmptySet, SumRecursion
<1>2. ASSUME NEW T \in SUBSET S, NEW x \in S \ T, T \in G PROVE T \cup {x} \in G
  <2>1. IsFiniteSet(T)
    BY FS_Subset
  <2>2. \A y \in T \cup {x} : f[y] \in Int /\ h[y] \in Int /\ f[x] = h[x]
    OBVIOUS
  <2>3. SumOver(f, T \cup {x}) = f[x] + SumOver(f, T) /\ SumOver(h, T \cup {x}) = h[x] + SumOver(h, T)
    BY <2>1, <2>2, SumAdd
  <2> QED BY <2>2, <2>3, <1>2
<1>3. S \in G
  <2> HIDE DEF G
  <2> QED BY <1>1, <1>2, SubsetInduction
<1> QED BY <1>3

(* A sum is the sum over a part and over the rest. *)
LEMMA SumSplit ==
  ASSUME NEW S, IsFiniteSet(S), NEW T \in SUBSET S, NEW f, \A x \in S : f[x] \in Int
  PROVE  SumOver(f, S) = SumOver(f, T) + SumOver(f, S \ T)
<1> DEFINE G == {U \in SUBSET S : SumOver(f, S) = SumOver(f, U) + SumOver(f, S \ U)}
<1>0. \A U \in SUBSET S : IsFiniteSet(U) /\ SumOver(f, U) \in Int
  <2> TAKE U \in SUBSET S
  <2>1. IsFiniteSet(U)
    BY FS_Subset
  <2> QED BY <2>1, SumType
<1>1. {} \in G
  <2>1. S \ {} = S /\ SumOver(f, {}) = 0 /\ SumOver(f, S) \in Int
    BY FS_EmptySet, SumRecursion, <1>0
  <2> QED BY <2>1
<1>2. ASSUME NEW U \in SUBSET S, NEW x \in S \ U, U \in G PROVE U \cup {x} \in G
  <2> DEFINE V == S \ (U \cup {x})
  <2>1. SumOver(f, U \cup {x}) = f[x] + SumOver(f, U)
    BY <1>0, SumAdd
  <2>2. SumOver(f, S \ U) = f[x] + SumOver(f, V)
    <3>1. S \ U = V \cup {x} /\ x \notin V /\ V \in SUBSET S
      OBVIOUS
    <3> HIDE DEF V
    <3> QED BY <3>1, <1>0, SumAdd
  <2>3. /\ SumOver(f, U) \in Int /\ SumOver(f, V) \in Int /\ f[x] \in Int
        /\ SumOver(f, S) = SumOver(f, U) + SumOver(f, S \ U)
    BY <1>0, <1>2
  <2>4. SumOver(f, S) = SumOver(f, U \cup {x}) + SumOver(f, V)
    <3> HIDE DEF V
    <3> QED BY <2>1, <2>2, <2>3
  <2> QED BY <2>4
<1>3. T \in G
  <2> HIDE DEF G
  <2> QED BY <1>1, <1>2, SubsetInduction
<1> QED BY <1>3

(* Raising the values of some elements by one raises the sum by their       *)
(* number.                                                                  *)
LEMMA SumRaise ==
  ASSUME NEW S, IsFiniteSet(S), NEW U, NEW f, NEW h,
         \A x \in S : f[x] \in Int /\ h[x] = IF x \in U THEN f[x] + 1 ELSE f[x]
  PROVE  SumOver(h, S) = SumOver(f, S) + Cardinality(S \cap U)
<1> DEFINE G == {T \in SUBSET S : SumOver(h, T) = SumOver(f, T) + Cardinality(T \cap U)}
<1>1. {} \in G
  <2>1. {} \cap U = {}
    OBVIOUS
  <2>2. SumOver(h, {}) = 0 /\ SumOver(f, {}) = 0 /\ Cardinality({} \cap U) = 0
    BY <2>1, FS_EmptySet, SumRecursion
  <2> QED BY <2>2
<1>2. ASSUME NEW T \in SUBSET S, NEW x \in S \ T, T \in G PROVE T \cup {x} \in G
  <2>1. IsFiniteSet(T) /\ IsFiniteSet(T \cap U) /\ Cardinality(T \cap U) \in Nat
    BY FS_Subset, FS_CardinalityType
  <2>2. \A y \in T \cup {x} : f[y] \in Int /\ h[y] \in Int
    OBVIOUS
  <2>3. /\ SumOver(f, T \cup {x}) = f[x] + SumOver(f, T) /\ SumOver(h, T \cup {x}) = h[x] + SumOver(h, T)
        /\ SumOver(f, T) \in Int
    BY <2>1, <2>2, SumAdd, SumType
  <2>4. CASE x \in U
    <3>1. (T \cup {x}) \cap U = (T \cap U) \cup {x}
      BY <2>4
    <3>2. Cardinality((T \cup {x}) \cap U) = Cardinality(T \cap U) + 1
      BY <3>1, <2>1, FS_AddElement
    <3> QED BY <3>2, <2>1, <2>2, <2>3, <2>4, <1>2
  <2>5. CASE x \notin U
    <3>1. (T \cup {x}) \cap U = T \cap U /\ h[x] = f[x] /\ f[x] \in Int
      BY <2>5
    <3>2. SumOver(h, T) = SumOver(f, T) + Cardinality(T \cap U)
      BY <1>2
    <3>3. SumOver(h, T \cup {x}) = SumOver(f, T \cup {x}) + Cardinality(T \cap U)
      BY <3>1, <3>2, <2>1, <2>3
    <3> QED BY <3>1, <3>3
  <2> QED BY <2>4, <2>5
<1>3. S \in G
  <2> HIDE DEF G
  <2> QED BY <1>1, <1>2, SubsetInduction
<1> QED BY <1>3

(* A sum of values of at most c. *)
LEMMA SumBound ==
  ASSUME NEW S, IsFiniteSet(S), NEW f, NEW c \in Nat, \A x \in S : f[x] \in Nat /\ f[x] <= c
  PROVE  SumOver(f, S) \in Nat /\ SumOver(f, S) <= Cardinality(S) * c
<1> DEFINE G == {T \in SUBSET S : SumOver(f, T) <= Cardinality(T) * c}
<1>1. {} \in G
  <2>1. SumOver(f, {}) = 0 /\ Cardinality({}) = 0
    BY FS_EmptySet, SumRecursion
  <2> QED BY <2>1
<1>2. ASSUME NEW T \in SUBSET S, NEW x \in S \ T, T \in G PROVE T \cup {x} \in G
  <2>1. IsFiniteSet(T) /\ Cardinality(T) \in Nat
    BY FS_Subset, FS_CardinalityType
  <2>2. SumOver(f, T \cup {x}) = f[x] + SumOver(f, T) /\ SumOver(f, T) \in Int
    <3>1. x \notin T /\ \A y \in T \cup {x} : f[y] \in Int
      OBVIOUS
    <3> QED BY <3>1, <2>1, SumAdd, SumType
  <2>3. Cardinality(T \cup {x}) = Cardinality(T) + 1
    BY <2>1, FS_AddElement
  <2>4. (Cardinality(T) + 1) * c = Cardinality(T) * c + c
    BY <2>1
  <2>5. f[x] <= c /\ f[x] \in Nat /\ Cardinality(T) * c \in Nat /\ SumOver(f, T) <= Cardinality(T) * c
    BY <2>1, <1>2
  <2>6. SumOver(f, T \cup {x}) <= (Cardinality(T) + 1) * c
    BY <2>2, <2>4, <2>5
  <2> QED BY <2>3, <2>6
<1>3. S \in G
  <2> HIDE DEF G
  <2> QED BY <1>1, <1>2, SubsetInduction
<1> QED BY <1>3, SumType
(* The community module's sum of a function. *)
LEMMA SumFunctionIs == \A f : SumFunction(f) = SumOver(f, DOMAIN f)
BY DEF SumFunction, SumFunctionOnSet, FoldFunctionOnSet, SumOver, MapThenSumSet
-----------------------------------------------------------------------------
(* Sums along a sequence.                                                   *)
SeqSum(s) == SumOver(s, 1..Len(s))

LEMMA IntervalFinite == \A m, n \in Int : IsFiniteSet(m..n)
BY FS_Interval

LEMMA SeqSumType == ASSUME NEW s \in Seq(Int) PROVE SeqSum(s) \in Int
<1>1. \A k \in 1..Len(s) : s[k] \in Int
  BY LenProperties
<1> QED BY <1>1, IntervalFinite, SumType, LenProperties DEF SeqSum

LEMMA SeqSumEmpty == SeqSum(<<>>) = 0
<1>1. 1..Len(<<>>) = {}
  BY EmptySeq
<1> QED BY <1>1, SumRecursion, FS_EmptySet DEF SeqSum

(* Places may be renumbered. *)
LEMMA SumShift ==
  ASSUME NEW n \in Nat, NEW d \in Int, NEW f, NEW h, \A k \in 1..n : h[k] = f[k + d] /\ h[k] \in Int
  PROVE  SumOver(h, 1..n) = SumOver(f, (1 + d)..(n + d))
<1> DEFINE G == {m \in Nat : m <= n => SumOver(h, 1..m) = SumOver(f, (1 + d)..(m + d))}
<1>1. 0 \in G
  <2>1. 1..0 = {} /\ (1 + d)..(0 + d) = {}
    OBVIOUS
  <2> QED BY <2>1, SumRecursion, FS_EmptySet
<1>2. ASSUME NEW m \in Nat, m \in G PROVE m + 1 \in G
  <2> SUFFICES ASSUME m + 1 <= n PROVE SumOver(h, 1..(m + 1)) = SumOver(f, (1 + d)..(m + 1 + d))
    OBVIOUS
  <2>1. SumOver(h, 1..m) = SumOver(f, (1 + d)..(m + d))
    BY <1>2
  <2> DEFINE A == 1..m
             B == (1 + d)..(m + d)
             x == m + 1
             y == m + 1 + d
  <2>2. /\ 1..(m + 1) = A \cup {x} /\ x \notin A /\ x \in 1..n /\ A \subseteq 1..n
        /\ (1 + d)..(m + 1 + d) = B \cup {y} /\ y \notin B /\ y = x + d
        /\ \A k \in B \cup {y} : k - d \in 1..n /\ (k - d) + d = k
    OBVIOUS
  <2>3. IsFiniteSet(A) /\ IsFiniteSet(B)
    BY IntervalFinite
  <2> HIDE DEF A, B, x, y
  <2>4. \A k \in A \cup {x} : h[k] \in Int
    BY <2>2
  <2>5. \A k \in B \cup {y} : f[k] \in Int
    <3> TAKE k \in B \cup {y}
    <3>1. h[k - d] = f[(k - d) + d] /\ h[k - d] \in Int
      BY <2>2
    <3> QED BY <2>2, <3>1
  <2>6. SumOver(h, A \cup {x}) = h[x] + SumOver(h, A)
    BY <2>2, <2>3, <2>4, SumAdd
  <2>7. SumOver(f, B \cup {y}) = f[y] + SumOver(f, B)
    BY <2>2, <2>3, <2>5, SumAdd
  <2>8. h[x] = f[y]
    BY <2>2
  <2>9. SumOver(h, A) = SumOver(f, B)
    BY <2>1 DEF A, B
  <2> QED BY <2>2, <2>6, <2>7, <2>8, <2>9
<1>3. n \in G
  <2> HIDE DEF G
  <2> QED BY <1>1, <1>2, NatSetInduction
<1> QED BY <1>3

LEMMA SeqSumAppend ==
  ASSUME NEW s \in Seq(Int), NEW x \in Int
  PROVE  SeqSum(Append(s, x)) = SeqSum(s) + x
<1> DEFINE t == Append(s, x)
           n == Len(s)
<1>1. /\ n \in Nat /\ Len(t) = n + 1 /\ t[n + 1] = x
      /\ \A k \in 1..n : t[k] = s[k] /\ s[k] \in Int
  BY LenProperties, AppendProperties
<1> HIDE DEF t, n
<1> DEFINE A == 1..n
<1>2. 1..(n + 1) = A \cup {n + 1} /\ n + 1 \notin A /\ IsFiniteSet(A)
  BY <1>1, IntervalFinite
<1>3. /\ \A k \in A : s[k] \in Int /\ t[k] = s[k]
      /\ \A k \in A \cup {n + 1} : t[k] \in Int
  BY <1>1
<1> HIDE DEF A
<1>4. SumOver(t, A \cup {n + 1}) = t[n + 1] + SumOver(t, A)
  BY <1>2, <1>3, SumAdd
<1>5. SumOver(t, A) = SumOver(s, A)
  BY <1>2, <1>3, SumEqual
<1>6. SumOver(s, A) \in Int
  BY SeqSumType DEF SeqSum, n, A
<1>7. SeqSum(s) = SumOver(s, A) /\ SeqSum(t) = SumOver(t, A \cup {n + 1})
  BY <1>1, <1>2 DEF SeqSum, n, A
<1>8. SeqSum(t) = SeqSum(s) + x
  BY <1>1, <1>4, <1>5, <1>6, <1>7
<1> QED BY <1>8 DEF t

(* What is cut off the front of a sequence leaves the sum. *)
LEMMA SeqSumCut ==
  ASSUME NEW s \in Seq(Int), NEW n \in 0..Len(s), NEW t \in Seq(Int), Len(t) = Len(s) - n,
         \A k \in 1..Len(t) : t[k] = s[k + n]
  PROVE  SeqSum(s) = SumOver(s, 1..n) + SeqSum(t)
<1> DEFINE l == Len(s)
           m == Len(t)
<1>1. l \in Nat /\ m \in Nat /\ m + n = l /\ \A k \in 1..l : s[k] \in Int
  BY LenProperties
<1>2. (\A k \in 1..m : t[k] = s[k + n] /\ t[k] \in Int) /\ m \in Nat /\ n \in Int
  BY LenProperties, SMTT(30)
<1> HIDE DEF l, m
<1>3. SumOver(t, 1..m) = SumOver(s, (1 + n)..(m + n))
  BY <1>2, SumShift
<1> DEFINE A == 1..l
           B == 1..n
<1>4. B \in SUBSET A /\ A \ B = (1 + n)..(m + n)
  BY <1>1
<1>5. IsFiniteSet(A) /\ \A k \in A : s[k] \in Int
  BY <1>1, IntervalFinite
<1> HIDE DEF A, B
<1>6. SumOver(s, A) = SumOver(s, B) + SumOver(s, A \ B)
  BY <1>4, <1>5, SumSplit
<1> QED BY <1>3, <1>4, <1>6 DEF SeqSum, l, m, A, B

LEMMA SeqSumTail ==
  ASSUME NEW s \in Seq(Int), s # <<>>
  PROVE  Head(s) \in Int /\ Tail(s) \in Seq(Int) /\ SeqSum(s) = Head(s) + SeqSum(Tail(s))
<1> DEFINE t == Tail(s)
<1>1. /\ t \in Seq(Int) /\ Len(s) \in Nat \ {0} /\ Len(t) = Len(s) - 1 /\ Head(s) = s[1]
      /\ \A k \in 1..Len(t) : t[k] = s[k + 1]
  BY HeadTailProperties, LenProperties, EmptySeq
<1> HIDE DEF t
<1>2. SeqSum(s) = SumOver(s, 1..1) + SeqSum(t)
  <2>1. 1 \in 0..Len(s) /\ t \in Seq(Int) /\ Len(t) = Len(s) - 1 /\ \A k \in 1..Len(t) : t[k] = s[k + 1]
    BY <1>1
  <2> QED BY <2>1, SeqSumCut
<1>3. SumOver(s, {1}) = s[1]
  <2>1. s[1] \in Int
    BY <1>1, LenProperties
  <2>2. {} \cup {1} = {1} /\ 1 \notin {} /\ \A k \in {} \cup {1} : s[k] \in Int
    BY <2>1
  <2> DEFINE E == {}
  <2>5. IsFiniteSet(E) /\ 1 \notin E /\ \A k \in E \cup {1} : s[k] \in Int
    BY <2>2, FS_EmptySet
  <2> HIDE DEF E
  <2>6. SumOver(s, E \cup {1}) = s[1] + SumOver(s, E)
    BY <2>5, SumAdd
  <2>3. SumOver(s, {} \cup {1}) = s[1] + SumOver(s, {})
    BY <2>6 DEF E
  <2>4. SumOver(s, {}) = 0
    BY SumRecursion, FS_EmptySet
  <2> QED BY <2>1, <2>2, <2>3, <2>4
<1>4. 1..1 = {1} /\ Head(s) \in Int
  BY <1>1, LenProperties
<1> QED BY <1>1, <1>2, <1>3, <1>4 DEF t
(* A set of naturals has a least element. *)
LEMMA LeastNat ==
  ASSUME NEW B \in SUBSET Nat, B # {}
  PROVE  \E m \in B : \A k \in B : m <= k
<1> DEFINE R == OpToRel(<, Nat)
<1>1. PICK m \in B : \A k \in B : <<k, m>> \notin R
  <2> HIDE DEF R
  <2>1. IsWellFoundedOn(R, Nat) BY NatLessThanWellFounded DEF R
  <2> QED BY <2>1, WFMin
<1>2. \A k \in B : ~ (k < m)
  BY <1>1 DEF OpToRel
<1> QED BY <1>2

(* Two functions that follow the same recursion agree. *)
LEMMA SameRecursion ==
  ASSUME NEW n \in Nat, NEW g, NEW h, g[0] = h[0],
         \A k \in 1..n : g[k - 1] = h[k - 1] => g[k] = h[k]
  PROVE  g[n] = h[n]
<1> DEFINE G == {k \in Nat : k <= n => g[k] = h[k]}
<1>1. 0 \in G
  OBVIOUS
<1>2. ASSUME NEW k \in Nat, k \in G PROVE k + 1 \in G
  <2> SUFFICES ASSUME k + 1 <= n PROVE g[k + 1] = h[k + 1]
    OBVIOUS
  <2>1. k + 1 \in 1..n /\ (k + 1) - 1 = k /\ g[k] = h[k]
    BY <1>2
  <2>2. g[(k + 1) - 1] = h[(k + 1) - 1] => g[k + 1] = h[k + 1]
    BY <2>1
  <2> QED BY <2>1, <2>2
<1>3. n \in G
  <2> HIDE DEF G
  <2> QED BY <1>1, <1>2, NatSetInduction
<1> QED BY <1>3
-----------------------------------------------------------------------------
(* Sequences as queues: what Append and Tail do to the set of elements and  *)
(* to the absence of duplicates.                                            *)
LEMMA RangeBasics ==
  ASSUME NEW S, NEW s \in Seq(S)
  PROVE  Range(s) \subseteq S /\ Range(<<>>) = {} /\ IsInjective(<<>>)
BY LenProperties DEF Range, IsInjective

LEMMA RangeAppend ==
  ASSUME NEW S, NEW s \in Seq(S), NEW e \in S
  PROVE  /\ Append(s, e) \in Seq(S)
         /\ Range(Append(s, e)) = Range(s) \cup {e}
         /\ IsInjective(s) /\ e \notin Range(s) => IsInjective(Append(s, e))
<1> DEFINE t == Append(s, e)
<1>1. /\ t \in Seq(S) /\ DOMAIN t = 1 .. Len(s) + 1 /\ DOMAIN s = 1 .. Len(s) /\ Len(s) \in Nat
      /\ \A i \in 1 .. Len(s) : t[i] = s[i]
      /\ t[Len(s) + 1] = e
  BY LenProperties, AppendProperties
<1>2. Range(t) = Range(s) \cup {e}
  <2>1. ASSUME NEW x \in Range(t) PROVE x \in Range(s) \cup {e}
    <3>1. PICK i \in 1 .. Len(s) + 1 : x = t[i]
      BY <2>1, <1>1 DEF Range
    <3>2. i \in 1 .. Len(s) \/ i = Len(s) + 1
      BY <3>1, <1>1
    <3> QED BY <3>1, <3>2, <1>1 DEF Range
  <2>2. ASSUME NEW x \in Range(s) \cup {e} PROVE x \in Range(t)
    BY <2>2, <1>1 DEF Range
  <2> QED BY <2>1, <2>2
<1>3. ASSUME IsInjective(s), e \notin Range(s) PROVE IsInjective(t)
  BY <1>1, <1>3 DEF IsInjective, Range
<1> QED BY <1>1, <1>2, <1>3

LEMMA RangeTail ==
  ASSUME NEW S, NEW s \in Seq(S), s # <<>>
  PROVE  /\ Head(s) \in S /\ Tail(s) \in Seq(S)
         /\ Range(s) = Range(Tail(s)) \cup {Head(s)}
         /\ IsInjective(s) => IsInjective(Tail(s)) /\ Head(s) \notin Range(Tail(s))
<1> DEFINE t == Tail(s)
<1>1. /\ t \in Seq(S) /\ Head(s) \in S /\ Head(s) = s[1]
      /\ Len(s) \in Nat \ {0} /\ DOMAIN s = 1 .. Len(s) /\ DOMAIN t = 1 .. Len(s) - 1
      /\ \A i \in 1 .. Len(s) - 1 : t[i] = s[i + 1]
  BY HeadTailProperties, LenProperties, EmptySeq
<1>2. Range(s) = Range(t) \cup {s[1]}
  <2>1. ASSUME NEW x \in Range(s) PROVE x \in Range(t) \cup {s[1]}
    <3>1. PICK i \in 1 .. Len(s) : x = s[i]
      BY <2>1, <1>1 DEF Range
    <3>2. i = 1 \/ (i - 1 \in 1 .. Len(s) - 1 /\ t[i - 1] = s[i])
      BY <3>1, <1>1
    <3> QED BY <3>1, <3>2, <1>1 DEF Range
  <2>2. ASSUME NEW x \in Range(t) PROVE x \in Range(s)
    <3>1. PICK i \in 1 .. Len(s) - 1 : x = t[i]
      BY <2>2, <1>1 DEF Range
    <3>2. x = s[i + 1] /\ i + 1 \in 1 .. Len(s)
      BY <3>1, <1>1
    <3> QED BY <3>2, <1>1 DEF Range
  <2>3. s[1] \in Range(s)
    BY <1>1 DEF Range
  <2> QED BY <2>1, <2>2, <2>3
<1>3. ASSUME IsInjective(s) PROVE IsInjective(t) /\ s[1] \notin Range(t)
  <2>1. IsInjective(t)
    BY <1>1, <1>3 DEF IsInjective
  <2>2. s[1] \notin Range(t)
    BY <1>1, <1>3 DEF IsInjective, Range
  <2> QED BY <2>1, <2>2
<1> QED BY <1>1, <1>2, <1>3
-----------------------------------------------------------------------------
(* Functions defined by recursion on an interval.                           *)

(* Induction over an interval. *)
LEMMA IntervalInduction ==
  ASSUME NEW n \in Nat, NEW G, 0 \in G, \A k \in 1..n : k - 1 \in G => k \in G
  PROVE  0..n \subseteq G
<1> DEFINE H == {k \in Nat : k <= n => k \in G}
<1>1. 0 \in H
  OBVIOUS
<1>2. ASSUME NEW k \in Nat, k \in H PROVE k + 1 \in H
  <2> SUFFICES ASSUME k + 1 <= n PROVE k + 1 \in G
    OBVIOUS
  <2>1. k + 1 \in 1..n /\ (k + 1) - 1 = k /\ k \in G
    BY <1>2
  <2> QED BY <2>1
<1>3. Nat \subseteq H
  <2> HIDE DEF H
  <2> QED BY <1>1, <1>2, NatSetInduction
<1> QED BY <1>3

(* g is the recursion that starts from v: F[<<k, x>>] is the value at k     *)
(* when x is the one at k - 1.                                              *)
Iterates(g, F, v, n) == g[0] = v /\ \A k \in 1..n : g[k] = F[<<k, g[k - 1]>>]

(* A recursion whose steps stay in a set has a solution. *)
LEMMA Iteration ==
  ASSUME NEW V, NEW n \in Nat, NEW v \in V, NEW F \in [(1..n) \X V -> V]
  PROVE  \E g \in [0..n -> V] : Iterates(g, F, v, n)
<1> DEFINE Solves(g, m) == Iterates(g, F, v, m)
           G == {m \in 0..n : \E g \in [0..m -> V] : Solves(g, m)}
<1>1. 0 \in G
  <2> DEFINE g == [k \in 0..0 |-> v]
  <2>1. g \in [0..0 -> V] /\ Solves(g, 0)
    BY DEF Iterates
  <2> HIDE DEF Solves, g
  <2> QED BY <2>1
<1>2. ASSUME NEW m \in 1..n, m - 1 \in G PROVE m \in G
  <2>1. PICK g \in [0..(m - 1) -> V] : Solves(g, m - 1)
    BY <1>2
  <2> DEFINE h == [k \in 0..m |-> IF k = m THEN F[<<m, g[m - 1]>>] ELSE g[k]]
  <2>2. m \in Nat \ {0} /\ \A k \in 0..m : k # m => k \in 0..(m - 1)
    OBVIOUS
  <2>3. g[m - 1] \in V /\ F[<<m, g[m - 1]>>] \in V
    <3>1. g[m - 1] \in V
      BY <2>2
    <3>2. <<m, g[m - 1]>> \in (1..n) \X V
      BY <3>1
    <3> QED BY <3>1, <3>2
  <2>4. h \in [0..m -> V]
    BY <2>2, <2>3
  <2>5. h[0] = v
    BY <2>1, <2>2 DEF Iterates
  <2>6. ASSUME NEW k \in 1..m PROVE h[k] = F[<<k, h[k - 1]>>]
    <3>1. k - 1 \in 0..m /\ k - 1 # m /\ k \in 0..m
      BY <2>2
    <3>2. h[k - 1] = g[k - 1]
      BY <3>1
    <3>3. CASE k = m
      BY <3>1, <3>2, <3>3
    <3>4. CASE k # m
      <4>1. k \in 1..(m - 1)
        BY <3>4, <2>2
      <4>2. h[k] = g[k]
        BY <3>1, <3>4
      <4> QED BY <4>1, <4>2, <3>2, <2>1 DEF Iterates
    <3> QED BY <3>3, <3>4
  <2> HIDE DEF h
  <2>7. Solves(h, m)
    BY <2>5, <2>6 DEF Iterates
  <2> HIDE DEF Solves
  <2> QED BY <2>4, <2>7, <2>2
<1>3. 0..n \subseteq G
  <2> HIDE DEF G
  <2> QED BY <1>1, <1>2, IntervalInduction
<1>4. n \in G
  <2> HIDE DEF G
  <2> QED BY <1>3
<1> QED BY <1>4
=============================================================================
