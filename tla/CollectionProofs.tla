------------------------- MODULE CollectionProofs -------------------------
(***************************************************************************)
(* Lemmas about collections, for all components: what Entries takes from a *)
(* sequence, namely as many entries as there are positions, each of them   *)
(* one of the sequence's; and what SumFunctionOnSet of the community       *)
(* modules adds up.                                                        *)
(***************************************************************************)
EXTENDS Positions, Functions, TLAPS, SequenceTheorems, FiniteSetTheorems,
        WellFoundedInduction

(* A set of natural numbers that is not empty has a least element. *)
LEMMA LeastElement ==
  ASSUME NEW T \in SUBSET Nat, T # {}
  PROVE  \E x \in T : \A y \in T : x <= y
<1> DEFINE R == OpToRel(<, Nat)
<1>1. IsWellFoundedOn(R, Nat)
  BY NatLessThanWellFounded
<1> HIDE DEF R
<1>2. PICK x \in T : \A y \in T : ~(<<y, x>> \in R)
  BY <1>1, WFMin
<1>3. ASSUME NEW y \in T PROVE x <= y
  <2>1. ~(y < x)
    BY <1>2 DEF R, OpToRel
  <2> QED BY <2>1
<1> QED BY <1>3

(* There are n numbers below n. *)
LEMMA NumbersBelow ==
  ASSUME NEW n \in Nat
  PROVE  IsFiniteSet(0 .. n - 1) /\ Cardinality(0 .. n - 1) = n
<1>1. PICK m \in Int : m = n - 1
  OBVIOUS
<1>2. IsFiniteSet(0 .. m) /\ Cardinality(0 .. m) = IF 0 > m THEN 0 ELSE m - 0 + 1
  BY FS_Interval
<1> QED BY <1>1, <1>2

(* The rank of the elements of I takes every value from 1 to their number. *)
LEMMA RankOnto ==
  ASSUME NEW n \in Nat, NEW I \in SUBSET (1..n), NEW j \in 1..Cardinality(I)
  PROVE  \E i \in I : Rank(I, i) = j
<1> DEFINE Below(b) == {k \in I : k <= b}
           T == {b \in 0..n : Cardinality(Below(b)) >= j}
<1>1. IsFiniteSet(I) /\ Cardinality(I) \in Nat
  <2>1. IsFiniteSet(1..n)
    BY FS_Interval
  <2>2. IsFiniteSet(I)
    BY <2>1, FS_Subset
  <2> QED BY <2>2, FS_CardinalityType
<1>2. \A k \in I : k \in 1..n
  OBVIOUS
<1>3. ASSUME NEW b \in 0..n PROVE IsFiniteSet(Below(b)) /\ Cardinality(Below(b)) \in Nat
  <2>1. Below(b) \in SUBSET I
    OBVIOUS
  <2>2. IsFiniteSet(Below(b))
    BY <1>1, <2>1, FS_Subset
  <2> QED BY <2>2, FS_CardinalityType
<1>4. n \in T
  <2>1. \A k \in I : k <= n
    BY <1>2
  <2>2. Below(n) = I
    BY <2>1
  <2>3. Cardinality(I) >= j
    BY <1>1
  <2>4. Cardinality(Below(n)) >= j
    BY <2>2, <2>3
  <2> QED BY <2>4
<1>5. Cardinality(Below(0)) = 0
  <2>1. \A k \in I : ~(k <= 0)
    BY <1>2
  <2>2. Below(0) = {}
    BY <2>1
  <2> QED BY <2>2, FS_EmptySet
<1>6. T \in SUBSET Nat
  <2> HIDE DEF Below
  <2> QED OBVIOUS
<1>7. PICK m \in T : \A y \in T : m <= y
  <2> HIDE DEF T
  <2> QED BY <1>4, <1>6, LeastElement
<1>8. m \in 0..n /\ Cardinality(Below(m)) >= j
  BY <1>7
<1>9. m # 0
  BY <1>5, <1>8
<1>10. m - 1 \in 0..n
  BY <1>8, <1>9
<1>11. ~(Cardinality(Below(m - 1)) >= j)
  <2>1. m - 1 \notin T
    <3> HIDE DEF T
    <3>1. ~(m <= m - 1)
      BY <1>8
    <3> QED BY <1>7, <3>1
  <2> HIDE DEF Below
  <2> QED BY <1>10, <2>1
<1>12. CASE m \notin I
  <2>1. \A k \in I : k <= m <=> k <= m - 1
    BY <1>2, <1>8, <1>12
  <2>2. Below(m) = Below(m - 1)
    BY <2>1
  <2> HIDE DEF Below
  <2> QED BY <1>8, <1>11, <2>2
<1>13. CASE m \in I
  <2>1. \A k \in I : k <= m <=> (k <= m - 1 \/ k = m)
    BY <1>2, <1>8
  <2>2. Below(m) = Below(m - 1) \cup {m}
    BY <2>1, <1>13
  <2>3. m \notin Below(m - 1)
    BY <1>8
  <2>4. IsFiniteSet(Below(m - 1)) /\ Cardinality(Below(m - 1)) \in Nat
    BY <1>3, <1>10
  <2>5. Rank(I, m) = Cardinality(Below(m))
    BY DEF Rank
  <2> HIDE DEF Below
  <2>6. Cardinality(Below(m)) = Cardinality(Below(m - 1)) + 1
    BY <2>2, <2>3, <2>4, FS_AddElement
  <2>7. Cardinality(Below(m)) = j
    BY <1>8, <1>11, <2>4, <2>6
  <2> QED BY <1>13, <2>5, <2>7
<1> QED BY <1>12, <1>13

(* The entries chosen from a sequence are entries of it. *)
LEMMA EntriesProps ==
  ASSUME NEW S, NEW s \in Seq(S), NEW I \in SUBSET (1..Len(s))
  PROVE  /\ Entries(s, I) \in Seq(S)
         /\ Len(Entries(s, I)) = Cardinality(I)
         /\ \A j \in 1..Len(Entries(s, I)) : \E i \in I : Entries(s, I)[j] = s[i]
<1>1. Len(s) \in Nat /\ \A k \in 1..Len(s) : s[k] \in S
  BY LenProperties, ElementOfSeq
<1>2. Cardinality(I) \in Nat
  <2>1. IsFiniteSet(1..Len(s))
    BY <1>1, FS_Interval
  <2>2. IsFiniteSet(I)
    BY <2>1, FS_Subset
  <2> QED BY <2>2, FS_CardinalityType
<1> DEFINE at(j) == CHOOSE i \in I : Rank(I, i) = j
<1>3. \A j \in 1..Cardinality(I) : at(j) \in I
  BY <1>1, RankOnto
<1>4. Entries(s, I) = [j \in 1..Cardinality(I) |-> s[at(j)]]
  BY DEF Entries
<1> HIDE DEF at
<1>5. \A j \in 1..Cardinality(I) : s[at(j)] \in S
  BY <1>1, <1>3
<1>6. Entries(s, I) \in Seq(S) /\ Len(Entries(s, I)) = Cardinality(I)
  BY <1>2, <1>4, <1>5
<1> QED BY <1>2, <1>3, <1>4, <1>6

(* Each position is taken once, and none is left out.                      *)
LEMMA EntriesAt ==
  ASSUME NEW S, NEW s \in Seq(S), NEW I \in SUBSET (1..Len(s))
  PROVE  /\ Cardinality(I) \in Nat
         /\ \E at \in [1..Cardinality(I) -> I] :
              /\ \A j, k \in 1..Cardinality(I) : at[j] = at[k] => j = k
              /\ \A i \in I : \E j \in 1..Cardinality(I) : at[j] = i
              /\ \A j \in 1..Cardinality(I) : Entries(s, I)[j] = s[at[j]]
<1> DEFINE c == Cardinality(I)
           at == [j \in 1..c |-> CHOOSE i \in I : Rank(I, i) = j]
<1>1. IsFiniteSet(I) /\ c \in Nat
  <2>1. IsFiniteSet(1..Len(s))
    BY LenProperties, FS_Interval
  <2>2. IsFiniteSet(I)
    BY <2>1, FS_Subset
  <2> QED BY <2>2, FS_CardinalityType
<1>2. \A j \in 1..c : at[j] \in I /\ Rank(I, at[j]) = j
  <2> SUFFICES ASSUME NEW j \in 1..c PROVE at[j] \in I /\ Rank(I, at[j]) = j
    OBVIOUS
  <2>1. \E i \in I : Rank(I, i) = j
    BY LenProperties, RankOnto
  <2> QED BY <2>1
<1>3. Entries(s, I) = [j \in 1..c |-> s[at[j]]]
  BY DEF Entries
<1>4. at \in [1..c -> I]
  BY <1>2
<1> HIDE DEF at
<1>5. \A j, k \in 1..c : at[j] = at[k] => j = k
  BY <1>2
<1>6. at \in Injection(1..c, I)
  BY <1>4, <1>5 DEF Injection, IsInjective
<1>7. Cardinality(1..c) = c
  <2>1. 1 \in Int /\ c \in Int
    BY <1>1
  <2> HIDE DEF c
  <2>2. Cardinality(1..c) = IF 1 > c THEN 0 ELSE c - 1 + 1
    BY <2>1, FS_Interval
  <2> QED BY <1>1, <2>2
<1>8. at \in Surjection(1..c, I)
  BY <1>1, <1>6, <1>7, FS_Injection
<1>9. \A i \in I : \E j \in 1..c : at[j] = i
  BY <1>8 DEF Surjection
<1>10. \A j \in 1..c : Entries(s, I)[j] = s[at[j]]
  BY <1>3
<1> QED BY <1>1, <1>4, <1>5, <1>9, <1>10

(* Entries leaves out nothing at a position in I. *)
LEMMA EntriesKept ==
  ASSUME NEW S, NEW s \in Seq(S), NEW I \in SUBSET (1..Len(s)), NEW i \in I
  PROVE  \E j \in 1..Len(Entries(s, I)) : Entries(s, I)[j] = s[i]
<1>1. Len(Entries(s, I)) = Cardinality(I)
  BY EntriesProps
<1> QED BY <1>1, EntriesAt

-----------------------------------------------------------------------------
(* Of the sets in C, one contains no other. *)
LEMMA SmallestSet ==
  ASSUME NEW S, IsFiniteSet(S), NEW C \in SUBSET (SUBSET S), C # {}
  PROVE  \E T \in C : \A U \in C : U \subseteq T => U = T
<1>1. IsWellFoundedOn(StrictSubsetOrdering(S), FiniteSubsetsOf(S))
  BY FS_StrictSubsetOrderingWellFounded
<1>2. C \subseteq FiniteSubsetsOf(S)
  BY FS_Subset DEF FiniteSubsetsOf
<1>3. PICK T \in C : \A U \in C : ~(<<U, T>> \in StrictSubsetOrdering(S))
  BY <1>1, <1>2, WFMin
<1>4. \A U \in C : U \subseteq T /\ U # T => <<U, T>> \in StrictSubsetOrdering(S)
  BY DEF StrictSubsetOrdering
<1>5. \A U \in C : U \subseteq T => U = T
  BY <1>3, <1>4, Zenon
<1> QED BY <1>5

Pick(s) == CHOOSE x \in s : TRUE

(* g gives the sum of f over each subset of S. *)
Sums(g, f, S) ==
  g = [s \in SUBSET S |-> IF s = {} THEN 0 ELSE f[Pick(s)] + g[s \ {Pick(s)}]]

(* A partial sum is the picked value and the sum of the rest. *)
LEMMA SumsAt ==
  ASSUME NEW S, NEW f, NEW g, Sums(g, f, S)
  PROVE  /\ g[{}] = 0
         /\ \A s \in SUBSET S : s # {} => /\ Pick(s) \in s
                                          /\ g[s] = f[Pick(s)] + g[s \ {Pick(s)}]
<1>1. \A s : s # {} => Pick(s) \in s
  BY DEF Pick
<1>2. \A s \in SUBSET S : g[s] = IF s = {} THEN 0 ELSE f[Pick(s)] + g[s \ {Pick(s)}]
  BY DEF Sums
<1> QED BY <1>1, <1>2

(* There is one function of partial sums of a set. *)
LEMMA SumsUnique ==
  ASSUME NEW S, IsFiniteSet(S), NEW T \in SUBSET S, NEW f, NEW g, NEW h,
         Sums(g, f, S), Sums(h, f, T)
  PROVE  \A s \in SUBSET T : g[s] = h[s]
<1> DEFINE C == {s \in SUBSET T : g[s] # h[s]}
<1> SUFFICES ASSUME C # {} PROVE FALSE
  OBVIOUS
<1>1. IsFiniteSet(T) /\ C \in SUBSET (SUBSET T)
  BY FS_Subset
<1>2. PICK s \in C : \A u \in C : u \subseteq s => u = s
  <2> HIDE DEF C
  <2> QED BY <1>1, SmallestSet
<1>3. s # {}
  BY <1>2, SumsAt
<1>4. /\ Pick(s) \in s
      /\ g[s] = f[Pick(s)] + g[s \ {Pick(s)}] /\ h[s] = f[Pick(s)] + h[s \ {Pick(s)}]
  <2>1. s \in SUBSET T /\ s \in SUBSET S
    BY <1>2
  <2> HIDE DEF C
  <2>2. Pick(s) \in s /\ g[s] = f[Pick(s)] + g[s \ {Pick(s)}]
    BY <1>3, <2>1, SumsAt
  <2>3. h[s] = f[Pick(s)] + h[s \ {Pick(s)}]
    BY <1>3, <2>1, SumsAt
  <2> QED BY <2>2, <2>3
<1>5. s \ {Pick(s)} \in SUBSET T /\ s \ {Pick(s)} # s
  BY <1>4
<1>6. s \ {Pick(s)} \notin C
  <2> HIDE DEF C
  <2> QED BY <1>2, <1>5
<1>7. g[s \ {Pick(s)}] = h[s \ {Pick(s)}]
  BY <1>5, <1>6
<1> QED BY <1>2, <1>4, <1>7

(* There is one for each finite set. *)
LEMMA SumsExist ==
  ASSUME NEW S, IsFiniteSet(S), NEW f
  PROVE  \E g : Sums(g, f, S)
<1> DEFINE C == {T \in SUBSET S : ~ \E g : Sums(g, f, T)}
<1> SUFFICES ASSUME C # {} PROVE FALSE
  OBVIOUS
<1>1. PICK T \in C : \A U \in C : U \subseteq T => U = T
  <2>1. C \in SUBSET (SUBSET S)
    OBVIOUS
  <2> HIDE DEF C
  <2> QED BY <2>1, SmallestSet
<1> DEFINE G(U) == CHOOSE g : Sums(g, f, U)
           g == [s \in SUBSET T |-> IF s = {} THEN 0
                                    ELSE f[Pick(s)] + G(s \ {Pick(s)})[s \ {Pick(s)}]]
<1>2. ASSUME NEW U \in SUBSET T, U # T PROVE Sums(G(U), f, U)
  <2>1. U \notin C
    <3> HIDE DEF C
    <3> QED BY <1>1, <1>2
  <2>2. \E h : Sums(h, f, U)
    BY <2>1
  <2> QED BY <2>2
<1>3. ASSUME NEW U \in SUBSET T, U # T PROVE g[U] = G(U)[U]
  <2>1. CASE U = {}
    <3>1. g[U] = 0
      BY <2>1
    <3>2. Sums(G(U), f, U)
      BY <1>2, <1>3
    <3> HIDE DEF G, g
    <3> QED BY <2>1, <3>1, <3>2, SumsAt
  <2>2. CASE U # {}
    <3>1. g[U] = f[Pick(U)] + G(U \ {Pick(U)})[U \ {Pick(U)}]
      BY <2>2
    <3>2. Pick(U) \in U
      BY <2>2 DEF Pick
    <3>3. Sums(G(U), f, U) /\ Sums(G(U \ {Pick(U)}), f, U \ {Pick(U)})
      <4>1. U \ {Pick(U)} \in SUBSET T /\ U \ {Pick(U)} # T
        BY <1>3, <3>2
      <4> HIDE DEF G, g
      <4> QED BY <1>2, <1>3, <4>1
    <3> HIDE DEF G, g
    <3>4. G(U)[U] = f[Pick(U)] + G(U)[U \ {Pick(U)}]
      BY <2>2, <3>3, SumsAt
    <3>5. IsFiniteSet(U)
      BY <1>1, FS_Subset
    <3>6. G(U)[U \ {Pick(U)}] = G(U \ {Pick(U)})[U \ {Pick(U)}]
      BY <3>3, <3>5, SumsUnique
    <3> QED BY <3>1, <3>4, <3>6
  <2> QED BY <2>1, <2>2
<1>4. \A s \in SUBSET T : s # {} =>
         /\ s \ {Pick(s)} \in SUBSET T
         /\ g[s \ {Pick(s)}] = G(s \ {Pick(s)})[s \ {Pick(s)}]
  <2> SUFFICES ASSUME NEW s \in SUBSET T, s # {}
               PROVE  /\ s \ {Pick(s)} \in SUBSET T
                      /\ g[s \ {Pick(s)}] = G(s \ {Pick(s)})[s \ {Pick(s)}]
    OBVIOUS
  <2>1. Pick(s) \in s
    BY DEF Pick
  <2>2. s \ {Pick(s)} \in SUBSET T /\ s \ {Pick(s)} # T
    BY <2>1
  <2> HIDE DEF G, g
  <2> QED BY <1>3, <2>2
<1>5. g = [s \in SUBSET T |-> IF s = {} THEN 0 ELSE f[Pick(s)] + g[s \ {Pick(s)}]]
  <2> DEFINE e(s) == IF s = {} THEN 0 ELSE f[Pick(s)] + G(s \ {Pick(s)})[s \ {Pick(s)}]
             d(s) == IF s = {} THEN 0 ELSE f[Pick(s)] + g[s \ {Pick(s)}]
  <2>1. \A s \in SUBSET T : e(s) = d(s)
    <3> HIDE DEF G, g
    <3> QED BY <1>4
  <2>2. g = [s \in SUBSET T |-> e(s)]
    OBVIOUS
  <2> HIDE DEF e, g, G
  <2>3. g = [s \in SUBSET T |-> d(s)]
    <3> HIDE DEF d
    <3> QED BY <2>1, <2>2
  <2> QED BY <2>3
<1>6. \E h : Sums(h, f, T)
  <2> HIDE DEF g
  <2> QED BY <1>5 DEF Sums
<1> QED BY <1>1, <1>6

(* What SumFunctionOnSet returns is its value. *)
LEMMA SumIs ==
  ASSUME NEW S, IsFiniteSet(S), NEW f, NEW g, Sums(g, f, S)
  PROVE  \A T \in SUBSET S : SumFunctionOnSet(f, T) = g[T]
<1> SUFFICES ASSUME NEW T \in SUBSET S PROVE SumFunctionOnSet(f, T) = g[T]
  OBVIOUS
<1> DEFINE h == CHOOSE h : h = [s \in SUBSET T |-> IF s = {} THEN 0
                                              ELSE f[Pick(s)] + h[s \ {Pick(s)}]]
<1>1. SumFunctionOnSet(f, T) = h[T]
  BY DEF SumFunctionOnSet, FoldFunctionOnSet, MapThenFoldSet, Pick
<1>2. \E k : k = [s \in SUBSET T |-> IF s = {} THEN 0 ELSE f[Pick(s)] + k[s \ {Pick(s)}]]
  <2>1. IsFiniteSet(T)
    BY FS_Subset
  <2>2. \E k : Sums(k, f, T)
    BY <2>1, SumsExist
  <2> QED BY <2>2, Zenon DEF Sums
<1>3. h = [s \in SUBSET T |-> IF s = {} THEN 0 ELSE f[Pick(s)] + h[s \ {Pick(s)}]]
  BY <1>2, Zenon
<1> HIDE DEF h
<1>4. Sums(h, f, T)
  BY <1>3 DEF Sums
<1>5. g[T] = h[T]
  BY <1>4, SumsUnique
<1> QED BY <1>1, <1>5

(* Induction on the subsets of a finite set. *)
LEMMA SubsetInduction ==
  ASSUME NEW S, IsFiniteSet(S), NEW P \in SUBSET (SUBSET S), {} \in P,
         \A T \in SUBSET S : \A x \in T : T \ {x} \in P => T \in P
  PROVE  \A T \in SUBSET S : T \in P
<1> DEFINE C == (SUBSET S) \ P
<1> SUFFICES ASSUME C # {} PROVE FALSE
  OBVIOUS
<1>1. PICK T \in C : \A U \in C : U \subseteq T => U = T
  <2>1. C \in SUBSET (SUBSET S)
    OBVIOUS
  <2> HIDE DEF C
  <2> QED BY <2>1, SmallestSet
<1>2. T \in SUBSET S /\ T \notin P /\ T # {}
  BY <1>1
<1>3. PICK x \in T : TRUE
  BY <1>2
<1>4. T \ {x} \in SUBSET S /\ T \ {x} # T /\ T \ {x} \notin C
  <2> HIDE DEF C
  <2> QED BY <1>1, <1>2, <1>3
<1> QED BY <1>2, <1>3, <1>4

(* The sum of nothing. *)
LEMMA SumEmpty == ASSUME NEW f PROVE SumFunctionOnSet(f, {}) = 0
<1>1. IsFiniteSet({})
  BY FS_EmptySet
<1>2. PICK g : Sums(g, f, {})
  BY <1>1, SumsExist
<1>3. SumFunctionOnSet(f, {}) = g[{}]
  BY <1>1, <1>2, SumIs
<1>4. g[{}] = 0
  BY <1>2, SumsAt
<1> QED BY <1>3, <1>4

(* The sum over a set is that over the rest of it and any of its elements. *)
LEMMA SumWithout ==
  ASSUME NEW S, IsFiniteSet(S), NEW f, \A x \in S : f[x] \in Int
  PROVE  \A T \in SUBSET S :
           /\ SumFunctionOnSet(f, T) \in Int
           /\ \A a \in T : SumFunctionOnSet(f, T) = f[a] + SumFunctionOnSet(f, T \ {a})
<1>1. PICK g : Sums(g, f, S)
  BY SumsExist
<1>2. \A T \in SUBSET S : SumFunctionOnSet(f, T) = g[T]
  BY <1>1, SumIs
<1>3. /\ g[{}] = 0
      /\ \A s \in SUBSET S : s # {} => /\ Pick(s) \in s
                                       /\ g[s] = f[Pick(s)] + g[s \ {Pick(s)}]
  BY <1>1, SumsAt
<1> DEFINE Good(T) == g[T] \in Int /\ \A a \in T : g[T] = f[a] + g[T \ {a}]
           C == {T \in SUBSET S : ~Good(T)}
<1>4. C = {}
  <2> SUFFICES ASSUME C # {} PROVE FALSE
    OBVIOUS
  <2>1. PICK T \in C : \A U \in C : U \subseteq T => U = T
    <3>1. C \in SUBSET (SUBSET S)
      OBVIOUS
    <3> HIDE DEF C
    <3> QED BY <3>1, SmallestSet
  <2>2. T \in SUBSET S /\ ~Good(T)
    BY <2>1
  <2>3. ASSUME NEW U \in SUBSET T, U # T PROVE Good(U)
    <3>1. U \in SUBSET S
      BY <2>2
    <3>2. U \notin C
      <4> HIDE DEF C
      <4> QED BY <2>1, <2>2, <2>3
    <3> HIDE DEF Good
    <3> QED BY <3>1, <3>2
  <2> HIDE DEF C
  <2>4. T # {}
    <3> SUFFICES ASSUME T = {} PROVE Good(T)
      BY <2>2
    <3>1. g[T] = 0
      BY <1>3
    <3> QED BY <3>1
  <2> DEFINE y == Pick(T)
  <2>5. y \in T /\ g[T] = f[y] + g[T \ {y}]
    BY <1>3, <2>2, <2>4
  <2> HIDE DEF y
  <2>6. g[T \ {y}] \in Int /\ f[y] \in Int
    BY <2>2, <2>3, <2>5
  <2>7. ASSUME NEW a \in T PROVE g[T] = f[a] + g[T \ {a}]
    <3>1. CASE a = y
      BY <2>5, <3>1
    <3>2. CASE a # y
      <4> DEFINE R == (T \ {y}) \ {a}
      <4>1. g[T \ {y}] = f[a] + g[R]
        BY <2>3, <2>5, <3>2
      <4>2. g[T \ {a}] = f[y] + g[(T \ {a}) \ {y}]
        BY <2>3, <2>5, <3>2
      <4>3. (T \ {a}) \ {y} = R
        OBVIOUS
      <4>4. R \in SUBSET T /\ R # T
        BY <2>5
      <4> HIDE DEF R
      <4>5. g[R] \in Int
        BY <2>3, <4>4
      <4>6. f[a] \in Int
        BY <2>2
      <4>7. g[T \ {a}] = f[y] + g[R]
        BY <4>2, <4>3
      <4> HIDE DEF Good
      <4> QED BY <2>5, <2>6, <4>1, <4>5, <4>6, <4>7
    <3> QED BY <3>1, <3>2
  <2>8. g[T] \in Int
    BY <2>5, <2>6
  <2> QED BY <2>2, <2>7, <2>8
<1>5. \A T \in SUBSET S : Good(T)
  <2> HIDE DEF Good
  <2> QED BY <1>4
<1> QED BY <1>2, <1>5

(* Only the values on the set count. *)
LEMMA SumEqual ==
  ASSUME NEW S, IsFiniteSet(S), NEW f, NEW g,
         \A x \in S : f[x] \in Int /\ f[x] = g[x]
  PROVE  SumFunctionOnSet(f, S) = SumFunctionOnSet(g, S)
<1> DEFINE P == {T \in SUBSET S : SumFunctionOnSet(f, T) = SumFunctionOnSet(g, T)}
<1>1. {} \in P
  BY SumEmpty
<1>2. ASSUME NEW T \in SUBSET S, NEW x \in T, T \ {x} \in P PROVE T \in P
  <2>1. SumFunctionOnSet(f, T) = f[x] + SumFunctionOnSet(f, T \ {x})
    BY SumWithout
  <2>2. SumFunctionOnSet(g, T) = g[x] + SumFunctionOnSet(g, T \ {x})
    <3>1. \A y \in S : g[y] \in Int
      OBVIOUS
    <3> QED BY <3>1, SumWithout
  <2> QED BY <1>2, <2>1, <2>2
<1>3. P \in SUBSET (SUBSET S)
  OBVIOUS
<1>4. S \in P
  <2> HIDE DEF P
  <2> QED BY <1>1, <1>2, <1>3, SubsetInduction
<1> QED BY <1>4

(* Natural numbers have a natural sum. *)
LEMMA SumNat ==
  ASSUME NEW S, IsFiniteSet(S), NEW f, \A x \in S : f[x] \in Nat
  PROVE  SumFunctionOnSet(f, S) \in Nat
<1> DEFINE P == {T \in SUBSET S : SumFunctionOnSet(f, T) \in Nat}
<1>1. {} \in P
  BY SumEmpty
<1>2. ASSUME NEW T \in SUBSET S, NEW x \in T, T \ {x} \in P PROVE T \in P
  <2>1. SumFunctionOnSet(f, T) = f[x] + SumFunctionOnSet(f, T \ {x})
    <3>1. \A y \in S : f[y] \in Int
      OBVIOUS
    <3> QED BY <3>1, SumWithout
  <2>2. f[x] \in Nat
    OBVIOUS
  <2> QED BY <1>2, <2>1, <2>2
<1>3. P \in SUBSET (SUBSET S)
  OBVIOUS
<1>4. S \in P
  <2> HIDE DEF P
  <2> QED BY <1>1, <1>2, <1>3, SubsetInduction
<1> QED BY <1>4

(* Sums of sums. *)
LEMMA SumPlus ==
  ASSUME NEW S, IsFiniteSet(S), NEW f, NEW g, NEW h,
         \A x \in S : f[x] \in Int /\ g[x] \in Int /\ h[x] = f[x] + g[x]
  PROVE  SumFunctionOnSet(h, S) = SumFunctionOnSet(f, S) + SumFunctionOnSet(g, S)
<1> DEFINE P == {T \in SUBSET S : SumFunctionOnSet(h, T)
                               = SumFunctionOnSet(f, T) + SumFunctionOnSet(g, T)}
<1>1. {} \in P
  BY SumEmpty
<1>2. ASSUME NEW T \in SUBSET S, NEW x \in T, T \ {x} \in P PROVE T \in P
  <2>1. \A y \in S : f[y] \in Int /\ g[y] \in Int /\ h[y] \in Int
    OBVIOUS
  <2>2. /\ SumFunctionOnSet(f, T) = f[x] + SumFunctionOnSet(f, T \ {x})
        /\ SumFunctionOnSet(f, T \ {x}) \in Int
    BY <2>1, SumWithout
  <2>3. /\ SumFunctionOnSet(g, T) = g[x] + SumFunctionOnSet(g, T \ {x})
        /\ SumFunctionOnSet(g, T \ {x}) \in Int
    BY <2>1, SumWithout
  <2>4. SumFunctionOnSet(h, T) = h[x] + SumFunctionOnSet(h, T \ {x})
    BY <2>1, SumWithout
  <2>5. f[x] \in Int /\ g[x] \in Int /\ h[x] = f[x] + g[x]
    OBVIOUS
  <2> QED BY <1>2, <2>2, <2>3, <2>4, <2>5
<1>3. P \in SUBSET (SUBSET S)
  OBVIOUS
<1>4. S \in P
  <2> HIDE DEF P
  <2> QED BY <1>1, <1>2, <1>3, SubsetInduction
<1> QED BY <1>4

(* Changing one value changes the sum by as much. *)
LEMMA SumChange ==
  ASSUME NEW S, IsFiniteSet(S), NEW f, NEW g, NEW a \in S, g[a] \in Int,
         \A x \in S : f[x] \in Int /\ (x # a => g[x] = f[x])
  PROVE  SumFunctionOnSet(g, S) = SumFunctionOnSet(f, S) - f[a] + g[a]
<1>1. \A x \in S : f[x] \in Int /\ g[x] \in Int
  OBVIOUS
<1>2. SumFunctionOnSet(f, S) = f[a] + SumFunctionOnSet(f, S \ {a})
  BY <1>1, SumWithout
<1>3. SumFunctionOnSet(g, S) = g[a] + SumFunctionOnSet(g, S \ {a})
  BY <1>1, SumWithout
<1>4. SumFunctionOnSet(f, S \ {a}) = SumFunctionOnSet(g, S \ {a})
  <2>1. IsFiniteSet(S \ {a})
    BY FS_Subset
  <2>2. \A x \in S \ {a} : f[x] \in Int /\ f[x] = g[x]
    OBVIOUS
  <2> QED BY <2>1, <2>2, SumEqual
<1>5. SumFunctionOnSet(f, S \ {a}) \in Int /\ f[a] \in Int /\ g[a] \in Int
  BY <1>1, SumWithout
<1> QED BY <1>2, <1>3, <1>4, <1>5

(* The sum of equal values. *)
LEMMA SumConstant ==
  ASSUME NEW S, IsFiniteSet(S), NEW f, NEW c \in Int, \A x \in S : f[x] = c
  PROVE  SumFunctionOnSet(f, S) = Cardinality(S) * c
<1> DEFINE P == {T \in SUBSET S : SumFunctionOnSet(f, T) = Cardinality(T) * c}
<1>1. {} \in P
  <2>1. 0 * c = 0
    OBVIOUS
  <2> QED BY <2>1, SumEmpty, FS_EmptySet
<1>2. ASSUME NEW T \in SUBSET S, NEW x \in T, T \ {x} \in P PROVE T \in P
  <2>1. \A y \in S : f[y] \in Int
    OBVIOUS
  <2>2. SumFunctionOnSet(f, T) = c + SumFunctionOnSet(f, T \ {x})
    BY <2>1, SumWithout
  <2>3. IsFiniteSet(T)
    BY FS_Subset
  <2>4. IsFiniteSet(T \ {x}) /\ Cardinality(T \ {x}) = Cardinality(T) - 1
    BY <2>3, FS_RemoveElement
  <2>5. Cardinality(T) \in Nat
    BY <2>3, FS_CardinalityType
  <2>6. \A k \in Int : c + (k - 1) * c = k * c
    OBVIOUS
  <2>7. SumFunctionOnSet(f, T \ {x}) = (Cardinality(T) - 1) * c
    BY <1>2, <2>4
  <2>8. SumFunctionOnSet(f, T) = Cardinality(T) * c
    BY <2>2, <2>5, <2>6, <2>7
  <2> QED BY <2>8
<1>3. P \in SUBSET (SUBSET S)
  OBVIOUS
<1>4. S \in P
  <2> HIDE DEF P
  <2> QED BY <1>1, <1>2, <1>3, SubsetInduction
<1> QED BY <1>4

(* The sum does not depend on what the values are indexed by. *)
LEMMA SumReindex ==
  ASSUME NEW S, IsFiniteSet(S), NEW T, NEW b \in Bijection(S, T), NEW f, NEW g,
         \A x \in S : f[b[x]] \in Int /\ g[x] = f[b[x]]
  PROVE  SumFunctionOnSet(g, S) = SumFunctionOnSet(f, T)
<1>1. /\ b \in [S -> T] /\ \A x, y \in S : b[x] = b[y] => x = y
      /\ \A t \in T : \E x \in S : b[x] = t
  BY DEF Bijection, Injection, Surjection, IsInjective
<1>2. IsFiniteSet(T)
  BY FS_Surjection DEF Bijection
<1>3. \A t \in T : f[t] \in Int
  BY <1>1
<1> DEFINE image(U) == {b[x] : x \in U}
           P == {U \in SUBSET S : SumFunctionOnSet(g, U) = SumFunctionOnSet(f, image(U))}
<1>4. {} \in P
  <2>1. image({}) = {}
    OBVIOUS
  <2> HIDE DEF image
  <2> QED BY <2>1, SumEmpty
<1>5. ASSUME NEW U \in SUBSET S, NEW x \in U, U \ {x} \in P PROVE U \in P
  <2>1. SumFunctionOnSet(g, U) = g[x] + SumFunctionOnSet(g, U \ {x})
    <3>1. \A y \in S : g[y] \in Int
      OBVIOUS
    <3> QED BY <3>1, SumWithout
  <2>2. image(U) \in SUBSET T /\ b[x] \in image(U)
    BY <1>1
  <2>3. image(U) \ {b[x]} = image(U \ {x})
    BY <1>1
  <2> HIDE DEF image
  <2>4. SumFunctionOnSet(f, image(U)) = f[b[x]] + SumFunctionOnSet(f, image(U) \ {b[x]})
    BY <1>2, <1>3, <2>2, SumWithout
  <2> QED BY <1>5, <2>1, <2>3, <2>4
<1>6. P \in SUBSET (SUBSET S)
  OBVIOUS
<1>7. S \in P
  <2> HIDE DEF P
  <2> QED BY <1>4, <1>5, <1>6, SubsetInduction
<1>8. image(S) = T
  BY <1>1
<1> HIDE DEF image
<1> QED BY <1>7, <1>8

(* The sums of the values of a list when it grows at its end, and when it  *)
(* loses its first entry.                                                  *)
LEMMA SumLast ==
  ASSUME NEW n \in Nat, NEW f, NEW g, g[n + 1] \in Int,
         \A k \in 1 .. n : f[k] \in Int /\ g[k] = f[k]
  PROVE  SumFunctionOnSet(g, 1 .. n + 1) = SumFunctionOnSet(f, 1 .. n) + g[n + 1]
<1>1. IsFiniteSet(1 .. n) /\ IsFiniteSet(1 .. n + 1)
  BY FS_Interval
<1>2. (1 .. n + 1) \ {n + 1} = 1 .. n /\ n + 1 \in 1 .. n + 1
  OBVIOUS
<1>3. \A k \in 1 .. n + 1 : g[k] \in Int
  OBVIOUS
<1>4. SumFunctionOnSet(g, 1 .. n + 1) = g[n + 1] + SumFunctionOnSet(g, (1 .. n + 1) \ {n + 1})
  <2> DEFINE S == 1 .. n + 1
             a == n + 1
  <2>1. IsFiniteSet(S) /\ a \in S /\ \A k \in S : g[k] \in Int
    BY <1>1, <1>2, <1>3
  <2> HIDE DEF S, a
  <2>2. SumFunctionOnSet(g, S) = g[a] + SumFunctionOnSet(g, S \ {a})
    BY <2>1, SumWithout
  <2> QED BY <2>2 DEF S, a
<1>5. SumFunctionOnSet(f, 1 .. n) = SumFunctionOnSet(g, 1 .. n)
  BY <1>1, SumEqual
<1>6. SumFunctionOnSet(f, 1 .. n) \in Int
  <2> DEFINE S == 1 .. n
  <2>1. IsFiniteSet(S) /\ \A k \in S : f[k] \in Int
    BY <1>1
  <2> HIDE DEF S
  <2>2. SumFunctionOnSet(f, S) \in Int
    BY <2>1, SumWithout
  <2> QED BY <2>2 DEF S
<1>7. SumFunctionOnSet(g, 1 .. n + 1) = g[n + 1] + SumFunctionOnSet(f, 1 .. n)
  BY <1>2, <1>4, <1>5
<1> QED BY <1>6, <1>7

(* The sum over a list, with its first entry taken out. *)
LEMMA SumFirst ==
  ASSUME NEW n \in Nat, NEW f, NEW g, \A k \in 1 .. n + 1 : f[k] \in Int,
         \A k \in 1 .. n : g[k] = f[k + 1]
  PROVE  SumFunctionOnSet(f, 1 .. n + 1) = f[1] + SumFunctionOnSet(g, 1 .. n)
<1>1. IsFiniteSet(1 .. n) /\ IsFiniteSet(1 .. n + 1)
  BY FS_Interval
<1>2. (1 .. n + 1) \ {1} = 2 .. n + 1 /\ 1 \in 1 .. n + 1
  OBVIOUS
<1>3. SumFunctionOnSet(f, 1 .. n + 1) = f[1] + SumFunctionOnSet(f, 2 .. n + 1)
  <2> DEFINE S == 1 .. n + 1
  <2>1. IsFiniteSet(S) /\ 1 \in S /\ \A k \in S : f[k] \in Int
    BY <1>1, <1>2
  <2> HIDE DEF S
  <2>2. SumFunctionOnSet(f, S) = f[1] + SumFunctionOnSet(f, S \ {1})
    BY <2>1, SumWithout
  <2>3. S \ {1} = 2 .. n + 1
    BY <1>2 DEF S
  <2> QED BY <2>2, <2>3 DEF S
<1> DEFINE b == [k \in 1 .. n |-> k + 1]
<1>4. b \in Bijection(1 .. n, 2 .. n + 1)
  <2>1. b \in [1 .. n -> 2 .. n + 1]
    OBVIOUS
  <2>2. \A t \in 2 .. n + 1 : t - 1 \in 1 .. n /\ b[t - 1] = t
    OBVIOUS
  <2>3. \A k, l \in 1 .. n : b[k] = b[l] => k = l
    OBVIOUS
  <2> HIDE DEF b
  <2> QED BY <2>1, <2>2, <2>3 DEF Bijection, Injection, Surjection, IsInjective
<1>5. \A k \in 1 .. n : f[b[k]] \in Int /\ g[k] = f[b[k]]
  OBVIOUS
<1>6. SumFunctionOnSet(g, 1 .. n) = SumFunctionOnSet(f, 2 .. n + 1)
  <2> DEFINE S == 1 .. n
             T == 2 .. n + 1
  <2>1. IsFiniteSet(S) /\ b \in Bijection(S, T)
        /\ \A x \in S : f[b[x]] \in Int /\ g[x] = f[b[x]]
    BY <1>1, <1>4, <1>5
  <2> HIDE DEF b, S, T
  <2>2. SumFunctionOnSet(g, S) = SumFunctionOnSet(f, T)
    BY <2>1, SumReindex
  <2> QED BY <2>2 DEF S, T
<1> QED BY <1>3, <1>6

(* A factor of all values is a factor of the sum. *)
LEMMA SumTimes ==
  ASSUME NEW S, IsFiniteSet(S), NEW f, NEW g, NEW c \in Int,
         \A x \in S : f[x] \in Int /\ g[x] = c * f[x]
  PROVE  SumFunctionOnSet(g, S) = c * SumFunctionOnSet(f, S)
<1> DEFINE P == {T \in SUBSET S : SumFunctionOnSet(g, T) = c * SumFunctionOnSet(f, T)}
<1>1. {} \in P
  BY SumEmpty
<1>2. ASSUME NEW T \in SUBSET S, NEW x \in T, T \ {x} \in P PROVE T \in P
  <2> DEFINE a == SumFunctionOnSet(f, T \ {x})
  <2>1. SumFunctionOnSet(g, T) = g[x] + SumFunctionOnSet(g, T \ {x})
    <3>1. \A y \in S : g[y] \in Int
      OBVIOUS
    <3> QED BY <3>1, SumWithout
  <2>2. SumFunctionOnSet(f, T) = f[x] + a /\ a \in Int
    <3>1. \A y \in S : f[y] \in Int
      OBVIOUS
    <3>2. T \ {x} \in SUBSET S
      OBVIOUS
    <3> QED BY <3>1, <3>2, SumWithout
  <2>3. SumFunctionOnSet(g, T \ {x}) = c * a
    BY <1>2
  <2>4. f[x] \in Int /\ g[x] = c * f[x]
    OBVIOUS
  <2> HIDE DEF a
  <2>5. SumFunctionOnSet(g, T) = c * (f[x] + a)
    BY <2>1, <2>2, <2>3, <2>4
  <2> QED BY <2>2, <2>5
<1>3. P \in SUBSET (SUBSET S)
  OBVIOUS
<1>4. S \in P
  <2> HIDE DEF P
  <2> QED BY <1>1, <1>2, <1>3, SubsetInduction
<1> QED BY <1>4

(* Where the values are zero need not be added. *)
LEMMA SumPadded ==
  ASSUME NEW S, IsFiniteSet(S), NEW T \in SUBSET S, NEW f,
         \A x \in S : f[x] \in Int /\ (x \notin T => f[x] = 0)
  PROVE  SumFunctionOnSet(f, S) = SumFunctionOnSet(f, T)
<1> DEFINE P == {U \in SUBSET S : SumFunctionOnSet(f, U) = SumFunctionOnSet(f, U \cap T)}
<1>0. \A y \in S : f[y] \in Int
  OBVIOUS
<1>1. {} \in P
  <2>1. {} \cap T = {}
    OBVIOUS
  <2> QED BY <2>1
<1>2. ASSUME NEW U \in SUBSET S, NEW x \in U, U \ {x} \in P PROVE U \in P
  <2> DEFINE V == U \cap T
             W == (U \ {x}) \cap T
  <2>1. SumFunctionOnSet(f, U) = f[x] + SumFunctionOnSet(f, U \ {x})
    BY <1>0, SumWithout
  <2>2. SumFunctionOnSet(f, U \ {x}) = SumFunctionOnSet(f, W)
    BY <1>2
  <2>3. V \in SUBSET S /\ W \in SUBSET S /\ SumFunctionOnSet(f, W) \in Int
    BY <1>0, SumWithout
  <2>4. CASE x \in T
    <3>1. x \in V /\ W = V \ {x}
      BY <2>4
    <3> HIDE DEF V, W
    <3>2. SumFunctionOnSet(f, V) = f[x] + SumFunctionOnSet(f, W)
      BY <1>0, <2>3, <3>1, SumWithout
    <3>3. SumFunctionOnSet(f, U) = SumFunctionOnSet(f, V)
      BY <2>1, <2>2, <3>2
    <3> QED BY <3>3 DEF V
  <2>5. CASE x \notin T
    <3>1. W = V /\ f[x] = 0
      BY <2>5
    <3>2. SumFunctionOnSet(f, U) = SumFunctionOnSet(f, V)
      <4> HIDE DEF V, W
      <4> QED BY <2>1, <2>2, <2>3, <3>1
    <3> QED BY <3>2
  <2> QED BY <2>4, <2>5
<1>3. P \in SUBSET (SUBSET S)
  OBVIOUS
<1>4. S \in P
  <2> HIDE DEF P
  <2> QED BY <1>1, <1>2, <1>3, SubsetInduction
<1>5. S \cap T = T
  OBVIOUS
<1> QED BY <1>4, <1>5

(* One value less. *)
LEMMA SumSplit ==
  ASSUME NEW S, IsFiniteSet(S), NEW f, \A y \in S : f[y] \in Int,
         NEW T \in SUBSET S, NEW x \in T
  PROVE  /\ SumFunctionOnSet(f, T) = f[x] + SumFunctionOnSet(f, T \ {x})
         /\ SumFunctionOnSet(f, T) \in Int /\ SumFunctionOnSet(f, T \ {x}) \in Int
<1>1. T \ {x} \in SUBSET S
  OBVIOUS
<1> QED BY <1>1, SumWithout

(* In the sum over all pairs, values that are opposite cancel. *)
Opposite(a, S) == \A i, j \in S : a[i][j] \in Int /\ a[i][j] + a[j][i] = 0

(* If a[i][q] and a[q][i] cancel, the sum of all of a is 0. *)
LEMMA SumOpposites ==
  ASSUME NEW S, IsFiniteSet(S), NEW a, Opposite(a, S)
  PROVE  SumFunctionOnSet([i \in S |-> SumFunctionOnSet(a[i], S)], S) = 0
<1> DEFINE row(T) == [i \in S |-> SumFunctionOnSet(a[i], T)]
           P == {T \in SUBSET S : SumFunctionOnSet(row(T), T) = 0}
<1>1. {} \in P
  BY SumEmpty
<1>2. ASSUME NEW T \in SUBSET S, NEW x \in T, T \ {x} \in P PROVE T \in P
  <2> DEFINE R == T \ {x}
             c == [i \in S |-> a[i][x]]
             d == [i \in S |-> 0]
  <2>1. \A i \in S : \A j \in S : a[i][j] \in Int
    BY DEF Opposite
  <2>2. R \in SUBSET S /\ IsFiniteSet(R) /\ IsFiniteSet(T)
    BY FS_Subset
  <2>3. \A i \in S : /\ row(T)[i] = a[i][x] + row(R)[i]
                     /\ row(T)[i] \in Int /\ row(R)[i] \in Int
    <3> SUFFICES ASSUME NEW i \in S
                 PROVE  /\ SumFunctionOnSet(a[i], T) = a[i][x] + SumFunctionOnSet(a[i], R)
                        /\ SumFunctionOnSet(a[i], T) \in Int
                        /\ SumFunctionOnSet(a[i], R) \in Int
      OBVIOUS
    <3>1. PICK b : b = a[i]
      OBVIOUS
    <3>2. \A j \in S : b[j] \in Int
      BY <2>1, <3>1
    <3>3. /\ SumFunctionOnSet(b, T) = b[x] + SumFunctionOnSet(b, R)
          /\ SumFunctionOnSet(b, T) \in Int
      <4> HIDE DEF P, row, c, d
      <4>1. \A y \in T : /\ SumFunctionOnSet(b, T) = b[y] + SumFunctionOnSet(b, T \ {y})
                        /\ SumFunctionOnSet(b, T) \in Int
        BY <3>2, SumSplit
      <4> QED BY <4>1
    <3>4. SumFunctionOnSet(b, R) \in Int
      BY <2>2, <3>2, SumWithout
    <3> QED BY <3>1, <3>3, <3>4
  <2>4. \A i \in S : c[i] \in Int /\ c[i] = a[i][x] /\ d[i] = 0
    BY <2>1
  <2> DEFINE f == row(T)
             g == row(R)
  <2>5. \A i \in S : f[i] = c[i] + g[i] /\ f[i] \in Int /\ g[i] \in Int
    BY <2>3, <2>4
  <2>6. SumFunctionOnSet(g, R) = 0
    BY <1>2
  <2>7. f[x] = a[x][x] + SumFunctionOnSet(a[x], R) /\ a[x][x] = 0
    <3>1. a[x][x] \in Int /\ a[x][x] + a[x][x] = 0
      BY DEF Opposite
    <3>2. f[x] = a[x][x] + SumFunctionOnSet(a[x], R)
      BY <2>3
    <3> QED BY <3>1, <3>2
  <2>8. SumFunctionOnSet(c, R) + SumFunctionOnSet(a[x], R) = 0
    <3> DEFINE b == a[x]
    <3>1. \A i \in R : c[i] \in Int /\ b[i] \in Int /\ d[i] = c[i] + b[i] /\ d[i] = 0
      BY <2>4 DEF Opposite
    <3> HIDE DEF b, c, d, R
    <3>2. SumFunctionOnSet(d, R) = SumFunctionOnSet(c, R) + SumFunctionOnSet(b, R)
      BY <2>2, <3>1, SumPlus
    <3>3. SumFunctionOnSet(d, R) = Cardinality(R) * 0
      BY <2>2, <3>1, SumConstant
    <3>4. Cardinality(R) * 0 = 0
      BY <2>2, FS_CardinalityType
    <3> QED BY <3>2, <3>3, <3>4 DEF b
  <2>9. SumFunctionOnSet(f, T) = f[x] + SumFunctionOnSet(f, R)
    <3>1. PICK b : b = f
      OBVIOUS
    <3> HIDE DEF f
    <3>2. \A i \in S : b[i] \in Int
      BY <2>5, <3>1
    <3>3. SumFunctionOnSet(b, T) = b[x] + SumFunctionOnSet(b, R)
      <4> HIDE DEF P, row, g, c, d
      <4> QED BY <3>2, SumSplit
    <3> QED BY <3>1, <3>3
  <2>10. SumFunctionOnSet(f, R) = SumFunctionOnSet(c, R) + SumFunctionOnSet(g, R)
    <3> HIDE DEF f, g, c, d
    <3>1. \A i \in R : c[i] \in Int /\ g[i] \in Int /\ f[i] = c[i] + g[i]
      BY <2>2, <2>4, <2>5
    <3> HIDE DEF R
    <3> QED BY <2>2, <3>1, SumPlus
  <2>11. SumFunctionOnSet(c, R) \in Int /\ SumFunctionOnSet(a[x], R) \in Int
    <3> DEFINE b == a[x]
    <3>1. \A i \in S : c[i] \in Int /\ b[i] \in Int
      BY <2>1, <2>4
    <3> HIDE DEF b, c, R
    <3>2. SumFunctionOnSet(c, R) \in Int /\ SumFunctionOnSet(b, R) \in Int
      BY <2>2, <3>1, SumWithout
    <3> QED BY <3>2 DEF b
  <2>12. SumFunctionOnSet(f, T) = 0
    <3> HIDE DEF f, g, c, d, R
    <3> QED BY <2>6, <2>7, <2>8, <2>9, <2>10, <2>11
  <2> QED BY <2>12
<1>3. P \in SUBSET (SUBSET S)
  OBVIOUS
<1>4. S \in P
  <2> HIDE DEF P
  <2> QED BY <1>1, <1>2, <1>3, SubsetInduction
<1> QED BY <1>4

(* A finite set of integers that is not empty has a least and a greatest   *)
(* element.                                                                *)
LEMMA Extremes ==
  ASSUME NEW S \in SUBSET Int, IsFiniteSet(S)
  PROVE  \A T \in SUBSET S : T # {} =>
           /\ \E x \in T : \A y \in T : x <= y
           /\ \E x \in T : \A y \in T : y <= x
<1> DEFINE Low(T) == \E x \in T : \A y \in T : x <= y
           High(T) == \E x \in T : \A y \in T : y <= x
           P == {T \in SUBSET S : T # {} => Low(T) /\ High(T)}
<1>1. {} \in P
  OBVIOUS
<1>2. ASSUME NEW T \in SUBSET S, NEW a \in T, T \ {a} \in P PROVE T \in P
  <2>1. CASE T = {a}
    <3>1. Low(T) /\ High(T)
      BY <2>1
    <3> QED BY <3>1
  <2>2. CASE T # {a}
    <3>1. Low(T \ {a}) /\ High(T \ {a})
      BY <1>2, <2>2
    <3>2. PICK l \in T \ {a} : \A y \in T \ {a} : l <= y
      BY <3>1
    <3>3. PICK h \in T \ {a} : \A y \in T \ {a} : y <= h
      BY <3>1
    <3>4. Low(T)
      <4>1. CASE l <= a
        BY <3>2, <4>1
      <4>2. CASE ~(l <= a)
        <5>1. \A y \in T : a <= y
          BY <3>2, <4>2
        <5> QED BY <5>1
      <4> QED BY <4>1, <4>2
    <3>5. High(T)
      <4>1. CASE a <= h
        BY <3>3, <4>1
      <4>2. CASE ~(a <= h)
        <5>1. \A y \in T : y <= a
          BY <3>3, <4>2
        <5> QED BY <5>1
      <4> QED BY <4>1, <4>2
    <3> QED BY <3>4, <3>5
  <2> QED BY <2>1, <2>2
<1>3. P \in SUBSET (SUBSET S)
  OBVIOUS
<1>4. \A T \in SUBSET S : T \in P
  <2> HIDE DEF P
  <2> QED BY <1>1, <1>2, <1>3, SubsetInduction
<1> QED BY <1>4
=============================================================================
