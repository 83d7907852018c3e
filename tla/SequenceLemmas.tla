--------------------------- MODULE SequenceLemmas ---------------------------
(***************************************************************************)
(* What the proofs about the components share: induction, sums, functions  *)
(* defined by recursion over a prefix, and the sequence operators the      *)
(* models are written with.  The library's induction theorems take the     *)
(* property as an operator; here it is a set, G, of the instances it holds *)
(* of.                                                                     *)
(***************************************************************************)
EXTENDS Vec, Integers, Functions, SequencesExt, FiniteSetTheorems, SequenceTheorems, WellFoundedInduction, TLAPS

-----------------------------------------------------------------------------
(* Vec::retain.                                                             *)

\* What holds of 0 and passes from each number below n to the next holds of n.
LEMMA Climb ==
    ASSUME NEW n \in Nat, NEW G, 0 \in G, \A k \in 0..(n - 1) : k \in G => k + 1 \in G
    PROVE  n \in G
<1> SUFFICES ASSUME n \notin G PROVE FALSE
  OBVIOUS
<1> DEFINE B == {j \in 0..n : j \notin G}
<1>1. B \subseteq Nat /\ B # {}
  OBVIOUS
<1>2. PICK k \in B : \A j \in B : <<j, k>> \notin OpToRel(<, Nat)
  <2> HIDE DEF B
  <2>q. QED
    BY <1>1, NatLessThanWellFounded, WFMin
<1>3. k \in 1..n /\ k \notin G
  OBVIOUS
<1>4. <<k - 1, k>> \in OpToRel(<, Nat)
  BY <1>3 DEF OpToRel
<1>5. k - 1 \notin B
  <2> HIDE DEF B
  <2>q. QED
    BY <1>2, <1>4
<1>6. k - 1 \in G /\ k - 1 \in 0..(n - 1) /\ (k - 1) + 1 = k
  BY <1>3, <1>5
<1>q. QED
  BY <1>3, <1>6

\* f holds what retain has kept of each prefix of s up to m.
IsKept(f, s, gone, m) ==
    f = [n \in 0..m |->
            IF n = 0 THEN <<>>
            ELSE IF s[n] \in gone THEN f[n - 1] ELSE Append(f[n - 1], s[n])]

\* The recursive equation, at one prefix.
LEMMA IsKeptUnfold ==
    ASSUME NEW f, NEW s, NEW gone, NEW m \in Nat, IsKept(f, s, gone, m), NEW n \in 0..m
    PROVE  f[n] = IF n = 0 THEN <<>>
                  ELSE IF s[n] \in gone THEN f[n - 1] ELSE Append(f[n - 1], s[n])
<1> DEFINE h == [k \in 0..m |->
                    IF k = 0 THEN <<>>
                    ELSE IF s[k] \in gone THEN f[k - 1] ELSE Append(f[k - 1], s[k])]
<1>1. f = h
  BY DEF IsKept
<1>2. h[n] = IF n = 0 THEN <<>>
             ELSE IF s[n] \in gone THEN f[n - 1] ELSE Append(f[n - 1], s[n])
  OBVIOUS
<1>q. QED
  BY <1>1, <1>2

\* The recursive definition has a solution.
LEMMA IsKeptExists ==
    ASSUME NEW s, NEW gone, NEW m \in Nat
    PROVE  \E f : IsKept(f, s, gone, m)
<1> DEFINE G == {k \in Nat : \E f : IsKept(f, s, gone, k)}
<1>1. 0 \in G
  <2>1. IsKept([k \in 0..0 |-> <<>>], s, gone, 0)
    BY DEF IsKept
  <2>q. QED
    BY <2>1
<1>2. ASSUME NEW k \in Nat, k \in G PROVE k + 1 \in G
  <2>1. PICK f : IsKept(f, s, gone, k)
    BY <1>2
  <2> DEFINE Next1(n, before) ==
                 IF n = 0 THEN <<>> ELSE IF s[n] \in gone THEN before ELSE Append(before, s[n])
             h == [n \in 0..(k + 1) |-> IF n = k + 1 THEN Next1(k + 1, f[k]) ELSE f[n]]
             r == [n \in 0..(k + 1) |-> Next1(n, h[n - 1])]
  <2>2. ASSUME NEW n \in 0..(k + 1) PROVE h[n] = r[n]
    <3>1. CASE n = k + 1
      BY <3>1
    <3>2. CASE n \in 0..k /\ n # 0
      <4>1. h[n] = f[n] /\ h[n - 1] = f[n - 1]
        BY <3>2
      <4>2. f[n] = Next1(n, f[n - 1])
        BY <2>1, <3>2, IsKeptUnfold
      <4>q. QED
        BY <4>1, <4>2
    <3>3. CASE n = 0
      BY <2>1, <3>3, IsKeptUnfold
    <3>q. QED
      BY <3>1, <3>2, <3>3
  <2>3. h = r
    <3> HIDE DEF Next1
    <3>q. QED
      BY <2>2
  <2>4. IsKept(h, s, gone, k + 1)
    BY <2>3 DEF IsKept
  <2>q. QED
    BY <2>4
<1>q. QED
  <2> HIDE DEF G
  <2>1. m \in G
    BY <1>1, <1>2, Climb
  <2>q. QED
    BY <2>1 DEF G

\* retain keeps entries of the sequence that are not gone, and nothing else.
LEMMA RetainKeeps ==
    ASSUME NEW T, NEW s \in Seq(T), NEW gone
    PROVE  retain(s, gone) \in Seq(T \ gone)
<1> DEFINE f == CHOOSE g : IsKept(g, s, gone, Len(s))
           G == {n \in 0..Len(s) : f[n] \in Seq(T \ gone)}
<1>1. retain(s, gone) = f[Len(s)]
  BY DEF retain, IsKept
<1>2. IsKept(f, s, gone, Len(s)) /\ Len(s) \in Nat
  <2>1. Len(s) \in Nat
    OBVIOUS
  <2>2. \E g : IsKept(g, s, gone, Len(s))
    BY <2>1, IsKeptExists
  <2>q. QED
    BY <2>1, <2>2
<1> HIDE DEF f
<1>3. 0 \in G
  <2>1. f[0] = <<>>
    BY <1>2, IsKeptUnfold
  <2>2. << >> \in Seq(T \ gone) /\ 0 \in 0..Len(s)
    BY <1>2
  <2>q. QED
    BY <2>1, <2>2
<1>4. ASSUME NEW n \in 0..(Len(s) - 1), n \in G PROVE n + 1 \in G
  <2>1. n + 1 \in 0..Len(s) /\ s[n + 1] \in T /\ (n + 1) - 1 = n /\ n + 1 # 0
    BY <1>2
  <2>2. f[n + 1] = IF s[n + 1] \in gone THEN f[n] ELSE Append(f[n], s[n + 1])
    BY <1>2, <2>1, IsKeptUnfold
  <2>3. f[n] \in Seq(T \ gone)
    BY <1>4
  <2>4. CASE s[n + 1] \notin gone
    <3>1. s[n + 1] \in T \ gone
      BY <2>1, <2>4
    <3>2. Append(f[n], s[n + 1]) \in Seq(T \ gone)
      BY <2>3, <3>1
    <3>q. QED
      BY <2>1, <2>2, <2>4, <3>2
  <2>q. QED
    BY <2>1, <2>2, <2>3, <2>4
<1>5. Len(s) \in G
  <2> HIDE DEF G
  <2>q. QED
    BY <1>2, <1>3, <1>4, Climb
<1>q. QED
  BY <1>1, <1>5

\* A sequence is one over the elements it has.
LEMMA OverItsRange ==
    ASSUME NEW T, NEW s \in Seq(T)
    PROVE  s \in Seq(Range(s)) /\ Range(s) \subseteq T
<1>1. s \in [1..Len(s) -> Range(s)] /\ Len(s) \in Nat
  BY DEF Range
<1>2. s \in Seq(Range(s))
  <2> DEFINE R == Range(s)
  <2> HIDE DEF R
  <2>q. QED
    BY <1>1 DEF R
<1>3. Range(s) \subseteq T
  BY DEF Range
<1>q. QED
  BY <1>2, <1>3

\* The entries that retain leaves.
LEMMA RetainedEntries ==
    ASSUME NEW T, NEW s \in Seq(T), NEW gone
    PROVE  /\ retain(s, gone) \in Seq(T)
           /\ \A i \in DOMAIN retain(s, gone) : retain(s, gone)[i] \in Range(s) \ gone
<1> DEFINE R == Range(s)  kept == retain(s, gone)
<1>1. s \in Seq(R) /\ R \subseteq T
  BY OverItsRange
<1> HIDE DEF R
<1>2. kept \in Seq(R \ gone)
  BY <1>1, RetainKeeps
<1> HIDE DEF kept
<1>3. /\ DOMAIN kept = 1..Len(kept) /\ Len(kept) \in Nat
      /\ \A i \in DOMAIN kept : kept[i] \in R \ gone
  BY <1>2
<1>4. kept \in [1..Len(kept) -> T]
  BY <1>1, <1>2, <1>3
<1>5. kept \in Seq(T)
  BY <1>3, <1>4
<1>q. QED
  BY <1>3, <1>5 DEF R, kept

\* s lists the elements of S, each of them once.
Lists(s, S) ==
    /\ s \in Seq(S)
    /\ \A x \in S : \E i \in 1..Len(s) : s[i] = x
    /\ \A i \in 1..Len(s), j \in 1..Len(s) : s[i] = s[j] => i = j

\* The new last element of a list.
LEMMA ListsAppend ==
    ASSUME NEW S, NEW s, Lists(s, S), NEW x, x \notin S
    PROVE  Lists(Append(s, x), S \cup {x})
<1>1. PICK T : T = S \cup {x}
  OBVIOUS
<1>2. PICK t : t = Append(s, x)
  OBVIOUS
<1>3. s \in Seq(T) /\ x \in T
  <2>1. s \in [1..Len(s) -> S] /\ Len(s) \in Nat
    BY DEF Lists
  <2>2. s \in [1..Len(s) -> T]
    BY <1>1, <2>1
  <2>q. QED
    BY <1>1, <2>1, <2>2
<1>4. /\ t \in Seq(T) /\ Len(t) = Len(s) + 1 /\ t[Len(s) + 1] = x /\ Len(s) \in Nat
      /\ \A i \in 1..Len(s) : t[i] = s[i] /\ s[i] \in S
  BY <1>2, <1>3 DEF Lists
<1>5. ASSUME NEW y \in T PROVE \E i \in 1..Len(t) : t[i] = y
  <2>1. CASE y = x
    BY <1>4, <2>1
  <2>2. CASE y \in S
    <3>1. PICK i \in 1..Len(s) : s[i] = y
      BY <2>2 DEF Lists
    <3>q. QED
      BY <1>4, <3>1
  <2>q. QED
    BY <1>1, <2>1, <2>2
<1>6. ASSUME NEW i \in 1..Len(t), NEW j \in 1..Len(t), t[i] = t[j] PROVE i = j
  <2>1. (i \in 1..Len(s) \/ i = Len(s) + 1) /\ (j \in 1..Len(s) \/ j = Len(s) + 1)
    BY <1>4
  <2>2. CASE i \in 1..Len(s) /\ j \in 1..Len(s)
    BY <1>4, <1>6, <2>2 DEF Lists
  <2>q. QED
    BY <1>4, <1>6, <2>1, <2>2
<1>q. QED
  BY <1>1, <1>2, <1>4, <1>5, <1>6 DEF Lists

\* What retain leaves of a list.
LEMMA ListsRetained ==
    ASSUME NEW S, NEW s, Lists(s, S), NEW gone
    PROVE  Lists(retain(s, gone), S \ gone)
<1>0. PICK m \in Nat : m = Len(s) /\ s \in Seq(S)
  BY DEF Lists
<1>1. PICK f : retain(s, gone) = f[m] /\ IsKept(f, s, gone, m)
  <2> DEFINE f == CHOOSE g : IsKept(g, s, gone, Len(s))
  <2>1. retain(s, gone) = f[Len(s)]
    BY DEF retain, IsKept
  <2>2. \E g : IsKept(g, s, gone, Len(s))
    BY <1>0, IsKeptExists
  <2>q. QED
    BY <1>0, <2>1, <2>2
<1> DEFINE Upto(n) == {s[i] : i \in 1..n}
           G == {n \in 0..m : Lists(f[n], Upto(n) \ gone)}
<1>2. 0 \in G
  <2>1. f[0] = <<>>
    BY <1>1, IsKeptUnfold
  <2>2. PICK N : N = Upto(0) \ gone /\ N = {}
    <3>1. 1..0 = {}
      OBVIOUS
    <3>q. QED
      BY <3>1
  <2>3. Lists(<<>>, N)
    BY <2>2 DEF Lists
  <2>q. QED
    BY <2>1, <2>2, <2>3
<1>3. ASSUME NEW n \in 0..(m - 1), n \in G PROVE n + 1 \in G
  <2>1. n + 1 \in 0..m /\ n + 1 \in 1..m /\ (n + 1) - 1 = n /\ n + 1 # 0 /\ n \in Nat
    OBVIOUS
  <2>2. f[n + 1] = IF s[n + 1] \in gone THEN f[n] ELSE Append(f[n], s[n + 1])
    BY <1>1, <2>1, IsKeptUnfold
  <2>3. Upto(n + 1) = Upto(n) \cup {s[n + 1]}
    <3>1. 1..(n + 1) = 1..n \cup {n + 1}
      BY <2>1
    <3>q. QED
      BY <3>1
  <2>4. s[n + 1] \notin Upto(n)
    <3>1. ASSUME NEW i \in 1..n PROVE s[i] # s[n + 1]
      <4>1. i \in 1..Len(s) /\ n + 1 \in 1..Len(s) /\ i # n + 1
        BY <1>0, <2>1
      <4>q. QED
        BY <4>1 DEF Lists
    <3>q. QED
      BY <3>1
  <2>5. PICK U : U = Upto(n) \ gone /\ Lists(f[n], U)
    BY <1>3
  <2>6. CASE s[n + 1] \in gone
    <3>1. Upto(n + 1) \ gone = U
      BY <2>3, <2>5, <2>6
    <3>q. QED
      BY <2>1, <2>2, <2>5, <2>6, <3>1
  <2>7. CASE s[n + 1] \notin gone
    <3>1. Upto(n + 1) \ gone = U \cup {s[n + 1]} /\ s[n + 1] \notin U
      BY <2>3, <2>4, <2>5, <2>7
    <3>2. Lists(Append(f[n], s[n + 1]), U \cup {s[n + 1]})
      BY <2>5, <3>1, ListsAppend
    <3>q. QED
      BY <2>1, <2>2, <2>7, <3>1, <3>2
  <2>q. QED
    BY <2>6, <2>7
<1>4. m \in G
  <2> HIDE DEF G
  <2>q. QED
    BY <1>2, <1>3, Climb
<1>5. Upto(m) = S
  BY <1>0 DEF Lists
<1>q. QED
  BY <1>1, <1>4, <1>5

\* A list without its first k elements.
LEMMA ListsDropped ==
    ASSUME NEW S, NEW s, Lists(s, S), NEW k \in 0..Len(s)
    PROVE  /\ Lists(SubSeq(s, k + 1, Len(s)), S \ {s[i] : i \in 1..k})
           /\ Len(SubSeq(s, k + 1, Len(s))) = Len(s) - k
<1>1. PICK m \in Nat : m = Len(s) /\ s \in Seq(S) /\ k \in 0..m
  BY DEF Lists
<1>2. PICK T : T = S \ {s[i] : i \in 1..k}
  OBVIOUS
<1>3. PICK t : t = SubSeq(s, k + 1, m)
  OBVIOUS
<1>4. t = [i \in 1..(m - k) |-> s[k + i]] /\ Len(t) = m - k /\ m - k \in Nat
  <2>1. t = [i \in 1..(m - (k + 1) + 1) |-> s[(k + 1) + i - 1]]
    BY <1>3 DEF SubSeq
  <2>2. m - (k + 1) + 1 = m - k /\ \A i \in 1..(m - k) : (k + 1) + i - 1 = k + i
    BY <1>1
  <2>q. QED
    BY <1>1, <1>3, <2>1, <2>2
<1>5. ASSUME NEW i \in 1..(m - k) PROVE k + i \in 1..m /\ s[k + i] \in T /\ t[i] = s[k + i]
  <2>1. k + i \in 1..m /\ k + i \notin 1..k /\ i \in Nat
    BY <1>1
  <2>2. s[k + i] \in S
    BY <1>1, <2>1
  <2>3. ASSUME NEW j \in 1..k PROVE s[j] # s[k + i]
    <3>1. j \in 1..Len(s) /\ k + i \in 1..Len(s) /\ j # k + i
      BY <1>1, <2>1
    <3>q. QED
      BY <3>1 DEF Lists
  <2>q. QED
    BY <1>2, <1>4, <2>1, <2>2, <2>3
<1>6. t \in Seq(T)
  <2>1. t \in [1..(m - k) -> T]
    BY <1>4, <1>5
  <2>q. QED
    BY <1>4, <2>1
<1>7. ASSUME NEW y \in T PROVE \E i \in 1..Len(t) : t[i] = y
  <2>1. y \in S /\ \A j \in 1..k : s[j] # y
    BY <1>2
  <2>2. PICK j \in 1..m : s[j] = y
    BY <1>1, <2>1 DEF Lists
  <2>3. j - k \in 1..(m - k) /\ k + (j - k) = j
    BY <1>1, <2>1, <2>2
  <2>q. QED
    BY <1>4, <1>5, <2>2, <2>3
<1>8. ASSUME NEW i \in 1..Len(t), NEW j \in 1..Len(t), t[i] = t[j] PROVE i = j
  <2>1. s[k + i] = s[k + j] /\ k + i \in 1..m /\ k + j \in 1..m
    BY <1>4, <1>5, <1>8
  <2>2. k + i = k + j
    BY <1>1, <2>1 DEF Lists
  <2>q. QED
    BY <1>1, <1>4, <2>2
<1>9. Lists(t, T)
  BY <1>6, <1>7, <1>8 DEF Lists
<1>q. QED
  BY <1>1, <1>2, <1>3, <1>4, <1>9

\* A list is as long as its set is large.
LEMMA ListsCount ==
    ASSUME NEW S, NEW s, Lists(s, S)
    PROVE  Range(s) = S /\ Len(s) = Cardinality(S)
<1>1. PICK m \in Nat : m = Len(s) /\ s \in Seq(S) /\ DOMAIN s = 1..m
  BY DEF Lists
<1>2. Range(s) = S
  BY <1>1 DEF Lists, Range
<1>3. s \in Bijection(1..m, S)
  <2>1. s \in [1..m -> S]
    BY <1>1
  <2>q. QED
    BY <1>1, <2>1 DEF Lists, Bijection, Injection, Surjection, IsInjective
<1>4. IsFiniteSet(1..m) /\ Cardinality(1..m) = m
  <2>1. 1 \in Int /\ m \in Int
    OBVIOUS
  <2>q. QED
    BY <2>1, FS_Interval
<1>5. Cardinality(S) = m
  BY <1>3, <1>4, FS_Bijection DEF ExistsBijection
<1>q. QED
  BY <1>1, <1>2, <1>5

-----------------------------------------------------------------------------
(* Sums over finite sets (SumFunctionOnSet, with which the byte counters    *)
(* are stated): a sum does not depend on the order of summation, it is      *)
(* additive, and the sum of a sequence splits at every index.               *)

\* What holds of a set when it holds of all its proper subsets holds of every finite set.
LEMMA SubsetInduction ==
    ASSUME NEW S, IsFiniteSet(S), NEW G,
           \A T \in SUBSET S : (\A U \in SUBSET T : U # T => U \in G) => T \in G
    PROVE  S \in G
<1> SUFFICES ASSUME S \notin G PROVE FALSE
  OBVIOUS
<1> DEFINE B == {T \in SUBSET S : T \notin G}
<1>1. IsWellFoundedOn(StrictSubsetOrdering(S), FiniteSubsetsOf(S)) /\ FiniteSubsetsOf(S) = SUBSET S
  BY FS_StrictSubsetOrderingWellFounded, FS_FiniteSubsetsOfFinite
<1>2. B \subseteq FiniteSubsetsOf(S) /\ B # {}
  BY <1>1
<1>3. PICK T \in B : \A U \in B : <<U, T>> \notin StrictSubsetOrdering(S)
  <2> HIDE DEF B
  <2>q. QED
    BY <1>1, <1>2, WFMin
<1>4. \A U \in SUBSET T : U # T => U \in G
  BY <1>3 DEF StrictSubsetOrdering
<1>q. QED
  BY <1>3, <1>4

\* The element the fold takes next.
Chosen(s) == CHOOSE x \in s : TRUE

\* f is the recursive function the fold defines, for the subsets of S.
IsSum(f, g, S) ==
    f = [s \in SUBSET S |-> IF s = {} THEN 0 ELSE g[Chosen(s)] + f[s \ {Chosen(s)}]]

\* The library's sum, without its higher-order operators.
LEMMA SumDef ==
    ASSUME NEW g, NEW S
    PROVE  SumFunctionOnSet(g, S) = (CHOOSE f : IsSum(f, g, S))[S]
  BY DEF SumFunctionOnSet, FoldFunctionOnSet, MapThenFoldSet, IsSum, Chosen

\* The recursive equation, at one subset.
LEMMA IsSumUnfold ==
    ASSUME NEW f, NEW g, NEW S, IsSum(f, g, S), NEW s \in SUBSET S
    PROVE  f[s] = IF s = {} THEN 0 ELSE g[Chosen(s)] + f[s \ {Chosen(s)}]
<1> DEFINE h == [t \in SUBSET S |-> IF t = {} THEN 0 ELSE g[Chosen(t)] + f[t \ {Chosen(t)}]]
<1>1. f = h
  BY DEF IsSum
<1>2. h[s] = IF s = {} THEN 0 ELSE g[Chosen(s)] + f[s \ {Chosen(s)}]
  OBVIOUS
<1>q. QED
  BY <1>1, <1>2

\* The element taken is one of the set.
LEMMA ChosenIn == ASSUME NEW s, s # {} PROVE Chosen(s) \in s
  BY DEF Chosen

\* Two solutions agree where both are defined.
LEMMA SumUnique ==
    ASSUME NEW g, NEW e, NEW f, NEW S, NEW T, IsSum(e, g, S), IsSum(f, g, T),
           NEW s, s \subseteq S, s \subseteq T, IsFiniteSet(s)
    PROVE  e[s] = f[s]
<1> DEFINE G == {t \in SUBSET s : e[t] = f[t]}
<1>1. ASSUME NEW t \in SUBSET s, \A u \in SUBSET t : u # t => u \in G
      PROVE  t \in G
  <2>1. /\ e[t] = IF t = {} THEN 0 ELSE g[Chosen(t)] + e[t \ {Chosen(t)}]
        /\ f[t] = IF t = {} THEN 0 ELSE g[Chosen(t)] + f[t \ {Chosen(t)}]
    BY IsSumUnfold
  <2>2. CASE t = {}
    BY <2>1, <2>2
  <2>3. CASE t # {}
    <3>1. Chosen(t) \in t
      BY <2>3, ChosenIn
    <3>2. t \ {Chosen(t)} \in SUBSET t /\ t \ {Chosen(t)} # t
      BY <3>1
    <3>3. e[t \ {Chosen(t)}] = f[t \ {Chosen(t)}]
      BY <1>1, <3>2
    <3>q. QED
      BY <2>1, <2>3, <3>3
  <2>q. QED
    BY <2>2, <2>3
<1>2. s \in G
  <2> HIDE DEF G
  <2>q. QED
    BY <1>1, SubsetInduction
<1>q. QED
  BY <1>2

\* The definition of the sum has a solution on every finite set.
LEMMA SumExists ==
    ASSUME NEW g, NEW S, IsFiniteSet(S)
    PROVE  \E f : IsSum(f, g, S)
<1> DEFINE G == {T \in SUBSET S : \E f : IsSum(f, g, T)}
           Sum(T) == SumFunctionOnSet(g, T)
<1>1. ASSUME NEW T \in SUBSET S, \A U \in SUBSET T : U # T => U \in G
      PROVE  T \in G
  <2> DEFINE Below(t) == IF t = {} THEN 0 ELSE g[Chosen(t)] + Sum(t \ {Chosen(t)})
             h == [t \in SUBSET T |-> Below(t)]
  <2>1. ASSUME NEW t \in SUBSET T, t # T
        PROVE  \E f : IsSum(f, g, t) /\ Sum(t) = f[t]
    <3>1. \E f : IsSum(f, g, t)
      BY <1>1, <2>1
    <3>2. IsSum(CHOOSE f : IsSum(f, g, t), g, t)
      BY <3>1
    <3>q. QED
      BY <3>2, SumDef
  <2>2. ASSUME NEW t \in SUBSET T, t # T
        PROVE  Sum(t) = Below(t)
    <3>1. PICK e : IsSum(e, g, t) /\ Sum(t) = e[t]
      BY <2>1, <2>2
    <3>2. e[t] = IF t = {} THEN 0 ELSE g[Chosen(t)] + e[t \ {Chosen(t)}]
      BY <3>1, IsSumUnfold
    <3>3. CASE t # {}
      <4> DEFINE u == t \ {Chosen(t)}
      <4>1. Chosen(t) \in t
        BY <3>3, ChosenIn
      <4>2. u \in SUBSET T /\ u # T /\ u \subseteq t
        BY <4>1, <2>2
      <4>3. IsFiniteSet(u)
        BY <4>2, FS_Subset
      <4>4. PICK f : IsSum(f, g, u) /\ Sum(u) = f[u]
        BY <2>1, <4>2
      <4>5. e[u] = f[u]
        BY <3>1, <4>2, <4>3, <4>4, SumUnique
      <4>q. QED
        BY <3>1, <3>2, <3>3, <4>4, <4>5
    <3>q. QED
      BY <3>1, <3>2, <3>3
  <2>3. IsSum(h, g, T)
    <3>1. ASSUME NEW t \in SUBSET T
          PROVE  h[t] = IF t = {} THEN 0 ELSE g[Chosen(t)] + h[t \ {Chosen(t)}]
      <4>1. CASE t # {}
        <5> DEFINE u == t \ {Chosen(t)}
        <5>1. Chosen(t) \in t
          BY <4>1, ChosenIn
        <5>2. u \in SUBSET T /\ u # T
          BY <5>1
        <5>3. h[u] = Sum(u)
          BY <2>2, <5>2
        <5>q. QED
          BY <4>1, <5>3
      <4>q. QED
        BY <4>1
    <3>2. h = [t \in SUBSET T |-> IF t = {} THEN 0 ELSE g[Chosen(t)] + h[t \ {Chosen(t)}]]
      BY <3>1
    <3>q. QED
      BY <3>2 DEF IsSum
  <2>q. QED
    BY <2>3
<1>2. S \in G
  <2> HIDE DEF G
  <2>q. QED
    BY <1>1, SubsetInduction
<1>q. QED
  BY <1>2
\* The sum over a finite set, unfolded once at the element the fold chooses.
LEMMA SumUnfold ==
    ASSUME NEW g, NEW S, IsFiniteSet(S)
    PROVE  SumFunctionOnSet(g, S) =
               IF S = {} THEN 0
               ELSE g[Chosen(S)] + SumFunctionOnSet(g, S \ {Chosen(S)})
<1> DEFINE T == S \ {Chosen(S)}
           e == CHOOSE f : IsSum(f, g, S)
           d == CHOOSE f : IsSum(f, g, T)
<1>1. IsSum(e, g, S)
  BY SumExists
<1>2. IsFiniteSet(T)
  BY FS_Subset
<1>3. IsSum(d, g, T)
  BY <1>2, SumExists
<1>4. SumFunctionOnSet(g, S) = e[S] /\ SumFunctionOnSet(g, T) = d[T]
  BY SumDef
<1> HIDE DEF e, d
<1>5. e[T] = d[T]
  BY <1>1, <1>2, <1>3, SumUnique
<1>6. e[S] = IF S = {} THEN 0 ELSE g[Chosen(S)] + e[T]
  BY <1>1, IsSumUnfold
<1>q. QED
  BY <1>4, <1>5, <1>6

\* A sum of naturals is a natural.
LEMMA SumType ==
    ASSUME NEW g, NEW S, IsFiniteSet(S), \A x \in S : g[x] \in Nat
    PROVE  SumFunctionOnSet(g, S) \in Nat
<1> DEFINE G == {T \in SUBSET S : SumFunctionOnSet(g, T) \in Nat}
<1>1. ASSUME NEW T \in SUBSET S, \A U \in SUBSET T : U # T => U \in G
      PROVE  T \in G
  <2>1. IsFiniteSet(T)
    BY FS_Subset
  <2>2. SumFunctionOnSet(g, T) =
            IF T = {} THEN 0 ELSE g[Chosen(T)] + SumFunctionOnSet(g, T \ {Chosen(T)})
    BY <2>1, SumUnfold
  <2>3. CASE T # {}
    <3>1. Chosen(T) \in T
      BY <2>3, ChosenIn
    <3>2. T \ {Chosen(T)} \in G
      BY <1>1, <3>1
    <3>q. QED
      BY <2>2, <2>3, <3>1, <3>2
  <2>q. QED
    BY <2>2, <2>3
<1>2. S \in G
  <2> HIDE DEF G
  <2>q. QED
    BY <1>1, SubsetInduction
<1>q. QED
  BY <1>2

\* The sum does not depend on the order of summation: any element can be taken first.
LEMMA SumRemove ==
    ASSUME NEW g, NEW S, IsFiniteSet(S), \A y \in S : g[y] \in Nat, NEW x \in S
    PROVE  SumFunctionOnSet(g, S) = g[x] + SumFunctionOnSet(g, S \ {x})
<1> DEFINE Sum(T) == SumFunctionOnSet(g, T)
           G == {T \in SUBSET S : \A y \in T : Sum(T) = g[y] + Sum(T \ {y})}
<1>1. ASSUME NEW T \in SUBSET S, \A U \in SUBSET T : U # T => U \in G
      PROVE  T \in G
  <2> SUFFICES ASSUME NEW y \in T PROVE Sum(T) = g[y] + Sum(T \ {y})
    OBVIOUS
  <2> DEFINE c == Chosen(T)
             U == T \ {c}
             V == T \ {y}
             W == (T \ {c}) \ {y}
  <2>1. IsFiniteSet(T) /\ IsFiniteSet(W)
    BY FS_Subset
  <2>2. c \in T
    BY ChosenIn
  <2>3. Sum(T) = g[c] + Sum(U)
    BY <2>1, SumUnfold
  <2>4. CASE y # c
    <3>1. U \in G /\ V \in G
      BY <1>1, <2>2
    <3>2. Sum(U) = g[y] + Sum(W)
      BY <3>1, <2>4
    <3>3. V \ {c} = W /\ c \in V
      BY <2>2, <2>4
    <3>4. Sum(V) = g[c] + Sum(W)
      BY <3>1, <3>3
    <3>5. Sum(W) \in Nat /\ g[c] \in Nat /\ g[y] \in Nat
      BY <2>1, <2>2, SumType
    <3>q. QED
      <4> HIDE DEF Sum, c, U, V, W
      <4>q. QED
        BY <2>3, <3>2, <3>4, <3>5 DEF V
  <2>q. QED
    BY <2>3, <2>4
<1>2. S \in G
  <2> HIDE DEF G
  <2>q. QED
    BY <1>1, SubsetInduction
<1>q. QED
  BY <1>2

\* Only the values on the set count.
LEMMA SumEqual ==
    ASSUME NEW g, NEW h, NEW S, IsFiniteSet(S), \A x \in S : g[x] = h[x]
    PROVE  SumFunctionOnSet(g, S) = SumFunctionOnSet(h, S)
<1> DEFINE G == {T \in SUBSET S : SumFunctionOnSet(g, T) = SumFunctionOnSet(h, T)}
<1>1. ASSUME NEW T \in SUBSET S, \A U \in SUBSET T : U # T => U \in G
      PROVE  T \in G
  <2>1. IsFiniteSet(T)
    BY FS_Subset
  <2>2. /\ SumFunctionOnSet(g, T) =
              IF T = {} THEN 0 ELSE g[Chosen(T)] + SumFunctionOnSet(g, T \ {Chosen(T)})
        /\ SumFunctionOnSet(h, T) =
              IF T = {} THEN 0 ELSE h[Chosen(T)] + SumFunctionOnSet(h, T \ {Chosen(T)})
    BY <2>1, SumUnfold
  <2>3. CASE T # {}
    <3>1. Chosen(T) \in T
      BY <2>3, ChosenIn
    <3>2. T \ {Chosen(T)} \in G
      BY <1>1, <3>1
    <3>q. QED
      BY <2>2, <2>3, <3>1, <3>2
  <2>q. QED
    BY <2>2, <2>3
<1>2. S \in G
  <2> HIDE DEF G
  <2>q. QED
    BY <1>1, SubsetInduction
<1>q. QED
  BY <1>2

\* The sum of two functions, added up pointwise.
LEMMA SumAdd ==
    ASSUME NEW g, NEW h, NEW k, NEW S, IsFiniteSet(S),
           \A x \in S : g[x] \in Nat /\ h[x] \in Nat /\ k[x] = g[x] + h[x]
    PROVE  SumFunctionOnSet(k, S) = SumFunctionOnSet(g, S) + SumFunctionOnSet(h, S)
<1> DEFINE G == {T \in SUBSET S : SumFunctionOnSet(k, T) =
                     SumFunctionOnSet(g, T) + SumFunctionOnSet(h, T)}
<1>1. ASSUME NEW T \in SUBSET S, \A U \in SUBSET T : U # T => U \in G
      PROVE  T \in G
  <2> DEFINE c == Chosen(T)
             U == T \ {c}
  <2>1. IsFiniteSet(T) /\ IsFiniteSet(U)
    BY FS_Subset
  <2>2. /\ SumFunctionOnSet(g, T) = IF T = {} THEN 0 ELSE g[c] + SumFunctionOnSet(g, U)
        /\ SumFunctionOnSet(h, T) = IF T = {} THEN 0 ELSE h[c] + SumFunctionOnSet(h, U)
        /\ SumFunctionOnSet(k, T) = IF T = {} THEN 0 ELSE k[c] + SumFunctionOnSet(k, U)
    BY <2>1, SumUnfold
  <2>3. CASE T # {}
    <3>1. c \in T
      BY <2>3, ChosenIn
    <3>2. U \in G
      BY <1>1, <3>1
    <3>3. SumFunctionOnSet(g, U) \in Nat /\ SumFunctionOnSet(h, U) \in Nat
      BY <2>1, SumType
    <3>4. g[c] \in Nat /\ h[c] \in Nat /\ k[c] = g[c] + h[c]
      BY <3>1
    <3>5. SumFunctionOnSet(k, U) = SumFunctionOnSet(g, U) + SumFunctionOnSet(h, U)
      BY <3>2
    <3>q. QED
      <4> HIDE DEF c, U
      <4>q. QED
        BY <2>2, <2>3, <3>3, <3>4, <3>5
  <2>q. QED
    BY <2>2, <2>3
<1>2. S \in G
  <2> HIDE DEF G
  <2>q. QED
    BY <1>1, SubsetInduction
<1>q. QED
  BY <1>2

\* A sum is at least each of its terms.
LEMMA SumBound ==
    ASSUME NEW g, NEW S, IsFiniteSet(S), \A y \in S : g[y] \in Nat, NEW x \in S
    PROVE  g[x] <= SumFunctionOnSet(g, S)
<1>1. SumFunctionOnSet(g, S) = g[x] + SumFunctionOnSet(g, S \ {x})
  BY SumRemove
<1>2. SumFunctionOnSet(g, S \ {x}) \in Nat
  BY FS_Subset, SumType
<1>q. QED
  BY <1>1, <1>2

\* Changing one value of a function changes the sum by the difference.
LEMMA SumChange ==
    ASSUME NEW g, NEW h, NEW S, IsFiniteSet(S), \A y \in S : g[y] \in Nat /\ h[y] \in Nat,
           NEW x \in S, \A y \in S \ {x} : g[y] = h[y]
    PROVE  SumFunctionOnSet(g, S) + h[x] = SumFunctionOnSet(h, S) + g[x]
<1> DEFINE T == S \ {x}
<1>1. IsFiniteSet(T)
  BY FS_Subset
<1>2. SumFunctionOnSet(g, T) = SumFunctionOnSet(h, T) /\ SumFunctionOnSet(g, T) \in Nat
  BY <1>1, SumEqual, SumType
<1>3. /\ SumFunctionOnSet(g, S) = g[x] + SumFunctionOnSet(g, T)
      /\ SumFunctionOnSet(h, S) = h[x] + SumFunctionOnSet(h, T)
  BY SumRemove
<1>q. QED
  <2> HIDE DEF T
  <2>q. QED
    BY <1>2, <1>3

\* A sum of zeros, in particular the empty sum.
LEMMA SumZero ==
    ASSUME NEW g, NEW S, IsFiniteSet(S), \A x \in S : g[x] = 0
    PROVE  SumFunctionOnSet(g, S) = 0
<1> DEFINE G == {T \in SUBSET S : SumFunctionOnSet(g, T) = 0}
<1>1. ASSUME NEW T \in SUBSET S, \A U \in SUBSET T : U # T => U \in G
      PROVE  T \in G
  <2>1. IsFiniteSet(T)
    BY FS_Subset
  <2>2. SumFunctionOnSet(g, T) =
            IF T = {} THEN 0 ELSE g[Chosen(T)] + SumFunctionOnSet(g, T \ {Chosen(T)})
    BY <2>1, SumUnfold
  <2>3. CASE T # {}
    <3>1. Chosen(T) \in T
      BY <2>3, ChosenIn
    <3>2. T \ {Chosen(T)} \in G
      BY <1>1, <3>1
    <3>q. QED
      BY <2>2, <2>3, <3>1, <3>2
  <2>q. QED
    BY <2>2, <2>3
<1>2. S \in G
  <2> HIDE DEF G
  <2>q. QED
    BY <1>1, SubsetInduction
<1>q. QED
  BY <1>2
\* Induction over the naturals, for a property given as the set of its members.
LEMMA NatSetInduction ==
    ASSUME NEW G, 0 \in G, \A n \in Nat : n \in G => n + 1 \in G
    PROVE  \A n \in Nat : n \in G
<1> SUFFICES ASSUME NEW m \in Nat PROVE m \in G
  OBVIOUS
<1> DEFINE H == {T \in SUBSET (1..m) : \A n \in Nat : T = 1..n => n \in G}
<1>1. IsFiniteSet(1..m)
  <2>1. 1 \in Int /\ m \in Int
    OBVIOUS
  <2>q. QED
    BY <2>1, FS_Interval
<1>2. ASSUME NEW T \in SUBSET (1..m), \A U \in SUBSET T : U # T => U \in H
      PROVE  T \in H
  <2> SUFFICES ASSUME NEW n \in Nat, T = 1..n, n # 0 PROVE n \in G
    OBVIOUS
  <2>1. n - 1 \in Nat /\ 1..(n - 1) \in SUBSET T /\ n \notin 1..(n - 1) /\ n \in T
    OBVIOUS
  <2>2. 1..(n - 1) \in H
    BY <1>2, <2>1
  <2>3. n - 1 \in G
    BY <2>1, <2>2
  <2>q. QED
    BY <2>1, <2>3
<1>3. 1..m \in H
  <2> DEFINE I == 1..m
  <2>1. IsFiniteSet(I) /\ \A T \in SUBSET I : (\A U \in SUBSET T : U # T => U \in H) => T \in H
    BY <1>1, <1>2
  <2>2. I \in H
    <3> HIDE DEF H, I
    <3>q. QED
      BY <2>1, SubsetInduction
  <2>q. QED
    BY <2>2
<1>q. QED
  BY <1>3

\* The sum of a sequence of naturals is a natural; of the empty one it is 0.
LEMMA SeqSumType ==
    ASSUME NEW s \in Seq(Nat)
    PROVE  SumFunction(s) \in Nat /\ (s = <<>> => SumFunction(s) = 0)
<1>1. DOMAIN s = 1..Len(s) /\ IsFiniteSet(1..Len(s)) /\ \A i \in 1..Len(s) : s[i] \in Nat
  <2>1. DOMAIN s = 1..Len(s) /\ Len(s) \in Int /\ 1 \in Int /\ \A i \in 1..Len(s) : s[i] \in Nat
    OBVIOUS
  <2>q. QED
    BY <2>1, FS_Interval
<1>2. SumFunctionOnSet(s, 1..Len(s)) \in Nat
  BY <1>1, SumType
<1>3. ASSUME s = <<>> PROVE SumFunctionOnSet(s, 1..Len(s)) = 0
  <2>1. \A x \in 1..Len(s) : s[x] = 0
    BY <1>3
  <2>q. QED
    BY <1>1, <2>1, SumZero
<1>q. QED
  BY <1>1, <1>2, <1>3 DEF SumFunction

\* Appending an element adds it.
LEMMA SeqSumAppend ==
    ASSUME NEW s \in Seq(Nat), NEW e \in Nat
    PROVE  SumFunction(Append(s, e)) = SumFunction(s) + e
<1> DEFINE t == Append(s, e)
           n == Len(s)
<1>1. /\ t \in Seq(Nat) /\ Len(t) = n + 1 /\ t[n + 1] = e /\ \A i \in 1..n : t[i] = s[i]
      /\ n \in Nat /\ DOMAIN t = 1..(n + 1) /\ DOMAIN s = 1..n
      /\ \A i \in 1..(n + 1) : t[i] \in Nat
      /\ \A i \in 1..n : s[i] \in Nat
  OBVIOUS
<1> HIDE DEF t, n
<1>2. IsFiniteSet(1..(n + 1)) /\ IsFiniteSet(1..n)
  BY <1>1, FS_Interval
<1>3. SumFunctionOnSet(t, 1..(n + 1)) = t[n + 1] + SumFunctionOnSet(t, (1..(n + 1)) \ {n + 1})
  <2>1. n + 1 \in 1..(n + 1)
    BY <1>1
  <2>q. QED
    BY <1>1, <1>2, <2>1, SumRemove
<1>4. (1..(n + 1)) \ {n + 1} = 1..n
  BY <1>1
<1>5. SumFunctionOnSet(t, 1..n) = SumFunctionOnSet(s, 1..n) /\ SumFunctionOnSet(s, 1..n) \in Nat
  BY <1>1, <1>2, SumEqual, SumType
<1>6. SumFunctionOnSet(t, 1..(n + 1)) = SumFunctionOnSet(s, 1..n) + e
  <2>1. SumFunctionOnSet(t, 1..(n + 1)) = e + SumFunctionOnSet(s, 1..n)
    BY <1>1, <1>3, <1>4, <1>5, Zenon
  <2>q. QED
    BY <1>5, <2>1
<1>7. SumFunction(t) = SumFunctionOnSet(t, 1..(n + 1)) /\ SumFunction(s) = SumFunctionOnSet(s, 1..n)
  BY <1>1 DEF SumFunction
<1>q. QED
  BY <1>6, <1>7 DEF t

\* A sequence's sum is the sum of its first k elements and of the rest.
LEMMA SeqSumSplit ==
    ASSUME NEW s \in Seq(Nat), NEW k \in 0..Len(s)
    PROVE  /\ SubSeq(s, 1, k) \in Seq(Nat) /\ SubSeq(s, k + 1, Len(s)) \in Seq(Nat)
           /\ SumFunction(s) =
                  SumFunction(SubSeq(s, 1, k)) + SumFunction(SubSeq(s, k + 1, Len(s)))
<1> DEFINE Part(i, j) == SubSeq(s, i, j)
           G == {n \in Nat : n \in k..Len(s) =>
                     SumFunction(Part(1, n)) = SumFunction(Part(1, k)) + SumFunction(Part(k + 1, n))}
<1>1. ASSUME NEW i \in Nat \ {0}, NEW j \in 0..Len(s) PROVE Part(i, j) \in Seq(Nat)
  <2>1. \A m \in i..j : s[m] \in Nat
    OBVIOUS
  <2>2. i \in Int /\ j \in Int
    OBVIOUS
  <2>q. QED
    BY <2>1, <2>2, SubSeqProperties
<1>2. ASSUME NEW i \in Nat \ {0}, NEW j \in 0..Len(s), i <= j + 1, j + 1 <= Len(s)
      PROVE  Part(i, j + 1) = Append(Part(i, j), s[j + 1])
  BY <1>2
<1>3. ASSUME NEW i \in Nat \ {0}, NEW j \in 0..Len(s), i <= j + 1, j + 1 <= Len(s)
      PROVE  SumFunction(Part(i, j + 1)) = SumFunction(Part(i, j)) + s[j + 1]
  <2>1. Part(i, j) \in Seq(Nat) /\ s[j + 1] \in Nat
    BY <1>1, <1>3
  <2>2. Part(i, j + 1) = Append(Part(i, j), s[j + 1])
    BY <1>2, <1>3
  <2> HIDE DEF Part
  <2>q. QED
    BY <2>1, <2>2, SeqSumAppend
<1>4. Part(k + 1, k) = <<>>
  BY SubSeqEmpty
<1>5. k \in G
  <2>1. SumFunction(Part(k + 1, k)) = 0
    <3>1. <<>> \in Seq(Nat)
      OBVIOUS
    <3> HIDE DEF Part
    <3>q. QED
      BY <1>4, <3>1, SeqSumType
  <2>2. SumFunction(Part(1, k)) \in Nat
    <3>1. Part(1, k) \in Seq(Nat)
      BY <1>1
    <3> HIDE DEF Part
    <3>q. QED
      BY <3>1, SeqSumType
  <2> HIDE DEF Part
  <2>q. QED
    BY <2>1, <2>2
<1>6. 0 \in G
  <2>1. CASE 0 \in k..Len(s)
    <3>1. k = 0
      BY <2>1
    <3>q. QED
      BY <3>1, <1>5
  <2>q. QED
    BY <2>1
<1>7. ASSUME NEW n \in Nat, n \in G PROVE n + 1 \in G
  <2> SUFFICES ASSUME n + 1 \in k..Len(s)
               PROVE  SumFunction(Part(1, n + 1)) =
                          SumFunction(Part(1, k)) + SumFunction(Part(k + 1, n + 1))
    OBVIOUS
  <2>1. CASE n + 1 = k
    BY <2>1, <1>5
  <2>2. CASE n + 1 # k
    <3>1. n \in k..Len(s) /\ n \in 0..Len(s) /\ n + 1 <= Len(s) /\ k + 1 <= n + 1
      BY <2>2
    <3>2. SumFunction(Part(1, n)) = SumFunction(Part(1, k)) + SumFunction(Part(k + 1, n))
      BY <1>7, <3>1
    <3>3. /\ SumFunction(Part(1, n + 1)) = SumFunction(Part(1, n)) + s[n + 1]
          /\ SumFunction(Part(k + 1, n + 1)) = SumFunction(Part(k + 1, n)) + s[n + 1]
      <4>1. k + 1 \in Nat \ {0} /\ 1 \in Nat \ {0}
        OBVIOUS
      <4> HIDE DEF Part, G
      <4>q. QED
        BY <1>3, <3>1, <4>1
    <3>4. SumFunction(Part(1, k)) \in Nat /\ SumFunction(Part(k + 1, n)) \in Nat
      <4>1. Part(1, k) \in Seq(Nat) /\ Part(k + 1, n) \in Seq(Nat)
        BY <1>1, <3>1
      <4> HIDE DEF Part, G
      <4>q. QED
        BY <4>1, SeqSumType
    <3>5. s[n + 1] \in Nat
      BY <3>1
    <3> HIDE DEF Part, G
    <3>q. QED
      BY <3>2, <3>3, <3>4, <3>5
  <2>q. QED
    BY <2>1, <2>2
<1>8. Len(s) \in G
  <2>1. Len(s) \in Nat
    OBVIOUS
  <2> HIDE DEF G
  <2>q. QED
    BY <1>6, <1>7, <2>1, NatSetInduction
<1>9. Part(1, Len(s)) = s
  BY SubSeqFull
<1>10. Len(s) \in k..Len(s)
  OBVIOUS
<1>11. Part(1, k) \in Seq(Nat) /\ Part(k + 1, Len(s)) \in Seq(Nat)
  BY <1>1
<1>q. QED
  BY <1>8, <1>9, <1>10, <1>11


-----------------------------------------------------------------------------
(* Functions defined by recursion over a prefix, and FlattenSeq.            *)

\* f starts at b and goes on by g[n], up to m; the values are in V.
Iterates(f, b, g, m, V) == f \in [0..m -> V] /\ f[0] = b /\ \A n \in 1..m : f[n] = g[n][f[n - 1]]
Maps(g, m, V) == g \in [1..m -> [V -> V]]

\* There is such a function.
LEMMA Iterated ==
    ASSUME NEW m \in Nat, NEW V, NEW b \in V, NEW g, Maps(g, m, V)
    PROVE  \E f : Iterates(f, b, g, m, V)
<1> USE DEF Iterates, Maps
<1> DEFINE Upto(f, k) == f \in [0..k -> V] /\ f[0] = b /\ \A n \in 1..k : f[n] = g[n][f[n - 1]]
           G == {k \in 0..m : \E f : Upto(f, k)}
<1>1. 0 \in G
  <2>1. Upto([k \in 0..0 |-> b], 0) /\ 0 \in 0..m
    OBVIOUS
  <2> HIDE DEF Upto
  <2>q. QED
    BY <2>1
<1>2. ASSUME NEW k \in 0..(m - 1), k \in G PROVE k + 1 \in G
  <2>1. PICK f : Upto(f, k)
    BY <1>2
  <2> DEFINE h == [n \in 0..(k + 1) |-> IF n = k + 1 THEN g[k + 1][f[k]] ELSE f[n]]
  <2>2. k + 1 \in 1..m /\ f[k] \in V /\ k \in Nat
    BY <2>1
  <2>3. g[k + 1][f[k]] \in V
    BY <2>2
  <2>4. h \in [0..(k + 1) -> V]
    BY <2>1, <2>2, <2>3
  <2>5. h[0] = b
    BY <2>1, <2>2
  <2>6. ASSUME NEW n \in 1..(k + 1) PROVE h[n] = g[n][h[n - 1]]
    <3>1. CASE n = k + 1
      BY <2>2, <3>1
    <3>2. CASE n # k + 1
      <4>1. n \in 1..k /\ h[n] = f[n] /\ h[n - 1] = f[n - 1]
        BY <2>2, <3>2
      <4>q. QED
        BY <2>1, <4>1
    <3>q. QED
      BY <3>1, <3>2
  <2>7. Upto(h, k + 1) /\ k + 1 \in 0..m
    <3> HIDE DEF h
    <3>q. QED
      BY <2>2, <2>4, <2>5, <2>6
  <2>q. QED
    BY <2>7
<1>3. m \in G
  <2> HIDE DEF G
  <2>q. QED
    BY <1>1, <1>2, Climb
<1>q. QED
  BY <1>3

\* f holds what FlattenSeq has joined of each prefix of the sequences.
IsJoined(f, seqs, m) == f = [i \in 1..m |-> IF i = 1 THEN seqs[i] ELSE f[i - 1] \o seqs[i]]

\* The recursive equation, at one prefix.
LEMMA IsJoinedUnfold ==
    ASSUME NEW f, NEW seqs, NEW m \in Nat, IsJoined(f, seqs, m), NEW i \in 1..m
    PROVE  f[i] = IF i = 1 THEN seqs[i] ELSE f[i - 1] \o seqs[i]
<1> DEFINE h == [k \in 1..m |-> IF k = 1 THEN seqs[k] ELSE f[k - 1] \o seqs[k]]
<1>1. f = h
  BY DEF IsJoined
<1>2. h[i] = IF i = 1 THEN seqs[i] ELSE f[i - 1] \o seqs[i]
  OBVIOUS
<1>q. QED
  BY <1>1, <1>2

\* The recursive definition has a solution.
LEMMA IsJoinedExists ==
    ASSUME NEW T, NEW seqs \in Seq(Seq(T)), seqs # <<>>
    PROVE  \E f : IsJoined(f, seqs, Len(seqs))
<1>0. PICK m \in Nat : Len(seqs) = m + 1 /\ \A n \in 1..(m + 1) : seqs[n] \in Seq(T)
  <2>1. Len(seqs) \in Nat /\ Len(seqs) # 0 /\ \A n \in 1..Len(seqs) : seqs[n] \in Seq(T)
    OBVIOUS
  <2>q. QED
    BY <2>1, Len(seqs) - 1 \in Nat, Len(seqs) = (Len(seqs) - 1) + 1, Zenon
<1>1. PICK V : V = Seq(T)
  OBVIOUS
<1>2. PICK g : g = [n \in 1..m |-> [v \in V |-> v \o seqs[n + 1]]]
  OBVIOUS
<1>a. seqs[1] \in V /\ \A n \in 1..m : seqs[n + 1] \in V
  BY <1>0, <1>1
<1>b. \A n \in 1..m : \A v \in V : v \o seqs[n + 1] \in V
  BY <1>1, <1>a
<1>c. Maps(g, m, V)
  BY ONLY <1>2, <1>b DEF Maps
<1>d. PICK b \in V : b = seqs[1]
  BY <1>a
<1>e. PICK f : Iterates(f, b, g, m, V)
  BY <1>c, Iterated, Zenon
<1>3. f \in [0..m -> V] /\ f[0] = b /\ \A n \in 1..m : f[n] = g[n][f[n - 1]]
  BY <1>e DEF Iterates
<1> DEFINE h == [i \in 1..(m + 1) |-> f[i - 1]]
           r == [i \in 1..(m + 1) |-> IF i = 1 THEN seqs[i] ELSE h[i - 1] \o seqs[i]]
<1>4. ASSUME NEW i \in 1..(m + 1) PROVE h[i] = r[i]
  <2>1. CASE i = 1
    BY <1>0, <1>3, <1>d, <2>1
  <2>2. CASE i # 1
    <3>1. i - 1 \in 1..m /\ i - 2 \in 0..m /\ (i - 1) + 1 = i /\ (i - 1) - 1 = i - 2
      BY <2>2
    <3>2. f[i - 1] = g[i - 1][f[i - 2]] /\ f[i - 2] \in V
      BY <1>3, <3>1
    <3>3. g[i - 1][f[i - 2]] = f[i - 2] \o seqs[i]
      BY <1>2, <3>1, <3>2
    <3>4. h[i] = f[i - 1] /\ h[i - 1] = f[i - 2]
      BY <3>1
    <3>q. QED
      BY <2>2, <3>2, <3>3, <3>4
  <2>q. QED
    BY <2>1, <2>2
<1>5. h = r
  BY <1>4
<1>q. QED
  BY <1>0, <1>5 DEF IsJoined

\* A flattened sequence has the elements of the sequences it joins, and no others.
LEMMA Flattened ==
    ASSUME NEW T, NEW seqs \in Seq(Seq(T))
    PROVE  /\ FlattenSeq(seqs) \in Seq(T)
           /\ \A x : x \in Range(FlattenSeq(seqs)) <=> \E k \in DOMAIN seqs : x \in Range(seqs[k])
<1>1. CASE seqs = <<>>
  BY <1>1 DEF FlattenSeq, Range
<1>2. CASE seqs # <<>>
  <2>1. PICK m \in Nat : m = Len(seqs) /\ m # 0 /\ DOMAIN seqs = 1..m /\ \A k \in 1..m : seqs[k] \in Seq(T)
    BY <1>2
  <2>2. PICK f : FlattenSeq(seqs) = f[m] /\ IsJoined(f, seqs, m)
    <3> DEFINE f == CHOOSE g : IsJoined(g, seqs, Len(seqs))
    <3>1. FlattenSeq(seqs) = f[Len(seqs)]
      BY <2>1 DEF FlattenSeq, IsJoined
    <3>2. IsJoined(f, seqs, Len(seqs))
      BY <1>2, IsJoinedExists
    <3>q. QED
      BY <2>1, <3>1, <3>2
  <2>3. IsJoined(f, seqs, m)
    BY <2>2
  <2> DEFINE Has(n) == \A x : x \in Range(f[n]) <=> \E k \in 1..n : x \in Range(seqs[k])
             G == {n \in 0..m : n = 0 \/ (f[n] \in Seq(T) /\ Has(n))}
  <2>4. 0 \in G
    BY <2>1
  <2>5. ASSUME NEW n \in 0..(m - 1), n \in G PROVE n + 1 \in G
    <3>1. n + 1 \in 1..m /\ (n + 1) - 1 = n /\ seqs[n + 1] \in Seq(T) /\ n + 1 \in 0..m
      BY <2>1
    <3>2. CASE n = 0
      <4>1. f[1] = seqs[1] /\ seqs[1] \in Seq(T)
        BY <2>1, <2>3, <3>1, <3>2, IsJoinedUnfold
      <4>2. Has(1)
        BY <4>1
      <4>q. QED
        BY <3>1, <3>2, <4>1, <4>2
    <3>3. CASE n # 0
      <4>1. f[n + 1] = f[n] \o seqs[n + 1]
        <5>1. f[n + 1] = IF n + 1 = 1 THEN seqs[n + 1] ELSE f[(n + 1) - 1] \o seqs[n + 1]
          BY ONLY <2>3, <3>1, m \in Nat, IsJoinedUnfold
        <5>2. n + 1 # 1
          BY <2>1, <3>3
        <5>q. QED
          BY <3>1, <5>1, <5>2, Zenon
      <4>2. f[n] \in Seq(T) /\ Has(n)
        BY <2>5, <3>3
      <4>3. f[n] \o seqs[n + 1] \in Seq(T) /\ Range(f[n] \o seqs[n + 1]) = Range(f[n]) \cup Range(seqs[n + 1])
        BY <3>1, <4>2, RangeConcatenation
      <4>4. \A k : k \in 1..(n + 1) <=> k \in 1..n \/ k = n + 1
        BY <2>1
      <4>5. Has(n + 1)
        BY <4>1, <4>2, <4>3, <4>4
      <4>q. QED
        BY <3>1, <4>1, <4>3, <4>5
    <3>q. QED
      BY <3>2, <3>3
  <2>6. m \in G
    <3> HIDE DEF G
    <3>q. QED
      BY <2>1, <2>4, <2>5, Climb
  <2>q. QED
    BY <2>1, <2>2, <2>6
<1>q. QED
  BY <1>1, <1>2

-----------------------------------------------------------------------------
(* A service wrapped by a list of layers, the last one first.               *)

\* What a loop over the layers in reverse makes of the core.
Wrapped(c, s) ==
    LET wrapped[n \in 0..Len(s)] ==
            IF n = 0 THEN <<c>> ELSE <<s[Len(s) - n + 1]>> \o wrapped[n - 1]
    IN  wrapped[Len(s)]

\* A sequence of one element.
LEMMA OneElement ==
    ASSUME NEW S, NEW c \in S
    PROVE  <<c>> \in Seq(S) /\ Len(<<c>>) = 1 /\ <<c>>[1] = c
  OBVIOUS

\* f holds the service after each round of that loop.
IsWrapped(f, c, s, m) ==
    f = [n \in 0..m |-> IF n = 0 THEN <<c>> ELSE (<<s[m - n + 1]>> \o f[n - 1])]

\* The recursive equation, at one round.
LEMMA IsWrappedUnfold ==
    ASSUME NEW f, NEW c, NEW s, NEW m \in Nat, IsWrapped(f, c, s, m), NEW n \in 0..m
    PROVE  f[n] = IF n = 0 THEN <<c>> ELSE (<<s[m - n + 1]>> \o f[n - 1])
<1> DEFINE h == [k \in 0..m |-> IF k = 0 THEN <<c>> ELSE (<<s[m - k + 1]>> \o f[k - 1])]
<1>1. f = h
  BY DEF IsWrapped
<1>2. h[n] = IF n = 0 THEN <<c>> ELSE (<<s[m - n + 1]>> \o f[n - 1])
  OBVIOUS
<1>q. QED
  BY <1>1, <1>2

\* The recursive definition has a solution.
LEMMA IsWrappedExists ==
    ASSUME NEW S, NEW c \in S, NEW s, NEW m \in Nat, \A n \in 1..m : s[n] \in S
    PROVE  \E f : IsWrapped(f, c, s, m)
<1>1. PICK V : V = Seq(S)
  OBVIOUS
<1>2. PICK g : g = [n \in 1..m |-> [v \in V |-> (<<s[m - n + 1]>> \o v)]]
  OBVIOUS
<1>3. ASSUME NEW n \in 1..m, NEW v \in V PROVE (<<s[m - n + 1]>> \o v) \in V
  <2>1. s[m - n + 1] \in S
    BY m - n + 1 \in 1..m
  <2>q. QED
    BY <1>1, <2>1
<1>4. Maps(g, m, V)
  BY ONLY <1>2, <1>3 DEF Maps
<1>5. PICK b \in V : b = <<c>>
  BY <1>1, OneElement
<1>6. PICK f : Iterates(f, b, g, m, V)
  BY <1>4, Iterated, Zenon
<1> DEFINE r == [n \in 0..m |-> IF n = 0 THEN <<c>> ELSE (<<s[m - n + 1]>> \o f[n - 1])]
<1>7. f \in [0..m -> V] /\ f[0] = b /\ \A n \in 1..m : f[n] = g[n][f[n - 1]]
  BY <1>6 DEF Iterates
<1>8. ASSUME NEW n \in 0..m PROVE f[n] = r[n]
  <2>1. CASE n = 0
    BY <1>5, <1>7, <2>1
  <2>2. CASE n # 0
    <3>1. n \in 1..m /\ n - 1 \in 0..m
      BY <2>2
    <3>2. f[n - 1] \in V
      BY <1>7, <3>1
    <3>3. g[n][f[n - 1]] = (<<s[m - n + 1]>> \o f[n - 1])
      BY <1>2, <3>1, <3>2
    <3>q. QED
      BY <1>7, <2>2, <3>1, <3>3
  <2>q. QED
    BY <2>1, <2>2
<1>9. f = r
  BY <1>7, <1>8
<1>q. QED
  BY <1>9 DEF IsWrapped

\* The layers are met in the order of their registration, and then the core.
LEMMA WrappedInOrder ==
    ASSUME NEW S, NEW c, NEW s, c \in S /\ s \in Seq(S)
    PROVE  /\ Wrapped(c, s) \in Seq(S) /\ Len(Wrapped(c, s)) = Len(s) + 1
           /\ \A i \in 1..Len(s) : Wrapped(c, s)[i] = s[i]
           /\ Wrapped(c, s)[Len(s) + 1] = c
<1>1. PICK m \in Nat : m = Len(s) /\ \A n \in 1..m : s[n] \in S
  OBVIOUS
<1>2. PICK f : Wrapped(c, s) = f[m] /\ IsWrapped(f, c, s, m)
  <2> DEFINE f == CHOOSE g : IsWrapped(g, c, s, Len(s))
  <2>1. Wrapped(c, s) = f[Len(s)]
    BY DEF Wrapped, IsWrapped
  <2>2. IsWrapped(f, c, s, Len(s))
    BY <1>1, IsWrappedExists
  <2>q. QED
    BY <1>1, <2>1, <2>2
<1> DEFINE Good(n) == /\ f[n] \in Seq(S) /\ Len(f[n]) = n + 1
                      /\ \A i \in 1..n : f[n][i] = s[m - n + i]
                      /\ f[n][n + 1] = c
           G == {n \in 0..m : Good(n)}
<1>3. 0 \in G
  <2>1. f[0] = <<c>>
    BY ONLY <1>2, m \in Nat, 0 \in 0..m, IsWrappedUnfold
  <2>2. Good(0)
    BY <2>1, OneElement
  <2>q. QED
    BY <2>2
<1>4. ASSUME NEW n \in 0..(m - 1), n \in G PROVE n + 1 \in G
  <2>1. n + 1 \in 0..m /\ (n + 1) - 1 = n /\ n + 1 # 0 /\ m - (n + 1) + 1 = m - n /\ m - n \in 1..m /\ n \in Nat
    OBVIOUS
  <2>2. PICK t : t = s[m - n] /\ t \in S
    BY <1>1, <2>1
  <2>3. f[n + 1] = <<t>> \o f[n]
    <3>1. PICK k \in 0..m : k = n + 1
      BY <2>1
    <3>2. f[k] = IF k = 0 THEN <<c>> ELSE (<<s[m - k + 1]>> \o f[k - 1])
      BY ONLY <1>2, m \in Nat, k \in 0..m, IsWrappedUnfold, Zenon
    <3>3. k # 0 /\ m - k + 1 = m - n /\ k - 1 = n
      BY <2>1, <3>1
    <3>q. QED
      BY <2>2, <3>1, <3>2, <3>3, Zenon
  <2>4. Good(n)
    BY <1>4
  <2>5. f[n + 1] \in Seq(S) /\ Len(f[n + 1]) = n + 2
    BY <2>1, <2>2, <2>3, <2>4
  <2>6. ASSUME NEW i \in 1..(n + 1) PROVE f[n + 1][i] = s[m - (n + 1) + i]
    <3>1. CASE i = 1
      BY <2>1, <2>2, <2>3, <2>4, <3>1
    <3>2. CASE i # 1
      <4>1. i - 1 \in 1..n /\ m - n + (i - 1) = m - (n + 1) + i
        BY <3>2
      <4>2. f[n + 1][i] = f[n][i - 1]
        BY <2>2, <2>3, <2>4, <4>1
      <4>q. QED
        BY <2>4, <4>1, <4>2
    <3>q. QED
      BY <3>1, <3>2
  <2>7. f[n + 1][n + 2] = c
    <3>1. n + 1 \in 1..Len(f[n]) /\ Len(<<t>>) = 1 /\ (n + 2) - 1 = n + 1 /\ n + 2 > 1
      BY <2>1, <2>4
    <3>2. f[n + 1][n + 2] = f[n][n + 1]
      BY <2>2, <2>3, <2>4, <3>1
    <3>q. QED
      BY <2>4, <3>2
  <2>8. Good(n + 1)
    BY <2>1, <2>5, <2>6, <2>7
  <2>q. QED
    BY <2>1, <2>8
<1>5. m \in G
  <2> HIDE DEF G
  <2>q. QED
    BY <1>3, <1>4, Climb
<1>6. Good(m)
  BY <1>5
<1>q. QED
  BY <1>1, <1>2, <1>6

\* The same, at one layer.
LEMMA WrappedLayer ==
    ASSUME NEW S, NEW c, NEW s, c \in S /\ s \in Seq(S), NEW i \in 1..Len(s)
    PROVE  Wrapped(c, s)[i] = s[i]
  BY WrappedInOrder

\* A sequence that agrees with another on its own length is a prefix of it.
LEMMA PrefixByElements ==
    ASSUME NEW S, NEW s \in Seq(S), NEW t \in Seq(S), Len(s) <= Len(t),
           \A i \in 1..Len(s) : s[i] = t[i]
    PROVE  IsPrefix(s, t) /\ (Len(s) = Len(t) => s = t)
<1>1. SubSeq(s, 1, Len(s)) = [i \in 1..Len(s) |-> s[i]] /\ SubSeq(t, 1, Len(s)) = [i \in 1..Len(s) |-> t[i]]
  BY DEF SubSeq
<1>2. SubSeq(s, 1, Len(s)) = SubSeq(t, 1, Len(s))
  BY <1>1
<1>q. QED
  BY <1>2, SeqEqual DEF IsPrefix

\* The least element of a set of naturals.
LEMMA LeastOf ==
    ASSUME NEW S, S \subseteq Nat, S # {}
    PROVE  \E n \in S : \A j \in S : n <= j
<1>1. PICK n \in S : \A j \in S : <<j, n>> \notin OpToRel(<, Nat)
  BY NatLessThanWellFounded, WFMin
<1>2. ASSUME NEW j \in S PROVE n <= j
  <2>1. j \in Nat /\ n \in Nat
    OBVIOUS
  <2>2. j < n => <<j, n>> \in OpToRel(<, Nat)
    BY <2>1 DEF OpToRel
  <2>3. ~(j < n)
    BY <1>1, <2>2, Zenon
  <2>q. QED
    BY <2>1, <2>3
<1>q. QED
  BY <1>2

\* The greatest element of a bounded one.
LEMMA GreatestOf ==
    ASSUME NEW m \in Nat, NEW S, S \subseteq 0..m, S # {}
    PROVE  \E n \in S : \A j \in S : j <= n
<1> DEFINE T == {m - n : n \in S}
<1>1. T \subseteq Nat /\ T # {}
  <2>1. PICK n : n \in S
    OBVIOUS
  <2>2. m - n \in T
    BY <2>1
  <2>3. T \subseteq Nat
    <3>1. \A k \in S : m - k \in Nat
      OBVIOUS
    <3>q. QED
      BY <3>1
  <2> HIDE DEF T
  <2>q. QED
    BY <2>2, <2>3
<1>2. PICK t \in T : \A u \in T : t <= u
  <2> HIDE DEF T
  <2>q. QED
    BY <1>1, LeastOf
<1>3. PICK n \in S : t = m - n
  OBVIOUS
<1>4. ASSUME NEW j \in S PROVE j <= n
  <2>1. m - j \in T /\ j \in 0..m /\ n \in 0..m
    OBVIOUS
  <2>2. m - n <= m - j
    BY <1>2, <1>3, <2>1
  <2>q. QED
    BY <2>1, <2>2
<1>q. QED
  BY <1>4

\* A part of a sequence, by its elements.
LEMMA PartOf ==
    ASSUME NEW T, NEW s \in Seq(T), NEW a \in 1..(Len(s) + 2), NEW b \in 0..Len(s)
    PROVE  /\ SubSeq(s, a, b) \in Seq(T)
           /\ Len(SubSeq(s, a, b)) = IF a <= b THEN b - a + 1 ELSE 0
           /\ \A i \in 1..(b - a + 1) : SubSeq(s, a, b)[i] = s[a + i - 1]
<1>1. PICK m \in Nat : m = Len(s) /\ \A i \in 1..m : s[i] \in T
  OBVIOUS
<1>2. PICK d \in Nat : d = (IF a <= b THEN b - a + 1 ELSE 0) /\ 1..d = 1..(b - a + 1)
  <2>1. CASE a <= b
    BY <2>1, b - a + 1 \in Nat
  <2>2. CASE ~(a <= b)
    BY <2>2
  <2>q. QED
    BY <2>1, <2>2
<1>3. PICK t : t = SubSeq(s, a, b) /\ t = [i \in 1..d |-> s[a + i - 1]]
  <2>1. SubSeq(s, a, b) = [i \in 1..(b - a + 1) |-> s[a + i - 1]]
    BY DEF SubSeq
  <2>q. QED
    BY <1>2, <2>1
<1>4. \A i \in 1..d : a + i - 1 \in 1..m
  BY <1>1, <1>2
<1>5. t \in [1..d -> T]
  BY <1>1, <1>3, <1>4
<1>6. t \in Seq(T) /\ Len(t) = d
  BY <1>5
<1>q. QED
  BY <1>2, <1>3, <1>6
=============================================================================
