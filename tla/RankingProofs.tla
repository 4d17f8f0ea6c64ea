---------------------------- MODULE RankingProofs ----------------------------
(***************************************************************************)
(* For any candidates, jobs, settings and answers of a language model: the *)
(* order of the upload decides ties and nothing else, what is better on    *)
(* every requirement scores no less, the model only reorders, and the      *)
(* providers are asked in turn.                                            *)
(*                                                                         *)
(* Most of the work is about the operators: SumFunction, the stable sort   *)
(* InOrder, the rounding, the range of every assessment (up to JobIs),     *)
(* then RankCandidates, Reranked and geminiKeys.  RerankInv is inductive:  *)
(* what was asked and saved is a function of the inputs and of the answer  *)
(* (Saved), and the keys tried are a part of one round (Turns).            *)
(***************************************************************************)
EXTENDS AIRerank, FiniteSetTheorems, WellFoundedInduction, SequenceTheorems, TLAPS

(* A set of numbers that is not empty has a least one. *)
LEMMA HasLeast ==
    ASSUME NEW I \in SUBSET Nat, I # {}
    PROVE  \E m \in I : \A k \in I : m <= k
<1> DEFINE R == OpToRel(<, Nat)
<1>1. PICK m \in I : \A k \in I : ~(<<k, m>> \in R)
  BY NatLessThanWellFounded, WFMin
<1>2. \A k \in I : ~(k < m)
  BY <1>1 DEF OpToRel
<1> QED
  BY <1>2

(* What holds for 0, and for each n + 1 when it holds for n, holds for     *)
(* each number: none is the least for which it does not.                   *)
LEMMA Every ==
    ASSUME NEW T \in SUBSET Nat, 0 \in T, \A n \in Nat : n \in T => n + 1 \in T
    PROVE  T = Nat
<1>1. SUFFICES ASSUME T # Nat PROVE FALSE
  OBVIOUS
<1>2. PICK m \in Nat \ T : \A k \in Nat \ T : m <= k
  BY <1>1, HasLeast
<1>3. m # 0 /\ m - 1 \in Nat /\ m - 1 \in T
  BY <1>2
<1> QED
  BY <1>2, <1>3

-----------------------------------------------------------------------------
(* A share of at most q is rounded to at most q units. *)
LEMMA RoundedBound ==
    ASSUME NEW unit \in Nat, NEW n \in Nat, NEW d \in Nat \ {0}, NEW q \in Nat, n <= q * d
    PROVE  Rounded(unit, n, d) \in Nat /\ Rounded(unit, n, d) <= unit * q
<1> DEFINE a == 2 * unit * n + d
           b == 2 * d
<1>1. a \in Nat /\ b \in Nat \ {0}
  OBVIOUS
<1>2. (a \div b) \in Nat /\ (a \div b) * b <= a
  <2> HIDE DEF a, b
  <2> QED
    BY <1>1
<1>3. unit * n <= unit * (q * d) /\ unit * n \in Nat
  OBVIOUS
<1>4. a < (unit * q + 1) * b
  BY <1>3
<1>5. (a \div b) * b < (unit * q + 1) * b /\ unit * q \in Nat
  BY <1>1, <1>2, <1>4
<1>6. a \div b < unit * q + 1
  <2> HIDE DEF a, b
  <2> QED
    BY <1>1, <1>2, <1>5
<1> QED
  BY <1>2, <1>5, <1>6 DEF Rounded

(* A rounded share of the unit is at most the unit. *)
LEMMA RoundedShare ==
    ASSUME NEW unit \in Nat, NEW n \in Nat, NEW d \in Nat \ {0}, n <= d
    PROVE  Rounded(unit, n, d) \in Nat /\ Rounded(unit, n, d) <= unit
<1>1. n <= 1 * d /\ unit * 1 = unit
  OBVIOUS
<1> QED
  BY <1>1, RoundedBound

(* Rounding keeps the order. *)
LEMMA RoundedMonotone ==
    ASSUME NEW unit \in Nat, NEW n \in Nat, NEW m \in Nat, NEW d \in Nat \ {0}, n <= m
    PROVE  Rounded(unit, n, d) <= Rounded(unit, m, d)
<1> DEFINE a == 2 * unit * n + d
           c == 2 * unit * m + d
           b == 2 * d
<1>1. unit * n <= unit * m /\ unit * n \in Nat /\ unit * m \in Nat
  OBVIOUS
<1>2. a <= c /\ a \in Nat /\ c \in Nat /\ b \in Nat \ {0}
  BY <1>1
<1>3. a \div b <= c \div b
  <2> HIDE DEF a, b, c
  <2>1. (a \div b) \in Nat /\ (c \div b) \in Nat
    BY <1>2
  <2>2. (a \div b) * b <= a /\ c < (c \div b + 1) * b
    BY <1>2
  <2>3. (a \div b) * b < (c \div b + 1) * b
    BY <1>2, <2>1, <2>2
  <2>4. a \div b < c \div b + 1
    BY <1>2, <2>1, <2>3
  <2> QED
    BY <2>1, <2>4
<1> QED
  BY <1>3 DEF Rounded

-----------------------------------------------------------------------------
(* The sums of the values of f on all the sets of arguments. *)
One(s) == CHOOSE x \in s : TRUE
Sums(f) ==
    CHOOSE g : g = [s \in SUBSET DOMAIN f |-> IF s = {} THEN 0 ELSE f[One(s)] + g[s \ {One(s)}]]

(* SumFunction is the last of those sums. *)
LEMMA SumIs ==
    ASSUME NEW f
    PROVE  SumFunction(f) = Sums(f)[DOMAIN f]
  BY DEF SumFunction, SumFunctionOnSet, FoldFunctionOnSet, MapThenFoldSet, Sums, One

(* The sums are those of the definition, taking one argument at a time. *)
LEMMA SumsStep ==
    ASSUME NEW S, IsFiniteSet(S), NEW f, DOMAIN f = S, NEW t \in SUBSET S
    PROVE  /\ t = {} => Sums(f)[t] = 0
           /\ t # {} => Sums(f)[t] = f[One(t)] + Sums(f)[t \ {One(t)}]
<1> DEFINE Step(g, s) == IF s = {} THEN 0 ELSE f[One(s)] + g[s \ {One(s)}]
           T == {n \in Nat : \E g : \A s \in SUBSET S : Cardinality(s) <= n => g[s] = Step(g, s)}
<1>1. \A s \in SUBSET S : s # {} => One(s) \in s
  BY DEF One
<1>2. \A s \in SUBSET S : Cardinality(s) \in Nat /\ (s # {} => Cardinality(s) > 0)
  <2> TAKE s \in SUBSET S
  <2>1. IsFiniteSet(s)
    BY FS_Subset
  <2>2. Cardinality(s) \in Nat /\ (Cardinality(s) = 0 <=> s = {})
    BY <2>1, FS_CardinalityType, FS_EmptySet
  <2> QED
    BY <2>2
<1>3. \A s \in SUBSET S : s # {} =>
        s \ {One(s)} \in SUBSET S /\ Cardinality(s \ {One(s)}) = Cardinality(s) - 1
  <2> TAKE s \in SUBSET S
  <2> HAVE s # {}
  <2>1. IsFiniteSet(s)
    BY FS_Subset
  <2> QED
    BY <1>1, <2>1, FS_RemoveElement
<1>4. 0 \in T
  <2> DEFINE g == [s \in SUBSET S |-> 0]
  <2>1. \A s \in SUBSET S : Cardinality(s) <= 0 => g[s] = Step(g, s)
    BY <1>2
  <2> QED
    BY <2>1
<1>5. ASSUME NEW n \in Nat, n \in T PROVE n + 1 \in T
  <2>1. PICK g : \A s \in SUBSET S : Cardinality(s) <= n => g[s] = Step(g, s)
    BY <1>5
  <2> DEFINE h == [s \in SUBSET S |-> IF Cardinality(s) <= n THEN g[s] ELSE Step(g, s)]
  <2>2. ASSUME NEW s \in SUBSET S, Cardinality(s) <= n + 1
        PROVE  h[s] = Step(h, s)
    <3>1. h[s] = Step(g, s)
      BY <2>1
    <3>2. s # {} => h[s \ {One(s)}] = g[s \ {One(s)}]
      BY <1>2, <1>3, <2>2
    <3> QED
      BY <3>1, <3>2
  <2>3. \E k : \A s \in SUBSET S : Cardinality(s) <= n + 1 => k[s] = Step(k, s)
    <3> HIDE DEF h
    <3> QED
      BY <2>2
  <2> HIDE DEF Step
  <2> QED
    BY <2>3
<1>6. Cardinality(S) \in T /\ Cardinality(S) \in Nat
  <2>1. T = Nat
    <3> HIDE DEF T
    <3> QED
      BY <1>4, <1>5, Every DEF T
  <2> QED
    BY <2>1, FS_CardinalityType
<1>7. PICK g : \A s \in SUBSET S : Cardinality(s) <= Cardinality(S) => g[s] = Step(g, s)
  BY <1>6
<1>8. \A s \in SUBSET S : g[s] = Step(g, s)
  BY <1>7, FS_Subset
<1> DEFINE G == [s \in SUBSET S |-> g[s]]
<1>9. G = [s \in SUBSET S |-> Step(G, s)]
  <2>1. \A s \in SUBSET S : G[s] = Step(G, s)
    BY <1>3, <1>8
  <2> HIDE DEF G, Step
  <2>2. G = [s \in SUBSET S |-> G[s]]
    BY DEF G
  <2> QED
    BY <2>1, <2>2
<1>10. Sums(f) = [s \in SUBSET S |-> Step(Sums(f), s)]
  <2> HIDE DEF G
  <2> QED
    BY <1>9 DEF Sums
<1>11. Sums(f)[t] = Step(Sums(f), t)
  BY <1>10
<1> QED
  BY <1>1, <1>11

(* A set that is counted has something in it. *)
LEMMA HasMember ==
    ASSUME NEW s, NEW n \in Nat, Cardinality(s) = n + 1
    PROVE  s # {}
  BY FS_EmptySet

(* A sum of terms that are at most c times those of another is at most c   *)
(* times the other.                                                        *)
LEMMA SumBound ==
    ASSUME NEW S, IsFiniteSet(S), NEW f \in [S -> Nat], NEW h \in [S -> Nat], NEW c \in Nat,
           \A x \in S : f[x] <= c * h[x]
    PROVE  /\ SumFunction(f) \in Nat /\ SumFunction(h) \in Nat
           /\ SumFunction(f) <= c * SumFunction(h)
<1> DEFINE P(s) == /\ Sums(f)[s] \in Nat /\ Sums(h)[s] \in Nat
                   /\ Sums(f)[s] <= c * Sums(h)[s]
           T == {n \in Nat : \A s \in SUBSET S : Cardinality(s) = n => P(s)}
<1> HIDE DEF P
<1>1. \A s \in SUBSET S : IsFiniteSet(s) /\ Cardinality(s) \in Nat
  BY FS_Subset, FS_CardinalityType
<1>2. 0 \in T
  <2>1. ASSUME NEW s \in SUBSET S, Cardinality(s) = 0 PROVE P(s)
    <3>1. s = {}
      BY <1>1, <2>1, FS_EmptySet
    <3>2. {} \in SUBSET S /\ DOMAIN f = S /\ DOMAIN h = S
      OBVIOUS
    <3>3. Sums(f)[{}] = 0 /\ Sums(h)[{}] = 0
      BY <3>2, SumsStep
    <3> QED
      BY <3>1, <3>3 DEF P
  <2> QED
    BY <2>1
<1>3. ASSUME NEW n \in Nat, n \in T PROVE n + 1 \in T
  <2>1. ASSUME NEW s \in SUBSET S, Cardinality(s) = n + 1 PROVE P(s)
    <3>1. s # {}
      BY <2>1, HasMember
    <3>2. One(s) \in s /\ s \ {One(s)} \in SUBSET S /\ Cardinality(s \ {One(s)}) = n
      <4>1. One(s) \in s
        BY <3>1 DEF One
      <4>2. Cardinality(s \ {One(s)}) = Cardinality(s) - 1
        BY <1>1, <4>1, FS_RemoveElement
      <4> QED
        BY <2>1, <4>1, <4>2
    <3>3. P(s \ {One(s)})
      BY <1>3, <3>2
    <3>4. /\ Sums(f)[s] = f[One(s)] + Sums(f)[s \ {One(s)}]
          /\ Sums(h)[s] = h[One(s)] + Sums(h)[s \ {One(s)}]
      BY <3>1, SumsStep
    <3>5. f[One(s)] \in Nat /\ h[One(s)] \in Nat /\ f[One(s)] <= c * h[One(s)]
      BY <3>2
    <3> HIDE DEF T
    <3> QED
      BY <3>3, <3>4, <3>5 DEF P
  <2> QED
    BY <2>1
<1>4. Cardinality(S) \in T
  <2>1. T = Nat
    <3> HIDE DEF T
    <3> QED
      BY <1>2, <1>3, Every DEF T
  <2> QED
    BY <2>1, FS_CardinalityType
<1>5. P(S)
  BY <1>4
<1> QED
  BY <1>5, SumIs DEF P

(* Terms that are ones add up to their number. *)
LEMMA SumOfOnes ==
    ASSUME NEW S, IsFiniteSet(S)
    PROVE  SumFunction([x \in S |-> 1]) = Cardinality(S)
<1> DEFINE f == [x \in S |-> 1]
           T == {n \in Nat : \A s \in SUBSET S : Cardinality(s) = n => Sums(f)[s] = n}
<1>1. \A s \in SUBSET S : IsFiniteSet(s) /\ Cardinality(s) \in Nat
  BY FS_Subset, FS_CardinalityType
<1>2. 0 \in T
  <2>1. ASSUME NEW s \in SUBSET S, Cardinality(s) = 0 PROVE Sums(f)[s] = 0
    <3>1. s = {}
      BY <1>1, <2>1, FS_EmptySet
    <3> QED
      BY <3>1, SumsStep
  <2> QED
    BY <2>1
<1>3. ASSUME NEW n \in Nat, n \in T PROVE n + 1 \in T
  <2>1. ASSUME NEW s \in SUBSET S, Cardinality(s) = n + 1 PROVE Sums(f)[s] = n + 1
    <3>1. s # {}
      BY <2>1, HasMember
    <3>2. One(s) \in s /\ s \ {One(s)} \in SUBSET S /\ Cardinality(s \ {One(s)}) = n
      <4>1. One(s) \in s
        BY <3>1 DEF One
      <4>2. Cardinality(s \ {One(s)}) = Cardinality(s) - 1
        BY <1>1, <4>1, FS_RemoveElement
      <4> QED
        BY <2>1, <4>1, <4>2
    <3>3. Sums(f)[s \ {One(s)}] = n
      BY <1>3, <3>2
    <3>4. Sums(f)[s] = f[One(s)] + Sums(f)[s \ {One(s)}]
      BY <3>1, SumsStep
    <3>5. f[One(s)] = 1
      BY <3>2
    <3> QED
      BY <3>3, <3>4, <3>5
  <2> QED
    BY <2>1
<1>4. Cardinality(S) \in T
  <2>1. T = Nat
    <3> HIDE DEF T
    <3> QED
      BY <1>2, <1>3, Every DEF T
  <2> QED
    BY <2>1, FS_CardinalityType
<1> QED
  BY <1>4, SumIs

-----------------------------------------------------------------------------
(* The positions before i in the order R. *)
Below(n, R, i) == {j \in 1..n : <<j, i>> \in R}

IsOrder(n, R) ==
    /\ \A i \in 1..n : <<i, i>> \notin R
    /\ \A i, j \in 1..n : i # j => <<i, j>> \in R \/ <<j, i>> \in R
    /\ \A i, j, k \in 1..n : <<i, j>> \in R /\ <<j, k>> \in R => <<i, k>> \in R

(* In an order of n positions each has its own number of positions before  *)
(* it, and the numbers are 0 to n - 1.                                     *)
LEMMA Places ==
    ASSUME NEW n \in Nat, NEW R, IsOrder(n, R)
    PROVE  /\ \A i, j \in 1..n : <<i, j>> \in R
                  => Cardinality(Below(n, R, i)) < Cardinality(Below(n, R, j))
           /\ \A i, j \in 1..n : Cardinality(Below(n, R, i)) = Cardinality(Below(n, R, j)) => i = j
           /\ \A k \in 1..n : \E i \in 1..n : Cardinality(Below(n, R, i)) = k - 1
<1> DEFINE B(i) == Below(n, R, i)
           C(i) == Cardinality(B(i))
<1>1. IsFiniteSet(1..n) /\ Cardinality(1..n) = n
  BY FS_Interval
<1>2. \A i \in 1..n : IsFiniteSet(B(i)) /\ C(i) \in Nat
  <2> TAKE i \in 1..n
  <2>1. B(i) \in SUBSET (1..n)
    BY DEF Below
  <2> QED
    BY <1>1, <2>1, FS_Subset, FS_CardinalityType
<1>3. ASSUME NEW i \in 1..n, NEW j \in 1..n, <<i, j>> \in R
      PROVE  C(i) < C(j)
  <2>1. B(i) \in SUBSET B(j) /\ i \in B(j) /\ i \notin B(i)
    BY <1>3 DEF Below, IsOrder
  <2>2. C(i) <= C(j) /\ (C(i) = C(j) => B(i) = B(j))
    <3> HIDE DEF B
    <3> QED
      BY <1>2, <2>1, FS_Subset
  <2> QED
    BY <1>2, <2>1, <2>2
<1>4. \A i, j \in 1..n : C(i) = C(j) => i = j
  <2> SUFFICES ASSUME NEW i \in 1..n, NEW j \in 1..n, i # j PROVE C(i) # C(j)
    OBVIOUS
  <2>1. <<i, j>> \in R \/ <<j, i>> \in R
    BY DEF IsOrder
  <2> HIDE DEF C
  <2> QED
    BY <1>2, <1>3, <2>1
<1>5. \A i \in 1..n : C(i) < n
  <2> TAKE i \in 1..n
  <2>1. B(i) \in SUBSET ((1..n) \ {i})
    BY DEF Below, IsOrder
  <2>2. IsFiniteSet((1..n) \ {i}) /\ Cardinality((1..n) \ {i}) = n - 1
    BY <1>1, FS_RemoveElement
  <2>3. C(i) <= n - 1
    BY <2>1, <2>2, FS_Subset
  <2> QED
    BY <1>2, <2>3
<1> DEFINE f == [i \in 1..n |-> C(i) + 1]
<1>6. f \in Injection(1..n, 1..n)
  <2>1. \A i \in 1..n : C(i) + 1 \in 1..n
    BY <1>2, <1>5
  <2>2. \A i, j \in 1..n : C(i) + 1 = C(j) + 1 => i = j
    BY <1>2, <1>4
  <2> HIDE DEF C
  <2> QED
    BY <2>1, <2>2 DEF Injection, IsInjective
<1>7. f \in Surjection(1..n, 1..n)
  <2> HIDE DEF f
  <2> QED
    BY <1>1, <1>6, FS_Injection
<1>8. ASSUME NEW k \in 1..n PROVE \E i \in 1..n : C(i) = k - 1
  <2>1. PICK i \in 1..n : f[i] = k
    BY <1>7 DEF Surjection
  <2>2. C(i) \in Nat /\ C(i) + 1 = k
    BY <1>2, <2>1
  <2> HIDE DEF C
  <2> QED
    BY <2>2
<1> QED
  BY <1>3, <1>4, <1>8

(* Where InOrder takes the elements from. *)
Place(n, R) == [i \in 1..n |-> Cardinality(Below(n, R, i))]
Sorting(n, R) == [k \in 1..n |-> CHOOSE i \in 1..n : Place(n, R)[i] = k - 1]

(* The sorted places are all the places, each of them once. *)
LEMMA SortingIs ==
    ASSUME NEW n \in Nat, NEW R, IsOrder(n, R)
    PROVE  /\ Sorting(n, R) \in [1..n -> 1..n]
           /\ \A k \in 1..n : Cardinality(Below(n, R, Sorting(n, R)[k])) = k - 1
           /\ \A k, l \in 1..n : k < l => <<Sorting(n, R)[k], Sorting(n, R)[l]>> \in R
           /\ \A i \in 1..n : \E k \in 1..n : Sorting(n, R)[k] = i
<1> DEFINE a == Sorting(n, R)
<1>1. \A k \in 1..n : a[k] \in 1..n /\ Cardinality(Below(n, R, a[k])) = k - 1
  <2> TAKE k \in 1..n
  <2>1. \A i \in 1..n : Place(n, R)[i] = Cardinality(Below(n, R, i))
    BY DEF Place
  <2>2. \E i \in 1..n : Place(n, R)[i] = k - 1
    BY <2>1, Places
  <2>3. a[k] = CHOOSE i \in 1..n : Place(n, R)[i] = k - 1
    BY DEF Sorting
  <2> HIDE DEF a
  <2> QED
    BY <2>1, <2>2, <2>3
<1>2. a \in [1..n -> 1..n]
  BY <1>1 DEF Sorting
<1> HIDE DEF a
<1>3. ASSUME NEW k \in 1..n, NEW l \in 1..n, k < l PROVE <<a[k], a[l]>> \in R
  <2>1. a[k] # a[l] /\ ~(Cardinality(Below(n, R, a[l])) < Cardinality(Below(n, R, a[k])))
    BY <1>1, <1>3
  <2>2. <<a[l], a[k]>> \notin R
    BY <1>1, <2>1, Places
  <2> QED
    BY <1>1, <2>1, <2>2 DEF IsOrder
<1>4. IsFiniteSet(1..n) /\ a \in Injection(1..n, 1..n)
  <2>1. \A k, l \in 1..n : a[k] = a[l] => k = l
    BY <1>1
  <2>2. a \in Injection(1..n, 1..n)
    BY <1>2, <2>1 DEF Injection, IsInjective
  <2> QED
    BY <2>2, FS_Interval
<1>5. a \in Surjection(1..n, 1..n)
  BY <1>4, FS_Injection
<1>6. \A i \in 1..n : \E k \in 1..n : a[k] = i
  BY <1>5 DEF Surjection
<1> QED
  BY <1>1, <1>2, <1>3, <1>6 DEF a

(* A set's members, each once. *)
LEMMA SequenceOfSet ==
    ASSUME NEW S, IsFiniteSet(S)
    PROVE  /\ Cardinality(S) \in Nat
           /\ SetToSeq(S) \in [1..Cardinality(S) -> S]
           /\ \A k, l \in 1..Cardinality(S) : SetToSeq(S)[k] = SetToSeq(S)[l] => k = l
           /\ \A x \in S : \E k \in 1..Cardinality(S) : SetToSeq(S)[k] = x
<1>1. Cardinality(S) \in Nat /\ ExistsBijection(1..Cardinality(S), S)
  BY FS_CardinalityType
<1>2. PICK f : f \in [1..Cardinality(S) -> S] /\ IsInjective(f)
  BY <1>1 DEF ExistsBijection, Bijection, Injection
<1>3. SetToSeq(S) \in [1..Cardinality(S) -> S] /\ IsInjective(SetToSeq(S))
  BY <1>2 DEF SetToSeq
<1>4. IsFiniteSet(1..Cardinality(S)) /\ Cardinality(1..Cardinality(S)) = Cardinality(S)
  BY <1>1, FS_Interval
<1>5. SetToSeq(S) \in Surjection(1..Cardinality(S), S)
  <2>1. SetToSeq(S) \in Injection(1..Cardinality(S), S)
    BY <1>3 DEF Injection
  <2> QED
    BY <1>4, <2>1, FS_Injection
<1>6. \A k, l \in 1..Cardinality(S) : SetToSeq(S)[k] = SetToSeq(S)[l] => k = l
  BY <1>3 DEF IsInjective
<1>7. \A x \in S : \E k \in 1..Cardinality(S) : SetToSeq(S)[k] = x
  BY <1>5 DEF Surjection
<1> QED
  BY <1>1, <1>3, <1>6, <1>7

-----------------------------------------------------------------------------
(* What FlattenSeq has put together after each of the sequences. *)
Flattened(seqs) ==
    CHOOSE g : g = [i \in 1..Len(seqs) |-> IF i = 1 THEN seqs[i] ELSE g[i - 1] \o seqs[i]]

(* Each of the sequences is put behind the ones before it. *)
LEMMA FlattenedStep ==
    ASSUME NEW seqs, Len(seqs) \in Nat, NEW t \in 1..Len(seqs)
    PROVE  Flattened(seqs)[t] = IF t = 1 THEN seqs[t] ELSE Flattened(seqs)[t - 1] \o seqs[t]
<1> DEFINE m == Len(seqs)
           Step(g, i) == IF i = 1 THEN seqs[i] ELSE g[i - 1] \o seqs[i]
           T == {n \in Nat : \E g : \A i \in 1..n : g[i] = Step(g, i)}
<1>1. 0 \in T
  OBVIOUS
<1>2. ASSUME NEW n \in Nat, n \in T PROVE n + 1 \in T
  <2>1. PICK g : \A i \in 1..n : g[i] = Step(g, i)
    BY <1>2
  <2> DEFINE h == [i \in 1..(n + 1) |-> IF i <= n THEN g[i] ELSE Step(g, i)]
  <2>2. ASSUME NEW i \in 1..(n + 1) PROVE h[i] = Step(h, i)
    <3>1. h[i] = Step(g, i)
      BY <2>1
    <3>2. i # 1 => h[i - 1] = g[i - 1]
      OBVIOUS
    <3> QED
      BY <3>1, <3>2
  <2>3. \E k : \A i \in 1..(n + 1) : k[i] = Step(k, i)
    <3> HIDE DEF h
    <3> QED
      BY <2>2
  <2> HIDE DEF Step
  <2> QED
    BY <2>3
<1>3. m \in T
  <2>1. T = Nat
    <3> HIDE DEF T
    <3> QED
      BY <1>1, <1>2, Every DEF T
  <2> QED
    BY <2>1
<1>4. PICK g : \A i \in 1..m : g[i] = Step(g, i)
  BY <1>3
<1> DEFINE G == [i \in 1..m |-> g[i]]
<1>5. G = [i \in 1..m |-> Step(G, i)]
  <2>1. ASSUME NEW i \in 1..m PROVE G[i] = Step(G, i)
    <3>1. i # 1 => i - 1 \in 1..m
      OBVIOUS
    <3> QED
      BY <1>4, <3>1
  <2> HIDE DEF G, Step
  <2>2. G = [i \in 1..m |-> G[i]]
    BY DEF G
  <2> QED
    BY <2>1, <2>2
<1>6. Flattened(seqs) = [i \in 1..m |-> Step(Flattened(seqs), i)]
  <2> HIDE DEF G
  <2> QED
    BY <1>5 DEF Flattened
<1> QED
  BY <1>6

(* Sequences of X in a row are a sequence of X. *)
LEMMA FlattenIsSeq ==
    ASSUME NEW X, NEW seqs \in Seq(Seq(X))
    PROVE  FlattenSeq(seqs) \in Seq(X)
<1>1. CASE Len(seqs) = 0
  BY <1>1 DEF FlattenSeq
<1>2. CASE Len(seqs) # 0
  <2> DEFINE T == {n \in Nat : n + 1 \in 1..Len(seqs) => Flattened(seqs)[n + 1] \in Seq(X)}
  <2>1. Len(seqs) \in Nat /\ \A i \in 1..Len(seqs) : seqs[i] \in Seq(X)
    OBVIOUS
  <2>2. 0 \in T
    <3>1. 1 \in 1..Len(seqs)
      BY <1>2, <2>1
    <3>2. Flattened(seqs)[1] = seqs[1]
      BY <2>1, <3>1, FlattenedStep
    <3> QED
      BY <2>1, <3>1, <3>2
  <2>3. ASSUME NEW n \in Nat, n \in T PROVE n + 1 \in T
    <3> SUFFICES ASSUME n + 2 \in 1..Len(seqs) PROVE Flattened(seqs)[n + 2] \in Seq(X)
      OBVIOUS
    <3>1. Flattened(seqs)[n + 1] \in Seq(X) /\ seqs[n + 2] \in Seq(X)
      BY <2>1, <2>3
    <3>2. Flattened(seqs)[n + 2] = Flattened(seqs)[(n + 2) - 1] \o seqs[n + 2]
      <4>1. n + 2 # 1
        OBVIOUS
      <4> HIDE DEF T
      <4> QED
        BY <2>1, <4>1, FlattenedStep
    <3>3. (n + 2) - 1 = n + 1
      OBVIOUS
    <3>4. Flattened(seqs)[n + 2] = Flattened(seqs)[n + 1] \o seqs[n + 2]
      BY <3>2, <3>3
    <3> QED
      BY <3>1, <3>4, ConcatProperties
  <2>4. T = Nat
    <3> HIDE DEF T
    <3> QED
      BY <2>2, <2>3, Every DEF T
  <2>5. Len(seqs) - 1 \in T
    <3> HIDE DEF T
    <3> QED
      BY <1>2, <2>1, <2>4
  <2>6. Flattened(seqs)[Len(seqs)] \in Seq(X)
    BY <1>2, <2>1, <2>5
  <2>7. FlattenSeq(seqs) = Flattened(seqs)[Len(seqs)]
    BY <1>2 DEF FlattenSeq, Flattened
  <2> QED
    BY <2>6, <2>7
<1> QED
  BY <1>1, <1>2

-----------------------------------------------------------------------------
(* What the ranges hold. *)
LEMMA Between ==
    ASSUME NEW n \in Nat, NEW x
    PROVE  x \in 0..n <=> x \in Nat /\ x <= n
  OBVIOUS

(* The scores of single requirements. *)
LEMMA ScoreIs ==
    ASSUME NEW x
    PROVE  x \in Scores <=> x \in Nat /\ x <= 10000
<1>1. Unit \in Nat
  BY DEF Unit
<1>2. x \in Scores <=> x \in Nat /\ x <= Unit
  BY <1>1, Between DEF Scores
<1> QED
  BY <1>2 DEF Unit

(* The scores and confidences of candidates. *)
LEMMA FinalIs ==
    ASSUME NEW x
    PROVE  x \in Finals <=> x \in Nat /\ x <= Whole
<1>1. Whole \in Nat
  BY SMT DEF Whole
<1> QED
  BY <1>1, Between DEF Finals

(* The products that the rounding to six digits comes down to. *)
LEMMA WholeIs ==
    /\ Whole \in Nat
    /\ 100 * 10000 = Whole /\ 10000 * 100 = Whole
  BY SMT DEF Whole

(* Scores, if any, have a best. *)
LEMMA HasBest ==
    ASSUME NEW I \in SUBSET Scores, I # {}
    PROVE  Max(I) \in I
<1> DEFINE J == {10000 - k : k \in I}
<1>1. J \subseteq Nat /\ J # {}
  <2>1. \A k \in I : 10000 - k \in Nat
    BY ScoreIs
  <2> QED
    BY <2>1
<1> HIDE DEF J
<1>2. PICK x \in J : \A y \in J : x <= y
  BY <1>1, HasLeast
<1>3. PICK m \in I : x = 10000 - m
  BY DEF J
<1>4. \A k \in I : m >= k
  <2> TAKE k \in I
  <2>1. x <= 10000 - k
    BY <1>2 DEF J
  <2>2. k \in Nat /\ m \in Nat
    BY ScoreIs
  <2> QED
    BY <1>3, <2>1, <2>2
<1> QED
  BY <1>4 DEF Max

(* SelectInSeq finds an index of an element that passes, or 0. *)
LEMMA FirstIn ==
    ASSUME NEW s, Len(s) \in Nat, NEW I \in SUBSET (1..Len(s)), I # {}
    PROVE  Min(I) \in I
<1>1. PICK m \in I : \A k \in I : m <= k
  BY HasLeast
<1> QED
  BY <1>1 DEF Min

-----------------------------------------------------------------------------
(* An assessment within the bounds of its score and confidence. *)
AssessmentSet == [status : Status, score : Scores, confidence : 0..100]

(* Whatever is found, its score and its confidence are in their ranges. *)
LEMMA AssessmentInRange ==
    ASSUME NEW status \in Status, NEW score, score \in Scores, NEW confidence \in 0..100
    PROVE  Assessment(status, score, confidence) \in AssessmentSet
  BY DEF AssessmentSet, Assessment

(* Shares of at most 1 are scores. *)
LEMMA ShareIsScore ==
    ASSUME NEW n \in Nat, NEW d \in Nat \ {0}, n <= d
    PROVE  Rounded(10000, n, d) \in Scores
<1>1. 10000 \in Nat
  OBVIOUS
<1>2. Rounded(10000, n, d) \in Nat /\ Rounded(10000, n, d) <= 10000
  BY <1>1, RoundedShare
<1> QED
  BY <1>2, ScoreIs

(* Years short of the minimum give a share, the rest is constant. *)
LEMMA SkillInRange ==
    ASSUME NEW r \in JobRequirement, NEW p \in RankingCandidate
    PROVE  AssessSkill(r, p) \in AssessmentSet
<1> DEFINE I == {i \in 1..Len(p.skills) : p.skills[i].name = r.skill}
           exact == SelectInSeq(p.skills, LAMBDA s : s.name = r.skill)
           years == p.skills[exact].years
           ratio == Rounded(10000, years, r.minimum)
           raised == IF ratio < 2000 THEN 2000 ELSE ratio
           short == r.minimum # None /\ years # None /\ years < r.minimum
<1>1. /\ Len(p.skills) \in Nat
      /\ \A i \in 1..Len(p.skills) : p.skills[i].years \in Years
      /\ r.minimum \in Years
  <2>1. p.skills \in Seq([name : STRING, years : Years, evidence : BOOLEAN])
    BY DEF RankingCandidate
  <2>2. \A i \in 1..Len(p.skills) : p.skills[i] \in [name : STRING, years : Years, evidence : BOOLEAN]
    BY <2>1, ElementOfSeq
  <2> QED
    BY <2>1, <2>2 DEF JobRequirement
<1>2. exact = IF I # {} THEN Min(I) ELSE 0
  BY DEF SelectInSeq
<1>3. exact # 0 => exact \in 1..Len(p.skills)
  <2>1. Len(p.skills) \in Nat /\ I \in SUBSET (1..Len(p.skills))
    BY <1>1
  <2> HIDE DEF exact, I
  <2> QED
    BY <1>2, <2>1, FirstIn
<1> HIDE DEF exact
<1>4. CASE exact # 0 /\ short
  <2>1. years \in Nat /\ r.minimum \in Nat /\ years < r.minimum
    BY <1>1, <1>3, <1>4 DEF Years
  <2> HIDE DEF years
  <2>2. r.minimum \in Nat \ {0} /\ years <= r.minimum
    BY <2>1
  <2>3. ratio \in Scores
    BY <2>1, <2>2, ShareIsScore
  <2> HIDE DEF ratio
  <2>4. raised \in Scores
    BY <2>3, ScoreIs
  <2>5. AssessSkill(r, p) = Assessment("partially_met", raised, 90)
    BY <1>4 DEF AssessSkill, exact, ratio, years
  <2> QED
    BY <2>4, <2>5, AssessmentInRange DEF Status
<1>5. CASE ~(exact # 0 /\ short)
  <2>1. AssessSkill(r, p) \in
          {Assessment("met", 10000, 95), Assessment("met", 10000, 65),
           Assessment("partially_met", 5500, 55), Assessment("not_found", 0, 82)}
    BY <1>5 DEF AssessSkill, exact
  <2> QED
    BY <2>1, ScoreIs, AssessmentInRange DEF Status
<1> QED
  BY <1>4, <1>5

(* Below the minimum the curve gives a score, above it a share of 0.08 is  *)
(* added to 0.92.                                                          *)
LEMMA ExperienceInRange ==
    ASSUME NEW r, Minimum(r) \in DOMAIN Concave, NEW p, p.years \in Years
    PROVE  AssessExperience(r, p) \in AssessmentSet
<1> DEFINE m == Minimum(r)
<1>1. m \in Nat \ {0} /\ Concave[m] \in [0..(m - 1) -> Scores]
  BY ConcaveAssumption
<1> HIDE DEF m
<1>2. CASE p.years = None
  <2>1. AssessExperience(r, p) = Assessment("unknown", 3500, 45)
    BY <1>2 DEF AssessExperience
  <2> QED
    BY <2>1, ScoreIs, AssessmentInRange DEF Status
<1>3. CASE p.years # None
  <2>1. p.years \in Nat
    BY <1>3 DEF Years
  <2>2. CASE p.years - m >= m
    <3>1. AssessExperience(r, p) = Assessment("met", 10000, 80)
      BY <1>3, <2>2 DEF AssessExperience, m
    <3> QED
      BY <3>1, ScoreIs, AssessmentInRange DEF Status
  <2>3. CASE p.years - m >= 0 /\ ~(p.years - m >= m)
    <3>1. p.years - m \in Nat /\ p.years - m <= m
      BY <1>1, <2>1, <2>3
    <3>2. Rounded(800, p.years - m, m) \in Nat /\ Rounded(800, p.years - m, m) <= 800
      <4>1. \A u \in Nat : Rounded(u, p.years - m, m) \in Nat /\ Rounded(u, p.years - m, m) <= u
        BY <1>1, <3>1, RoundedShare
      <4> QED
        BY <4>1
    <3>3. 9200 + Rounded(800, p.years - m, m) \in Scores
      BY <3>2, ScoreIs
    <3>4. AssessExperience(r, p) = Assessment("met", 9200 + Rounded(800, p.years - m, m), 80)
      BY <1>3, <2>3 DEF AssessExperience, m
    <3> QED
      BY <3>3, <3>4, AssessmentInRange DEF Status
  <2>4. CASE ~(p.years - m >= 0)
    <3>1. p.years \in 0..(m - 1) /\ ~(p.years - m >= m)
      BY <1>1, <2>1, <2>4
    <3>2. Concave[m][p.years] \in Scores
      BY <1>1, <3>1
    <3>3. AssessExperience(r, p) = Assessment("partially_met", Concave[m][p.years], 80)
      BY <1>3, <2>4, <3>1 DEF AssessExperience, m
    <3> QED
      BY <3>2, <3>3, AssessmentInRange DEF Status
  <2> QED
    BY <2>2, <2>3, <2>4
<1> QED
  BY <1>2, <1>3

(* The tokens found are some of the expected. *)
LEMMA OverlapInRange ==
    ASSUME NEW expected, IsFiniteSet(expected), NEW text
    PROVE  Overlap(expected, text) \in Scores
<1>1. CASE expected = {}
  BY <1>1, ScoreIs DEF Overlap
<1>2. CASE expected # {}
  <2>1. Cardinality(expected) \in Nat \ {0}
    BY <1>2, FS_CardinalityType, FS_EmptySet
  <2>2. /\ Cardinality(expected \cap text) \in Nat
        /\ Cardinality(expected \cap text) <= Cardinality(expected)
    BY <2>1, FS_Intersection, FS_CardinalityType
  <2>3. Rounded(10000, Cardinality(expected \cap text), Cardinality(expected)) \in Scores
    BY <2>1, <2>2, ShareIsScore
  <2> QED
    BY <1>2, <2>3 DEF Overlap
<1> QED
  BY <1>1, <1>2

(* A share of tokens is the score. *)
LEMMA OfOverlapInRange ==
    ASSUME NEW score, score \in Scores, NEW confidence \in 0..100
    PROVE  OfOverlap(score, confidence) \in AssessmentSet
  BY AssessmentInRange DEF OfOverlap, Status

(* The best of the entries is one of them. *)
LEMMA EntriesInRange ==
    ASSUME NEW r, IsFiniteSet(r.tokens), NEW entries \in Seq(SUBSET STRING)
    PROVE  AssessEntries(r, entries) \in AssessmentSet
<1> DEFINE I == {Overlap(r.tokens, e) : e \in ToSet(entries)}
<1>1. CASE entries = << >>
  <2>1. AssessEntries(r, entries) = Assessment("unknown", 3000, 40)
    BY <1>1 DEF AssessEntries
  <2> QED
    BY <2>1, ScoreIs, AssessmentInRange DEF Status
<1>2. CASE entries # << >>
  <2>1. I \in SUBSET Scores
    BY OverlapInRange
  <2>2. I # {}
    <3>1. 1 \in DOMAIN entries
      BY <1>2
    <3> QED
      BY <3>1 DEF ToSet
  <2>3. Max(I) \in Scores
    <3> HIDE DEF I
    <3> QED
      BY <2>1, <2>2, HasBest
  <2>4. AssessEntries(r, entries) = OfOverlap(Max(I), IF Max(I) > 0 THEN 75 ELSE 50)
    BY <1>2 DEF AssessEntries
  <2> HIDE DEF I
  <2> QED
    <3>1. (IF Max(I) > 0 THEN 75 ELSE 50) \in 0..100
      OBVIOUS
    <3> QED
      BY <2>3, <2>4, <3>1, OfOverlapInRange
<1> QED
  BY <1>1, <1>2

(* The first language that matches gives its level. *)
LEMMA LanguageInRange ==
    ASSUME NEW r, NEW p \in RankingCandidate
    PROVE  AssessLanguage(r, p) \in AssessmentSet
<1> DEFINE I == {i \in 1..Len(p.languages) : p.languages[i].tokens \cap r.tokens # {}}
           matched == SelectInSeq(p.languages, LAMBDA l : l.tokens \cap r.tokens # {})
           score == Level[p.languages[matched].level]
<1>1. p.languages \in Seq([tokens : SUBSET STRING, level : DOMAIN Level])
  BY DEF RankingCandidate
<1>2. matched = IF I # {} THEN Min(I) ELSE 0
  BY DEF SelectInSeq
<1>3. matched # 0 => matched \in 1..Len(p.languages)
  <2>1. Len(p.languages) \in Nat /\ I \in SUBSET (1..Len(p.languages))
    BY <1>1
  <2> HIDE DEF matched, I
  <2> QED
    BY <1>2, <2>1, FirstIn
<1> HIDE DEF matched
<1>4. matched # 0 => score \in Scores
  <2> SUFFICES ASSUME matched # 0 PROVE score \in Scores
    OBVIOUS
  <2>1. p.languages[matched] \in [tokens : SUBSET STRING, level : DOMAIN Level]
    BY <1>1, <1>3, ElementOfSeq
  <2> QED
    BY <2>1, LevelAssumption
<1>5. CASE matched = 0
  <2>1. AssessLanguage(r, p) \in {Assessment("unknown", 3000, 40), Assessment("not_found", 0, 70)}
    BY <1>5 DEF AssessLanguage, matched
  <2> QED
    BY <2>1, ScoreIs, AssessmentInRange DEF Status
<1>6. CASE matched # 0
  <2>1. AssessLanguage(r, p) \in {Assessment("unknown", 3000, 40), Assessment("met", score, 80),
            Assessment("partially_met", score, 80), Assessment("not_found", score, 80)}
    BY <1>6 DEF AssessLanguage, matched
  <2> HIDE DEF score
  <2> QED
    BY <1>4, <1>6, <2>1, ScoreIs, AssessmentInRange DEF Status
<1> QED
  BY <1>5, <1>6

(* Every kind of assessment keeps to the ranges of RequirementAssessment. *)
LEMMA AssessInRange ==
    ASSUME NEW r \in JobRequirement, IsFiniteSet(r.tokens),
           r.type = "experience" => Minimum(r) \in DOMAIN Concave,
           NEW p \in RankingCandidate
    PROVE  Assess(r, p) \in AssessmentSet
<1>1. AssessSkill(r, p) \in AssessmentSet
  BY SkillInRange
<1>2. r.type = "experience" => AssessExperience(r, p) \in AssessmentSet
  <2>1. p.years \in Years
    BY DEF RankingCandidate
  <2> QED
    BY <2>1, ExperienceInRange
<1>3. AssessEntries(r, p.educations) \in AssessmentSet /\ AssessEntries(r, p.certifications) \in AssessmentSet
  BY EntriesInRange DEF RankingCandidate
<1>4. AssessLanguage(r, p) \in AssessmentSet
  BY LanguageInRange
<1>5. AssessTitle(r, p) \in AssessmentSet
  <2>1. OfOverlap(Overlap(r.tokens, p.title), 70) \in AssessmentSet
    BY OverlapInRange, OfOverlapInRange
  <2>2. Assessment("unknown", 3000, 40) \in AssessmentSet
    BY ScoreIs, AssessmentInRange DEF Status
  <2> QED
    BY <2>1, <2>2 DEF AssessTitle
<1> QED
  BY <1>1, <1>2, <1>3, <1>4, <1>5 DEF Assess

(* The results of rank_candidates for a job. *)
Results(job) ==
    [id : Candidate, score : Finals, confidence : Finals, eligibility : Eligibilities,
     assessments : [DOMAIN job -> AssessmentSet]]

(* Each job has requirements, and their weights are not 0. *)
LEMMA JobIs ==
    ASSUME NEW job \in Requirements
    PROVE  /\ Len(job) \in Nat \ {0} /\ DOMAIN job = 1..Len(job)
           /\ IsFiniteSet(DOMAIN job) /\ Cardinality(DOMAIN job) = Len(job)
           /\ \A k \in DOMAIN job :
                /\ job[k] \in JobRequirement /\ job[k].weight \in Nat \ {0}
                /\ IsFiniteSet(job[k].tokens)
                /\ job[k].type = "experience" => Minimum(job[k]) \in DOMAIN Concave
<1>1. job \in Seq(JobRequirement) /\ job # << >>
  BY RequirementsAssumption
<1>2. Len(job) \in Nat \ {0} /\ DOMAIN job = 1..Len(job)
  BY <1>1
<1>3. IsFiniteSet(DOMAIN job) /\ Cardinality(DOMAIN job) = Len(job)
  <2>1. IsFiniteSet(1..Len(job)) /\ Cardinality(1..Len(job)) = Len(job)
    BY <1>2, FS_Interval
  <2> QED
    BY <1>2, <2>1
<1>4. ASSUME NEW k \in DOMAIN job
      PROVE  /\ job[k] \in JobRequirement /\ job[k].weight \in Nat \ {0}
             /\ IsFiniteSet(job[k].tokens)
             /\ job[k].type = "experience" => Minimum(job[k]) \in DOMAIN Concave
  <2>1. job[k] \in JobRequirement
    BY <1>1, <1>2, ElementOfSeq
  <2>2. job[k] \in UNION {ToSet(j) : j \in Requirements}
    BY DEF ToSet
  <2>3. job[k].weight \in Nat \ {0}
    BY <2>1 DEF JobRequirement
  <2> QED
    BY <2>1, <2>2, <2>3, RequirementsAssumption
<1> QED
  BY <1>2, <1>3, <1>4

(* The weighted mean of scores is a final score, and grows with the scores. *)
LEMMA MeanIsFinal ==
    ASSUME NEW job \in Requirements, NEW a \in [DOMAIN job -> AssessmentSet]
    PROVE  FinalScore(job, a) \in Finals
<1> DEFINE S == DOMAIN job
           w == [k \in DOMAIN job |-> job[k].weight]
           s == [k \in DOMAIN job |-> job[k].weight * a[k].score]
           ones == [k \in S |-> 1]
<1>1. IsFiniteSet(S) /\ Cardinality(S) \in Nat \ {0}
  BY JobIs
<1>2. \A k \in S : /\ job[k].weight \in Nat \ {0} /\ a[k].score \in Nat
                   /\ a[k].score <= 10000
  BY JobIs, ScoreIs DEF AssessmentSet
<1>3. w \in [S -> Nat] /\ s \in [S -> Nat] /\ ones \in [S -> Nat]
  BY <1>2
<1>4. \A k \in S : s[k] <= 10000 * w[k] /\ ones[k] <= 1 * w[k]
  BY <1>2
<1>5. SumFunction(ones) = Cardinality(S)
  BY <1>1, SumOfOnes
<1> HIDE DEF S, w, s, ones
<1>6. /\ SumFunction(w) \in Nat /\ SumFunction(s) \in Nat
      /\ SumFunction(s) <= 10000 * SumFunction(w)
  <2> DEFINE c == 10000
  <2>1. c \in Nat /\ \A k \in S : s[k] <= c * w[k]
    BY <1>4
  <2> HIDE DEF c
  <2>2. /\ SumFunction(w) \in Nat /\ SumFunction(s) \in Nat
        /\ SumFunction(s) <= c * SumFunction(w)
    BY <1>1, <1>3, <2>1, SumBound
  <2> QED
    BY <2>2 DEF c
<1>7. Cardinality(S) <= 1 * SumFunction(w)
  BY <1>1, <1>3, <1>4, <1>5, SumBound
<1>8. SumFunction(w) \in Nat \ {0} /\ SumFunction(s) \in Nat
  BY <1>1, <1>6, <1>7
<1>9. /\ Rounded(100, SumFunction(s), SumFunction(w)) \in Nat
      /\ Rounded(100, SumFunction(s), SumFunction(w)) <= 100 * 10000
  <2>1. \A u, c \in Nat : SumFunction(s) <= c * SumFunction(w) =>
          /\ Rounded(u, SumFunction(s), SumFunction(w)) \in Nat
          /\ Rounded(u, SumFunction(s), SumFunction(w)) <= u * c
    BY <1>8, RoundedBound
  <2> QED
    BY <1>6, <2>1
<1> QED
  BY <1>9, FinalIs, WholeIs DEF FinalScore, w, s

(* No less on every requirement is no less in the mean. *)
LEMMA MeanGrows ==
    ASSUME NEW job \in Requirements, NEW a \in [DOMAIN job -> AssessmentSet],
           NEW b \in [DOMAIN job -> AssessmentSet],
           \A k \in DOMAIN job : a[k].score <= b[k].score
    PROVE  FinalScore(job, a) <= FinalScore(job, b)
<1> DEFINE S == DOMAIN job
           w == [k \in DOMAIN job |-> job[k].weight]
           s == [k \in DOMAIN job |-> job[k].weight * a[k].score]
           t == [k \in DOMAIN job |-> job[k].weight * b[k].score]
           ones == [k \in S |-> 1]
<1>1. IsFiniteSet(S) /\ Cardinality(S) \in Nat \ {0}
  BY JobIs
<1>2. \A k \in S : /\ job[k].weight \in Nat \ {0} /\ a[k].score \in Nat /\ b[k].score \in Nat
  BY JobIs, ScoreIs DEF AssessmentSet
<1>3. w \in [S -> Nat] /\ s \in [S -> Nat] /\ t \in [S -> Nat] /\ ones \in [S -> Nat]
  BY <1>2
<1>4. \A k \in S : s[k] <= 1 * t[k] /\ ones[k] <= 1 * w[k]
  BY <1>2
<1>5. SumFunction(ones) = Cardinality(S)
  BY <1>1, SumOfOnes
<1> HIDE DEF S, w, s, t, ones
<1>6. /\ SumFunction(t) \in Nat /\ SumFunction(s) \in Nat
      /\ SumFunction(s) <= 1 * SumFunction(t)
  BY <1>1, <1>3, <1>4, SumBound
<1>7. Cardinality(S) <= 1 * SumFunction(w) /\ SumFunction(w) \in Nat
  BY <1>1, <1>3, <1>4, <1>5, SumBound
<1>8. SumFunction(w) \in Nat \ {0} /\ SumFunction(s) <= SumFunction(t)
  BY <1>1, <1>6, <1>7
<1>9. Rounded(100, SumFunction(s), SumFunction(w)) <= Rounded(100, SumFunction(t), SumFunction(w))
  BY <1>6, <1>8, RoundedMonotone
<1> QED
  BY <1>9 DEF FinalScore, w, s, t

(* The mean of confidences is one. *)
LEMMA ConfidenceIsFinal ==
    ASSUME NEW job \in Requirements, NEW a \in [DOMAIN job -> AssessmentSet]
    PROVE  Confidence(a) \in Finals
<1> DEFINE S == DOMAIN job
           s == [k \in DOMAIN a |-> a[k].confidence]
           ones == [k \in S |-> 1]
<1>1. IsFiniteSet(S) /\ Cardinality(S) \in Nat \ {0} /\ Len(a) = Cardinality(S)
  BY JobIs
<1>2. DOMAIN a = S /\ \A k \in S : a[k].confidence \in 0..100
  BY DEF AssessmentSet
<1>3. s \in [S -> Nat] /\ ones \in [S -> Nat] /\ \A k \in S : s[k] <= 100 * ones[k]
  BY <1>2
<1>4. SumFunction(ones) = Cardinality(S)
  BY <1>1, SumOfOnes
<1> HIDE DEF S, s, ones
<1>5. SumFunction(s) \in Nat /\ SumFunction(s) <= 100 * Cardinality(S)
  <2>1. \A c \in Nat : (\A k \in S : s[k] <= c * ones[k]) =>
          SumFunction(s) \in Nat /\ SumFunction(s) <= c * SumFunction(ones)
    BY <1>1, <1>3, SumBound
  <2> QED
    BY <1>3, <1>4, <2>1
<1>6. /\ Rounded(10000, SumFunction(s), Cardinality(S)) \in Nat
      /\ Rounded(10000, SumFunction(s), Cardinality(S)) <= 10000 * 100
  <2>1. \A u, c \in Nat : SumFunction(s) <= c * Cardinality(S) =>
          /\ Rounded(u, SumFunction(s), Cardinality(S)) \in Nat
          /\ Rounded(u, SumFunction(s), Cardinality(S)) <= u * c
    BY <1>1, <1>5, RoundedBound
  <2> QED
    BY <1>5, <2>1
<1> QED
  BY <1>1, <1>6, FinalIs, WholeIs DEF Confidence, s

(* What _score_candidate returns for a candidate of the request. *)
LEMMA ScoreCandidateIs ==
    ASSUME NEW job \in Requirements, NEW c \in Entry
    PROVE  /\ ScoreCandidate(job, c) \in Results(job)
           /\ ScoreCandidate(job, c).id = c.id
           /\ ScoreCandidate(job, c).score = FinalScore(job, ScoreCandidate(job, c).assessments)
<1> DEFINE a == [k \in DOMAIN job |-> Assess(job[k], c.profile)]
<1>1. c.id \in Candidate /\ c.profile \in RankingCandidate
  BY InputsAssumption DEF Entry
<1>2. \A k \in DOMAIN job : Assess(job[k], c.profile) \in AssessmentSet
  BY <1>1, JobIs, AssessInRange
<1>3. a \in [DOMAIN job -> AssessmentSet]
  BY <1>2
<1>4. Eligibility(job, a) \in Eligibilities
  BY DEF Eligibility, Eligibilities
<1>5. ScoreCandidate(job, c) = [id |-> c.id, score |-> FinalScore(job, a),
         confidence |-> Confidence(a), eligibility |-> Eligibility(job, a), assessments |-> a]
  BY DEF ScoreCandidate
<1> HIDE DEF a
<1>6. FinalScore(job, a) \in Finals /\ Confidence(a) \in Finals
  BY <1>3, MeanIsFinal, ConfidenceIsFinal
<1> QED
  BY <1>1, <1>3, <1>4, <1>5, <1>6 DEF Results

-----------------------------------------------------------------------------
(* Years on the same side of the minimum score as much as they are, and    *)
(* whoever reaches the minimum has 0.92 at least.                          *)
LEMMA YearsGrow ==
    ASSUME NEW r, Minimum(r) \in DOMAIN Concave
    PROVE  MoreYearsNeverHurt(r)
<1> DEFINE m == Minimum(r)
           score(y) == OfYears(r, y)
<1>1. m \in Nat \ {0} /\ Concave[m] \in [0..(m - 1) -> Scores]
  BY ConcaveAssumption
<1>2. \A y, z \in 0..(m - 1) : y <= z => Concave[m][y] <= Concave[m][z]
  BY ConcaveGrows
<1> HIDE DEF m
<1>3. ASSUME NEW y \in Nat
      PROVE  /\ y < m => score(y) = Concave[m][y]
             /\ y >= m /\ y - m < m => score(y) = 9200 + Rounded(800, y - m, m)
             /\ y - m >= m => score(y) = 10000
  <2>1. y # None /\ [years |-> y].years = y
    BY NoneAssumption
  <2>2. CASE y - m >= m
    BY <1>1, <2>1, <2>2 DEF OfYears, AssessExperience, Assessment, m
  <2>3. CASE y >= m /\ ~(y - m >= m)
    <3>1. y - m >= 0
      BY <1>1, <2>3
    <3>2. AssessExperience(r, [years |-> y]) = Assessment("met", 9200 + Rounded(800, y - m, m), 80)
      BY <2>1, <2>3, <3>1 DEF AssessExperience, m
    <3> QED
      BY <1>1, <2>3, <3>2 DEF OfYears, Assessment
  <2>4. CASE y < m
    <3>1. ~(y - m >= 0) /\ ~(y - m >= m)
      BY <1>1, <2>4
    <3>2. AssessExperience(r, [years |-> y]) = Assessment("partially_met", Concave[m][y], 80)
      BY <2>1, <3>1 DEF AssessExperience, m
    <3> QED
      BY <1>1, <2>4, <3>2 DEF OfYears, Assessment
  <2> QED
    BY <1>1, <2>2, <2>3, <2>4
<1> HIDE DEF score
<1>4. ASSUME NEW y \in 0..(2 * m), NEW z \in 0..(2 * m), y <= z, y < m <=> z < m
      PROVE  score(y) <= score(z)
  <2>0. y \in Nat /\ z \in Nat
    BY <1>1
  <2>1. CASE y < m
    <3>1. y \in 0..(m - 1) /\ z \in 0..(m - 1) /\ z < m
      BY <1>1, <1>4, <2>1
    <3>2. score(y) = Concave[m][y] /\ score(z) = Concave[m][z]
      BY <1>3, <2>0, <2>1, <3>1
    <3> QED
      BY <1>2, <1>4, <3>1, <3>2
  <2>2. CASE ~(y < m)
    <3>1. y >= m /\ z >= m /\ y - m \in Nat /\ z - m \in Nat /\ y - m <= z - m
      BY <1>1, <1>4, <2>0, <2>2
    <3>2. \A u \in Nat : Rounded(u, y - m, m) <= Rounded(u, z - m, m)
      BY <1>1, <3>1, RoundedMonotone
    <3>3. y - m < m => Rounded(800, y - m, m) \in Nat /\ Rounded(800, y - m, m) <= 800
      <4> SUFFICES ASSUME y - m < m PROVE Rounded(800, y - m, m) \in Nat /\ Rounded(800, y - m, m) <= 800
        OBVIOUS
      <4>1. y - m <= m
        BY <1>1, <3>1
      <4>2. \A u \in Nat : Rounded(u, y - m, m) \in Nat /\ Rounded(u, y - m, m) <= u
        BY <1>1, <3>1, <4>1, RoundedShare
      <4> QED
        BY <4>2
    <3>4. z - m < m => Rounded(800, z - m, m) \in Nat
      <4> SUFFICES ASSUME z - m < m PROVE Rounded(800, z - m, m) \in Nat
        OBVIOUS
      <4>1. z - m <= m
        BY <1>1, <3>1
      <4>2. \A u \in Nat : Rounded(u, z - m, m) \in Nat
        BY <1>1, <3>1, <4>1, RoundedShare
      <4> QED
        BY <4>2
    <3>5. CASE z - m < m
      <4>1. y - m < m
        BY <1>1, <3>1, <3>5
      <4>2. score(y) = 9200 + Rounded(800, y - m, m) /\ score(z) = 9200 + Rounded(800, z - m, m)
        BY <1>3, <2>0, <3>1, <3>5, <4>1
      <4>3. Rounded(800, y - m, m) <= Rounded(800, z - m, m)
        BY <3>2
      <4> QED
        BY <3>3, <3>4, <3>5, <4>1, <4>2, <4>3
    <3>6. CASE ~(z - m < m)
      <4>1. z - m >= m
        BY <1>1, <3>1, <3>6
      <4>2. score(z) = 10000
        BY <1>3, <2>0, <4>1
      <4>3. CASE y - m < m
        <5>1. score(y) = 9200 + Rounded(800, y - m, m)
          BY <1>3, <2>0, <3>1, <4>3
        <5> QED
          BY <3>3, <4>2, <4>3, <5>1
      <4>4. CASE ~(y - m < m)
        <5>1. y - m >= m
          BY <1>1, <3>1, <4>4
        <5>2. score(y) = 10000
          BY <1>3, <2>0, <5>1
        <5> QED
          BY <4>2, <5>2
      <4> QED
        BY <4>3, <4>4
    <3> QED
      BY <3>5, <3>6
  <2> QED
    BY <2>1, <2>2
<1>5. ASSUME NEW y \in 0..(2 * m), NEW z \in 0..(2 * m), y <= z
      PROVE  score(y) <= score(z) \/ (y < m /\ z >= m /\ score(z) >= 9200)
  <2>0. y \in Nat /\ z \in Nat
    BY <1>1
  <2>1. CASE y < m <=> z < m
    BY <1>4, <1>5, <2>1
  <2>2. CASE ~(y < m <=> z < m)
    <3>1. y < m /\ z >= m /\ z - m \in Nat
      BY <1>1, <1>5, <2>0, <2>2
    <3>2. CASE z - m < m
      <4>1. z - m <= m
        BY <1>1, <3>1, <3>2
      <4>2. \A u \in Nat : Rounded(u, z - m, m) \in Nat
        BY <1>1, <3>1, <4>1, RoundedShare
      <4>3. score(z) = 9200 + Rounded(800, z - m, m) /\ Rounded(800, z - m, m) \in Nat
        BY <1>3, <2>0, <3>1, <3>2, <4>2
      <4> QED
        BY <3>1, <4>3
    <3>3. CASE ~(z - m < m)
      <4>1. score(z) = 10000
        BY <1>1, <1>3, <2>0, <3>1, <3>3
      <4> QED
        BY <3>1, <4>1
    <3> QED
      BY <3>2, <3>3
  <2> QED
    BY <2>1, <2>2
<1> QED
  BY <1>5 DEF MoreYearsNeverHurt, m, score

-----------------------------------------------------------------------------
(* The order of results, as one of their positions. *)
RankOrder(n, s) == {x \in (1..n) \X (1..n) : Before(s[x[1]], s[x[2]])}

(* What sorts before a result that sorts before a third sorts before it:   *)
(* Before is a lexicographic order.                                        *)
LEMMA BeforeGoesOn ==
    ASSUME NEW x, NEW y, NEW z,
           x.score \in Nat /\ x.confidence \in Nat /\ x.id \in Nat,
           y.score \in Nat /\ y.confidence \in Nat /\ y.id \in Nat,
           z.score \in Nat /\ z.confidence \in Nat /\ z.id \in Nat,
           Before(x, y), Before(y, z)
    PROVE  Before(x, z)
BY DEF Before

(* Scores, confidences and ids that differ put results in an order, and    *)
(* sorted() follows it.                                                    *)
LEMMA RankOrderIs ==
    ASSUME NEW n \in Nat, NEW s, DOMAIN s = 1..n,
           \A k \in 1..n : s[k].score \in Nat /\ s[k].confidence \in Nat /\ s[k].id \in Nat,
           \A k, l \in 1..n : s[k].id = s[l].id => k = l
    PROVE  /\ IsOrder(n, RankOrder(n, s))
           /\ InOrder(s, Before) = [k \in 1..n |-> s[Sorting(n, RankOrder(n, s))[k]]]
<1> DEFINE R == RankOrder(n, s)
           p == [i \in DOMAIN s |-> Cardinality({j \in DOMAIN s :
                    Before(s[j], s[i]) \/ (~Before(s[i], s[j]) /\ j < i)})]
<1>1. \A i, j \in 1..n : <<i, j>> \in R <=> Before(s[i], s[j])
  BY DEF RankOrder
<1>2. \A i, j \in 1..n : i # j => Before(s[i], s[j]) \/ Before(s[j], s[i])
  BY DEF Before
<1>3. \A i, j \in 1..n : Before(s[i], s[j]) => ~Before(s[j], s[i])
  BY DEF Before
<1>4. \A i, j, k \in 1..n : Before(s[i], s[j]) /\ Before(s[j], s[k]) => Before(s[i], s[k])
  BY BeforeGoesOn
<1> HIDE DEF R
<1>5. IsOrder(n, R)
  BY <1>1, <1>2, <1>3, <1>4 DEF IsOrder
<1>6. ASSUME NEW i \in 1..n
      PROVE  {j \in DOMAIN s : Before(s[j], s[i]) \/ (~Before(s[i], s[j]) /\ j < i)} = Below(n, R, i)
  <2>1. \A j \in 1..n : Before(s[j], s[i]) \/ (~Before(s[i], s[j]) /\ j < i) <=> <<j, i>> \in R
    BY <1>1, <1>2, <1>3
  <2> QED
    BY <2>1 DEF Below
<1>7. p = Place(n, R)
  BY <1>6 DEF Place
<1>8. InOrder(s, Before) = [k \in DOMAIN s |-> s[CHOOSE i \in DOMAIN s : p[i] = k - 1]]
  BY DEF InOrder
<1> HIDE DEF p
<1>9. InOrder(s, Before) = [k \in 1..n |-> s[Sorting(n, R)[k]]]
  BY <1>7, <1>8 DEF Sorting
<1> QED
  BY <1>5, <1>9 DEF R

(* What rank_candidates is asked: candidates with an id of their own each. *)
IsPayload(n, q) ==
    /\ q \in [1..n -> Entry]
    /\ \A k, l \in 1..n : q[k].id = q[l].id => k = l

Scored(job, q) == [k \in DOMAIN q |-> ScoreCandidate(job, q[k])]

(* The results before they are sorted. *)
LEMMA ScoredIs ==
    ASSUME NEW job \in Requirements, NEW n \in Nat, NEW q, IsPayload(n, q)
    PROVE  /\ Scored(job, q) \in [1..n -> Results(job)]
           /\ \A k \in 1..n : Scored(job, q)[k].id = q[k].id
           /\ \A k \in 1..n :
                Scored(job, q)[k].score = FinalScore(job, Scored(job, q)[k].assessments)
           /\ IsOrder(n, RankOrder(n, Scored(job, q)))
           /\ RankCandidates(job, q) =
                [k \in 1..n |-> Scored(job, q)[Sorting(n, RankOrder(n, Scored(job, q)))[k]]]
<1> DEFINE s == Scored(job, q)
<1>1. q \in [1..n -> Entry] /\ \A k, l \in 1..n : q[k].id = q[l].id => k = l
  BY DEF IsPayload
<1>2. DOMAIN s = 1..n /\ \A k \in 1..n : s[k] = ScoreCandidate(job, q[k])
  BY <1>1 DEF Scored
<1>3. \A k \in 1..n : /\ s[k] \in Results(job) /\ s[k].id = q[k].id
                      /\ s[k].score = FinalScore(job, s[k].assessments)
  BY <1>1, <1>2, ScoreCandidateIs
<1>4. s = [k \in 1..n |-> s[k]]
  BY <1>2 DEF Scored
<1> HIDE DEF s
<1>5. \A k \in 1..n : s[k].score \in Nat /\ s[k].confidence \in Nat /\ s[k].id \in Nat
  BY <1>3, FinalIs, RankingAssumption DEF Results
<1>6. \A k, l \in 1..n : s[k].id = s[l].id => k = l
  BY <1>1, <1>3
<1>7. /\ IsOrder(n, RankOrder(n, s))
      /\ InOrder(s, Before) = [k \in 1..n |-> s[Sorting(n, RankOrder(n, s))[k]]]
  BY <1>2, <1>5, <1>6, RankOrderIs
<1>8. RankCandidates(job, q) = InOrder(s, Before)
  BY DEF RankCandidates, s, Scored
<1>9. s \in [1..n -> Results(job)]
  BY <1>3, <1>4
<1> QED
  BY <1>3, <1>7, <1>8, <1>9 DEF s

(* The ranking has each candidate once, in the order of the results. *)
IsRanking(job, n, q, b) ==
    /\ b \in [1..n -> Results(job)]
    /\ \A k \in 1..n : \E i \in 1..n : b[k].id = q[i].id
    /\ \A i \in 1..n : \E k \in 1..n : b[k].id = q[i].id
    /\ \A k, l \in 1..n : b[k].id = b[l].id => k = l
    /\ \A k, l \in 1..n : k < l => Before(b[k], b[l])
    /\ \A k \in 1..n : b[k].score = FinalScore(job, b[k].assessments)

(* rank_candidates returns such a ranking. *)
LEMMA RankedIs ==
    ASSUME NEW job \in Requirements, NEW n \in Nat, NEW q, IsPayload(n, q)
    PROVE  IsRanking(job, n, q, RankCandidates(job, q))
<1> DEFINE s == Scored(job, q)
           R == RankOrder(n, s)
           a == Sorting(n, R)
           b == RankCandidates(job, q)
<1>1. /\ s \in [1..n -> Results(job)]
      /\ \A k \in 1..n : s[k].id = q[k].id /\ s[k].score = FinalScore(job, s[k].assessments)
      /\ IsOrder(n, R) /\ b = [k \in 1..n |-> s[a[k]]]
  BY ScoredIs
<1>2. \A i, j \in 1..n : <<i, j>> \in R => Before(s[i], s[j])
  BY DEF RankOrder
<1>3. \A k, l \in 1..n : q[k].id = q[l].id => k = l
  BY DEF IsPayload
<1> HIDE DEF s, R
<1>4. /\ a \in [1..n -> 1..n]
      /\ \A k \in 1..n : Cardinality(Below(n, R, a[k])) = k - 1
      /\ \A k, l \in 1..n : k < l => <<a[k], a[l]>> \in R
      /\ \A i \in 1..n : \E k \in 1..n : a[k] = i
  BY <1>1, SortingIs
<1> HIDE DEF a, b
<1>5. \A k \in 1..n : b[k] = s[a[k]] /\ a[k] \in 1..n /\ b[k].id = q[a[k]].id
  BY <1>1, <1>4
<1>6. \A k, l \in 1..n : b[k].id = b[l].id => k = l
  <2> TAKE k, l \in 1..n
  <2> HAVE b[k].id = b[l].id
  <2>1. a[k] = a[l]
    BY <1>3, <1>5
  <2>2. k - 1 = l - 1
    BY <1>4, <2>1
  <2> QED
    BY <2>2
<1>7. \A k, l \in 1..n : k < l => Before(b[k], b[l])
  <2> TAKE k, l \in 1..n
  <2> HAVE k < l
  <2>1. <<a[k], a[l]>> \in R
    BY <1>4
  <2>2. Before(s[a[k]], s[a[l]])
    BY <1>2, <1>5, <2>1
  <2>3. b[k] = s[a[k]] /\ b[l] = s[a[l]]
    BY <1>5
  <2> QED
    BY <2>2, <2>3
<1>8. b \in [1..n -> Results(job)]
  BY <1>1, <1>4
<1>9. \A i \in 1..n : \E k \in 1..n : b[k].id = q[i].id
  <2> TAKE i \in 1..n
  <2>1. PICK k \in 1..n : a[k] = i
    BY <1>4
  <2>2. b[k].id = q[i].id
    BY <1>5, <2>1
  <2> QED
    BY <2>2
<1>10. \A k \in 1..n : b[k].score = FinalScore(job, b[k].assessments)
  BY <1>1, <1>5
<1>11. \A k \in 1..n : \E i \in 1..n : b[k].id = q[i].id
  BY <1>5
<1>12. IsRanking(job, n, q, b)
  BY <1>6, <1>7, <1>8, <1>9, <1>10, <1>11 DEF IsRanking
<1> QED
  BY <1>12 DEF b

(* In whatever order the candidates come, the ranking is the same. *)
LEMMA OrderOfPayload ==
    ASSUME NEW job \in Requirements, NEW n \in Nat, NEW q, IsPayload(n, q),
           NEW p \in Bijection(1..n, 1..n)
    PROVE  RankCandidates(job, [k \in DOMAIN q |-> q[p[k]]]) = RankCandidates(job, q)
<1> DEFINE u == [k \in DOMAIN q |-> q[p[k]]]
           s == Scored(job, q)
           t == Scored(job, u)
           R == RankOrder(n, s)
           Q == RankOrder(n, t)
           a == Sorting(n, R)
           b == Sorting(n, Q)
<1>1. /\ q \in [1..n -> Entry] /\ \A k, l \in 1..n : q[k].id = q[l].id => k = l
      /\ p \in [1..n -> 1..n]
      /\ \A k, l \in 1..n : p[k] = p[l] => k = l
      /\ \A i \in 1..n : \E k \in 1..n : p[k] = i
  BY DEF IsPayload, Bijection, Injection, Surjection, IsInjective
<1>2. IsPayload(n, u)
  <2>1. u \in [1..n -> Entry] /\ \A k \in 1..n : u[k] = q[p[k]] /\ p[k] \in 1..n
    BY <1>1
  <2> HIDE DEF u
  <2>2. \A k, l \in 1..n : u[k].id = u[l].id => k = l
    <3> TAKE k, l \in 1..n
    <3> HAVE u[k].id = u[l].id
    <3>1. q[p[k]].id = q[p[l]].id /\ p[k] \in 1..n /\ p[l] \in 1..n
      BY <2>1
    <3>2. \A i, j \in 1..n : q[i].id = q[j].id => i = j
      BY <1>1
    <3>3. p[k] = p[l]
      BY <3>1, <3>2
    <3> QED
      BY <1>1, <3>3
  <2> QED
    BY <2>1, <2>2 DEF IsPayload
<1>3. /\ IsOrder(n, R) /\ RankCandidates(job, q) = [k \in 1..n |-> s[a[k]]]
      /\ IsOrder(n, Q) /\ RankCandidates(job, u) = [k \in 1..n |-> t[b[k]]]
  <2> HIDE DEF u
  <2> QED
    BY <1>2, ScoredIs
<1>4. \A k \in 1..n : t[k] = s[p[k]]
  BY <1>1 DEF Scored
<1> HIDE DEF s, t
<1>5. \A i, j \in 1..n : <<i, j>> \in Q <=> <<p[i], p[j]>> \in R
  BY <1>1, <1>4 DEF RankOrder
<1> HIDE DEF Q, R
<1>6. /\ a \in [1..n -> 1..n] /\ \A k \in 1..n : Cardinality(Below(n, R, a[k])) = k - 1
      /\ b \in [1..n -> 1..n] /\ \A k \in 1..n : Cardinality(Below(n, Q, b[k])) = k - 1
  BY <1>3, SortingIs
<1> HIDE DEF a, b, u
<1>7. ASSUME NEW i \in 1..n
      PROVE  Cardinality(Below(n, R, p[i])) = Cardinality(Below(n, Q, i))
  <2> DEFINE f == [j \in Below(n, Q, i) |-> p[j]]
  <2>1. IsFiniteSet(Below(n, Q, i))
    <3>1. Below(n, Q, i) \in SUBSET (1..n)
      BY DEF Below
    <3> QED
      BY <3>1, FS_Interval, FS_Subset
  <2>2. f \in [Below(n, Q, i) -> Below(n, R, p[i])]
    BY <1>1, <1>5 DEF Below
  <2>3. \A j, k \in Below(n, Q, i) : f[j] = f[k] => j = k
    BY <1>1 DEF Below
  <2>4. \A x \in Below(n, R, p[i]) : \E j \in Below(n, Q, i) : f[j] = x
    BY <1>1, <1>5 DEF Below
  <2> HIDE DEF f
  <2>5. f \in Bijection(Below(n, Q, i), Below(n, R, p[i]))
    BY <2>2, <2>3, <2>4 DEF Bijection, Injection, Surjection, IsInjective
  <2> QED
    BY <2>1, <2>5, FS_Bijection DEF ExistsBijection
<1>8. ASSUME NEW k \in 1..n PROVE t[b[k]] = s[a[k]]
  <2>1. b[k] \in 1..n /\ p[b[k]] \in 1..n /\ a[k] \in 1..n
    BY <1>1, <1>6
  <2>2. Cardinality(Below(n, R, p[b[k]])) = Cardinality(Below(n, R, a[k]))
    BY <1>6, <1>7, <2>1
  <2>3. p[b[k]] = a[k]
    BY <1>3, <2>1, <2>2, Places
  <2> QED
    BY <1>4, <2>1, <2>3
<1> QED
  BY <1>3, <1>8 DEF u

(* The result of a candidate is its own. *)
LEMMA RankedOf ==
    ASSUME NEW job \in Requirements, NEW n \in Nat, NEW q, IsPayload(n, q),
           NEW k \in 1..n, NEW i \in 1..n, RankCandidates(job, q)[k].id = q[i].id
    PROVE  RankCandidates(job, q)[k] = ScoreCandidate(job, q[i])
<1> DEFINE s == Scored(job, q)
           R == RankOrder(n, s)
           a == Sorting(n, R)
           b == RankCandidates(job, q)
<1>1. /\ \A j \in 1..n : s[j].id = q[j].id
      /\ IsOrder(n, R) /\ b = [j \in 1..n |-> s[a[j]]]
  BY ScoredIs
<1>2. /\ \A j \in 1..n : s[j] = ScoreCandidate(job, q[j])
      /\ \A j, l \in 1..n : q[j].id = q[l].id => j = l
  BY DEF IsPayload, Scored
<1> HIDE DEF s, R
<1>3. a[k] \in 1..n
  BY <1>1, SortingIs
<1> HIDE DEF a, b
<1>4. b[k] = s[a[k]] /\ q[a[k]].id = q[i].id
  BY <1>1, <1>3 DEF b
<1>5. b[k] = ScoreCandidate(job, q[i])
  BY <1>2, <1>3, <1>4
<1> QED
  BY <1>5 DEF b

(* A CV scores the same under whatever id. *)
LEMMA ProfileDecides ==
    ASSUME NEW job \in Requirements, NEW c \in Entry, NEW d \in Entry, c.profile = d.profile
    PROVE  /\ ScoreCandidate(job, c).score = ScoreCandidate(job, d).score
           /\ ScoreCandidate(job, c).confidence = ScoreCandidate(job, d).confidence
  BY DEF ScoreCandidate

-----------------------------------------------------------------------------
Answers == Remark \cup {NoRemark}

(* A score of the answer is cut to the range, whatever it is. *)
LEMMA ClampedIs ==
    ASSUME NEW one \in Nat, NEW value \in Int \cup {NoNumber}, NEW fallback \in Nat, fallback <= one
    PROVE  Clamped(value, fallback, one) \in Nat /\ Clamped(value, fallback, one) <= one
  BY DEF Clamped

(* A result stays one, of the same candidate, whatever the model says.     *)
LEMMA MergedIs ==
    ASSUME NEW job \in Requirements, NEW x \in Results(job), NEW remark \in Answers
    PROVE  /\ Merged(x, remark) \in Results(job)
           /\ Merged(x, remark).id = x.id
           /\ remark = NoRemark => Merged(x, remark) = x
<1>1. CASE remark = NoRemark
  BY <1>1 DEF Merged
<1>2. CASE remark # NoRemark
  <2> DEFINE score == Clamped(remark.score, x.score, Whole)
             confidence == Clamped(remark.confidence, x.confidence, Whole)
             eligibility == Eligible(remark.eligibility, x.eligibility)
             one(k) == IF k \notin DOMAIN remark.assessments THEN x.assessments[k]
                       ELSE [x.assessments[k] EXCEPT !.score =
                                Clamped(remark.assessments[k], x.assessments[k].score, Unit)]
             assessments == [k \in DOMAIN x.assessments |-> one(k)]
  <2>1. /\ remark.score \in Int \cup {NoNumber} /\ remark.confidence \in Int \cup {NoNumber}
        /\ \A k \in DOMAIN remark.assessments : remark.assessments[k] \in Int \cup {NoNumber}
    BY <1>2, InputsAssumption DEF Answers
  <2>2. /\ x.score \in Finals /\ x.confidence \in Finals /\ x.eligibility \in Eligibilities
        /\ x.assessments \in [DOMAIN job -> AssessmentSet]
    BY DEF Results
  <2>3. Unit \in Nat /\ \A y : y \in Scores <=> y \in Nat /\ y <= Unit
    <3>1. Unit \in Nat
      BY DEF Unit
    <3> QED
      BY <3>1, Between DEF Scores
  <2>4. score \in Finals
    <3>1. x.score \in Nat /\ x.score <= Whole /\ Whole \in Nat
      BY <2>2, WholeIs, FinalIs
    <3>2. score \in Nat /\ score <= Whole
      BY <2>1, <3>1, ClampedIs
    <3> QED
      BY <3>2, FinalIs
  <2>5. confidence \in Finals
    <3>1. x.confidence \in Nat /\ x.confidence <= Whole /\ Whole \in Nat
      BY <2>2, WholeIs, FinalIs
    <3>2. confidence \in Nat /\ confidence <= Whole
      BY <2>1, <3>1, ClampedIs
    <3> QED
      BY <3>2, FinalIs
  <2>6. eligibility \in Eligibilities
    BY <2>2 DEF Eligible
  <2>7. ASSUME NEW k \in DOMAIN job PROVE one(k) \in AssessmentSet
    <3>1. x.assessments[k] \in AssessmentSet /\ x.assessments[k].score \in Scores
      BY <2>2 DEF AssessmentSet
    <3>2. k \in DOMAIN remark.assessments =>
            Clamped(remark.assessments[k], x.assessments[k].score, Unit) \in Scores
      BY <2>1, <2>3, <3>1, ClampedIs
    <3> QED
      BY <3>1, <3>2 DEF AssessmentSet
  <2>8. assessments \in [DOMAIN job -> AssessmentSet]
    <3> HIDE DEF one
    <3> QED
      BY <2>2, <2>7
  <2>9. Merged(x, remark) = [x EXCEPT !.score = score, !.confidence = confidence,
                                      !.eligibility = eligibility, !.assessments = assessments]
    BY <1>2 DEF Merged
  <2> HIDE DEF score, confidence, eligibility, one, assessments
  <2> QED
    BY <1>2, <2>4, <2>5, <2>6, <2>8, <2>9 DEF Results
<1> QED
  BY <1>1, <1>2

(* The order of the answer, as one of the places in the baseline. *)
RerankOrder(n, s) == {x \in (1..n) \X (1..n) : RerankBefore(s[x[1]], s[x[2]])}

(* What the baseline is once there is one. *)
IsBaseline(job, n) ==
    /\ baseline \in [1..n -> Results(job)]
    /\ \A k, l \in 1..n : baseline[k].id = baseline[l].id => k = l

(* RerankBefore finds the place that a candidate has in the baseline. *)
LEMMA PlaceIs ==
    ASSUME NEW job, NEW n \in Nat, IsBaseline(job, n), NEW i \in 1..n
    PROVE  (CHOOSE k \in DOMAIN baseline : baseline[k].id = baseline[i].id) = i
<1>1. DOMAIN baseline = 1..n
  BY DEF IsBaseline
<1>2. \A k \in 1..n : baseline[k].id = baseline[i].id <=> k = i
  BY DEF IsBaseline
<1> QED
  BY <1>1, <1>2

(* The answer's ranking has each candidate once, as the answer merged. *)
IsReranking(job, n, a, r) ==
    /\ r \in [1..n -> Results(job)]
    /\ \A k \in 1..n : \E i \in 1..n : r[k] = Merged(baseline[i], a[baseline[i].id])
    /\ \A i \in 1..n : \E k \in 1..n : r[k].id = baseline[i].id
    /\ \A k, l \in 1..n : r[k].id = r[l].id => k = l
    /\ \A k, l \in 1..n : k < l => RerankBefore(r[k], r[l])

(* buildAIRankingResponse returns such a ranking. *)
LEMMA RerankedIs ==
    ASSUME NEW job \in Requirements, NEW n \in Nat, IsBaseline(job, n), NEW a,
           \A k \in 1..n : a[baseline[k].id] \in Answers
    PROVE  IsReranking(job, n, a, Reranked(a))
<1> DEFINE s == [k \in DOMAIN baseline |-> Merged(baseline[k], a[baseline[k].id])]
           R == RerankOrder(n, s)
           b == Sorting(n, R)
           r == Reranked(a)
           p == [i \in DOMAIN s |-> Cardinality({j \in DOMAIN s :
                    RerankBefore(s[j], s[i]) \/ (~RerankBefore(s[i], s[j]) /\ j < i)})]
<1>1. /\ DOMAIN baseline = 1..n
      /\ \A k \in 1..n : baseline[k] \in Results(job)
      /\ \A k, l \in 1..n : baseline[k].id = baseline[l].id => k = l
  BY DEF IsBaseline
<1>2. \A k \in 1..n : /\ s[k] = Merged(baseline[k], a[baseline[k].id])
                      /\ s[k] \in Results(job) /\ s[k].id = baseline[k].id
  BY <1>1, MergedIs
<1>3. s \in [1..n -> Results(job)] /\ DOMAIN s = 1..n
  BY <1>1, <1>2
<1>4. Reranked(a) = [k \in DOMAIN s |-> s[CHOOSE i \in DOMAIN s : p[i] = k - 1]]
  BY DEF Reranked, InOrder
<1> HIDE DEF s
<1>5. \A k \in 1..n : s[k].score \in Nat /\ s[k].confidence \in Nat
  BY <1>2, FinalIs DEF Results
<1>6. \A k \in 1..n : (CHOOSE i \in DOMAIN baseline : baseline[i].id = s[k].id) = k
  BY <1>2, PlaceIs
<1>7. \A i, j \in 1..n : RerankBefore(s[i], s[j]) <=>
         \/ s[i].score > s[j].score
         \/ s[i].score = s[j].score /\ s[i].confidence > s[j].confidence
         \/ s[i].score = s[j].score /\ s[i].confidence = s[j].confidence /\ i < j
  BY <1>6 DEF RerankBefore
<1>8. \A i, j \in 1..n : <<i, j>> \in R <=> RerankBefore(s[i], s[j])
  BY DEF RerankOrder
<1> HIDE DEF R
<1>9. /\ \A i, j \in 1..n : i # j => RerankBefore(s[i], s[j]) \/ RerankBefore(s[j], s[i])
      /\ \A i, j \in 1..n : RerankBefore(s[i], s[j]) => ~RerankBefore(s[j], s[i])
      /\ \A i, j, k \in 1..n :
           RerankBefore(s[i], s[j]) /\ RerankBefore(s[j], s[k]) => RerankBefore(s[i], s[k])
  BY <1>5, <1>7
<1>10. IsOrder(n, R)
  BY <1>8, <1>9 DEF IsOrder
<1>11. ASSUME NEW i \in 1..n
       PROVE  {j \in DOMAIN s : RerankBefore(s[j], s[i]) \/ (~RerankBefore(s[i], s[j]) /\ j < i)}
                 = Below(n, R, i)
  <2>1. \A j \in 1..n : RerankBefore(s[j], s[i]) \/ (~RerankBefore(s[i], s[j]) /\ j < i)
                          <=> <<j, i>> \in R
    BY <1>8, <1>9
  <2> QED
    BY <1>3, <2>1 DEF Below
<1>12. p = Place(n, R)
  BY <1>3, <1>11 DEF Place
<1> HIDE DEF p
<1>13. r = [k \in 1..n |-> s[b[k]]]
  BY <1>3, <1>4, <1>12 DEF Sorting
<1>14. /\ b \in [1..n -> 1..n]
       /\ \A k \in 1..n : Cardinality(Below(n, R, b[k])) = k - 1
       /\ \A k, l \in 1..n : k < l => <<b[k], b[l]>> \in R
       /\ \A i \in 1..n : \E k \in 1..n : b[k] = i
  BY <1>10, SortingIs
<1> HIDE DEF b, r
<1>15. \A k \in 1..n : r[k] = s[b[k]] /\ b[k] \in 1..n /\ r[k].id = baseline[b[k]].id
  BY <1>2, <1>13, <1>14
<1>16. \A k \in 1..n : \E i \in 1..n : r[k] = Merged(baseline[i], a[baseline[i].id])
  BY <1>2, <1>15
<1>17. \A i \in 1..n : \E k \in 1..n : r[k].id = baseline[i].id
  <2> TAKE i \in 1..n
  <2>1. PICK k \in 1..n : b[k] = i
    BY <1>14
  <2>2. r[k].id = baseline[i].id
    BY <1>15, <2>1
  <2> QED
    BY <2>2
<1>18. \A k, l \in 1..n : r[k].id = r[l].id => k = l
  <2> TAKE k, l \in 1..n
  <2> HAVE r[k].id = r[l].id
  <2>1. b[k] = b[l]
    BY <1>1, <1>15
  <2>2. k - 1 = l - 1
    BY <1>14, <2>1
  <2> QED
    BY <2>2
<1>19. \A k, l \in 1..n : k < l => RerankBefore(r[k], r[l])
  <2> TAKE k, l \in 1..n
  <2> HAVE k < l
  <2>1. <<b[k], b[l]>> \in R
    BY <1>14
  <2>2. RerankBefore(s[b[k]], s[b[l]])
    BY <1>8, <1>15, <2>1
  <2>3. r[k] = s[b[k]] /\ r[l] = s[b[l]]
    BY <1>15
  <2> QED
    BY <2>2, <2>3
<1>20. r \in [1..n -> Results(job)]
  BY <1>2, <1>13, <1>14
<1>21. IsReranking(job, n, a, r)
  BY <1>16, <1>17, <1>18, <1>19, <1>20 DEF IsReranking
<1> QED
  BY <1>21 DEF r

-----------------------------------------------------------------------------
(* Distinct numbers are sorted. *)
NumberOrder(n, s) == {x \in (1..n) \X (1..n) : s[x[1]] < s[x[2]]}

(* Sorted numbers grow. *)
LEMMA NumbersSorted ==
    ASSUME NEW n \in Nat, NEW S \in SUBSET Nat, NEW s \in [1..n -> S],
           \A k, l \in 1..n : s[k] = s[l] => k = l
    PROVE  /\ InOrder(s, <) \in [1..n -> S]
           /\ \A k, l \in 1..n : k < l => InOrder(s, <)[k] < InOrder(s, <)[l]
<1> DEFINE R == NumberOrder(n, s)
           b == Sorting(n, R)
           r == InOrder(s, <)
           p == [i \in DOMAIN s |-> Cardinality({j \in DOMAIN s :
                    s[j] < s[i] \/ (~(s[i] < s[j]) /\ j < i)})]
<1>1. r = [k \in DOMAIN s |-> s[CHOOSE i \in DOMAIN s : p[i] = k - 1]]
  BY DEF InOrder
<1>2. DOMAIN s = 1..n /\ \A k \in 1..n : s[k] \in Nat
  OBVIOUS
<1>3. \A i, j \in 1..n : <<i, j>> \in R <=> s[i] < s[j]
  BY DEF NumberOrder
<1> HIDE DEF R
<1>4. /\ \A i, j \in 1..n : i # j => s[i] < s[j] \/ s[j] < s[i]
      /\ \A i, j \in 1..n : s[i] < s[j] => ~(s[j] < s[i])
      /\ \A i, j, k \in 1..n : s[i] < s[j] /\ s[j] < s[k] => s[i] < s[k]
  BY <1>2
<1>5. IsOrder(n, R)
  BY <1>3, <1>4 DEF IsOrder
<1>6. ASSUME NEW i \in 1..n
      PROVE  {j \in DOMAIN s : s[j] < s[i] \/ (~(s[i] < s[j]) /\ j < i)} = Below(n, R, i)
  <2>1. \A j \in 1..n : s[j] < s[i] \/ (~(s[i] < s[j]) /\ j < i) <=> <<j, i>> \in R
    BY <1>3, <1>4
  <2> QED
    BY <1>2, <2>1 DEF Below
<1>7. p = Place(n, R)
  BY <1>2, <1>6 DEF Place
<1> HIDE DEF p
<1>8. r = [k \in 1..n |-> s[b[k]]]
  BY <1>1, <1>2, <1>7 DEF Sorting
<1>9. b \in [1..n -> 1..n] /\ \A k, l \in 1..n : k < l => <<b[k], b[l]>> \in R
  BY <1>5, SortingIs
<1> HIDE DEF b, r
<1>10. r \in [1..n -> S]
  BY <1>8, <1>9
<1>11. \A k, l \in 1..n : k < l => r[k] < r[l]
  <2> TAKE k, l \in 1..n
  <2> HAVE k < l
  <2>1. <<b[k], b[l]>> \in R /\ b[k] \in 1..n /\ b[l] \in 1..n
    BY <1>9
  <2>2. s[b[k]] < s[b[l]]
    BY <1>3, <2>1
  <2> QED
    BY <1>8, <2>2
<1> QED
  BY <1>10, <1>11 DEF r

(* The keys are texts, none of them twice. *)
LEMMA KeysAre ==
    ASSUME env \in Environment
    PROVE  /\ geminiKeys \in Seq(STRING) /\ Len(geminiKeys) \in Nat
           /\ DOMAIN geminiKeys = 1..Len(geminiKeys)
           /\ \A k, l \in 1..Len(geminiKeys) : geminiKeys[k] = geminiKeys[l] => k = l
<1> DEFINE D == DOMAIN env.numbered
           numbers == InOrder(SetToSeq(D), <)
           mid == [k \in DOMAIN numbers |-> env.numbered[numbers[k]]]
           all == env.GEMINI_API_KEY \o FlattenSeq(mid) \o env.GEMINI_API_KEYS
           first == {k \in DOMAIN all : all[k] # "" /\ \A j \in 1..(k - 1) : all[j] # all[k]}
           kept == InOrder(SetToSeq(first), <)
           c == Cardinality(D)
           n == Cardinality(first)
<1>1. /\ env.GEMINI_API_KEY \in Seq(STRING) /\ env.GEMINI_API_KEYS \in Seq(STRING)
      /\ D \in SUBSET Nat /\ IsFiniteSet(D)
      /\ \A m \in D : env.numbered[m] \in Seq(STRING)
  BY InputsAssumption
<1>2. geminiKeys = [k \in DOMAIN kept |-> all[kept[k]]]
  BY DEF geminiKeys
<1>3. c \in Nat /\ numbers \in [1..c -> D]
  <2> HIDE DEF D
  <2>1. /\ c \in Nat /\ SetToSeq(D) \in [1..c -> D]
        /\ \A k, l \in 1..c : SetToSeq(D)[k] = SetToSeq(D)[l] => k = l
    BY <1>1, SequenceOfSet
  <2> HIDE DEF c
  <2> QED
    BY <1>1, <2>1, NumbersSorted
<1> HIDE DEF numbers, c
<1>4. mid \in Seq(Seq(STRING))
  <2>1. DOMAIN numbers = 1..c /\ \A k \in 1..c : env.numbered[numbers[k]] \in Seq(STRING)
    BY <1>1, <1>3
  <2>2. mid \in [1..c -> Seq(STRING)]
    BY <2>1
  <2> HIDE DEF mid
  <2> QED
    BY <1>3, <2>2
<1> HIDE DEF mid
<1>5. FlattenSeq(mid) \in Seq(STRING)
  BY <1>4, FlattenIsSeq
<1>6. all \in Seq(STRING)
  BY <1>1, <1>5
<1> HIDE DEF all
<1>7. Len(all) \in Nat /\ DOMAIN all = 1..Len(all) /\ \A k \in 1..Len(all) : all[k] \in STRING
  BY <1>6
<1>8. first \in SUBSET Nat /\ IsFiniteSet(first)
  <2>1. first \in SUBSET (1..Len(all))
    BY <1>7
  <2>2. IsFiniteSet(1..Len(all)) /\ 1..Len(all) \subseteq Nat
    BY <1>7, FS_Interval
  <2> HIDE DEF first
  <2> QED
    BY <2>1, <2>2, FS_Subset
<1>9. \A k \in first : k \in DOMAIN all /\ \A j \in 1..(k - 1) : all[j] # all[k]
  OBVIOUS
<1> HIDE DEF first
<1>10. n \in Nat /\ kept \in [1..n -> first] /\ \A k, l \in 1..n : k < l => kept[k] < kept[l]
  <2>1. /\ n \in Nat /\ SetToSeq(first) \in [1..n -> first]
        /\ \A k, l \in 1..n : SetToSeq(first)[k] = SetToSeq(first)[l] => k = l
    BY <1>8, SequenceOfSet
  <2> HIDE DEF n
  <2> QED
    BY <1>8, <2>1, NumbersSorted
<1> HIDE DEF kept, n
<1>11. /\ DOMAIN geminiKeys = 1..n
       /\ \A k \in 1..n : geminiKeys[k] = all[kept[k]] /\ kept[k] \in first /\ kept[k] \in Nat
                          /\ all[kept[k]] \in STRING
  BY <1>2, <1>7, <1>8, <1>9, <1>10
<1>12. geminiKeys \in [1..n -> STRING]
  BY <1>2, <1>10, <1>11
<1>13. geminiKeys \in Seq(STRING) /\ Len(geminiKeys) = n
  BY <1>10, <1>12
<1>14. ASSUME NEW k \in 1..n, NEW l \in 1..n, k < l PROVE geminiKeys[k] # geminiKeys[l]
  <2>1. kept[k] < kept[l] /\ kept[k] \in Nat /\ kept[l] \in Nat /\ kept[k] \in DOMAIN all
    BY <1>9, <1>10, <1>11, <1>14
  <2>2. kept[k] \in 1..(kept[l] - 1)
    BY <1>7, <2>1
  <2>3. all[kept[k]] # all[kept[l]]
    BY <1>9, <1>11, <2>2
  <2> QED
    BY <1>11, <2>3
<1>15. \A k, l \in 1..n : geminiKeys[k] = geminiKeys[l] => k = l
  <2> SUFFICES ASSUME NEW k \in 1..n, NEW l \in 1..n, k # l PROVE geminiKeys[k] # geminiKeys[l]
    OBVIOUS
  <2>1. k < l \/ l < k
    BY <1>10
  <2> QED
    BY <1>14, <2>1
<1> QED
  BY <1>10, <1>11, <1>13, <1>15

-----------------------------------------------------------------------------
(* The inductive invariant. *)
Size == Cardinality(Candidate)

Asked == pc \in {"gemini", "groq"} \/ Ranked

InputsAre ==
    /\ requirements \in Requirements /\ env \in Environment
    /\ IsPayload(Size, payload) /\ Ids(payload) = Candidate

Phases ==
    /\ pc \in {"score", "gemini", "groq", "ended"}
    /\ outcome \in {"none", "error", "gemini", "groq", "baseline"}
    /\ pc = "ended" <=> outcome # "none"

(* What is saved follows from the job, its candidates and the answer. *)
Saved ==
    /\ baseline = IF Asked THEN RankCandidates(requirements, payload) ELSE << >>
    /\ answer \in [Candidate -> Answers]
    /\ outcome \in {"gemini", "groq"} => result = Reranked(answer)
    /\ outcome = "baseline" => result = baseline
    /\ outcome \in {"none", "error"} => result = << >>

(* The first m keys from the one at the cursor on, around the end of them. *)
IsRound(keys, t, c, m) ==
    /\ t \in Seq(STRING) /\ Len(t) = m
    /\ \A i \in 1..m : t[i] = keys[1 + ((c + (i - 1)) % Len(keys))]

Distinct(s) == \A k, l \in 1..Len(s) : s[k] = s[l] => k = l

Turns ==
    /\ cursor \in 0..Len(geminiKeys) /\ attempt \in Nat /\ refused \in BOOLEAN
    /\ tried \in Seq(STRING) /\ ToSet(tried) \subseteq ToSet(geminiKeys) /\ Distinct(tried)
    /\ pc = "score" => tried = << >> /\ attempt = 0
    /\ pc = "gemini" =>
         /\ cursor < Len(geminiKeys) /\ attempt < Len(geminiKeys)
         /\ IsRound(geminiKeys, tried, cursor, attempt)
    /\ pc = "groq" => attempt < 3
    /\ pc = "groq" \/ outcome = "groq" => env.groq /\ ToSet(tried) = ToSet(geminiKeys)
    /\ outcome = "gemini" => geminiKeys # << >>
    /\ outcome = "baseline" =>
         \/ aiCandidateLimit = 0
         \/ refused /\ ToSet(tried) = ToSet(geminiKeys)
    /\ ~env.groq => refused

RerankInv == InputsAre /\ Phases /\ Saved /\ Turns

-----------------------------------------------------------------------------
(* Past the end of the keys it goes on with the first. *)
LEMMA Around ==
    ASSUME NEW L \in Nat \ {0}, NEW a \in Nat, a < 2 * L
    PROVE  a % L = IF a < L THEN a ELSE a - L
<1>1. CASE a < L
  BY <1>1
<1>2. CASE ~(a < L)
  <2> DEFINE b == a - L
  <2>1. b \in Nat /\ b < L /\ a = b + L
    BY <1>2
  <2>2. a % L = b
    <3>1. a = (a \div L) * L + (a % L) /\ a % L \in 0..(L - 1) /\ (a \div L) \in Nat
      OBVIOUS
    <3> DEFINE q == a \div L
               m == a % L
    <3>2. a = q * L + m /\ m \in 0..(L - 1) /\ q \in Nat
      BY <3>1
    <3> HIDE DEF q, m, b
    <3>3. q = 1
      <4>1. q * L < 2 * L /\ (q + 1) * L > L
        BY <2>1, <3>2
      <4>2. q < 2 /\ q > 0
        BY <3>2, <4>1
      <4> QED
        BY <3>2, <4>2
    <3>4. m = b
      BY <2>1, <3>2, <3>3
    <3> QED
      BY <3>4 DEF m
  <2> QED
    BY <1>2, <2>2
<1> QED
  BY <1>1, <1>2

(* A round asks no key twice, and after as many steps as there are keys it *)
(* has asked each.                                                         *)
LEMMA RoundIs ==
    ASSUME NEW keys \in Seq(STRING), Distinct(keys), NEW c \in Nat, c < Len(keys),
           NEW m \in 0..Len(keys), NEW t, IsRound(keys, t, c, m)
    PROVE  /\ ToSet(t) \subseteq ToSet(keys) /\ Distinct(t)
           /\ m = Len(keys) => ToSet(t) = ToSet(keys)
<1> DEFINE L == Len(keys)
           at(i) == 1 + ((c + (i - 1)) % L)
<1>1. /\ L \in Nat \ {0} /\ DOMAIN keys = 1..L
      /\ t \in Seq(STRING) /\ Len(t) = m /\ DOMAIN t = 1..m /\ m \in Nat
      /\ \A i \in 1..m : t[i] = keys[at(i)]
  BY DEF IsRound
<1>2. ASSUME NEW i \in 1..m PROVE at(i) = IF c + i <= L THEN c + i ELSE c + i - L
  <2>1. c + (i - 1) \in Nat /\ c + (i - 1) < 2 * L
    BY <1>1
  <2>2. (c + (i - 1)) % L = IF c + (i - 1) < L THEN c + (i - 1) ELSE (c + (i - 1)) - L
    BY <1>1, <2>1, Around
  <2>3. at(i) = 1 + (IF c + (i - 1) < L THEN c + (i - 1) ELSE (c + (i - 1)) - L)
    BY <2>2, Zenon
  <2> HIDE DEF at
  <2> QED
    BY <1>1, <2>3
<1> HIDE DEF L, at
<1>3. \A i \in 1..m : at(i) \in 1..L
  BY <1>1, <1>2 DEF L
<1>4. \A i, j \in 1..m : at(i) = at(j) => i = j
  <2> TAKE i, j \in 1..m
  <2> HAVE at(i) = at(j)
  <2>1. (IF c + i <= L THEN c + i ELSE c + i - L) = (IF c + j <= L THEN c + j ELSE c + j - L)
    BY <1>2
  <2>2. i \in Nat /\ j \in Nat /\ 0 < i /\ i <= L /\ 0 < j /\ j <= L /\ L \in Nat
    BY <1>1 DEF L
  <2> QED
    BY <2>1, <2>2
<1>5. ToSet(t) \subseteq ToSet(keys)
  BY <1>1, <1>3 DEF ToSet
<1>6. Distinct(t)
  <2> SUFFICES ASSUME NEW k \in 1..m, NEW l \in 1..m, t[k] = t[l] PROVE k = l
    BY <1>1 DEF Distinct
  <2>1. keys[at(k)] = keys[at(l)]
    BY <1>1
  <2>2. at(k) = at(l)
    BY <1>3, <2>1 DEF Distinct, L
  <2> QED
    BY <1>4, <2>2
<1>7. ASSUME m = L PROVE ToSet(keys) \subseteq ToSet(t)
  <2>1. ASSUME NEW k \in 1..L PROVE \E i \in 1..m : at(i) = k
    <3> DEFINE i == IF k > c THEN k - c ELSE k - c + L
    <3>1. i \in 1..m /\ (IF c + i <= L THEN c + i ELSE c + i - L) = k
      BY <1>1, <1>7 DEF L
    <3> HIDE DEF i
    <3> QED
      BY <1>2, <3>1
  <2> QED
    BY <1>1, <2>1 DEF ToSet
<1> QED
  BY <1>5, <1>6, <1>7 DEF L

-----------------------------------------------------------------------------
(* A request has candidates, a finite number. *)
LEMMA CandidatesAre ==
    /\ Size \in Nat \ {0}
    /\ IsFiniteSet(1..Size) /\ Cardinality(1..Size) = Size
<1>1. Size \in Nat /\ Size # 0
  BY RankingAssumption, FS_CardinalityType, FS_EmptySet DEF Size
<1> QED
  BY <1>1, FS_Interval

(* The limit is a number, and what is sent of a ranking is nothing only if *)
(* the limit is 0.                                                         *)
LEMMA LimitIs ==
    ASSUME env \in Environment
    PROVE  aiCandidateLimit \in Nat
<1>1. env.limit \in Int \cup {NoNumber}
  BY InputsAssumption
<1>2. env.limit # NoNumber /\ env.limit > 0 => env.limit \in Nat /\ env.limit \div 100 \in Nat
  BY <1>1
<1> QED
  BY <1>1, <1>2 DEF aiCandidateLimit

(* The first of the ranking are sent, as many as the limit allows. *)
LEMMA SentIs ==
    ASSUME env \in Environment, NEW S, NEW n \in Nat \ {0}, NEW s \in [1..n -> S]
    PROVE  /\ Sent(s) = << >> <=> aiCandidateLimit = 0
           /\ \A k \in DOMAIN Sent(s) : Sent(s)[k] = s[k] /\ k \in 1..n
<1> DEFINE m == IF n < aiCandidateLimit THEN n ELSE aiCandidateLimit
<1>1. aiCandidateLimit \in Nat
  BY LimitIs
<1>2. m \in Nat /\ m <= n /\ (m = 0 <=> aiCandidateLimit = 0)
  BY <1>1
<1>3. s \in Seq(S) /\ Len(s) = n
  OBVIOUS
<1>4. Sent(s) = SubSeq(s, 1, m)
  BY <1>3 DEF Sent
<1> HIDE DEF m
<1>5. SubSeq(s, 1, m) = [k \in 1..m |-> s[k]]
  <2>1. m \in 0..n /\ \A k \in 1..m : k \in 1..n
    BY <1>2
  <2>2. SubSeq(s, 1, m) \in Seq(S) /\ Len(SubSeq(s, 1, m)) = m
    BY <1>2, <1>3, <2>1
  <2>3. \A k \in 1..m : SubSeq(s, 1, m)[k] = s[k]
    BY <1>2, <1>3, <2>1
  <2> QED
    BY <2>2, <2>3
<1>6. Sent(s) = << >> <=> m = 0
  BY <1>2, <1>4, <1>5
<1> QED
  BY <1>2, <1>4, <1>5, <1>6

(* There is one entry for each candidate. *)
LEMMA IdsAre ==
    ASSUME InputsAre
    PROVE  /\ payload \in [1..Size -> Entry] /\ DOMAIN payload = 1..Size
           /\ Ids(payload) = Candidate
           /\ Len(payload) = Size
  BY CandidatesAre DEF InputsAre, IsPayload

(* The baseline, when there is one. *)
LEMMA BaselineIs ==
    ASSUME InputsAre, NEW b, b = RankCandidates(requirements, payload)
    PROVE  /\ b \in [1..Size -> Results(requirements)] /\ DOMAIN b = 1..Size
           /\ \A k \in 1..Size : b[k].id \in Candidate
           /\ \A c \in Candidate : \E k \in 1..Size : b[k].id = c
           /\ \A k, l \in 1..Size : b[k].id = b[l].id => k = l
           /\ \A k, l \in 1..Size : k < l => Before(b[k], b[l])
           /\ \A k \in 1..Size : b[k].score = FinalScore(requirements, b[k].assessments)
<1>0. IsRanking(requirements, Size, payload, b)
  <2>1. Size \in Nat /\ requirements \in Requirements /\ IsPayload(Size, payload)
    BY CandidatesAre DEF InputsAre
  <2> QED
    BY <2>1, RankedIs
<1>1. /\ b \in [1..Size -> Results(requirements)]
      /\ \A i \in 1..Size : \E k \in 1..Size : b[k].id = payload[i].id
      /\ \A k, l \in 1..Size : b[k].id = b[l].id => k = l
      /\ \A k, l \in 1..Size : k < l => Before(b[k], b[l])
      /\ \A k \in 1..Size : b[k].score = FinalScore(requirements, b[k].assessments)
  BY <1>0 DEF IsRanking
<1>2. \A c \in Candidate : \E i \in 1..Size : payload[i].id = c
  BY IdsAre DEF Ids
<1>3. \A k \in 1..Size : b[k].id \in Candidate
  BY <1>1 DEF Results
<1>4. \A c \in Candidate : \E k \in 1..Size : b[k].id = c
  BY <1>1, <1>2
<1> QED
  BY <1>1, <1>3, <1>4

(* What a model says it says of the candidates. *)
LEMMA AnswersAre ==
    ASSUME InputsAre, NEW a \in Answer
    PROVE  a \in [Candidate -> Answers]
  BY IdsAre DEF Answer, Answers

-----------------------------------------------------------------------------
(* The request starts with its candidates, one of each id. *)
LEMMA InitRerank == Init => RerankInv
<1> SUFFICES ASSUME Init PROVE RerankInv
  OBVIOUS
<1>1. PICK profiles \in [Candidate -> Profile] :
        payload = [k \in 1..Cardinality(Candidate) |->
                     LET c == SetToSeq(Candidate)[k] IN [id |-> c, profile |-> profiles[c]]]
  BY DEF Init
<1> DEFINE ids == SetToSeq(Candidate)
<1>2. /\ Size \in Nat /\ ids \in [1..Size -> Candidate]
      /\ \A k, l \in 1..Size : ids[k] = ids[l] => k = l
      /\ \A c \in Candidate : \E k \in 1..Size : ids[k] = c
  BY SequenceOfSet, RankingAssumption DEF Size
<1>3. payload = [k \in 1..Size |-> [id |-> ids[k], profile |-> profiles[ids[k]]]]
  BY <1>1 DEF Size
<1> HIDE DEF ids
<1>4. \A k \in 1..Size : payload[k].id = ids[k] /\ payload[k] \in Entry
  BY <1>2, <1>3 DEF Entry
<1>5. DOMAIN payload = 1..Size /\ payload \in [1..Size -> Entry]
  BY <1>3, <1>4
<1>6. \A k, l \in 1..Size : payload[k].id = payload[l].id => k = l
  BY <1>2, <1>4
<1>7. Ids(payload) = Candidate
  <2>1. Ids(payload) \subseteq Candidate
    BY <1>2, <1>4, <1>5 DEF Ids
  <2>2. ASSUME NEW c \in Candidate PROVE c \in Ids(payload)
    <3>1. PICK k \in 1..Size : ids[k] = c
      BY <1>2
    <3>2. payload[k].id = c
      BY <1>4, <3>1
    <3> QED
      BY <1>5, <3>2 DEF Ids
  <2> QED
    BY <2>1, <2>2
<1>8. /\ requirements \in Requirements /\ env \in Environment /\ refused = ~env.groq
      /\ pc = "score" /\ cursor = 0 /\ attempt = 0
      /\ baseline = << >> /\ outcome = "none" /\ result = << >>
      /\ answer = [c \in Ids(payload) |-> NoRemark] /\ tried = << >>
  BY DEF Init
<1>9. InputsAre
  BY <1>5, <1>6, <1>7, <1>8 DEF InputsAre, IsPayload
<1>10. Phases
  BY <1>8 DEF Phases
<1>11. Saved
  BY <1>7, <1>8 DEF Saved, Asked, Ranked, Answers
<1>12. Turns
  <2>1. Len(geminiKeys) \in Nat /\ env.groq \in BOOLEAN
    BY <1>8, KeysAre, InputsAssumption
  <2>2. tried \in Seq(STRING) /\ ToSet(tried) = {} /\ Distinct(tried)
    BY <1>8 DEF ToSet, Distinct
  <2>3. cursor \in 0..Len(geminiKeys) /\ attempt \in Nat /\ refused \in BOOLEAN
    BY <1>8, <2>1
  <2>4. ToSet(tried) \subseteq ToSet(geminiKeys)
    BY <2>2
  <2>5. pc = "score" /\ outcome = "none" /\ tried = << >> /\ attempt = 0 /\ (~env.groq => refused)
    BY <1>8
  <2> QED
    BY <2>2, <2>3, <2>4, <2>5 DEF Turns
<1> QED
  BY <1>9, <1>10, <1>11, <1>12 DEF RerankInv

-----------------------------------------------------------------------------
(* The keys of settings e. *)
KeysOf(e) ==
    LET numbers == InOrder(SetToSeq(DOMAIN e.numbered), <)
        all == e.GEMINI_API_KEY
                 \o FlattenSeq([k \in DOMAIN numbers |-> e.numbered[numbers[k]]])
                 \o e.GEMINI_API_KEYS
        first == {k \in DOMAIN all : all[k] # "" /\ \A j \in 1..(k - 1) : all[j] # all[k]}
        kept == InOrder(SetToSeq(first), <)
    IN  [k \in DOMAIN kept |-> all[kept[k]]]

(* The settings, the job and its candidates stay as they are. *)
LEMMA InputsStay ==
    ASSUME InputsAre, UNCHANGED inputs
    PROVE  /\ InputsAre' /\ geminiKeys' = geminiKeys /\ aiCandidateLimit' = aiCandidateLimit
           /\ requirements' = requirements /\ payload' = payload /\ env' = env
<1>1. requirements' = requirements /\ payload' = payload /\ env' = env
  BY DEF inputs
<1>2. geminiKeys' = geminiKeys
  <2>1. geminiKeys = KeysOf(env)
    BY DEF geminiKeys, KeysOf
  <2>2. geminiKeys' = KeysOf(env')
    BY DEF geminiKeys, KeysOf, InOrder
  <2> QED
    BY <1>1, <2>1, <2>2
<1>3. aiCandidateLimit' = aiCandidateLimit
  BY <1>1 DEF aiCandidateLimit
<1>4. IsPayload(Size, payload)'
  BY <1>1 DEF InputsAre, IsPayload, Size, Entry
<1>5. Ids(payload)' = Candidate
  BY <1>1 DEF InputsAre, Ids
<1>6. InputsAre'
  BY <1>1, <1>4, <1>5 DEF InputsAre
<1> QED
  BY <1>1, <1>2, <1>3, <1>6

(* The answer a merged into the ranking b. *)
RerankedOf(b, a) ==
    LET place(z) == CHOOSE k \in DOMAIN b : b[k].id = z.id
        before(x, y) ==
            \/ x.score > y.score
            \/ x.score = y.score /\ x.confidence > y.confidence
            \/ x.score = y.score /\ x.confidence = y.confidence /\ place(x) < place(y)
    IN  InOrder([k \in DOMAIN b |-> Merged(b[k], a[b[k].id])], before)

(* What is saved depends on the baseline and the answer alone. *)
LEMMA RerankedStays ==
    ASSUME UNCHANGED baseline
    PROVE  Reranked(answer)' = Reranked(answer')
<1>1. \A a : Reranked(a) = RerankedOf(baseline, a)
  BY DEF Reranked, RerankedOf, RerankBefore, InOrder
<1>2. Reranked(answer)' = RerankedOf(baseline', answer')
  BY DEF Reranked, RerankedOf, RerankBefore, InOrder
<1> QED
  BY <1>1, <1>2

(* One key more is the next one. *)
LEMMA RoundGrows ==
    ASSUME NEW keys \in Seq(STRING), NEW c \in Nat, c < Len(keys),
           NEW m \in Nat, NEW t, IsRound(keys, t, c, m)
    PROVE  IsRound(keys, Append(t, keys[1 + ((c + m) % Len(keys))]), c, m + 1)
<1> DEFINE x == keys[1 + ((c + m) % Len(keys))]
           u == Append(t, x)
<1>1. /\ t \in Seq(STRING) /\ Len(t) = m
      /\ \A i \in 1..m : t[i] = keys[1 + ((c + (i - 1)) % Len(keys))]
  BY DEF IsRound
<1>2. x \in STRING
  <2>1. Len(keys) \in Nat \ {0} /\ c + m \in Nat
    OBVIOUS
  <2> QED
    BY <2>1
<1>3. u \in Seq(STRING) /\ Len(u) = m + 1
  BY <1>1, <1>2
<1>4. ASSUME NEW i \in 1..(m + 1)
      PROVE  u[i] = keys[1 + ((c + (i - 1)) % Len(keys))]
  <2>1. CASE i \in 1..m
    BY <1>1, <2>1
  <2>2. CASE i = m + 1
    <3>1. u[i] = x /\ i - 1 = m
      BY <1>1, <2>2
    <3> QED
      BY <3>1
  <2>3. i \in 1..m \/ i = m + 1
    OBVIOUS
  <2> QED
    BY <2>1, <2>2, <2>3, Zenon
<1> QED
  BY <1>3, <1>4 DEF IsRound

-----------------------------------------------------------------------------
(* After a run of a round the keys tried are different ones, and those of  *)
(* a whole round are all.                                                  *)
LEMMA KeyAsked ==
    ASSUME RerankInv, pc = "gemini", tried' = Append(tried, CurrentKey)
    PROVE  /\ IsRound(geminiKeys, tried', cursor, attempt + 1)
           /\ tried' \in Seq(STRING) /\ ToSet(tried') \subseteq ToSet(geminiKeys)
           /\ Distinct(tried')
           /\ attempt + 1 = Len(geminiKeys) => ToSet(tried') = ToSet(geminiKeys)
           /\ attempt \in Nat /\ attempt < Len(geminiKeys) /\ Len(geminiKeys) \in Nat
           /\ geminiKeys # << >>
<1>1. env \in Environment
  BY DEF RerankInv, InputsAre
<1>2. /\ geminiKeys \in Seq(STRING) /\ Len(geminiKeys) \in Nat /\ Distinct(geminiKeys)
  BY <1>1, KeysAre DEF Distinct
<1>3. /\ cursor \in 0..Len(geminiKeys) /\ attempt \in Nat
      /\ cursor < Len(geminiKeys) /\ attempt < Len(geminiKeys)
      /\ IsRound(geminiKeys, tried, cursor, attempt)
  BY DEF RerankInv, Turns
<1>4. cursor \in Nat /\ attempt + 1 \in 0..Len(geminiKeys)
  BY <1>2, <1>3
<1>5. tried' = Append(tried, geminiKeys[1 + ((cursor + attempt) % Len(geminiKeys))])
  BY DEF CurrentKey
<1>6. IsRound(geminiKeys, tried', cursor, attempt + 1)
  BY <1>2, <1>3, <1>4, <1>5, RoundGrows
<1>7. tried' \in Seq(STRING)
  BY <1>6 DEF IsRound
<1>8. geminiKeys # << >>
  BY <1>2, <1>3
<1> QED
  BY <1>2, <1>3, <1>4, <1>6, <1>7, <1>8, RoundIs

(* Nothing is in the empty sequence only. *)
LEMMA NoElements ==
    ASSUME NEW S, NEW s \in Seq(S)
    PROVE  ToSet(s) = {} <=> s = << >>
<1>1. CASE s = << >>
  BY <1>1 DEF ToSet
<1>2. CASE s # << >>
  <2>1. Len(s) \in Nat \ {0} /\ DOMAIN s = 1..Len(s)
    BY <1>2
  <2>2. 1 \in DOMAIN s
    BY <2>1
  <2> QED
    BY <1>2, <2>2 DEF ToSet
<1> QED
  BY <1>1, <1>2

(* The AI service ranks, and the first provider is asked, if there is one. *)
LEMMA ScoreKeeps == RerankInv /\ Score => RerankInv'
<1> SUFFICES ASSUME RerankInv, Score PROVE RerankInv'
  OBVIOUS
<1> DEFINE b == RankCandidates(requirements, payload)
<1>1. /\ pc = "score" /\ baseline' = b
      /\ UNCHANGED inputs /\ answer' = answer /\ tried' = tried /\ refused' = refused
  BY DEF Score, inputs
<1>2. /\ InputsAre /\ InputsAre' /\ geminiKeys' = geminiKeys
      /\ aiCandidateLimit' = aiCandidateLimit
      /\ requirements' = requirements /\ payload' = payload /\ env' = env
  BY <1>1, InputsStay DEF RerankInv
<1>3. /\ outcome = "none" /\ tried = << >> /\ attempt = 0
      /\ cursor \in 0..Len(geminiKeys) /\ refused \in BOOLEAN /\ result = << >>
      /\ answer \in [Candidate -> Answers] /\ (~env.groq => refused)
      /\ tried \in Seq(STRING) /\ Distinct(tried) /\ ToSet(tried) \subseteq ToSet(geminiKeys)
  BY <1>1 DEF RerankInv, Phases, Turns, Saved
<1>4. /\ geminiKeys \in Seq(STRING) /\ Len(geminiKeys) \in Nat /\ env.groq \in BOOLEAN
      /\ ToSet(tried) = {}
  BY <1>2, <1>3, KeysAre, InputsAssumption DEF InputsAre, ToSet
<1>5. Sent(b) = << >> <=> aiCandidateLimit = 0
  <2>1. b \in [1..Size -> Results(requirements)]
    BY <1>2, BaselineIs
  <2> HIDE DEF b
  <2> QED
    BY <1>2, <2>1, CandidatesAre, SentIs DEF InputsAre
<1>6. Sent(baseline') = Sent(b)
  BY <1>1
<1>7. ToSet(geminiKeys) = {} <=> geminiKeys = << >>
  BY <1>4, NoElements
<1> HIDE DEF b
<1>8. CASE pc' = "gemini"
  <2>1. /\ geminiKeys # << >> /\ attempt' = 0 /\ cursor' \in 0..(Len(geminiKeys) - 1)
        /\ outcome' = outcome /\ result' = result
    BY <1>8 DEF Score, AskGroq, End
  <2>2. IsRound(geminiKeys, tried', cursor', attempt')
    BY <1>1, <1>3, <2>1 DEF IsRound
  <2>3. Phases'
    BY <1>3, <1>8, <2>1 DEF Phases
  <2>4. Asked' /\ Saved'
    BY <1>1, <1>2, <1>3, <1>8, <2>1 DEF Saved, Asked, b
  <2>5. Turns'
    <3>1. /\ cursor' \in 0..Len(geminiKeys) /\ attempt' \in Nat /\ cursor' < Len(geminiKeys)
          /\ attempt' < Len(geminiKeys)
      BY <1>4, <2>1
    <3> QED
      BY <1>1, <1>2, <1>3, <1>8, <2>1, <2>2, <3>1 DEF Turns
  <2> QED
    BY <1>2, <2>3, <2>4, <2>5 DEF RerankInv
<1>9. CASE pc' # "gemini"
  <2>1. /\ geminiKeys = << >> \/ aiCandidateLimit = 0
        /\ cursor' = cursor /\ AskGroq
    BY <1>5, <1>6, <1>9 DEF Score
  <2>2. CASE env.groq /\ aiCandidateLimit # 0
    <3>1. pc' = "groq" /\ attempt' = 0 /\ outcome' = outcome /\ result' = result
      BY <1>5, <1>6, <2>1, <2>2 DEF AskGroq
    <3>2. Phases'
      BY <1>3, <3>1 DEF Phases
    <3>3. Asked' /\ Saved'
      BY <1>1, <1>2, <1>3, <3>1 DEF Saved, Asked, b
    <3>4. ToSet(tried') = ToSet(geminiKeys')
      BY <1>1, <1>2, <1>4, <1>7, <2>1, <2>2
    <3>5. Turns'
      BY <1>1, <1>2, <1>3, <2>1, <2>2, <3>1, <3>4 DEF Turns
    <3> QED
      BY <1>2, <3>2, <3>3, <3>5 DEF RerankInv
  <2>3. CASE ~(env.groq /\ aiCandidateLimit # 0)
    <3>1. pc' = "ended" /\ attempt' = attempt /\ outcome' = "baseline" /\ result' = baseline'
      BY <1>5, <1>6, <2>1, <2>3 DEF AskGroq, End
    <3>2. Phases'
      BY <3>1 DEF Phases
    <3>3. Asked' /\ Saved'
      BY <1>1, <1>2, <1>3, <3>1 DEF Saved, Asked, Ranked, b
    <3>4. aiCandidateLimit' = 0 \/ (refused' /\ ToSet(tried') = ToSet(geminiKeys'))
      BY <1>1, <1>2, <1>3, <1>4, <1>7, <2>1, <2>3
    <3>5. Turns'
      BY <1>1, <1>2, <1>3, <2>1, <3>1, <3>4 DEF Turns
    <3> QED
      BY <1>2, <3>2, <3>3, <3>5 DEF RerankInv
  <2> QED
    BY <2>2, <2>3
<1> QED
  BY <1>8, <1>9

(* Without the AI service there is nothing to save. *)
LEMMA ScoreFailsKeeps == RerankInv /\ ScoreFails => RerankInv'
<1> SUFFICES ASSUME RerankInv, ScoreFails PROVE RerankInv'
  OBVIOUS
<1>1. /\ pc = "score" /\ pc' = "ended" /\ outcome' = "error" /\ result' = << >>
      /\ UNCHANGED inputs /\ cursor' = cursor /\ attempt' = attempt
      /\ baseline' = baseline /\ answer' = answer /\ tried' = tried /\ refused' = refused
  BY DEF ScoreFails, End
<1>2. /\ InputsAre' /\ geminiKeys' = geminiKeys /\ env' = env
      /\ requirements' = requirements /\ payload' = payload
  BY <1>1, InputsStay DEF RerankInv
<1>3. Phases' /\ outcome = "none"
  BY <1>1 DEF RerankInv, Phases
<1>4. Saved'
  <2>1. ~Asked /\ ~Asked'
    BY <1>1, <1>3 DEF Asked, Ranked
  <2> QED
    BY <1>1, <2>1 DEF RerankInv, Saved
<1>5. Turns'
  BY <1>1, <1>2 DEF RerankInv, Turns
<1> QED
  BY <1>2, <1>3, <1>4, <1>5 DEF RerankInv

(* An answer is merged into the baseline and ends the request. *)
LEMMA UseKeeps ==
    ASSUME RerankInv, NEW p \in {"gemini", "groq"}, pc = p, NEW a \in Answer, Use(p, a)
    PROVE  InputsAre' /\ Phases' /\ Saved'
<1>1. /\ pc' = "ended" /\ outcome' = p /\ result' = Reranked(a) /\ answer' = a
      /\ UNCHANGED inputs /\ baseline' = baseline
  BY DEF Use, End
<1>2. /\ InputsAre /\ InputsAre' /\ requirements' = requirements /\ payload' = payload
  BY <1>1, InputsStay DEF RerankInv
<1>3. Phases'
  BY <1>1 DEF Phases
<1>4. result' = Reranked(answer)'
  BY <1>1, RerankedStays
<1>5. answer' \in [Candidate -> Answers]
  BY <1>1, <1>2, AnswersAre
<1>6. Asked /\ Asked'
  BY <1>1 DEF Asked, Ranked
<1>7. baseline' = RankCandidates(requirements', payload')
  BY <1>1, <1>2, <1>6 DEF RerankInv, Saved
<1> QED
  BY <1>1, <1>2, <1>3, <1>4, <1>5, <1>6, <1>7 DEF Saved

(* An answer of Gemini. *)
LEMMA GeminiAnswersKeeps ==
    ASSUME RerankInv, NEW a \in Answer, GeminiAnswers(a)
    PROVE  RerankInv'
<1>1. pc = "gemini" /\ Use("gemini", a) /\ tried' = Append(tried, CurrentKey)
  BY DEF GeminiAnswers
<1>2. InputsAre' /\ Phases' /\ Saved'
  BY <1>1, UseKeeps
<1>3. /\ tried' \in Seq(STRING) /\ ToSet(tried') \subseteq ToSet(geminiKeys)
      /\ Distinct(tried') /\ geminiKeys # << >>
  BY <1>1, KeyAsked
<1>4. /\ pc' = "ended" /\ outcome' = "gemini" /\ UNCHANGED inputs
      /\ cursor' = cursor /\ attempt' = attempt /\ refused' = refused
  BY <1>1 DEF Use, End
<1>5. geminiKeys' = geminiKeys /\ env' = env
  BY <1>4, InputsStay DEF RerankInv
<1>6. Turns'
  BY <1>3, <1>4, <1>5 DEF RerankInv, Turns
<1> QED
  BY <1>2, <1>6 DEF RerankInv

(* An answer of Groq. *)
LEMMA GroqAnswersKeeps ==
    ASSUME RerankInv, NEW a \in Answer, GroqAnswers(a)
    PROVE  RerankInv'
<1>1. pc = "groq" /\ Use("groq", a) /\ tried' = tried
  BY DEF GroqAnswers
<1>2. InputsAre' /\ Phases' /\ Saved'
  BY <1>1, UseKeeps
<1>3. /\ pc' = "ended" /\ outcome' = "groq" /\ UNCHANGED inputs
      /\ cursor' = cursor /\ attempt' = attempt /\ refused' = refused
  BY <1>1 DEF Use, End
<1>4. geminiKeys' = geminiKeys /\ env' = env
  BY <1>3, InputsStay DEF RerankInv
<1>5. Turns'
  BY <1>1, <1>3, <1>4 DEF RerankInv, Turns
<1> QED
  BY <1>2, <1>5 DEF RerankInv

(* Another attempt with Groq. *)
LEMMA GroqRetriesKeeps == RerankInv /\ GroqRetries => RerankInv'
<1> SUFFICES ASSUME RerankInv, GroqRetries PROVE RerankInv'
  OBVIOUS
<1>1. /\ pc = "groq" /\ attempt < 2 /\ attempt' = attempt + 1 /\ UNCHANGED inputs
      /\ pc' = pc /\ cursor' = cursor /\ baseline' = baseline /\ outcome' = outcome
      /\ result' = result /\ answer' = answer /\ tried' = tried /\ refused' = refused
  BY DEF GroqRetries
<1>2. /\ InputsAre' /\ geminiKeys' = geminiKeys /\ env' = env
      /\ requirements' = requirements /\ payload' = payload
      /\ aiCandidateLimit' = aiCandidateLimit
  BY <1>1, InputsStay DEF RerankInv
<1>3. Phases'
  BY <1>1 DEF RerankInv, Phases
<1>4. Saved'
  <2>1. Asked' <=> Asked
    BY <1>1 DEF Asked, Ranked
  <2>2. Reranked(answer)' = Reranked(answer)
    BY <1>1, RerankedStays
  <2> QED
    BY <1>1, <1>2, <2>1, <2>2 DEF RerankInv, Saved
<1>5. Turns'
  BY <1>1, <1>2 DEF RerankInv, Turns
<1> QED
  BY <1>2, <1>3, <1>4, <1>5 DEF RerankInv

(* The baseline stays when Groq gives up. *)
LEMMA GroqFailsKeeps == RerankInv /\ GroqFails => RerankInv'
<1> SUFFICES ASSUME RerankInv, GroqFails PROVE RerankInv'
  OBVIOUS
<1>1. /\ pc = "groq" /\ pc' = "ended" /\ outcome' = "baseline" /\ result' = baseline
      /\ refused' = TRUE /\ UNCHANGED inputs /\ attempt' = attempt
      /\ cursor' = cursor /\ baseline' = baseline
      /\ answer' = answer /\ tried' = tried
  BY DEF GroqFails, End
<1>2. /\ InputsAre' /\ geminiKeys' = geminiKeys /\ env' = env
      /\ requirements' = requirements /\ payload' = payload
  BY <1>1, InputsStay DEF RerankInv
<1>3. Phases'
  BY <1>1 DEF Phases
<1>4. Saved'
  <2>1. Asked' /\ Asked
    BY <1>1 DEF Asked, Ranked
  <2> QED
    BY <1>1, <1>2, <2>1 DEF RerankInv, Saved
<1>5. Turns'
  BY <1>1, <1>2 DEF RerankInv, Turns
<1> QED
  BY <1>2, <1>3, <1>4, <1>5 DEF RerankInv

(* The next key, or after the last one the next provider. *)
LEMMA GeminiFailsKeeps == RerankInv /\ GeminiFails => RerankInv'
<1> SUFFICES ASSUME RerankInv, GeminiFails PROVE RerankInv'
  OBVIOUS
<1>1. /\ pc = "gemini" /\ tried' = Append(tried, CurrentKey) /\ UNCHANGED inputs
      /\ cursor' = cursor /\ baseline' = baseline /\ answer' = answer /\ refused' = refused
  BY DEF GeminiFails
<1>2. /\ InputsAre /\ InputsAre' /\ geminiKeys' = geminiKeys /\ env' = env
      /\ requirements' = requirements /\ payload' = payload
      /\ aiCandidateLimit' = aiCandidateLimit
  BY <1>1, InputsStay DEF RerankInv
<1>3. /\ IsRound(geminiKeys, tried', cursor, attempt + 1)
      /\ tried' \in Seq(STRING) /\ ToSet(tried') \subseteq ToSet(geminiKeys)
      /\ Distinct(tried')
      /\ attempt + 1 = Len(geminiKeys) => ToSet(tried') = ToSet(geminiKeys)
      /\ attempt \in Nat /\ attempt < Len(geminiKeys) /\ Len(geminiKeys) \in Nat
  BY <1>1, KeyAsked
<1>4. /\ outcome = "none" /\ cursor \in 0..Len(geminiKeys) /\ cursor < Len(geminiKeys)
      /\ refused \in BOOLEAN /\ (~env.groq => refused) /\ result = << >>
      /\ answer \in [Candidate -> Answers]
  BY <1>1 DEF RerankInv, Phases, Turns, Saved
<1>5. baseline = RankCandidates(requirements, payload)
  BY <1>1 DEF RerankInv, Saved, Asked
<1>6. Sent(baseline) = << >> <=> aiCandidateLimit = 0
  <2>1. baseline \in [1..Size -> Results(requirements)]
    BY <1>2, <1>5, BaselineIs
  <2> QED
    BY <1>2, <2>1, CandidatesAre, SentIs DEF InputsAre
<1>7. Sent(baseline') = Sent(baseline)
  BY <1>1
<1>8. CASE attempt + 1 < Len(geminiKeys)
  <2>1. attempt' = attempt + 1 /\ pc' = pc /\ outcome' = outcome /\ result' = result
    BY <1>8 DEF GeminiFails
  <2>2. Phases'
    BY <2>1 DEF RerankInv, Phases
  <2>3. Saved'
    BY <1>1, <1>2, <1>4, <1>5, <2>1 DEF Saved, Asked
  <2>4. Turns'
    BY <1>1, <1>2, <1>3, <1>4, <1>8, <2>1 DEF Turns
  <2> QED
    BY <1>2, <2>2, <2>3, <2>4 DEF RerankInv
<1>9. CASE ~(attempt + 1 < Len(geminiKeys))
  <2>1. AskGroq
    BY <1>9 DEF GeminiFails
  <2>2. ToSet(tried') = ToSet(geminiKeys)
    BY <1>3, <1>9
  <2>3. CASE env.groq /\ aiCandidateLimit # 0
    <3>1. pc' = "groq" /\ attempt' = 0 /\ outcome' = outcome /\ result' = result
      BY <1>6, <1>7, <2>1, <2>3 DEF AskGroq
    <3>2. Phases'
      BY <1>4, <3>1 DEF Phases
    <3>3. Asked' /\ Saved'
      BY <1>1, <1>2, <1>4, <1>5, <3>1 DEF Saved, Asked
    <3>4. Turns'
      BY <1>1, <1>2, <1>3, <1>4, <2>2, <2>3, <3>1 DEF Turns
    <3> QED
      BY <1>2, <3>2, <3>3, <3>4 DEF RerankInv
  <2>4. CASE ~(env.groq /\ aiCandidateLimit # 0)
    <3>1. pc' = "ended" /\ attempt' = attempt /\ outcome' = "baseline" /\ result' = baseline'
      BY <1>6, <1>7, <2>1, <2>4 DEF AskGroq, End
    <3>2. Phases'
      BY <3>1 DEF Phases
    <3>3. Asked' /\ Saved'
      BY <1>1, <1>2, <1>4, <1>5, <3>1 DEF Saved, Asked, Ranked
    <3>4. aiCandidateLimit' = 0 \/ (refused' /\ ToSet(tried') = ToSet(geminiKeys'))
      BY <1>1, <1>2, <1>4, <2>2, <2>4
    <3>5. Turns'
      BY <1>1, <1>2, <1>3, <1>4, <3>1, <3>4 DEF Turns
    <3> QED
      BY <1>2, <3>2, <3>3, <3>5 DEF RerankInv
  <2> QED
    BY <2>3, <2>4
<1> QED
  BY <1>8, <1>9

(* What the theorems below rest on, in every reachable state. *)
THEOREM RerankInductive == Spec => []RerankInv
<1>1. RerankInv /\ UNCHANGED vars => RerankInv'
  <2> SUFFICES ASSUME RerankInv, UNCHANGED vars PROVE RerankInv'
    OBVIOUS
  <2>1. /\ UNCHANGED inputs /\ pc' = pc /\ cursor' = cursor /\ attempt' = attempt
        /\ baseline' = baseline /\ outcome' = outcome /\ result' = result
        /\ answer' = answer /\ tried' = tried /\ refused' = refused
    BY DEF vars
  <2>2. /\ InputsAre' /\ geminiKeys' = geminiKeys /\ env' = env
        /\ requirements' = requirements /\ payload' = payload
        /\ aiCandidateLimit' = aiCandidateLimit
    BY <2>1, InputsStay DEF RerankInv
  <2>3. Phases'
    BY <2>1 DEF RerankInv, Phases
  <2>4. Saved'
    <3>1. Asked' <=> Asked
      BY <2>1 DEF Asked, Ranked
    <3>2. Reranked(answer)' = Reranked(answer)
      BY <2>1, RerankedStays
    <3> QED
      BY <2>1, <2>2, <3>1, <3>2 DEF RerankInv, Saved
  <2>5. Turns'
    BY <2>1, <2>2 DEF RerankInv, Turns
  <2> QED
    BY <2>2, <2>3, <2>4, <2>5 DEF RerankInv
<1>2. RerankInv /\ Next => RerankInv'
  BY ScoreKeeps, ScoreFailsKeeps, GeminiFailsKeeps, GroqRetriesKeeps, GroqFailsKeeps,
     GeminiAnswersKeeps, GroqAnswersKeeps DEF Next
<1> QED
  BY <1>1, <1>2, InitRerank, PTL DEF Spec

-----------------------------------------------------------------------------
(* More years on the same side of the minimum, and more on every           *)
(* requirement, never score less; reaching the minimum gives 0.92 or more. *)
THEOREM BetterNeverScoresLessHolds == Spec => []BetterNeverScoresLess
<1>1. RerankInv => BetterNeverScoresLess
  <2> SUFFICES ASSUME RerankInv PROVE BetterNeverScoresLess
    OBVIOUS
  <2>1. requirements \in Requirements /\ InputsAre
    BY DEF RerankInv, InputsAre
  <2>2. ASSUME NEW k \in DOMAIN requirements, requirements[k].type = "experience"
        PROVE  MoreYearsNeverHurt(requirements[k])
    BY <2>1, <2>2, JobIs, YearsGrow
  <2>3. ASSUME NEW x \in ToSet(baseline), NEW y \in ToSet(baseline),
               \A k \in DOMAIN requirements : x.assessments[k].score >= y.assessments[k].score
        PROVE  x.score >= y.score
    <3>1. baseline = RankCandidates(requirements, payload)
      BY <2>3 DEF RerankInv, Saved, ToSet
    <3>2. /\ baseline \in [1..Size -> Results(requirements)] /\ DOMAIN baseline = 1..Size
          /\ \A k \in 1..Size : baseline[k].score
                                  = FinalScore(requirements, baseline[k].assessments)
      BY <2>1, <3>1, BaselineIs
    <3>3. /\ x \in Results(requirements) /\ x.score = FinalScore(requirements, x.assessments)
          /\ y \in Results(requirements) /\ y.score = FinalScore(requirements, y.assessments)
      BY <3>2 DEF ToSet
    <3> DEFINE a == x.assessments
               b == y.assessments
    <3>4. /\ a \in [DOMAIN requirements -> AssessmentSet]
          /\ b \in [DOMAIN requirements -> AssessmentSet]
      BY <3>3 DEF Results
    <3>5. \A k \in DOMAIN requirements : b[k].score \in Int /\ a[k].score \in Int
      BY <3>4 DEF AssessmentSet, Scores
    <3>6. \A k \in DOMAIN requirements : b[k].score <= a[k].score
      BY <2>3, <3>5
    <3> HIDE DEF a, b
    <3>7. FinalScore(requirements, b) <= FinalScore(requirements, a)
      BY <2>1, <3>4, <3>6, MeanGrows
    <3>8. x.score \in Nat /\ y.score \in Nat
      BY <3>3, FinalIs DEF Results
    <3> QED
      BY <3>3, <3>7, <3>8 DEF a, b
  <2> QED
    BY <2>2, <2>3 DEF BetterNeverScoresLess
<1> QED
  BY <1>1, RerankInductive, PTL

-----------------------------------------------------------------------------
(* The results that are saved, one of each candidate. *)
LEMMA ResultsAre ==
    ASSUME RerankInv, NEW s \in {baseline, result}, s # << >>
    PROVE  /\ s \in [1..Size -> Results(requirements)] /\ DOMAIN s = 1..Size
           /\ \A k, l \in 1..Size : s[k].id = s[l].id => k = l
           /\ \A c \in Candidate : \E k \in 1..Size : s[k].id = c
           /\ IsBaseline(requirements, Size)
           /\ baseline = RankCandidates(requirements, payload)
           /\ s = baseline \/ (s = Reranked(answer)
                                 /\ IsReranking(requirements, Size, answer, Reranked(answer)))
<1>1. InputsAre /\ requirements \in Requirements /\ Size \in Nat
  BY CandidatesAre DEF RerankInv, InputsAre
<1>2. outcome \notin {"none", "error"} \/ s = baseline
  BY DEF RerankInv, Saved
<1>3. Asked
  BY <1>2 DEF RerankInv, Saved, Phases, Asked, Ranked
<1>4. baseline = RankCandidates(requirements, payload)
  BY <1>3 DEF RerankInv, Saved
<1>5. /\ baseline \in [1..Size -> Results(requirements)] /\ DOMAIN baseline = 1..Size
      /\ \A k \in 1..Size : baseline[k].id \in Candidate
      /\ \A c \in Candidate : \E k \in 1..Size : baseline[k].id = c
      /\ \A k, l \in 1..Size : baseline[k].id = baseline[l].id => k = l
  BY <1>1, <1>4, BaselineIs
<1>6. IsBaseline(requirements, Size)
  BY <1>5 DEF IsBaseline
<1>7. CASE s = baseline
  BY <1>4, <1>5, <1>6, <1>7
<1>8. CASE s # baseline
  <2>1. s = Reranked(answer)
    BY <1>2, <1>8 DEF RerankInv, Saved, Phases
  <2>2. answer \in [Candidate -> Answers]
    BY DEF RerankInv, Saved
  <2>3. \A k \in 1..Size : answer[baseline[k].id] \in Answers
    BY <1>5, <2>2
  <2>4. IsReranking(requirements, Size, answer, Reranked(answer))
    BY <1>1, <1>6, <2>3, RerankedIs
  <2>5. /\ s \in [1..Size -> Results(requirements)]
        /\ \A i \in 1..Size : \E k \in 1..Size : s[k].id = baseline[i].id
        /\ \A k, l \in 1..Size : s[k].id = s[l].id => k = l
    BY <2>1, <2>4 DEF IsReranking
  <2>6. ASSUME NEW c \in Candidate PROVE \E k \in 1..Size : s[k].id = c
    <3>1. PICK i \in 1..Size : baseline[i].id = c
      BY <1>5
    <3> QED
      BY <2>5, <3>1
  <2> QED
    BY <1>4, <1>6, <2>1, <2>4, <2>5, <2>6
<1> QED
  BY <1>7, <1>8

(* The types, the ranges of the results and the attempts among them. *)
LEMMA TypesHold == RerankInv => TypeOK
<1> SUFFICES ASSUME RerankInv PROVE TypeOK
  OBVIOUS
<1>1. /\ InputsAre /\ requirements \in Requirements /\ env \in Environment
      /\ refused \in BOOLEAN /\ pc \in {"score", "gemini", "groq", "ended"}
      /\ cursor \in 0..Len(geminiKeys) /\ attempt \in Nat
      /\ pc = "gemini" => attempt < Len(geminiKeys)
      /\ pc = "groq" => attempt < 3
      /\ outcome \in {"none", "error", "gemini", "groq", "baseline"}
      /\ tried \in Seq(STRING) /\ ToSet(tried) \subseteq ToSet(geminiKeys)
  BY DEF RerankInv, InputsAre, Phases, Turns
<1>2. payload \in Seq(Entry) /\ Cardinality(Ids(payload)) = Len(payload)
  BY <1>1, IdsAre, CandidatesAre DEF Size
<1>3. ASSUME NEW s \in {baseline, result}, NEW k \in DOMAIN s
      PROVE  IsResult(s[k])
  <2>1. s # << >>
    BY <1>3
  <2>2. s[k] \in Results(requirements)
    <3>1. s \in [1..Size -> Results(requirements)] /\ DOMAIN s = 1..Size
      BY <2>1, ResultsAre
    <3> QED
      BY <1>3, <3>1
  <2>3. Ids(payload) = Candidate
    BY <1>1, IdsAre
  <2>4. \A j \in DOMAIN s[k].assessments : s[k].assessments[j].score \in Scores
    BY <2>2 DEF Results, AssessmentSet
  <2> QED
    BY <2>2, <2>3, <2>4 DEF IsResult, Results
<1>4. tried \in Seq(ToSet(geminiKeys))
  <2>1. Len(tried) \in Nat /\ DOMAIN tried = 1..Len(tried)
    BY <1>1
  <2>2. \A k \in 1..Len(tried) : tried[k] \in ToSet(geminiKeys)
    BY <1>1, <2>1 DEF ToSet
  <2>3. tried = [k \in 1..Len(tried) |-> tried[k]]
    BY <1>1, <2>1
  <2> QED
    BY <2>1, <2>2, <2>3
<1> QED
  BY <1>1, <1>2, <1>3, <1>4 DEF TypeOK

(* rankJob asks each key once and in turn, Groq after the last one,        *)
(* and keeps the baseline only when nobody can help.                       *)
THEOREM ProvidersInTurnHolds == Spec => []ProvidersInTurn
<1>1. RerankInv => ProvidersInTurn
  <2> SUFFICES ASSUME RerankInv PROVE ProvidersInTurn
    OBVIOUS
  <2>1. /\ tried \in Seq(STRING) /\ ToSet(tried) \subseteq ToSet(geminiKeys) /\ Distinct(tried)
        /\ pc = "groq" \/ outcome = "groq" => env.groq /\ ToSet(tried) = ToSet(geminiKeys)
        /\ outcome = "gemini" => geminiKeys # << >>
        /\ outcome = "baseline" =>
             \/ aiCandidateLimit = 0
             \/ refused /\ ToSet(tried) = ToSet(geminiKeys)
    BY DEF RerankInv, Turns
  <2>2. geminiKeys \in Seq(STRING)
    BY KeysAre DEF RerankInv, InputsAre
  <2>3. IsInjective(tried)
    <3>1. DOMAIN tried = 1..Len(tried)
      BY <2>1
    <3> QED
      BY <2>1, <3>1 DEF IsInjective, Distinct
  <2>4. (tried = << >> <=> ToSet(tried) = {}) /\ (geminiKeys = << >> <=> ToSet(geminiKeys) = {})
    BY <2>1, <2>2, NoElements
  <2>5. pc = "groq" /\ tried = << >> => aiRerankStatus = "groq"
    BY <2>1, <2>4 DEF aiRerankStatus
  <2>6. tried # << >> \/ outcome \in {"gemini", "groq"} => aiRerankStatus # "none"
    BY <2>1, <2>4 DEF aiRerankStatus
  <2> QED
    BY <2>1, <2>3, <2>5, <2>6, TypesHold DEF ProvidersInTurn
<1> QED
  BY <1>1, RerankInductive, PTL

-----------------------------------------------------------------------------
(* A candidate is at one place of what is saved. *)
LEMMA OfPlace ==
    ASSUME RerankInv, NEW s \in {baseline, result}, s # << >>, NEW k \in 1..Size
    PROVE  Of(s, s[k].id) = s[k]
<1>1. DOMAIN s = 1..Size /\ \A i, j \in 1..Size : s[i].id = s[j].id => i = j
  BY ResultsAre
<1>2. (CHOOSE j \in DOMAIN s : s[j].id = s[k].id) = k
  BY <1>1
<1> QED
  BY <1>2 DEF Of

(* Two CVs that changed places with another upload: they score the same,   *)
(* and their ids changed places.                                           *)
LEMMA OnlyTies ==
    ASSUME RerankInv, baseline # << >>,
           NEW p \in Bijection(DOMAIN payload, DOMAIN payload),
           NEW k \in DOMAIN payload, NEW l \in DOMAIN payload,
           NEW c, c = payload[p[k]].id, NEW d, d = payload[p[l]].id,
           Ahead(baseline, c, d),
           Ahead(RankCandidates(requirements, Uploaded(p)), payload[l].id, payload[k].id)
    PROVE  /\ Of(baseline, c).score = Of(baseline, d).score
           /\ Of(baseline, c).confidence = Of(baseline, d).confidence
           /\ c < d /\ payload[l].id < payload[k].id
<1> DEFINE n == Size
           u == Uploaded(p)
           again == RankCandidates(requirements, u)
           scored(x) == ScoreCandidate(requirements, x)
<1>1. /\ n \in Nat /\ requirements \in Requirements /\ InputsAre
      /\ IsPayload(n, payload) /\ DOMAIN payload = 1..n
      /\ payload \in [1..n -> Entry]
  BY IdsAre, CandidatesAre DEF RerankInv, InputsAre
<1>2. p[k] \in 1..n /\ p[l] \in 1..n /\ k \in 1..n /\ l \in 1..n /\ \A i \in 1..n : p[i] \in 1..n
  BY <1>1 DEF Bijection, Injection
<1>3. /\ u \in [1..n -> Entry] /\ DOMAIN u = 1..n
      /\ \A i \in 1..n : u[i].id = payload[i].id /\ u[i].profile = payload[p[i]].profile
  BY <1>1, <1>2 DEF Uploaded, Entry
<1>4. IsPayload(n, u)
  BY <1>1, <1>3 DEF IsPayload
<1>5. baseline = RankCandidates(requirements, payload) /\ DOMAIN baseline = 1..n
  BY ResultsAre
<1> HIDE DEF u, n
<1>6. IsRanking(requirements, n, payload, baseline) /\ IsRanking(requirements, n, u, again)
  BY <1>1, <1>4, <1>5, RankedIs
<1>7. DOMAIN again = 1..n
  BY <1>6 DEF IsRanking
<1>8. PICK i \in 1..n, j \in 1..n : i < j /\ baseline[i].id = c /\ baseline[j].id = d
  BY <1>5 DEF Ahead
<1>9. PICK g \in 1..n, h \in 1..n :
        g < h /\ again[g].id = payload[l].id /\ again[h].id = payload[k].id
  BY <1>7 DEF Ahead, u
<1>10. baseline[i] = scored(payload[p[k]]) /\ baseline[j] = scored(payload[p[l]])
  <2>1. /\ RankCandidates(requirements, payload)[i].id = payload[p[k]].id
        /\ RankCandidates(requirements, payload)[j].id = payload[p[l]].id
    BY <1>5, <1>8
  <2>2. /\ RankCandidates(requirements, payload)[i] = scored(payload[p[k]])
        /\ RankCandidates(requirements, payload)[j] = scored(payload[p[l]])
    <3>1. \A f, e \in 1..n :
            RankCandidates(requirements, payload)[f].id = payload[e].id =>
                RankCandidates(requirements, payload)[f] = ScoreCandidate(requirements, payload[e])
      BY <1>1, RankedOf
    <3> QED
      BY <1>2, <2>1, <3>1
  <2> QED
    BY <1>5, <2>2
<1>11. again[g] = scored(u[l]) /\ again[h] = scored(u[k])
  <2>1. again[g].id = u[l].id /\ again[h].id = u[k].id
    BY <1>2, <1>3, <1>9
  <2> QED
    BY <1>1, <1>2, <1>4, <2>1, RankedOf
<1>12. /\ again[g].score = baseline[j].score /\ again[g].confidence = baseline[j].confidence
       /\ again[h].score = baseline[i].score /\ again[h].confidence = baseline[i].confidence
  <2>1. /\ u[l] \in Entry /\ u[k] \in Entry /\ payload[p[l]] \in Entry /\ payload[p[k]] \in Entry
        /\ u[l].profile = payload[p[l]].profile /\ u[k].profile = payload[p[k]].profile
    BY <1>1, <1>2, <1>3
  <2>2. /\ scored(u[l]).score = scored(payload[p[l]]).score
        /\ scored(u[l]).confidence = scored(payload[p[l]]).confidence
        /\ scored(u[k]).score = scored(payload[p[k]]).score
        /\ scored(u[k]).confidence = scored(payload[p[k]]).confidence
    BY <1>1, <2>1, ProfileDecides
  <2> HIDE DEF scored, again
  <2> QED
    BY <1>10, <1>11, <2>2
<1>13. Before(baseline[i], baseline[j]) /\ Before(again[g], again[h])
  BY <1>6, <1>8, <1>9 DEF IsRanking
<1>14. \A x \in {baseline[i], baseline[j]} : x.score \in Nat /\ x.confidence \in Nat
  <2>1. baseline[i] \in Results(requirements) /\ baseline[j] \in Results(requirements)
    BY <1>6 DEF IsRanking
  <2> QED
    BY <2>1, FinalIs DEF Results
<1>15. Of(baseline, c) = baseline[i] /\ Of(baseline, d) = baseline[j]
  BY <1>8, OfPlace DEF n
<1> HIDE DEF again
<1> QED
  BY <1>8, <1>9, <1>12, <1>13, <1>14, <1>15 DEF Before

(* rank_candidates returns the same ranking in whatever order the          *)
(* candidates are sent, and the order of the upload, which gives them      *)
(* their ids, decides between equals only: for every set of candidates.    *)
THEOREM UploadDecidesTiesOnlyHolds == Spec => []UploadDecidesTiesOnly
<1>1. RerankInv => UploadDecidesTiesOnly
  <2> SUFFICES ASSUME RerankInv, baseline # << >>,
                      NEW p \in Bijection(DOMAIN payload, DOMAIN payload)
               PROVE  /\ RankCandidates(requirements, [k \in DOMAIN payload |-> payload[p[k]]])
                           = baseline
                      /\ \A k, l \in DOMAIN payload :
                           Ahead(baseline, payload[p[k]].id, payload[p[l]].id)
                           /\ Ahead(RankCandidates(requirements, Uploaded(p)),
                                    payload[l].id, payload[k].id) =>
                             /\ Of(baseline, payload[p[k]].id).score
                                  = Of(baseline, payload[p[l]].id).score
                             /\ Of(baseline, payload[p[k]].id).confidence
                                  = Of(baseline, payload[p[l]].id).confidence
                             /\ payload[p[k]].id < payload[p[l]].id
                             /\ payload[l].id < payload[k].id
    BY DEF UploadDecidesTiesOnly
  <2>1. baseline = RankCandidates(requirements, payload)
    BY DEF RerankInv, Saved
  <2>2. /\ requirements \in Requirements /\ Size \in Nat /\ IsPayload(Size, payload)
        /\ DOMAIN payload = 1..Size
    BY IdsAre, CandidatesAre DEF RerankInv, InputsAre
  <2>3. p \in Bijection(1..Size, 1..Size)
    BY <2>2
  <2>4. RankCandidates(requirements, [k \in DOMAIN payload |-> payload[p[k]]]) = baseline
    BY <2>1, <2>2, <2>3, OrderOfPayload
  <2> QED
    BY <2>4, OnlyTies
<1> QED
  BY <1>1, RerankInductive, PTL

(* Two candidates that changed places: the answer raised the one that is   *)
(* now ahead, or lowered the other.                                        *)
LEMMA OrderIsOfAnswer ==
    ASSUME RerankInv, result # << >>,
           NEW c \in Candidate, NEW d \in Candidate, Ahead(baseline, c, d), Ahead(result, d, c)
    PROVE  \/ /\ answer[d] # NoRemark
              /\ \/ Of(result, d).score > Of(baseline, d).score
                 \/ Of(result, d).confidence > Of(baseline, d).confidence
           \/ /\ answer[c] # NoRemark
              /\ \/ Of(result, c).score < Of(baseline, c).score
                 \/ Of(result, c).confidence < Of(baseline, c).confidence
<1> DEFINE n == Size
<1>1. PICK i \in DOMAIN baseline, j \in DOMAIN baseline :
        i < j /\ baseline[i].id = c /\ baseline[j].id = d
  BY DEF Ahead
<1>2. PICK k \in DOMAIN result, l \in DOMAIN result :
        k < l /\ result[k].id = d /\ result[l].id = c
  BY DEF Ahead
<1>3. baseline # << >>
  BY <1>1
<1>4. /\ n \in Nat /\ requirements \in Requirements /\ InputsAre
      /\ answer \in [Candidate -> Answers]
  BY CandidatesAre DEF RerankInv, InputsAre, Saved
<1>5. /\ DOMAIN baseline = 1..n /\ DOMAIN result = 1..n
      /\ baseline \in [1..n -> Results(requirements)]
      /\ result \in [1..n -> Results(requirements)]
      /\ \A g, h \in 1..n : baseline[g].id = baseline[h].id => g = h
      /\ IsBaseline(requirements, n)
      /\ result = baseline \/ (result = Reranked(answer)
                                 /\ IsReranking(requirements, n, answer, Reranked(answer)))
      /\ baseline = RankCandidates(requirements, payload)
  BY <1>3, ResultsAre
<1>6. /\ i \in 1..n /\ j \in 1..n /\ k \in 1..n /\ l \in 1..n
      /\ i \in Nat /\ j \in Nat /\ k \in Nat /\ l \in Nat
  BY <1>1, <1>2, <1>5
<1>7. result # baseline
  <2> SUFFICES ASSUME result = baseline PROVE FALSE
    OBVIOUS
  <2>1. k = j /\ l = i
    BY <1>1, <1>2, <1>5, <1>6
  <2> QED
    BY <1>1, <1>2, <1>6, <2>1
<1>8. IsReranking(requirements, n, answer, result)
  BY <1>5, <1>7
<1>9. Before(baseline[i], baseline[j])
  BY <1>1, <1>4, <1>5, <1>6, BaselineIs
<1>10. RerankBefore(result[k], result[l])
  BY <1>2, <1>6, <1>8 DEF IsReranking
<1>11. /\ result[k] = Merged(baseline[j], answer[d])
       /\ result[l] = Merged(baseline[i], answer[c])
  <2>1. \A g \in 1..n : \E h \in 1..n : result[g] = Merged(baseline[h], answer[baseline[h].id])
    BY <1>8 DEF IsReranking
  <2>2. \A h \in 1..n : Merged(baseline[h], answer[baseline[h].id]).id = baseline[h].id
    <3> TAKE h \in 1..n
    <3>1. baseline[h] \in Results(requirements)
      BY <1>5
    <3>2. answer[baseline[h].id] \in Answers
      BY <1>4, <3>1 DEF Results
    <3> QED
      BY <1>4, <3>1, <3>2, MergedIs
  <2>3. PICK g \in 1..n : result[k] = Merged(baseline[g], answer[baseline[g].id])
    BY <1>6, <2>1
  <2>4. PICK h \in 1..n : result[l] = Merged(baseline[h], answer[baseline[h].id])
    BY <1>6, <2>1
  <2>5. baseline[g].id = d /\ baseline[h].id = c
    BY <1>2, <2>2, <2>3, <2>4
  <2>6. g = j /\ h = i
    BY <1>1, <1>5, <1>6, <2>5
  <2> QED
    BY <2>3, <2>4, <2>5, <2>6
<1> DEFINE place(z) == CHOOSE g \in DOMAIN baseline : baseline[g].id = z.id
<1>12. place(result[k]) = j /\ place(result[l]) = i
  <2>1. /\ (CHOOSE g \in DOMAIN baseline : baseline[g].id = baseline[j].id) = j
        /\ (CHOOSE g \in DOMAIN baseline : baseline[g].id = baseline[i].id) = i
    BY <1>4, <1>5, <1>6, PlaceIs
  <2> QED
    BY <1>1, <1>2, <2>1
<1>13. \/ result[k].score > result[l].score
       \/ result[k].score = result[l].score /\ result[k].confidence > result[l].confidence
  <2>1. \/ result[k].score > result[l].score
        \/ result[k].score = result[l].score /\ result[k].confidence > result[l].confidence
        \/ place(result[k]) < place(result[l])
    BY <1>10 DEF RerankBefore
  <2>2. ~(j < i)
    BY <1>1, <1>6
  <2>3. ~(place(result[k]) < place(result[l]))
    BY <1>12, <2>2, Zenon
  <2> HIDE DEF place
  <2> QED
    BY <2>1, <2>3
<1> HIDE DEF place
<1>14. /\ Of(result, d) = result[k] /\ Of(result, c) = result[l]
       /\ Of(baseline, d) = baseline[j] /\ Of(baseline, c) = baseline[i]
  BY <1>1, <1>2, <1>3, <1>6, OfPlace
<1>15. \A x \in {result[k], result[l], baseline[i], baseline[j]} :
         x.score \in Nat /\ x.confidence \in Nat
  <2>1. \A x \in Results(requirements) : x.score \in Nat /\ x.confidence \in Nat
    BY FinalIs DEF Results
  <2> QED
    BY <1>5, <1>6, <2>1
<1>16. \/ baseline[i].score > baseline[j].score
       \/ /\ baseline[i].score = baseline[j].score
          /\ baseline[i].confidence >= baseline[j].confidence
  BY <1>9, <1>15 DEF Before
<1>17. \/ result[k].score > baseline[j].score
       \/ result[k].confidence > baseline[j].confidence
       \/ result[l].score < baseline[i].score
       \/ result[l].confidence < baseline[i].confidence
  BY <1>13, <1>15, <1>16
<1>18. /\ answer[d] = NoRemark => result[k] = baseline[j]
       /\ answer[c] = NoRemark => result[l] = baseline[i]
  <2>1. /\ baseline[i] \in Results(requirements) /\ baseline[j] \in Results(requirements)
        /\ answer[c] \in Answers /\ answer[d] \in Answers
    BY <1>4, <1>5, <1>6
  <2> QED
    BY <1>4, <1>11, <2>1, MergedIs
<1>19. CASE result[k].score > baseline[j].score \/ result[k].confidence > baseline[j].confidence
  <2>1. answer[d] # NoRemark
    BY <1>15, <1>18, <1>19
  <2> QED
    BY <1>14, <1>19, <2>1
<1>20. CASE result[l].score < baseline[i].score \/ result[l].confidence < baseline[i].confidence
  <2>1. answer[c] # NoRemark
    BY <1>15, <1>18, <1>20
  <2> QED
    BY <1>14, <1>20, <2>1
<1> QED
  BY <1>17, <1>19, <1>20

(* Whatever the model answers, each candidate is ranked once, and those    *)
(* the answer leaves alone keep the baseline's order.                      *)
THEOREM ModelOnlyReordersHolds == Spec => []ModelOnlyReorders
<1>1. RerankInv => ModelOnlyReorders
  <2> SUFFICES ASSUME RerankInv, Ranked PROVE ModelOnlyReorders
    BY DEF ModelOnlyReorders
  <2>1. InputsAre /\ Size \in Nat \ {0} /\ requirements \in Requirements
    BY CandidatesAre DEF RerankInv, InputsAre
  <2>2. /\ baseline = RankCandidates(requirements, payload)
        /\ result = baseline \/ result = Reranked(answer)
        /\ outcome \in {"gemini", "groq"} => result = Reranked(answer)
        /\ answer \in [Candidate -> Answers]
    BY DEF RerankInv, Saved, Asked, Ranked
  <2>3. /\ baseline \in [1..Size -> Results(requirements)]
        /\ \A k \in 1..Size : baseline[k].id \in Candidate
        /\ \A k, l \in 1..Size : baseline[k].id = baseline[l].id => k = l
        /\ \A k, l \in 1..Size : k < l => Before(baseline[k], baseline[l])
    BY <2>1, <2>2, BaselineIs
  <2>4. IsReranking(requirements, Size, answer, Reranked(answer))
    <3>1. IsBaseline(requirements, Size)
      BY <2>3 DEF IsBaseline
    <3>2. \A k \in 1..Size : answer[baseline[k].id] \in Answers
      BY <2>2, <2>3
    <3> QED
      BY <2>1, <3>1, <3>2, RerankedIs
  <2>5. result \in [1..Size -> Results(requirements)]
    BY <2>2, <2>3, <2>4 DEF IsReranking
  <2>6. result # << >> /\ Len(result) = Size /\ DOMAIN result = 1..Size
    BY <2>1, <2>5
  <2>7. Ids(result) = Candidate
    <3>1. Ids(result) \subseteq Candidate
      BY <2>5 DEF Ids, Results
    <3>2. \A c \in Candidate : \E k \in 1..Size : result[k].id = c
      BY <2>6, ResultsAre
    <3> QED
      BY <2>6, <3>1, <3>2 DEF Ids
  <2>8. \A k, l \in DOMAIN result : k < l => result[k].score >= result[l].score
    <3> SUFFICES ASSUME NEW k \in 1..Size, NEW l \in 1..Size, k < l
                 PROVE  result[k].score >= result[l].score
      BY <2>6
    <3>1. result[k].score \in Nat /\ result[l].score \in Nat
      BY <2>5, FinalIs DEF Results
    <3>2. CASE result = baseline
      BY <2>3, <3>1, <3>2 DEF Before
    <3>3. CASE result = Reranked(answer)
      <4>1. RerankBefore(result[k], result[l])
        BY <2>4, <3>3 DEF IsReranking
      <4> QED
        BY <3>1, <4>1 DEF RerankBefore
    <3> QED
      BY <2>2, <3>2, <3>3
  <2>9. Ids(payload) = Candidate /\ Len(payload) = Size
    BY <2>1, IdsAre
  <2>10. \A c, d \in Candidate :
           Ahead(baseline, c, d) /\ Ahead(result, d, c) =>
             \/ /\ answer[d] # NoRemark
                /\ \/ Of(result, d).score > Of(baseline, d).score
                   \/ Of(result, d).confidence > Of(baseline, d).confidence
             \/ /\ answer[c] # NoRemark
                /\ \/ Of(result, c).score < Of(baseline, c).score
                   \/ Of(result, c).confidence < Of(baseline, c).confidence
    BY <2>6, OrderIsOfAnswer
  <2> QED
    BY <2>6, <2>7, <2>8, <2>9, <2>10 DEF ModelOnlyReorders
<1> QED
  BY <1>1, RerankInductive, PTL
=============================================================================
