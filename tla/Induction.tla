------------------------------- MODULE Induction -------------------------------
(***************************************************************************)
(* Induction over the natural numbers, and the functions that are defined  *)
(* by recursion over them, with sets and functions in the place of the     *)
(* operators that such theorems usually have as parameters: so stated they *)
(* can be cited like any other fact.  They rest on the theorem that "<" is *)
(* well-founded on Nat.                                                    *)
(***************************************************************************)
EXTENDS FiniteSetTheorems, SequenceTheorems, TLAPS

(* A set of natural numbers has a least element.                           *)
LEMMA LeastNumber ==
  ASSUME NEW T, T \subseteq Nat, T # {}
  PROVE  \E n \in T : \A m \in T : n <= m
<1> DEFINE R == OpToRel(<, Nat)
<1>1. IsWellFoundedOn(R, Nat)
  BY NatLessThanWellFounded
<1>2. \A x, y \in Nat : x < y => <<x, y>> \in R
  BY DEF OpToRel
<1> HIDE DEF R
<1>3. PICK n \in T : \A m \in T : ~(<<m, n>> \in R)
  BY <1>1, WFMin
<1>4. \A m \in T : ~(m < n)
  BY <1>2, <1>3
<1> QED BY <1>4

(* A set that has 0, and with every number the next, has all numbers.      *)
LEMMA InductionOverNat ==
  ASSUME NEW T, 0 \in T, \A n \in Nat : n \in T => n + 1 \in T
  PROVE  Nat \subseteq T
<1> SUFFICES ASSUME Nat \ T # {} PROVE FALSE
  OBVIOUS
<1>1. PICK n \in Nat \ T : \A m \in Nat \ T : n <= m
  BY LeastNumber
<1>2. n # 0 /\ n - 1 \in Nat
  BY <1>1
<1>3. n - 1 \in T
  BY <1>1, <1>2
<1> QED BY <1>1, <1>2, <1>3

(* A bounded set of natural numbers has a greatest element.                *)
LEMMA GreatestNumber ==
  ASSUME NEW T, T \subseteq Nat, T # {}, NEW b \in Nat, \A n \in T : n <= b
  PROVE  \E n \in T : \A m \in T : m <= n
<1> DEFINE U == {b - n : n \in T}
<1>1. U \subseteq Nat /\ U # {}
  <2>1. \A n \in T : b - n \in Nat
    OBVIOUS
  <2> QED BY <2>1
<1>2. PICK u \in U : \A v \in U : u <= v
  <2> HIDE DEF U
  <2> QED BY <1>1, LeastNumber
<1>3. PICK n \in T : u = b - n
  OBVIOUS
<1>4. ASSUME NEW m \in T
      PROVE  m <= n
  <2>1. b - m \in U
    OBVIOUS
  <2>2. b - n <= b - m
    BY <1>2, <1>3, <2>1
  <2> QED BY <2>2
<1> QED BY <1>4

(* f is what starts with base and makes n steps.                           *)
IsIteration(f, n, base, step) ==
  f = [i \in 0 .. n |-> IF i = 0 THEN base ELSE step[i][f[i - 1]]]

(* Steps that stay in a set can be iterated, and the results stay there.   *)
LEMMA IterationExists ==
  ASSUME NEW n \in Nat, NEW S, NEW base \in S, NEW step \in [1 .. n -> [S -> S]]
  PROVE  \E f \in [0 .. n -> S] : IsIteration(f, n, base, step)
<1> DEFINE Good(f, k) == f[0] = base /\ \A i \in 1 .. k : f[i] = step[i][f[i - 1]]
           T == {k \in Nat : k <= n => \E f \in [0 .. k -> S] : Good(f, k)}
<1>1. 0 \in T
  <2>1. [i \in 0 .. 0 |-> base] \in [0 .. 0 -> S] /\ [i \in 0 .. 0 |-> base][0] = base
    OBVIOUS
  <2>2. PICK f \in [0 .. 0 -> S] : f[0] = base
    BY <2>1
  <2>3. Good(f, 0)
    BY <2>2
  <2> HIDE DEF Good
  <2> QED BY <2>3
<1>2. ASSUME NEW k \in Nat, k \in T, k + 1 <= n
      PROVE  \E f \in [0 .. k + 1 -> S] : Good(f, k + 1)
  <2>1. PICK f \in [0 .. k -> S] : Good(f, k)
    BY <1>2
  <2>2. k + 1 \in 1 .. n /\ f[k] \in S /\ step[k + 1][f[k]] \in S
    BY <1>2
  <2> DEFINE g == [i \in 0 .. k + 1 |-> IF i = k + 1 THEN step[k + 1][f[k]] ELSE f[i]]
  <2>3. g \in [0 .. k + 1 -> S]
    BY <2>2
  <2>4. g[0] = base
    BY <2>1
  <2>5. ASSUME NEW i \in 1 .. k + 1
        PROVE  g[i] = step[i][g[i - 1]]
    <3>1. CASE i = k + 1
      BY <3>1
    <3>2. CASE i # k + 1
      BY <2>1, <3>2
    <3> QED BY <3>1, <3>2
  <2> HIDE DEF g
  <2> QED BY <2>3, <2>4, <2>5
<1>3. n \in T
  <2>1. \A k \in Nat : k \in T => k + 1 \in T
    <3> HIDE DEF Good
    <3> QED BY <1>2
  <2> HIDE DEF T
  <2> QED BY <1>1, <2>1, InductionOverNat
<1>4. PICK f \in [0 .. n -> S] : Good(f, n)
  BY <1>3
<1>5. f = [i \in 0 .. n |-> IF i = 0 THEN base ELSE step[i][f[i - 1]]]
  BY <1>4
<1> QED BY <1>5 DEF IsIteration

(* What starts equal and stays equal from step to step is equal.           *)
StaysEqual(f, g, n) ==
  f[0] = g[0] /\ \A i \in 1 .. n : f[i - 1] = g[i - 1] => f[i] = g[i]

LEMMA SameIteration ==
  ASSUME NEW n \in Nat, NEW f, NEW g, StaysEqual(f, g, n)
  PROVE  \A i \in 0 .. n : f[i] = g[i]
<1> DEFINE T == {i \in Nat : i <= n => f[i] = g[i]}
<1>1. 0 \in T
  BY DEF StaysEqual
<1>2. ASSUME NEW i \in Nat, i \in T, i + 1 <= n
      PROVE  f[i + 1] = g[i + 1]
  <2>1. i + 1 \in 1 .. n /\ (i + 1) - 1 = i /\ f[i] = g[i]
    BY <1>2
  <2> QED BY <2>1 DEF StaysEqual
<1>3. \A i \in Nat : i \in T => i + 1 \in T
  BY <1>2
<1>4. Nat \subseteq T
  <2> HIDE DEF T
  <2> QED BY <1>1, <1>3, InductionOverNat
<1> QED BY <1>4

(* A set that has the empty sequence, and with every sequence those with   *)
(* one element more, has all sequences.                                    *)
LEMMA InductionOverSequences ==
  ASSUME NEW S, NEW P, <<>> \in P,
         \A s \in Seq(S) : \A a \in S : s \in P => Append(s, a) \in P
  PROVE  Seq(S) \subseteq P
<1> DEFINE T == {n \in Nat : \A s \in Seq(S) : Len(s) = n => s \in P}
<1>1. 0 \in T
  <2>1. \A s \in Seq(S) : Len(s) = 0 => s = <<>>
    OBVIOUS
  <2> QED BY <2>1
<1>2. ASSUME NEW n \in Nat, n \in T, NEW s \in Seq(S), Len(s) = n + 1
      PROVE  s \in P
  <2>1. s # <<>>
    BY <1>2
  <2>2. PICK r \in Seq(S), a \in S : s = Append(r, a)
    BY <2>1, SequenceEmptyOrAppend
  <2>3. Len(r) = n
    BY <1>2, <2>2, AppendProperties
  <2> QED BY <1>2, <2>2, <2>3
<1>3. \A n \in Nat : n \in T => n + 1 \in T
  BY <1>2
<1>4. Nat \subseteq T
  <2> HIDE DEF T
  <2> QED BY <1>1, <1>3, InductionOverNat
<1>5. \A s \in Seq(S) : Len(s) \in Nat
  OBVIOUS
<1> QED BY <1>4, <1>5

-----------------------------------------------------------------------------
(* Counting                                                                *)

(* Sets between which a function goes one to one have as many elements.    *)
LEMMA SameCardinality ==
  ASSUME NEW S, NEW T, NEW f \in [S -> T], IsFiniteSet(S),
         \A x, y \in S : f[x] = f[y] => x = y,
         \A t \in T : \E s \in S : f[s] = t
  PROVE  IsFiniteSet(T) /\ Cardinality(T) = Cardinality(S)
<1>1. f \in Bijection(S, T)
  BY DEF Bijection, Injection, IsInjective, Surjection
<1> QED BY <1>1, FS_Bijection DEF ExistsBijection

(* The next power of two: twice as many subsets.                           *)
LEMMA PowerDoubles ==
  ASSUME NEW n \in Nat
  PROVE  2^n \in Nat /\ 2^(n + 1) = 2 * 2^n
<1> DEFINE S == 1 .. n
           T == 1 .. n + 1
           Old == SUBSET S
           New == {A \cup {n + 1} : A \in Old}
<1>1. IsFiniteSet(S) /\ Cardinality(S) = n /\ IsFiniteSet(T) /\ Cardinality(T) = n + 1
  BY FS_Interval
<1>2. /\ IsFiniteSet(Old) /\ Cardinality(Old) = 2^n
      /\ Cardinality(SUBSET T) = 2^(n + 1)
  BY <1>1, FS_SUBSET
<1>3. 2^n \in Nat
  BY <1>2, FS_CardinalityType
<1>4. IsFiniteSet(New) /\ Cardinality(New) = Cardinality(Old)
  <2> DEFINE f == [A \in Old |-> A \cup {n + 1}]
  <2>1. f \in [Old -> New] /\ \A t \in New : \E A \in Old : f[A] = t
    OBVIOUS
  <2>2. ASSUME NEW A \in Old, NEW B \in Old, f[A] = f[B]
        PROVE  A = B
    <3>1. n + 1 \notin A /\ n + 1 \notin B
      OBVIOUS
    <3> QED BY <2>2, <3>1
  <2> HIDE DEF f, Old, New
  <2> QED BY <1>2, <2>1, <2>2, SameCardinality
<1>5. SUBSET T = Old \cup New /\ Old \cap New = {}
  <2>1. T = S \cup {n + 1} /\ n + 1 \notin S
    OBVIOUS
  <2>2. ASSUME NEW B \in SUBSET T, n + 1 \in B
        PROVE  B \in New
    <3>1. B \ {n + 1} \in Old /\ B = (B \ {n + 1}) \cup {n + 1}
      BY <2>1, <2>2
    <3> QED BY <3>1
  <2>3. \A B \in SUBSET T : n + 1 \notin B => B \in Old
    BY <2>1
  <2>4. Old \subseteq SUBSET T /\ \A A \in Old : n + 1 \notin A
    BY <2>1
  <2>5. New \subseteq SUBSET T /\ \A B \in New : n + 1 \in B
    BY <2>1
  <2> HIDE DEF S, T, Old, New
  <2> QED BY <2>2, <2>3, <2>4, <2>5
<1> HIDE DEF S, T, Old, New
<1>6. Cardinality(SUBSET T) = Cardinality(Old) + Cardinality(New) - 0
  <2>1. IsFiniteSet(Old) /\ IsFiniteSet(New)
    BY <1>2, <1>4
  <2>2. Cardinality(Old \cup New)
          = Cardinality(Old) + Cardinality(New) - Cardinality(Old \cap New)
    BY <2>1, FS_Union
  <2>3. Cardinality(Old \cap New) = 0
    BY <1>5, FS_EmptySet
  <2> QED BY <1>5, <2>2, <2>3
<1> QED BY <1>2, <1>3, <1>4, <1>6

=============================================================================
