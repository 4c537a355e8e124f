------------------------------ MODULE FoldLemmas ------------------------------
(***************************************************************************)
(* Facts about folds over sequences, and the induction they rest on: a set *)
(* of numbers that has 0 and with each number the next one is Nat.  What   *)
(* is folded is a parameter: a module that folds takes them with INSTANCE. *)
(***************************************************************************)
EXTENDS Integers, Sequences, SequencesExt, WellFoundedInduction, TLAPS

CONSTANTS
    Op(_, _),   \* what each element does to the result so far
    Base        \* the result of no elements

-----------------------------------------------------------------------------
\* Numbers have a least one: the order of Nat is well-founded.
LEMMA LeastNatural ==
    ASSUME NEW T, T \subseteq Nat, T # {}
    PROVE  \E n \in T : \A m \in T : n <= m
<1> DEFINE Less == OpToRel(<, Nat)
<1>1. PICK n \in T : \A m \in T : ~(<<m, n>> \in Less)
  BY NatLessThanWellFounded, WFMin
<1>2. \A m, k \in Nat : m < k => <<m, k>> \in Less
  BY DEF OpToRel
<1> HIDE DEF Less
<1>3. ASSUME NEW m \in T PROVE n <= m
  <2>1. ~(m < n) BY <1>1, <1>2
  <2> QED BY <2>1
<1> QED BY <1>3

\* A set of numbers that has 0, and with each number the next one, is Nat.
LEMMA SetInduction ==
    ASSUME NEW T, T \subseteq Nat, 0 \in T, \A n \in T : n + 1 \in T
    PROVE  T = Nat
<1> SUFFICES ASSUME Nat \ T # {} PROVE FALSE OBVIOUS
<1>1. PICK n \in Nat \ T : \A m \in Nat \ T : n <= m BY LeastNatural
<1> QED BY <1>1

\* The greatest of some numbers, by the definition Max has.
LEMMA MaxIs ==
    ASSUME NEW S, S \subseteq Int, NEW n \in S, \A y \in S : y <= n
    PROVE  Max(S) = n
<1>1. \A x \in S : (\A y \in S : x >= y) => x = n OBVIOUS
<1> QED BY <1>1 DEF Max

-----------------------------------------------------------------------------
(* The function a fold is the last value of *)

IsFold(f, seq, n) ==
    f = [s \in SUBSET (1..n) |-> IF s = {} THEN Base ELSE LET x == Max(s) IN Op(f[s \ {x}], seq[x])]

\* A function that folds n elements is part of one that folds n + 1.
LEMMA FoldGrows ==
    ASSUME NEW seq, NEW n \in Nat, NEW f, IsFold(f, seq, n)
    PROVE  \E g : IsFold(g, seq, n + 1)
<1> DEFINE h(s) == IF s \in SUBSET (1..n) THEN f[s] ELSE Op(f[s \ {n + 1}], seq[n + 1])
           g == [s \in SUBSET (1..(n + 1)) |-> h(s)]
<1>1. ASSUME NEW s \in SUBSET (1..(n + 1)), s # {}
      PROVE  g[s] = Op(g[s \ {Max(s)}], seq[Max(s)])
  <2>1. CASE n + 1 \in s
    <3>1. Max(s) = n + 1
      <4>1. s \subseteq Int /\ \A y \in s : y <= n + 1 OBVIOUS
      <4> QED BY <2>1, <4>1, MaxIs
    <3>2. s \ {n + 1} \in SUBSET (1..n) /\ s \ {n + 1} \in SUBSET (1..(n + 1)) OBVIOUS
    <3>3. s \notin SUBSET (1..n) BY <2>1
    <3>4. g[s \ {n + 1}] = f[s \ {n + 1}] BY <3>2
    <3>5. g[s] = Op(f[s \ {n + 1}], seq[n + 1]) BY <3>3
    <3> QED BY <3>1, <3>4, <3>5
  <2>2. CASE n + 1 \notin s
    <3>1. s \in SUBSET (1..n) BY <2>2
    <3>2. s \ {Max(s)} \in SUBSET (1..n) /\ s \ {Max(s)} \in SUBSET (1..(n + 1)) BY <3>1
    <3>3. g[s] = f[s] /\ g[s \ {Max(s)}] = f[s \ {Max(s)}] BY <3>1, <3>2
    <3>4. f[s] = Op(f[s \ {Max(s)}], seq[Max(s)]) BY <3>1, <1>1 DEF IsFold
    <3> QED BY <3>3, <3>4
  <2> QED BY <2>1, <2>2
<1>2. g[{}] = Base
  <2>1. f[{}] = Base BY DEF IsFold
  <2> QED BY <2>1
<1>3. IsFold(g, seq, n + 1)
  <2> HIDE DEF g
  <2>1. g = [s \in SUBSET (1..(n + 1)) |-> g[s]] BY DEF g
  <2>2. g = [s \in SUBSET (1..(n + 1)) |-> IF s = {} THEN Base ELSE Op(g[s \ {Max(s)}], seq[Max(s)])]
    BY <1>1, <1>2, <2>1
  <2> QED BY <2>2 DEF IsFold
<1> QED BY <1>3

\* There is one for every number of elements.
LEMMA FoldExists ==
    ASSUME NEW seq, NEW n \in Nat
    PROVE  \E f : IsFold(f, seq, n)
<1> DEFINE T == {k \in Nat : \E f : IsFold(f, seq, k)}
<1>1. 0 \in T
  <2> DEFINE f == [s \in SUBSET (1..0) |-> Base]
  <2>1. 1..0 = {} OBVIOUS
  <2>2. IsFold(f, seq, 0) BY <2>1 DEF IsFold
  <2> QED BY <2>2
<1>2. ASSUME NEW k \in T PROVE k + 1 \in T
  BY FoldGrows
<1> HIDE DEF T
<1>3. T = Nat
  <2>1. T \subseteq Nat BY DEF T
  <2> QED BY <1>1, <1>2, <2>1, SetInduction
<1> QED BY <1>3 DEF T

\* A fold is the last of the results after no, one, two... elements.
IsSteps(g, seq) ==
    /\ g[0] = Base
    /\ \A k \in 0..(Len(seq) - 1) : g[k + 1] = Op(g[k], seq[k + 1])

(***************************************************************************)
(* FoldLeft, as the loops "for x in seq: result = op(result, x)" of the    *)
(* checks compute it (transaction_checks.py:150, log_core.py:1475): its    *)
(* result is the last one of a series that begins with Base, each of which *)
(* follows from the one before and the next element.                       *)
(***************************************************************************)
THEOREM FoldSteps ==
    ASSUME NEW S, NEW seq \in Seq(S)
    PROVE  \E g : IsSteps(g, seq) /\ FoldLeft(Op, Base, seq) = g[Len(seq)]
<1> DEFINE n == Len(seq)
           f == CHOOSE h : IsFold(h, seq, n)
           g == [k \in 0..n |-> f[1..k]]
<1>1. n \in Nat /\ DOMAIN seq = 1..n OBVIOUS
<1>2. IsFold(f, seq, n) BY <1>1, FoldExists
<1>3. FoldLeft(Op, Base, seq) = f[1..n]
  BY <1>1, <1>2 DEF FoldLeft, MapThenFoldSet, IsFold
<1>4. g[0] = Base
  <2>1. 1..0 = {} OBVIOUS
  <2>2. f[{}] = Base BY <1>2 DEF IsFold
  <2> QED BY <1>1, <2>1, <2>2
<1>5. ASSUME NEW k \in 0..(n - 1) PROVE g[k + 1] = Op(g[k], seq[k + 1])
  <2>1. 1..(k + 1) \in SUBSET (1..n) /\ k + 1 \in 1..(k + 1) BY <1>1
  <2>2. Max(1..(k + 1)) = k + 1 BY <2>1, MaxIs
  <2>3. 1..(k + 1) \ {k + 1} = 1..k OBVIOUS
  <2>4. f[1..(k + 1)] = Op(f[1..k], seq[k + 1])
    BY <1>2, <2>1, <2>2, <2>3 DEF IsFold
  <2> QED BY <1>1, <2>4
<1> HIDE DEF f
<1>6. IsSteps(g, seq) BY <1>4, <1>5 DEF IsSteps
<1>7. g[n] = f[1..n] BY <1>1
<1> QED BY <1>3, <1>6, <1>7
=============================================================================
