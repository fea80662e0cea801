---------------------------- MODULE ProofFacts ----------------------------
(***************************************************************************)
(* Facts about numbers, sequences and finite sets that the proofs of       *)
(* several protocols need: the bounds of a set of op numbers, the length   *)
(* of a log with a batch appended, and counting replicas by their votes.   *)
(***************************************************************************)
EXTENDS Integers, Sequences, FiniteSets, TLAPS, FiniteSetTheorems, WellFoundedInduction

\* A set of op numbers has a first one.
LEMMA FirstOfOps ==
  ASSUME NEW ops \in SUBSET Nat, ops # {}
  PROVE  \E i \in ops : \A j \in ops : i <= j
<1> DEFINE lt == OpToRel(<, Nat)
<1>1. PICK x \in ops : \A y \in ops : ~(<<y, x>> \in lt)
  <2> HIDE DEF lt
  <2> QED BY NatLessThanWellFounded, WFMin, Zenon DEF lt
<1>2. \A y \in ops : ~(y < x)
  BY <1>1, Zenon DEF OpToRel
<1> HIDE DEF lt
<1> QED BY <1>2

\* Induction on the rounds of a loop.
LEMMA RoundInduction ==
  ASSUME NEW n \in Nat, NEW S \in SUBSET (0 .. n), 0 \in S,
         \A k \in 1 .. n : k - 1 \in S => k \in S
  PROVE  n \in S
<1> SUFFICES ASSUME n \notin S PROVE FALSE
  OBVIOUS
<1> DEFINE T == (0 .. n) \ S
<1>1. PICK i \in T : \A j \in T : i <= j
  <2>1. T \in SUBSET Nat /\ T # {}
    OBVIOUS
  <2> HIDE DEF T
  <2> QED BY <2>1, FirstOfOps
<1>2. i \in 1 .. n /\ i - 1 \in 0 .. n
  OBVIOUS
<1>3. i - 1 \notin T
  BY <1>1, <1>2
<1> QED BY <1>2, <1>3

\* A set of op numbers with an upper bound has a last one.
LEMMA LastOfOps ==
  ASSUME NEW a \in Nat, NEW k \in Nat, NEW ops \in SUBSET (a .. k), ops # {}
  PROVE  \E i \in ops : \A j \in ops : j <= i
<1> DEFINE gap == {k - i : i \in ops}
<1>0. \A i \in ops : i \in Nat /\ k - i \in Nat
  OBVIOUS
<1>1. gap \in SUBSET Nat /\ gap # {}
  BY <1>0
<1>2. PICK x \in gap : \A y \in gap : x <= y
  <2> HIDE DEF gap
  <2> QED BY <1>1, FirstOfOps
<1>3. PICK i \in ops : x = k - i
  OBVIOUS
<1>4. \A j \in ops : k - i <= k - j
  BY <1>2, <1>3
<1> HIDE DEF gap
<1> QED BY <1>0, <1>4

\* The length of two sequences one after the other.
LEMMA ConcatLength ==
  ASSUME NEW S, NEW x \in Seq(S), NEW y \in Seq(S)
  PROVE  Len(x \o y) = Len(x) + Len(y) /\ x \o y \in Seq(S)
OBVIOUS

\* The second sequence leaves the first in its place.
LEMMA ConcatKeeps ==
  ASSUME NEW S, NEW x \in Seq(S), NEW y \in Seq(S)
  PROVE  \A i \in 1 .. Len(x) : (x \o y)[i] = x[i]
OBVIOUS

\* A function on 1 .. n is a sequence of length n.
LEMMA FunctionIsSequence ==
  ASSUME NEW S, NEW n \in Nat, NEW s \in [1 .. n -> S]
  PROVE  s \in Seq(S) /\ Len(s) = n
OBVIOUS

\* A set that contains n members of a finite set has at least n.
LEMMA MoreIsEnough ==
  ASSUME NEW R, IsFiniteSet(R), NEW T \in SUBSET R, NEW S \in SUBSET T,
         NEW n \in Nat, Cardinality(S) >= n
  PROVE  Cardinality(T) >= n
<1>1. IsFiniteSet(T) /\ IsFiniteSet(S)
  BY FS_Subset
<1>2. Cardinality(S) <= Cardinality(T) /\ Cardinality(S) \in Nat /\ Cardinality(T) \in Nat
  BY <1>1, FS_Subset, FS_CardinalityType
<1> QED BY <1>2

\* No more votes than replicas, if no two votes have one sender.
LEMMA VotesOfSenders ==
  ASSUME NEW S, IsFiniteSet(S), NEW T, NEW sender \in [T -> S],
         \A t, u \in T : sender[t] = sender[u] => t = u
  PROVE  /\ Cardinality(T) <= Cardinality(S)
         /\ Cardinality(T) \in Nat /\ Cardinality(S) \in Nat
<1>1. sender \in Injection(T, S)
  BY DEF Injection, IsInjective
<1>2. IsFiniteSet(T) /\ Cardinality(T) <= Cardinality(S)
  BY <1>1, FS_Injection
<1> QED BY <1>2, FS_CardinalityType

\* A function that differs from another one at one argument.
LEMMA ExceptIs ==
  ASSUME NEW D, NEW F, NEW G, NEW d \in D, NEW x,
         F = [s \in D |-> F[s]], G = [s \in D |-> G[s]],
         G[d] = x, \A s \in D : s # d => G[s] = F[s]
  PROVE  G = [F EXCEPT ![d] = x]
OBVIOUS
=============================================================================
