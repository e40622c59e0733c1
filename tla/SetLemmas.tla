----------------------------- MODULE SetLemmas ------------------------------
(***************************************************************************)
(* Least and greatest members of sets of numbers, as the proofs of several *)
(* components need them.                                                   *)
(***************************************************************************)
EXTENDS Integers, FiniteSetsExt, WellFoundedInduction, TLAPS

\* A set with natural numbers attached has a member with the least of them.
LEMMA LeastExists ==
  ASSUME NEW S, S # {}, NEW d, \A x \in S : d[x] \in Nat
  PROVE  \E p \in S : \A q \in S : d[p] <= d[q]
  <1> DEFINE T == {d[x] : x \in S}
  <1>1. T \subseteq Nat /\ T # {} OBVIOUS
  <1> DEFINE R == {ss \in Nat \X Nat : ss[1] < ss[2]}
  <1>2. IsWellFoundedOn(R, Nat) BY NatLessThanWellFounded DEF OpToRel
  <1>3. PICK x \in T : \A y \in T : ~ (<<y, x>> \in R) BY <1>1, <1>2, WFMin
  <1>4. ASSUME NEW y \in T PROVE x <= y
    <2> HIDE DEF T
    <2>1. x \in Nat /\ y \in Nat BY <1>1
    <2>2. y < x => <<y, x>> \in R BY <2>1
    <2> HIDE DEF R
    <2>3. ~(y < x) BY <1>3, <2>2
    <2> QED BY <2>1, <2>3
  <1> QED BY <1>4

\* The smaller of two numbers.
LEMMA MinOfTwo ==
  ASSUME NEW a \in Int, NEW b \in Int
  PROVE  Min({a, b}) = IF a <= b THEN a ELSE b
  <1>1. \A x \in {a, b} : (\A y \in {a, b} : x <= y) <=> x = (IF a <= b THEN a ELSE b)
    OBVIOUS
  <1>2. (IF a <= b THEN a ELSE b) \in {a, b} OBVIOUS
  <1> QED BY <1>1, <1>2 DEF Min

\* The best of the grades peers may have.
LEMMA MaxGrade ==
  ASSUME NEW G, G \subseteq 0 .. 2, G # {}
  PROVE  Max(G) \in G
  <1>1. \E x \in G : \A y \in G : x >= y
    <2>1. CASE 2 \in G BY <2>1
    <2>2. CASE 2 \notin G /\ 1 \in G BY <2>2
    <2>3. CASE 2 \notin G /\ 1 \notin G
      <3>1. \A y \in G : y = 0 BY <2>3
      <3>2. PICK x \in G : TRUE OBVIOUS
      <3> QED BY <3>1, <3>2
    <2> QED BY <2>1, <2>2, <2>3
  <1> QED BY <1>1 DEF Max

\* The least of a set of natural numbers is one of them.
LEMMA MinIsMember ==
  ASSUME NEW S, S # {}, S \subseteq Nat
  PROVE  Min(S) \in S
  <1> DEFINE d == [x \in S |-> x]
  <1>1. \A x \in S : d[x] \in Nat OBVIOUS
  <1>2. \E p \in S : \A q \in S : d[p] <= d[q]
    <2> HIDE DEF d
    <2> QED BY <1>1, LeastExists
  <1>3. \E p \in S : \A q \in S : p <= q BY <1>2
  <1> QED BY <1>3 DEF Min

\* The greatest of a set of natural numbers with a bound is one of them.
LEMMA MaxIsMember ==
  ASSUME NEW S, S # {}, S \subseteq Nat, NEW b \in Nat, \A x \in S : x <= b
  PROVE  Max(S) \in S /\ \A x \in S : x <= Max(S)
  <1> DEFINE d == [x \in S |-> b - x]
  <1>1. \A x \in S : d[x] \in Nat OBVIOUS
  <1>2. \E p \in S : \A q \in S : d[p] <= d[q]
    <2> HIDE DEF d
    <2> QED BY <1>1, LeastExists
  <1>3. \E p \in S : \A q \in S : p >= q BY <1>2
  <1>4. Max(S) \in S /\ \A q \in S : Max(S) >= q BY <1>3 DEF Max
  <1> QED BY <1>4
=============================================================================
