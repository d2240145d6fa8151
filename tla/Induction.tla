----------------------------- MODULE Induction -----------------------------
(***************************************************************************)
(* Induction and recursion over the natural numbers, stated for sets and   *)
(* functions instead of predicates and operators: facts that the proofs    *)
(* about recursive functions of the models rest on.                        *)
(***************************************************************************)
EXTENDS Integers, WellFoundedInduction, TLAPS

(* Every set of natural numbers has a least element. *)
LEMMA LeastNatural ==
  ASSUME NEW T, T \subseteq Nat, T # {}
  PROVE  \E m \in T : \A n \in T : m <= n
<1> DEFINE R == OpToRel(<, Nat)
<1>1. IsWellFoundedOn(R, Nat)
  BY NatLessThanWellFounded
<1>2. R = {ss \in Nat \X Nat : ss[1] < ss[2]}
  BY DEF OpToRel
<1> HIDE DEF R
<1>3. PICK m \in T : \A y \in T : ~(<<y, m>> \in R)
  BY <1>1, WFMin
<1>4. ASSUME NEW n \in T PROVE m <= n
  <2>1. ~(<<n, m>> \in {ss \in Nat \X Nat : ss[1] < ss[2]})
    BY <1>3, <1>2
  <2>2. m \in Nat /\ n \in Nat
    OBVIOUS
  <2>3. ~(n < m)
    BY <2>1, <2>2
  <2> QED BY <2>2, <2>3
<1> QED BY <1>4

(* A set that contains 0 and with every number its successor contains all of them. *)
LEMMA InductiveSet ==
  ASSUME NEW S, 0 \in S, \A n \in Nat : n \in S => n + 1 \in S
  PROVE  \A n \in Nat : n \in S
<1> SUFFICES ASSUME Nat \ S # {} PROVE FALSE
  OBVIOUS
<1>1. PICK m \in Nat \ S : \A n \in Nat \ S : m <= n
  BY LeastNatural
<1>2. m # 0 /\ m - 1 \in Nat /\ ~(m - 1 \in Nat \ S)
  BY <1>1
<1> QED BY <1>2

(* f begins with base, and step[n] turns its value before n into the one at n. *)
Recursion(f, N, S, base, step) ==
  f \in [0 .. N -> S] /\ f[0] = base /\ \A k \in 1 .. N : f[k] = step[k][f[k - 1]]

(* A function is defined by its first value and by what each step makes of the value before. *)
LEMMA RecursiveFunction ==
  ASSUME NEW N, NEW S, NEW base, NEW step, N \in Nat, base \in S, step \in [1 .. N -> [S -> S]]
  PROVE  \E f : Recursion(f, N, S, base, step)
<1> DEFINE Prefix(n, f) == f[0] = base /\ \A k \in 1 .. n : f[k] = step[k][f[k - 1]]
           T == {n \in Nat : n <= N => \E f \in [0 .. n -> S] : Prefix(n, f)}
<1>1. 0 \in T
  <2>1. [k \in 0 .. 0 |-> base] \in [0 .. 0 -> S] /\ Prefix(0, [k \in 0 .. 0 |-> base])
    OBVIOUS
  <2> QED BY <2>1
<1>2. ASSUME NEW n \in Nat, n \in T PROVE n + 1 \in T
  <2> SUFFICES ASSUME n + 1 <= N PROVE \E g \in [0 .. n + 1 -> S] : Prefix(n + 1, g)
    OBVIOUS
  <2>1. PICK f \in [0 .. n -> S] : Prefix(n, f)
    BY <1>2
  <2> DEFINE g == [k \in 0 .. n + 1 |-> IF k = n + 1 THEN step[n + 1][f[n]] ELSE f[k]]
  <2>2. step[n + 1][f[n]] \in S
    <3>1. n + 1 \in 1 .. N /\ f[n] \in S
      BY <2>1
    <3> QED BY <3>1
  <2>3. g \in [0 .. n + 1 -> S]
    BY <2>1, <2>2
  <2>4. g[0] = base
    BY <2>1
  <2>5. ASSUME NEW k \in 1 .. n + 1 PROVE g[k] = step[k][g[k - 1]]
    <3>1. CASE k = n + 1
      BY <3>1
    <3>2. CASE k # n + 1
      BY <2>1, <3>2
    <3> QED BY <3>1, <3>2
  <2> QED BY <2>3, <2>4, <2>5
<1>3. N \in T
  <2> HIDE DEF T
  <2> QED BY <1>1, <1>2, InductiveSet
<1> QED BY <1>3 DEF Recursion
=============================================================================
