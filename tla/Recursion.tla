------------------------------- MODULE Recursion -------------------------------
(***************************************************************************)
(* Induction and recursion on natural numbers, as facts about sets and     *)
(* functions. A set of numbers with 0 and the next of each has them all,   *)
(* since a number that is missing would have a least one; and a function   *)
(* whose values are to be made one from the other exists.                  *)
(***************************************************************************)
EXTENDS Naturals, WellFoundedInduction, TLAPS

LEMMA Least ==
  ASSUME NEW T, T \subseteq Nat, T # {}
  PROVE  \E n \in T : \A m \in T : n <= m
<1>1. PICK n \in T : \A m \in T : ~(<<m, n>> \in OpToRel(<, Nat))
  BY NatLessThanWellFounded, WFMin
<1>2. \A m \in T : <<m, n>> \in OpToRel(<, Nat) <=> m < n
  BY DEF OpToRel
<1>3. \A m \in T : ~(m < n)
  BY <1>1, <1>2, Zenon
<1> QED
  BY <1>3

LEMMA SetInduction ==
  ASSUME NEW S, 0 \in S, \A n \in Nat : n \in S => n + 1 \in S
  PROVE  Nat \subseteq S
<1> SUFFICES ASSUME Nat \ S # {} PROVE FALSE
  OBVIOUS
<1>1. PICK n \in Nat \ S : \A m \in Nat \ S : n <= m
  BY Least
<1>2. n # 0 /\ n - 1 \in Nat /\ n - 1 \in S
  BY <1>1
<1> QED
  BY <1>1, <1>2

LEMMA InductionUpTo ==
  ASSUME NEW n \in Nat, NEW T, 0 \in T, \A i \in 1 .. n : i - 1 \in T => i \in T
  PROVE  0 .. n \subseteq T
<1> DEFINE S == {m \in Nat : m <= n => m \in T}
<1>1. 0 \in S
  OBVIOUS
<1>2. ASSUME NEW m \in Nat, m \in S PROVE m + 1 \in S
  <2> SUFFICES ASSUME m + 1 <= n PROVE m + 1 \in T
    OBVIOUS
  <2>1. m + 1 \in 1 .. n /\ (m + 1) - 1 = m /\ m \in T
    BY <1>2
  <2> QED
    BY <2>1
<1>3. Nat \subseteq S
  BY <1>1, <1>2, SetInduction
<1> QED
  BY <1>3

(* The values of f are made one from the other.                            *)
Follows(f, m, first, next) ==
  f[0] = first /\ \A i \in 1 .. m : f[i] = next[<<i, f[i - 1]>>]

LEMMA RecursionExists ==
  ASSUME NEW V, NEW n \in Nat, NEW first \in V, NEW next \in [(1 .. n) \X V -> V]
  PROVE  \E f \in [0 .. n -> V] : Follows(f, n, first, next)
<1> DEFINE S == {m \in Nat : m <= n => \E f \in [0 .. m -> V] : Follows(f, m, first, next)}
<1>1. 0 \in S
  <2>1. [i \in 0 .. 0 |-> first] \in [0 .. 0 -> V]
    OBVIOUS
  <2>2. Follows([i \in 0 .. 0 |-> first], 0, first, next)
    BY DEF Follows
  <2> QED
    BY <2>1, <2>2
<1>2. ASSUME NEW m \in Nat, m \in S
      PROVE  m + 1 \in S
  <2> SUFFICES ASSUME m + 1 <= n
               PROVE  \E f \in [0 .. m + 1 -> V] : Follows(f, m + 1, first, next)
    OBVIOUS
  <2>1. PICK f \in [0 .. m -> V] : Follows(f, m, first, next)
    BY <1>2
  <2>2. PICK v \in V : v = next[<<m + 1, f[m]>>]
    <3>1. <<m + 1, f[m]>> \in (1 .. n) \X V
      BY <2>1
    <3> QED
      BY <3>1
  <2>3. PICK g : g = [i \in 0 .. m + 1 |-> IF i <= m THEN f[i] ELSE v]
    OBVIOUS
  <2>4. g \in [0 .. m + 1 -> V]
    BY <2>1, <2>2, <2>3
  <2>5. g[0] = first
    BY <2>1, <2>3 DEF Follows
  <2>6. ASSUME NEW i \in 1 .. m + 1 PROVE g[i] = next[<<i, g[i - 1]>>]
    <3>1. g[i - 1] = f[i - 1]
      BY <2>3
    <3>2. CASE i <= m
      BY <2>1, <2>3, <3>1, <3>2 DEF Follows
    <3>3. CASE i = m + 1
      <4>1. i - 1 = m /\ g[i] = v
        BY <2>3, <3>3
      <4> QED
        BY <2>2, <3>1, <3>3, <4>1
    <3> QED
      BY <3>2, <3>3
  <2>7. Follows(g, m + 1, first, next)
    BY <2>5, <2>6 DEF Follows
  <2> QED
    BY <2>4, <2>7
<1>3. Nat \subseteq S
  BY <1>1, <1>2, SetInduction
<1>4. n \in S
  BY <1>3
<1> QED
  BY <1>4
=============================================================================
