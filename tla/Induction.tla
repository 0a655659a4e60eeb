----------------------------- MODULE Induction -----------------------------
(***************************************************************************)
(* Induction over the natural numbers, and functions defined by recursion  *)
(* over them, in the form of facts about sets and functions that SMT and   *)
(* Zenon can instantiate.  Both follow from the well-foundedness of <.     *)
(***************************************************************************)
EXTENDS Integers, WellFoundedInduction, TLAPS

\* A set that has 0, and with each number the next, has every number.
LEMMA Induction ==
  ASSUME NEW T, 0 \in T, \A n \in Nat : n \in T => n + 1 \in T
  PROVE  \A n \in Nat : n \in T
<1>. DEFINE Rest == Nat \ T
            Less == OpToRel(<, Nat)
<1>1. SUFFICES ASSUME Rest # {} PROVE FALSE
  OBVIOUS
<1>2. PICK x \in Rest : \A y \in Rest : <<y, x>> \notin Less
  <2>1. IsWellFoundedOn(Less, Nat)
    BY NatLessThanWellFounded
  <2>2. Rest \subseteq Nat
    OBVIOUS
  <2>. HIDE DEF Less, Rest
  <2>. QED
    BY <1>1, <2>1, <2>2, WFMin
<1>3. x - 1 \in Nat /\ x - 1 < x /\ x \in Nat /\ x \notin T
  <2>1. x \in Nat /\ x # 0 /\ x \notin T
    OBVIOUS
  <2>. QED
    BY <2>1
<1>4. <<x - 1, x>> \in Less
  BY <1>3 DEF OpToRel
<1>. HIDE DEF Less
<1>5. x - 1 \in T
  BY <1>2, <1>3, <1>4
<1>. QED
  BY <1>3, <1>5

\* f begins with base and goes on by next, up to m.
Follows(f, base, next, m) ==
  f[0] = base /\ \A n \in 0 .. m - 1 : f[n + 1] = next[<<n, f[n]>>]

LEMMA Prefix ==
  ASSUME NEW S, NEW base \in S, NEW next \in [Nat \X S -> S], NEW m \in Nat
  PROVE  \E f \in [Nat -> S] : Follows(f, base, next, m)
<1>. DEFINE T == {k \in Nat : \E f \in [Nat -> S] : Follows(f, base, next, k)}
<1>1. 0 \in T
  <2>1. [k \in Nat |-> base] \in [Nat -> S] /\ Follows([k \in Nat |-> base], base, next, 0)
    BY DEF Follows
  <2>. QED
    BY <2>1
<1>2. ASSUME NEW n \in Nat, n \in T
      PROVE  n + 1 \in T
  <2>1. PICK f \in [Nat -> S] : Follows(f, base, next, n)
    BY <1>2
  <2>. DEFINE g == [f EXCEPT ![n + 1] = next[<<n, f[n]>>]]
  <2>2. /\ g \in [Nat -> S] /\ g[0] = f[0] /\ g[n + 1] = next[<<n, g[n]>>]
        /\ \A k \in 0 .. n : g[k] = f[k]
    OBVIOUS
  <2>. HIDE DEF g
  <2>3. Follows(g, base, next, n + 1)
    <3>1. ASSUME NEW k \in 0 .. n
          PROVE  g[k + 1] = next[<<k, g[k]>>]
      <4>1. CASE k = n
        BY <2>2, <4>1
      <4>2. CASE k \in 0 .. n - 1
        BY <2>1, <2>2, <4>2 DEF Follows
      <4>. QED
        BY <4>1, <4>2
    <3>. QED
      BY <2>1, <2>2, <3>1 DEF Follows
  <2>. QED
    BY <2>2, <2>3
<1>3. m \in T
  <2>. HIDE DEF T
  <2>. QED
    BY <1>1, <1>2, Induction
<1>. QED
  BY <1>3

\* Two that begin alike and go on alike are alike as far as both go on.
LEMMA Unique ==
  ASSUME NEW base, NEW next, NEW f, NEW g, NEW m \in Nat,
         Follows(f, base, next, m), Follows(g, base, next, m)
  PROVE  \A k \in 0 .. m : f[k] = g[k]
<1>. DEFINE T == {k \in Nat : k <= m => f[k] = g[k]}
<1>1. 0 \in T
  BY DEF Follows
<1>2. ASSUME NEW n \in Nat, n \in T
      PROVE  n + 1 \in T
  <2>1. ASSUME n + 1 <= m
        PROVE  f[n + 1] = g[n + 1]
    <3>1. n \in 0 .. m - 1 /\ f[n] = g[n]
      BY <1>2, <2>1
    <3>. QED
      BY <3>1 DEF Follows
  <2>. QED
    BY <2>1
<1>3. \A k \in Nat : k \in T
  <2>. HIDE DEF T
  <2>. QED
    BY <1>1, <1>2, Induction
<1>. QED
  BY <1>3

\* A recursion on S: how it begins and goes on, and what it defines.
IsStep(next, S) == next \in [Nat \X S -> S]

Recursive(f, S, base, next) ==
  f \in [Nat -> S] /\ f[0] = base /\ \A n \in Nat : f[n + 1] = next[<<n, f[n]>>]

LEMMA Recursion ==
  ASSUME NEW S, NEW base \in S, NEW next, IsStep(next, S)
  PROVE  \E f : Recursive(f, S, base, next)
<1>. DEFINE part[m \in Nat] == CHOOSE f \in [Nat -> S] : Follows(f, base, next, m)
            whole == [n \in Nat |-> part[n][n]]
<1>1. ASSUME NEW m \in Nat
      PROVE  part[m] \in [Nat -> S] /\ Follows(part[m], base, next, m)
  <2>1. \E f \in [Nat -> S] : Follows(f, base, next, m)
    BY Prefix DEF IsStep
  <2>. QED
    BY <2>1
<1>2. \A n \in Nat : whole[n] = part[n][n]
  OBVIOUS
<1>3. whole \in [Nat -> S]
  BY <1>1
<1>. HIDE DEF part, whole
<1>4. whole[0] = base
  BY <1>1, <1>2 DEF Follows
<1>5. ASSUME NEW n \in Nat
      PROVE  whole[n + 1] = next[<<n, whole[n]>>]
  <2>1. n + 1 \in Nat /\ n \in 0 .. n + 1 - 1 /\ n \in 0 .. n
    OBVIOUS
  <2>2. part[n + 1][n + 1] = next[<<n, part[n + 1][n]>>]
    BY <1>1, <2>1 DEF Follows
  <2>3. Follows(part[n + 1], base, next, n) /\ Follows(part[n], base, next, n)
    BY <1>1 DEF Follows
  <2>4. part[n + 1][n] = part[n][n]
    BY <2>1, <2>3, Unique
  <2>. QED
    BY <1>2, <2>1, <2>2, <2>4
<1>. QED
  BY <1>3, <1>4, <1>5 DEF Recursive
=============================================================================
