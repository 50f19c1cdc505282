----------------------------- MODULE Inductions -----------------------------
(***************************************************************************)
(* Induction on the natural numbers and on sequences, and the solution of  *)
(* a recursive definition: the general lemmas that what a recursive        *)
(* function computes is proved with.                                       *)
(***************************************************************************)
EXTENDS Integers, Sequences, WellFoundedInduction, TLAPS

(* A set of numbers has a least member. *)
LEMMA LeastMember ==
  ASSUME NEW T \in SUBSET Nat, T # {}
  PROVE  \E x \in T : \A y \in T : x <= y
<1> DEFINE Less == {ss \in Nat \X Nat : ss[1] < ss[2]}
<1>1. IsWellFoundedOn(Less, Nat)
  BY NatLessThanWellFounded DEF OpToRel
<1> HIDE DEF Less
<1>2. PICK x \in T : \A y \in T : <<y, x>> \notin Less
  BY <1>1, WFMin
<1>3. ASSUME NEW y \in T PROVE x <= y
  <2>1. x \in Nat /\ y \in Nat
    OBVIOUS
  <2>2. y < x => <<y, x>> \in Less
    BY <2>1 DEF Less
  <2> QED
    BY <1>2, <2>1, <2>2
<1> QED
  BY <1>3

(* One that is bounded has a greatest. *)
LEMMA GreatestMember ==
  ASSUME NEW n \in Nat, NEW T \in SUBSET (0 .. n), T # {}
  PROVE  \E x \in T : \A y \in T : y <= x
<1> DEFINE Mirror == {m \in 0 .. n : n - m \in T}
<1>1. Mirror \in SUBSET Nat
  OBVIOUS
<1>2. Mirror # {}
  <2>1. PICK y \in T : TRUE
    OBVIOUS
  <2>2. n - y \in Mirror
    OBVIOUS
  <2> QED
    BY <2>2
<1>3. PICK m \in Mirror : \A y \in Mirror : m <= y
  BY <1>1, <1>2, LeastMember
<1>4. ASSUME NEW y \in T PROVE y <= n - m
  <2>1. n - y \in Mirror
    OBVIOUS
  <2> QED
    BY <2>1, <1>3
<1> QED
  BY <1>3, <1>4

(* A set with 0, and with n + 1 whenever it has n, has every number.        *)
LEMMA Induction ==
  ASSUME NEW S, 0 \in S, \A n \in Nat : n \in S => n + 1 \in S
  PROVE  Nat \subseteq S
<1> SUFFICES ASSUME Nat \ S # {} PROVE FALSE
  OBVIOUS
<1>1. PICK x \in Nat \ S : \A y \in Nat \ S : x <= y
  BY LeastMember
<1>2. x # 0 /\ x - 1 \in Nat
  BY <1>1
<1>3. x - 1 \in S
  BY <1>1, <1>2
<1> QED
  BY <1>1, <1>2, <1>3

(* g computes a recursive definition up to n: base at 0, and at each i what *)
(* step makes of the value before it.                                       *)
Recursion(g, n, base, step) ==
  /\ g[0] = base
  /\ \A i \in 1 .. n : g[i] = step[i][g[i - 1]]

(* A recursive definition has a solution.                                   *)
LEMMA RecursionHasSolution ==
  ASSUME NEW n \in Nat, NEW X, NEW base \in X, NEW step \in [1 .. n -> [X -> X]]
  PROVE  \E g \in [0 .. n -> X] : Recursion(g, n, base, step)
<1> DEFINE Upto(m, g) == /\ g \in [0 .. m -> X]
                         /\ g[0] = base
                         /\ \A i \in 1 .. m : g[i] = step[i][g[i - 1]]
           S == {m \in Nat : m <= n => \E g \in [0 .. m -> X] : Upto(m, g)}
<1>1. 0 \in S
  <2>1. Upto(0, [i \in 0 .. 0 |-> base])
    OBVIOUS
  <2> QED
    BY <2>1
<1>2. ASSUME NEW m \in S PROVE m + 1 \in S
  <2>1. m \in Nat /\ m + 1 \in Nat
    OBVIOUS
  <2>2. CASE m + 1 > n
    BY <2>1, <2>2
  <2>3. CASE m + 1 <= n
    <3>1. PICK g \in [0 .. m -> X] : Upto(m, g)
      BY <2>1, <2>3
    <3> DEFINE h == [i \in 0 .. m + 1 |->
                       IF i = m + 1 THEN step[m + 1][g[m]] ELSE g[i]]
    <3>2. m + 1 \in 1 .. n /\ g[m] \in X
      BY <2>1, <2>3
    <3>3. step[m + 1][g[m]] \in X
      BY <3>2
    <3>4. h \in [0 .. m + 1 -> X]
      BY <2>1, <3>3
    <3>5. h[0] = base
      BY <2>1, <3>1
    <3>6. ASSUME NEW i \in 1 .. m + 1 PROVE h[i] = step[i][h[i - 1]]
      <4>1. CASE i = m + 1
        BY <4>1, <2>1
      <4>2. CASE i \in 1 .. m
        BY <4>2, <3>1, <2>1
      <4> QED
        BY <4>1, <4>2, <2>1
    <3>7. Upto(m + 1, h)
      BY <3>4, <3>5, <3>6
    <3> QED
      BY <2>1, <3>4, <3>7
  <2> QED
    BY <2>1, <2>2, <2>3
<1>3. Nat \subseteq S
  <2>1. \A m \in Nat : m \in S => m + 1 \in S
    BY <1>2
  <2> HIDE DEF S
  <2> QED
    BY <1>1, <2>1, Induction
<1>4. PICK g \in [0 .. n -> X] : Upto(n, g)
  BY <1>3
<1> QED
  BY <1>4 DEF Recursion

(* A sequence that is not empty has a last element. *)
LEMMA LastElement ==
  ASSUME NEW S, NEW n \in Nat, NEW r \in Seq(S), Len(r) = n + 1
  PROVE  \E p \in Seq(S), e \in S : r = Append(p, e) /\ Len(p) = n
<1> DEFINE p == [i \in 1 .. n |-> r[i]]
<1>1. p \in Seq(S) /\ Len(p) = n
  OBVIOUS
<1>2. r[n + 1] \in S
  OBVIOUS
<1>3. r = Append(p, r[n + 1])
  <2> DEFINE s == Append(p, r[n + 1])
  <2>1. s \in Seq(S) /\ Len(s) = n + 1
    BY <1>1, <1>2
  <2>2. \A i \in 1 .. n + 1 : s[i] = r[i]
    BY <1>1
  <2> HIDE DEF s, p
  <2>3. s = r
    BY <2>1, <2>2
  <2> QED
    BY <2>3 DEF s
<1> QED
  BY <1>1, <1>2, <1>3

(* So what holds of the empty sequence and is kept by Append is true of all *)
(* sequences: R is the set of those it holds of.                            *)
LEMMA AppendInduction ==
  ASSUME NEW S, NEW R,
         \A r \in Seq(S) : Len(r) = 0 => r \in R,
         \A r \in Seq(S), e \in S : r \in R => Append(r, e) \in R
  PROVE  Seq(S) \subseteq R
<1> DEFINE T == {n \in Nat : \A r \in Seq(S) : Len(r) = n => r \in R}
<1>1. 0 \in T
  OBVIOUS
<1>2. ASSUME NEW n \in Nat, n \in T PROVE n + 1 \in T
  <2>1. ASSUME NEW r \in Seq(S), Len(r) = n + 1 PROVE r \in R
    <3>1. PICK p \in Seq(S), e \in S : r = Append(p, e) /\ Len(p) = n
      BY <2>1, LastElement
    <3> QED
      BY <3>1, <1>2
  <2> QED
    BY <2>1
<1> HIDE DEF T
<1>3. Nat \subseteq T
  BY <1>1, <1>2, Induction
<1>4. ASSUME NEW r \in Seq(S) PROVE r \in R
  <2>1. Len(r) \in Nat
    OBVIOUS
  <2> QED
    BY <2>1, <1>3 DEF T
<1> QED
  BY <1>4
=============================================================================
