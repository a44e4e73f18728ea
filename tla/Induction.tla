------------------------------ MODULE Induction ------------------------------
(***************************************************************************)
(* Induction over the natural numbers and recursion along a sequence, in a *)
(* form without operator parameters: what is to be shown is a set of       *)
(* numbers, and the step of a recursion is a function.                     *)
(***************************************************************************)
EXTENDS Integers, Sequences, WellFoundedInduction, TLAPS

\* A set of natural numbers has a least element
LEMMA LeastNumber ==
    ASSUME NEW T \in SUBSET Nat, T # {}
    PROVE  \E n \in T : \A m \in T : n <= m
<1> DEFINE R == {ss \in Nat \X Nat : ss[1] < ss[2]}
<1>1. IsWellFoundedOn(R, Nat)
  BY NatLessThanWellFounded DEF OpToRel
<1>2. \A x, y \in Nat : y < x => <<y, x>> \in R
  OBVIOUS
<1> HIDE DEF R
<1>3. PICK n \in T : \A y \in T : ~ (<<y, n>> \in R)
  BY <1>1, WFMin
<1>4. \A y \in T : ~(y < n)
  BY <1>2, <1>3
<1> QED BY <1>3, <1>4

\* A set that has 0 and with every number its successor has all numbers
LEMMA SetInduction ==
    ASSUME NEW T, 0 \in T, \A n \in Nat : n \in T => n + 1 \in T
    PROVE  \A n \in Nat : n \in T
<1> SUFFICES ASSUME NEW k \in Nat, k \notin T PROVE FALSE
  OBVIOUS
<1> DEFINE B == Nat \ T
<1>1. B \in SUBSET Nat /\ B # {}
  OBVIOUS
<1>2. PICK n \in B : \A m \in B : n <= m
  <2> HIDE DEF B
  <2> QED BY <1>1, LeastNumber
<1>3. n # 0 /\ n - 1 \in Nat /\ n - 1 \notin B
  BY <1>2
<1> QED BY <1>2, <1>3

\* The same up to a bound
LEMMA BoundedInduction ==
    ASSUME NEW N \in Nat, NEW T, 0 \in T, \A n \in 0 .. N : n < N /\ n \in T => n + 1 \in T
    PROVE  \A n \in 0 .. N : n \in T
<1> DEFINE U == {n \in Nat : n <= N => n \in T}
<1>1. 0 \in U
  OBVIOUS
<1>2. \A n \in Nat : n \in U => n + 1 \in U
  <2> SUFFICES ASSUME NEW n \in Nat, n \in U, n + 1 <= N PROVE n + 1 \in T
    OBVIOUS
  <2>1. n \in T /\ n \in 0 .. N /\ n < N
    OBVIOUS
  <2> QED BY <2>1
<1> HIDE DEF U
<1>3. \A n \in Nat : n \in U
  BY <1>1, <1>2, SetInduction
<1> QED BY <1>3 DEF U

\* f is what the steps make of base, one after the other
Unrolls(f, N, base, step) == f[0] = base /\ \A n \in 1 .. N : f[n] = step[n][f[n - 1]]
Steps(N, S) == [1 .. N -> [S -> S]]
Runs(N, S) == [0 .. N -> S]

\* Recursion along 1 .. N has a result
LEMMA Recursion ==
    ASSUME NEW N \in Nat, NEW S, NEW base \in S, NEW step \in Steps(N, S)
    PROVE  \E f \in Runs(N, S) : Unrolls(f, N, base, step)
<1>0. step \in [1 .. N -> [S -> S]]
  BY DEF Steps
<1> DEFINE Upto(k) == \E f \in [0 .. k -> S] :
                          f[0] = base /\ \A n \in 1 .. k : f[n] = step[n][f[n - 1]]
           T == {k \in 0 .. N : Upto(k)}
<1>1. Upto(0)
  <2>1. PICK f : f = [i \in 0 .. 0 |-> base]
    OBVIOUS
  <2>2. f \in [0 .. 0 -> S] /\ f[0] = base /\ \A n \in 1 .. 0 : f[n] = step[n][f[n - 1]]
    BY <2>1
  <2> QED BY <2>2
<1>2. ASSUME NEW k \in 0 .. N, k < N, Upto(k) PROVE Upto(k + 1)
  <2>1. PICK f \in [0 .. k -> S] : f[0] = base /\ \A n \in 1 .. k : f[n] = step[n][f[n - 1]]
    BY <1>2
  <2>2. PICK v : v = step[k + 1][f[k]]
    OBVIOUS
  <2>3. v \in S
    BY <1>0, <1>2, <2>1, <2>2
  <2> DEFINE g == [i \in 0 .. k + 1 |-> IF i = k + 1 THEN v ELSE f[i]]
  <2>4. g \in [0 .. k + 1 -> S]
    BY <2>1, <2>3
  <2>5. g[0] = base /\ g[k + 1] = v /\ \A n \in 0 .. k : g[n] = f[n]
    BY <2>1
  <2>6. \A n \in 1 .. k + 1 : g[n] = step[n][g[n - 1]]
    <3> SUFFICES ASSUME NEW n \in 1 .. k + 1 PROVE g[n] = step[n][g[n - 1]]
      OBVIOUS
    <3> HIDE DEF g
    <3>1. CASE n = k + 1
      BY <3>1, <2>2, <2>5
    <3>2. CASE n # k + 1
      <4>1. n \in 1 .. k /\ n - 1 \in 0 .. k
        BY <3>2
      <4> QED BY <4>1, <2>1, <2>5
    <3> QED BY <3>1, <3>2
  <2> HIDE DEF g
  <2> QED BY <2>4, <2>5, <2>6
<1>3. Upto(N)
  <2> HIDE DEF Upto
  <2>1. 0 \in T /\ \A k \in 0 .. N : k < N /\ k \in T => k + 1 \in T
    BY <1>1, <1>2
  <2> HIDE DEF T
  <2>2. \A k \in 0 .. N : k \in T
    BY <2>1, BoundedInduction
  <2> QED BY <2>2 DEF T
<1> QED BY <1>3 DEF Runs, Unrolls
=============================================================================
