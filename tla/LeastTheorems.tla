--------------------------- MODULE LeastTheorems ---------------------------
(***************************************************************************)
(* The least element of a set of natural numbers: what the scanners and    *)
(* the else-if chains pick when they take the first of several; and what   *)
(* follows from there being one: induction, and that a function defined by *)
(* recursion exists.  No theorem takes an operator for a parameter.        *)
(***************************************************************************)
EXTENDS Integers, FiniteSetsExt, WellFoundedInduction, TLAPS

(* A set of natural numbers that is not empty has a least element, and Min *)
(* is it.                                                                  *)
LEMMA MinIsLeast ==
    ASSUME NEW S \in SUBSET Nat, S # {}
    PROVE  Min(S) \in S /\ \A j \in S : Min(S) <= j
<1> DEFINE R == OpToRel(<, Nat)
<1>1. \E i \in S : \A j \in S : ~ (<<j, i>> \in R)
    BY NatLessThanWellFounded, WFMin
<1>2. \A i, j \in Nat : (j < i) => <<j, i>> \in R
    BY DEF OpToRel
<1> HIDE DEF R
<1>3. PICK i \in S : \A j \in S : ~ (<<j, i>> \in R)
    BY <1>1
<1>4. \A j \in S : i <= j
    <2> TAKE j \in S
    <2>1. i \in Nat /\ j \in Nat /\ ~ (j < i)
        BY <1>2, <1>3
    <2> QED BY <2>1
<1> QED BY <1>4 DEF Min

(* One that is bounded has a greatest, and Max is it.                      *)
LEMMA MaxIsGreatest ==
    ASSUME NEW S \in SUBSET Nat, S # {}, NEW N \in Nat, \A i \in S : i <= N
    PROVE  Max(S) \in S /\ \A j \in S : j <= Max(S)
<1> DEFINE T == {n \in Nat : N - n \in S}
<1>1. T \in SUBSET Nat
    OBVIOUS
<1>2. \A i \in S : N - i \in T
    <2> SUFFICES ASSUME NEW i \in S PROVE N - i \in Nat /\ N - (N - i) \in S
        OBVIOUS
    <2>1. i \in Nat /\ N - i \in Nat /\ N - (N - i) = i
        OBVIOUS
    <2> QED BY <2>1
<1>3. T # {}
    BY <1>2
<1> DEFINE m == Min(T)
<1>4. m \in Nat /\ N - m \in S /\ \A j \in T : m <= j
    BY <1>1, <1>3, MinIsLeast
<1> HIDE DEF m, T
<1>5. \A j \in S : j <= N - m
    <2> SUFFICES ASSUME NEW j \in S PROVE j <= N - m
        OBVIOUS
    <2>1. m <= N - j /\ j \in Nat
        BY <1>2, <1>4
    <2> QED BY <1>4, <2>1
<1>6. \E x \in S : \A y \in S : x >= y
    BY <1>4, <1>5
<1>7. Max(S) \in S /\ \A y \in S : Max(S) >= y
    BY <1>6 DEF Max
<1> QED BY <1>7

(* Induction: a set that has a number whenever it has all smaller ones has *)
(* them all.                                                               *)
LEMMA Induction ==
    ASSUME NEW S, \A n \in Nat : (\A m \in Nat : m < n => m \in S) => n \in S
    PROVE  \A n \in Nat : n \in S
<1> DEFINE missing == Nat \ S
<1>1. ASSUME missing # {} PROVE FALSE
    <2>1. missing \in SUBSET Nat
        OBVIOUS
    <2>2. Min(missing) \in missing /\ \A j \in missing : Min(missing) <= j
        BY <1>1, <2>1, MinIsLeast
    <2> DEFINE n == Min(missing)
    <2>3. n \in Nat /\ n \notin S /\ \A m \in Nat : m < n => m \in S
        BY <2>2
    <2> HIDE DEF n
    <2> QED BY <2>3
<1> QED BY <1>1

(* The same from the end of an interval down.                              *)
LEMMA InductionDown ==
    ASSUME NEW N \in Nat, NEW S,
           \A i \in 1 .. N : (\A j \in 1 .. N : i < j => j \in S) => i \in S
    PROVE  \A i \in 1 .. N : i \in S
<1> DEFINE T == {n \in Nat : \A i \in 1 .. N : N - i <= n => i \in S}
<1>1. ASSUME NEW n \in Nat, \A m \in Nat : m < n => m \in T PROVE n \in T
    <2> SUFFICES ASSUME NEW i \in 1 .. N, N - i <= n PROVE i \in S
        OBVIOUS
    <2>1. ASSUME NEW j \in 1 .. N, i < j PROVE j \in S
        <3>1. N - j \in Nat /\ N - j < n
            BY <2>1
        <3> QED BY <1>1, <3>1
    <2> QED BY <2>1
<1> HIDE DEF T
<1>2. \A n \in Nat : n \in T
    BY <1>1, Induction
<1> SUFFICES ASSUME NEW i \in 1 .. N PROVE i \in S
    OBVIOUS
<1>3. N - i \in Nat /\ N - i <= N - i
    OBVIOUS
<1>4. N - i \in T
    BY <1>2, <1>3
<1> QED BY <1>3, <1>4 DEF T

(* Recursion: a step that looks at the value of a function only where a    *)
(* measure is smaller than at its argument has a fixed point.              *)
Measures(measure, D, N) == measure \in [D -> Nat] /\ \A i \in D : measure[i] < N

LooksDown(step, measure, D, V) ==
    /\ step \in [D -> [[D -> V] -> V]]
    /\ \A i \in D, g, h \in [D -> V] :
          (\A j \in D : measure[j] < measure[i] => g[j] = h[j])
             => step[i][g] = step[i][h]

IsFixed(g, step, D) == \A i \in D : g[i] = step[i][g]

(* There is a function so defined, if each step looks down.                *)
LEMMA Recursion ==
    ASSUME NEW D, NEW V, V # {}, NEW N \in Nat, NEW measure, NEW step,
           Measures(measure, D, N), LooksDown(step, measure, D, V)
    PROVE  \E g \in [D -> V] : IsFixed(g, step, D)
<1> USE DEF Measures, LooksDown
<1> DEFINE upTo == {n \in Nat : \E g \in [D -> V] :
                                  \A i \in D : measure[i] < n => g[i] = step[i][g]}
<1>1. \A n \in Nat : n \in upTo
    <2>1. 0 \in upTo
        <3>0. PICK v0 : v0 \in V
            OBVIOUS
        <3>1. [i \in D |-> v0] \in [D -> V] /\ \A i \in D : ~ (measure[i] < 0)
            BY <3>0
        <3> QED BY <3>1
    <2>2. ASSUME NEW n \in Nat, n \in upTo PROVE n + 1 \in upTo
        <3>1. PICK g \in [D -> V] : \A i \in D : measure[i] < n => g[i] = step[i][g]
            BY <2>2
        <3> DEFINE h == [i \in D |-> IF measure[i] < n THEN g[i] ELSE step[i][g]]
        <3>2. h \in [D -> V]
            OBVIOUS
        <3>3. \A j \in D : measure[j] < n => h[j] = g[j]
            OBVIOUS
        <3>4. ASSUME NEW i \in D, measure[i] < n + 1 PROVE h[i] = step[i][h]
            <4>1. h[i] = step[i][g]
                BY <3>1
            <4>2. \A j \in D : measure[j] < measure[i] => g[j] = h[j]
                BY <3>3, <3>4
            <4> HIDE DEF h
            <4> QED BY <3>2, <4>1, <4>2
        <3> HIDE DEF h
        <3> QED BY <3>2, <3>4
    <2> HIDE DEF upTo
    <2>3. \A n \in Nat : (\A m \in Nat : m < n => m \in upTo) => n \in upTo
        <3> SUFFICES ASSUME NEW n \in Nat, \A m \in Nat : m < n => m \in upTo
                     PROVE  n \in upTo
            OBVIOUS
        <3>1. CASE n = 0
            BY <2>1, <3>1
        <3>2. CASE n # 0
            <4>1. n - 1 \in Nat /\ n - 1 < n /\ (n - 1) + 1 = n
                BY <3>2
            <4> QED BY <2>2, <4>1
        <3> QED BY <3>1, <3>2
    <2> QED BY <2>3, Induction
<1>2. PICK g \in [D -> V] : \A i \in D : measure[i] < N => g[i] = step[i][g]
    BY <1>1
<1> QED BY <1>2 DEF IsFixed

=============================================================================
