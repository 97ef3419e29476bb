----------------------------- MODULE FoldFacts ------------------------------
(***************************************************************************)
(* What the proofs about FoldLeft need, of any operator op: a fold is      *)
(* reached from its base in one step for each element, so that it has what *)
(* the base has and every step keeps.  Instantiated for each fold of the   *)
(* models.  Induction over the naturals is stated for a set, from the      *)
(* well-foundedness of < (WellFoundedInduction).                           *)
(***************************************************************************)
EXTENDS Integers, Sequences, SequencesExt, WellFoundedInduction, TLAPS

CONSTANTS
  op(_, _),      \* the step of the fold
  Good(_)        \* what its values have in common

\* A set with 0 and with every successor is all of Nat.
THEOREM Induction ==
  ASSUME NEW S \in SUBSET Nat, 0 \in S, \A n \in S : n + 1 \in S
  PROVE  S = Nat
<1> SUFFICES ASSUME S # Nat PROVE FALSE
  OBVIOUS
<1> DEFINE T == Nat \ S
<1>1. T # {} /\ T \subseteq Nat
  OBVIOUS
<1>2. \E x \in T : \A y \in T : ~ (<<y, x>> \in OpToRel(<,Nat))
  BY <1>1, NatLessThanWellFounded, WFMin
<1>3. PICK x \in T : \A y \in T : ~ (<<y, x>> \in OpToRel(<,Nat))
  BY <1>2
<1>4. x \in Nat /\ x # 0 /\ x - 1 \in Nat
  OBVIOUS
<1>5. x - 1 \in S
  <2>1. <<x - 1, x>> \in OpToRel(<, Nat)
    BY <1>4 DEF OpToRel
  <2> QED BY <1>3, <1>4, <2>1
<1> QED BY <1>4, <1>5

Folded(base, s) == FoldLeft(op, base, s)

\* iter is the function MapThenFoldSet recurs with, over a set D of indices.
Iterates(base, s, D, iter) ==
  iter = [t \in SUBSET D |-> IF t = {} THEN base ELSE op(iter[t \ {Max(t)}], s[Max(t)])]

\* The fold, with its recursion named.
LEMMA FoldedIter == \A base, s : Folded(base, s) = (CHOOSE iter : Iterates(base, s, DOMAIN s, iter))[DOMAIN s]
BY DEF Folded, FoldLeft, MapThenFoldSet, Iterates

\* The maximum the fold takes of 1 .. n is n.
LEMMA MaxIs ==
  ASSUME NEW n \in Nat, NEW t \in SUBSET (1 .. n), n \in t
  PROVE  Max(t) = n
<1>1. \A y \in t : n >= y
  OBVIOUS
<1>2. \A x \in t : (\A y \in t : x >= y) => x = n
  OBVIOUS
<1> QED BY <1>1, <1>2 DEF Max

\* There is a function that satisfies the recursion, over any number of indices.
LEMMA Iterable == \A base, s : \A n \in Nat : \E iter : Iterates(base, s, 1 .. n, iter)
<1> SUFFICES ASSUME NEW base, NEW s
             PROVE  \A n \in Nat : \E iter : Iterates(base, s, 1 .. n, iter)
  OBVIOUS
<1> DEFINE N == {n \in Nat : \E iter : Iterates(base, s, 1 .. n, iter)}
<1>1. 0 \in N
  <2> DEFINE iter == [t \in {{}} |-> base]
  <2>1. SUBSET (1 .. 0) = {{}}
    OBVIOUS
  <2>2. Iterates(base, s, 1 .. 0, iter)
    BY <2>1 DEF Iterates
  <2> QED BY <2>2
<1>2. ASSUME NEW n \in N PROVE n + 1 \in N
  <2>1. PICK old : Iterates(base, s, 1 .. n, old)
    BY <1>2
  <2> DEFINE iter == [t \in SUBSET (1 .. n + 1) |->
                        IF n + 1 \in t THEN op(old[t \ {n + 1}], s[n + 1]) ELSE old[t]]
  <2>2. ASSUME NEW t \in SUBSET (1 .. n + 1)
        PROVE  iter[t] = IF t = {} THEN base ELSE op(iter[t \ {Max(t)}], s[Max(t)])
    <3>1. CASE n + 1 \in t
      <4>1. Max(t) = n + 1
        BY <3>1, MaxIs
      <4>2. t \ {n + 1} \in SUBSET (1 .. n + 1) /\ n + 1 \notin t \ {n + 1}
        OBVIOUS
      <4>3. iter[t \ {n + 1}] = old[t \ {n + 1}]
        BY <4>2
      <4> QED BY <3>1, <4>1, <4>3
    <3>2. CASE n + 1 \notin t
      <4>0. \A k \in 1 .. n + 1 : k \in 1 .. n \/ k = n + 1
        OBVIOUS
      <4>1. t \in SUBSET (1 .. n) /\ t \ {Max(t)} \in SUBSET (1 .. n + 1) /\ n + 1 \notin t \ {Max(t)}
        BY <3>2, <4>0, Zenon
      <4>2. iter[t] = old[t] /\ iter[t \ {Max(t)}] = old[t \ {Max(t)}]
        BY <3>2, <4>1
      <4>3. old[t] = IF t = {} THEN base ELSE op(old[t \ {Max(t)}], s[Max(t)])
        BY <2>1, <4>1 DEF Iterates
      <4> QED BY <4>2, <4>3
    <3> QED BY <3>1, <3>2
  <2>3. iter = [t \in SUBSET (1 .. n + 1) |-> iter[t]]
    OBVIOUS
  <2> HIDE DEF iter
  <2>4. Iterates(base, s, 1 .. n + 1, iter)
    BY <2>2, <2>3 DEF Iterates
  <2> QED BY <2>4
<1>3. N = Nat
  <2> HIDE DEF N
  <2>1. N \in SUBSET Nat
    BY DEF N
  <2> QED BY <1>1, <1>2, <2>1, Induction
<1> QED BY <1>3

\* The fold is where steps from base end, and there are such steps.
THEOREM FoldSteps ==
  ASSUME NEW base, NEW S, NEW s \in Seq(S)
  PROVE  \E g : /\ g[0] = base /\ g[Len(s)] = Folded(base, s)
                /\ \A k \in 1 .. Len(s) : g[k] = op(g[k - 1], s[k])
<1>1. PICK iter : iter = (CHOOSE f : Iterates(base, s, DOMAIN s, f))
  OBVIOUS
<1>2. DOMAIN s = 1 .. Len(s) /\ Len(s) \in Nat
  OBVIOUS
<1>3. Iterates(base, s, 1 .. Len(s), iter)
  BY <1>1, <1>2, Iterable
<1> DEFINE g == [k \in 0 .. Len(s) |-> iter[1 .. k]]
<1>4. g[0] = base
  <2>1. {} \in SUBSET (1 .. Len(s)) /\ 1 .. 0 = {} /\ 0 \in 0 .. Len(s)
    BY <1>2
  <2>2. iter[{}] = base
    BY <1>3, <2>1 DEF Iterates
  <2> QED BY <2>1, <2>2
<1>5. ASSUME NEW k \in 1 .. Len(s) PROVE g[k] = op(g[k - 1], s[k])
  <2>1. 1 .. k \in SUBSET (1 .. Len(s)) /\ 1 .. k # {} /\ k \in Nat /\ k \in 1 .. k
    <3>1. k \in Nat /\ k \in 1 .. k /\ \A i \in 1 .. k : i \in 1 .. Len(s)
      BY <1>2
    <3> QED BY <3>1, Zenon
  <2>2. Max(1 .. k) = k
    BY <2>1, MaxIs
  <2>3. (1 .. k) \ {k} = 1 .. k - 1 /\ k \in 0 .. Len(s) /\ k - 1 \in 0 .. Len(s)
    BY <1>2
  <2>4. iter[1 .. k] = op(iter[(1 .. k) \ {k}], s[k])
    BY <1>3, <2>1, <2>2 DEF Iterates
  <2> QED BY <2>3, <2>4
<1>6. g[Len(s)] = Folded(base, s)
  <2>1. Folded(base, s) = iter[1 .. Len(s)]
    BY <1>1, <1>2, FoldedIter
  <2> QED BY <1>2, <2>1
<1> HIDE DEF g
<1> QED BY <1>4, <1>5, <1>6

\* Whatever steps from base there are, they end at the fold.
THEOREM FoldIs ==
  ASSUME NEW base, NEW S, NEW s \in Seq(S), NEW g, g[0] = base,
         \A k \in 1 .. Len(s) : g[k] = op(g[k - 1], s[k])
  PROVE  Folded(base, s) = g[Len(s)]
<1>1. PICK f : /\ f[0] = base /\ f[Len(s)] = Folded(base, s)
               /\ \A k \in 1 .. Len(s) : f[k] = op(f[k - 1], s[k])
  BY FoldSteps
<1> DEFINE N == {n \in Nat : n <= Len(s) => f[n] = g[n]}
<1>2. 0 \in N
  BY <1>1
<1>3. ASSUME NEW n \in N PROVE n + 1 \in N
  <2>1. n \in Nat /\ n + 1 \in Nat /\ Len(s) \in Nat /\ (n + 1) - 1 = n
    OBVIOUS
  <2>2. ASSUME n + 1 <= Len(s) PROVE f[n + 1] = g[n + 1]
    <3>1. n + 1 \in 1 .. Len(s) /\ n <= Len(s)
      BY <2>1, <2>2
    <3>2. f[n] = g[n]
      BY <3>1
    <3> QED BY <1>1, <2>1, <3>1, <3>2, Zenon
  <2> QED BY <2>1, <2>2
<1>4. N = Nat
  <2> HIDE DEF N
  <2>1. N \in SUBSET Nat
    BY DEF N
  <2> QED BY <1>2, <1>3, <2>1, Induction
<1>5. Len(s) \in Nat /\ Len(s) <= Len(s)
  OBVIOUS
<1> QED BY <1>1, <1>4, <1>5

\* What the base has and every step keeps the fold has.
THEOREM FoldKeeps ==
  ASSUME NEW base, NEW S, NEW s \in Seq(S), Good(base),
         \A e \in S : \A x : Good(x) => Good(op(x, e))
  PROVE  Good(Folded(base, s))
<1>1. PICK f : /\ f[0] = base /\ f[Len(s)] = Folded(base, s)
               /\ \A k \in 1 .. Len(s) : f[k] = op(f[k - 1], s[k])
  BY FoldSteps
<1> DEFINE N == {n \in Nat : n <= Len(s) => Good(f[n])}
<1>2. 0 \in N
  BY <1>1
<1>3. ASSUME NEW n \in N PROVE n + 1 \in N
  <2>1. n \in Nat /\ n + 1 \in Nat /\ Len(s) \in Nat /\ (n + 1) - 1 = n
    OBVIOUS
  <2>2. ASSUME n + 1 <= Len(s) PROVE Good(f[n + 1])
    <3>1. n + 1 \in 1 .. Len(s) /\ n <= Len(s)
      BY <2>1, <2>2
    <3>2. Good(f[n]) /\ s[n + 1] \in S
      BY <3>1
    <3> QED BY <1>1, <2>1, <3>1, <3>2, Zenon
  <2> QED BY <2>1, <2>2
<1>4. N = Nat
  <2> HIDE DEF N
  <2>1. N \in SUBSET Nat
    BY DEF N
  <2> QED BY <1>2, <1>3, <2>1, Induction
<1>5. Len(s) \in Nat /\ Len(s) <= Len(s)
  OBVIOUS
<1> QED BY <1>1, <1>4, <1>5
=============================================================================
