------------------------------- MODULE Loops -------------------------------
(***************************************************************************)
(* What the proofs share about loops and recursive functions: a loop whose *)
(* every turn keeps what it is given runs to its end, and what the         *)
(* operators that put an element into a sequence, take one out of it or    *)
(* line up a set return.                                                   *)
(***************************************************************************)
EXTENDS Integers, FiniteSets, SequencesExt, FiniteSetTheorems, SequenceTheorems,
        WellFoundedInduction, TLAPS

---------------------------------------------------------------------------
(* Loops.  The induction of the library needs an operator for a parameter; *)
(* but a loop that went wrong would have a first turn that does.           *)

\* The least number of a set: where a loop would first go wrong.
LEMMA LeastNat ==
    ASSUME NEW T \in SUBSET Nat, T # {}
    PROVE  \E x \in T : \A y \in T : x <= y
<1>1. PICK x \in T : \A y \in T : <<y, x>> \notin OpToRel(<, Nat)
  BY NatLessThanWellFounded, WFMin
<1>2. \A y \in T : ~(y < x)
  BY <1>1 DEF OpToRel
<1> QED  BY <1>2

\* Turn n leads from J[n - 1] into J[n], and f is what N turns do to S.
Leads(N, J, Turn, S) ==
    /\ N \in Nat /\ S \in J[0]
    /\ \A n \in 1..N : \A x \in J[n - 1] : Turn[<<n, x>>] \in J[n]

Looped(f, N, J, Turn, S) ==
    /\ f \in [0..N -> UNION {J[n] : n \in 0..N}]
    /\ \A n \in 0..N : f[n] = (IF n = 0 THEN S ELSE Turn[<<n, f[n - 1]>>]) /\ f[n] \in J[n]

\* A loop whose every turn leads on runs to its end.
LEMMA LoopRuns ==
    ASSUME NEW N, NEW J, NEW Turn, NEW S, Leads(N, J, Turn, S)
    PROVE  \E f : Looped(f, N, J, Turn, S)
<1> USE DEF Leads
<1> DEFINE Run(f, k) ==
             /\ f = [n \in 0..k |-> IF n = 0 THEN S ELSE Turn[<<n, f[n - 1]>>]]
             /\ \A n \in 0..k : f[n] \in J[n]
           Stuck == {k \in 0..N : ~\E f : Run(f, k)}
<1>1. ASSUME Stuck # {} PROVE FALSE
  <2>0. Stuck \in SUBSET Nat
    OBVIOUS
  <2> HIDE DEF Stuck
  <2>1. PICK k \in Stuck : \A y \in Stuck : k <= y
    BY <1>1, <2>0, LeastNat
  <2> USE DEF Stuck
  <2>2. k \in 0..N /\ k \in Nat
    BY <2>1
  <2>3. CASE k = 0
    <3> DEFINE f == [n \in 0..0 |-> S]
    <3>1. Run(f, 0)
      <4>1. \A n \in 0..0 : n = 0
        OBVIOUS
      <4> QED  BY <4>1
    <3> QED  BY <3>1, <2>1, <2>3
  <2>4. CASE k # 0
    <3>1. k - 1 \in 0..N /\ k - 1 \notin Stuck
      BY <2>1, <2>2, <2>4
    <3>2. PICK f : Run(f, k - 1)
      BY <3>1
    <3> HIDE DEF Stuck
    <3> DEFINE g == [n \in 0..k |-> IF n = k THEN Turn[<<k, f[k - 1]>>] ELSE f[n]]
    <3>3. \A n \in 0..k : n = k \/ n \in 0..(k - 1)
      BY <2>2
    <3>4. DOMAIN f = 0..(k-1)
      BY <3>2
    <3>5. ASSUME NEW n \in 0..k
          PROVE g[n] = IF n = 0 THEN S ELSE Turn[<<n, g[n - 1]>>]
      <4>1. CASE n = k
        <5>1. g[n] = Turn[<<k, f[k - 1]>>] /\ n # 0 /\ n - 1 \in 0..k /\ n - 1 # k
          BY <4>1, <2>2, <2>4
        <5> QED  BY <5>1, <4>1
      <4>2. CASE n # k
        <5>1. n \in 0..(k - 1) /\ g[n] = f[n]
          BY <4>2, <3>3
        <5>2. f[n] = IF n = 0 THEN S ELSE Turn[<<n, f[n - 1]>>]
          BY <5>1, <3>2
        <5>3. n # 0 => g[n - 1] = f[n - 1]
          BY <5>1, <2>2
        <5> QED  BY <5>1, <5>2, <5>3
      <4> QED  BY <4>1, <4>2
    <3>6. \A n \in 0..k : g[n] \in J[n]
      <4>1. Turn[<<k, f[k - 1]>>] \in J[k]
        BY <3>2, <2>2, <2>4
      <4> QED  BY <4>1, <3>2, <3>3
    <3>7. Run(g, k)
      <4>1. g = [n \in 0..k |-> IF n = 0 THEN S ELSE Turn[<<n, g[n - 1]>>]]
        BY <3>5, Zenon
      <4> QED  BY <4>1, <3>6, Zenon
    <3> QED  BY <3>7, <2>1 DEF Stuck
  <2> QED  BY <2>3, <2>4
<1>2. N \in 0..N
  OBVIOUS
<1>3. N \notin Stuck
  <2> HIDE DEF Stuck
  <2> QED  BY <1>1
<1>4. PICK f : Run(f, N)
  BY <1>2, <1>3, Zenon
<1>5. f \in [0..N -> UNION {J[n] : n \in 0..N}]
  <2>1. f = [n \in 0..N |-> f[n]]
    BY <1>4
  <2>2. \A n \in 0..N : f[n] \in UNION {J[i] : i \in 0..N}
    BY <1>4
  <2> QED  BY <2>1, <2>2, Zenon
<1>6. \A n \in 0..N : f[n] = IF n = 0 THEN S ELSE Turn[<<n, f[n - 1]>>]
  BY <1>4
<1> QED  BY <1>4, <1>5, <1>6 DEF Looped


\* What is in front of the last turn is kept by it.
LEMMA LoopEnds ==
    ASSUME NEW N \in Nat, NEW J, NEW f, f[0] \in J[0],
           \A n \in 1..N : f[n - 1] \in J[n - 1] => f[n] \in J[n]
    PROVE  f[N] \in J[N]
<1> DEFINE Bad == {n \in 0..N : f[n] \notin J[n]}
<1>1. ASSUME Bad # {} PROVE FALSE
  <2>0. Bad \in SUBSET Nat
    OBVIOUS
  <2> HIDE DEF Bad
  <2>1. PICK k \in Bad : \A y \in Bad : k <= y
    BY <1>1, <2>0, LeastNat
  <2> USE DEF Bad
  <2>2. k \in 0..N /\ k # 0
    BY <2>1
  <2>3. k - 1 \in 0..N /\ k - 1 \notin Bad /\ k \in 1..N
    BY <2>1, <2>2
  <2> QED  BY <2>1, <2>3
<1>2. N \in 0..N
  OBVIOUS
<1>3. N \notin Bad
  <2> HIDE DEF Bad
  <2> QED  BY <1>1
<1> QED  BY <1>2, <1>3

\* t is s with e put in at a place.
Inserted(t, s, at, e) ==
    /\ Len(t) = Len(s) + 1
    /\ t[at] = e
    /\ \A i \in 1..(Len(s) + 1) : i < at => t[i] = s[i]
    /\ \A i \in 1..(Len(s) + 1) : i > at => t[i] = s[i - 1]

\* What InsertAt makes of a sequence.
LEMMA InsertAtIs ==
    ASSUME NEW Q, NEW s \in Seq(Q), NEW at \in 1..(Len(s) + 1), NEW e \in Q
    PROVE  /\ InsertAt(s, at, e) \in Seq(Q)
           /\ Inserted(InsertAt(s, at, e), s, at, e)
<1>1. Len(s) \in Nat
  OBVIOUS
<1> DEFINE a == SubSeq(s, 1, at - 1)
           b == SubSeq(s, at, Len(s))
<1>2. a \in Seq(Q) /\ Len(a) = at - 1 /\ \A i \in 1..(at - 1) : a[i] = s[i]
  BY <1>1
<1>3. /\ b \in Seq(Q) /\ Len(b) = Len(s) - at + 1
      /\ \A i \in 1..(Len(s) - at + 1) : b[i] = s[at + i - 1]
  BY <1>1
<1> HIDE DEF a, b
<1> DEFINE ae == a \o <<e>>
<1>4. ae \in Seq(Q) /\ Len(ae) = at /\ (\A i \in 1..(at - 1) : ae[i] = s[i]) /\ ae[at] = e
  BY <1>2
<1> HIDE DEF ae
<1> DEFINE t == ae \o b
<1>5. /\ t \in Seq(Q) /\ Len(t) = Len(ae) + Len(b)
       /\ \A i \in 1..(Len(ae) + Len(b)) :
            t[i] = IF i <= Len(ae) THEN ae[i] ELSE b[i - Len(ae)]
  BY <1>3, <1>4, ConcatProperties
<1> HIDE DEF t
<1>6. t \in Seq(Q) /\ Len(t) = Len(s) + 1
  BY <1>1, <1>3, <1>4, <1>5
<1>7. ASSUME NEW i \in 1..(Len(s) + 1)
      PROVE  t[i] = IF i < at THEN s[i] ELSE IF i = at THEN e ELSE s[i - 1]
  <2>1. CASE i <= at
    <3>1. t[i] = ae[i]
      BY <2>1, <1>3, <1>4, <1>5, <1>1
    <3> QED  BY <3>1, <2>1, <1>4
  <2>2. CASE i > at
    <3>1. t[i] = b[i - at]
      BY <2>2, <1>3, <1>4, <1>1, <1>5
    <3>2. i - at \in 1..(Len(s) - at + 1) /\ at + (i - at) - 1 = i - 1
      BY <2>2, <1>1
    <3> QED  BY <3>1, <3>2, <2>2, <1>3
  <2> QED  BY <2>1, <2>2
<1>8. InsertAt(s, at, e) = t
  BY DEF InsertAt, a, b, ae, t
<1> HIDE DEF t
<1> QED  BY <1>6, <1>7, <1>8 DEF Inserted

\* What RemoveAt makes of a sequence.
LEMMA RemoveAtIs ==
    ASSUME NEW Q, NEW s \in Seq(Q), NEW at \in 1..Len(s)
    PROVE  LET t == RemoveAt(s, at)
           IN  /\ t \in Seq(Q) /\ Len(t) = Len(s) - 1
               /\ \A i \in 1..(Len(s) - 1) : t[i] = IF i < at THEN s[i] ELSE s[i + 1]
<1>1. Len(s) \in Nat
  OBVIOUS
<1> DEFINE a == SubSeq(s, 1, at - 1)
           b == SubSeq(s, at + 1, Len(s))
<1>2. a \in Seq(Q) /\ Len(a) = at - 1 /\ \A i \in 1..(at - 1) : a[i] = s[i]
  BY <1>1
<1>3. b \in Seq(Q) /\ Len(b) = Len(s) - at /\ \A i \in 1..(Len(s) - at) : b[i] = s[at + i]
  BY <1>1
<1> HIDE DEF a, b
<1> DEFINE t == a \o b
<1>4. /\ t \in Seq(Q) /\ Len(t) = Len(a) + Len(b)
      /\ \A i \in 1..(Len(a) + Len(b)) :
            t[i] = IF i <= Len(a) THEN a[i] ELSE b[i - Len(a)]
  BY <1>2, <1>3, ConcatProperties
<1> HIDE DEF t
<1>5. t \in Seq(Q) /\ Len(t) = Len(s) - 1
  BY <1>1, <1>2, <1>3, <1>4
<1>6. /\ at \in Int /\ Len(a) = at - 1 /\ Len(a) + Len(b) = Len(s) - 1
       /\ \A i \in 1..(Len(s) - 1) :
            t[i] = IF i <= at - 1 THEN a[i] ELSE b[i - (at - 1)]
  <2>1. at \in Int /\ Len(a) = at - 1 /\ Len(a) + Len(b) = Len(s) - 1
    BY <1>1, <1>2, <1>3
  <2>2. \A i \in 1..(Len(s) - 1) : t[i] = IF i <= Len(a) THEN a[i] ELSE b[i - Len(a)]
    BY <2>1, <1>4
  <2> QED  BY <2>1, <2>2
<1>7. ASSUME NEW i \in 1..(Len(s) - 1)
      PROVE  t[i] = IF i < at THEN s[i] ELSE s[i + 1]
  <2>1. CASE i < at
    <3>1. t[i] = a[i]
      BY <2>1, <1>6
    <3> QED  BY <3>1, <2>1, <1>2
  <2>2. CASE i >= at
    <3>1. t[i] = b[i - (at - 1)]
      BY <2>2, <1>6
    <3>2. i - (at - 1) \in 1..(Len(s) - at) /\ at + (i - (at - 1)) = i + 1
      BY <2>2, <1>1
    <3> QED  BY <3>1, <3>2, <2>2, <1>3
  <2> QED  BY <2>1, <2>2
<1>8. RemoveAt(s, at) = t
  BY DEF RemoveAt, a, b, t
<1> HIDE DEF t
<1> QED  BY <1>5, <1>7, <1>8

\* An order of a finite set has its size.
LEMMA OrderIs ==
    ASSUME NEW X, IsFiniteSet(X), NEW order \in SetToSeqs(X)
    PROVE  /\ Len(order) \in Nat /\ order \in [1..Len(order) -> X]
           /\ \A i, j \in 1..Len(order) : i # j => order[i] # order[j]
           /\ Len(order) = Cardinality(X)
           /\ \A x \in X : \E i \in 1..Len(order) : order[i] = x
<1> DEFINE n == Cardinality(X)
<1>1. n \in Nat
  BY FS_CardinalityType
<1>2. order \in [1..n -> X] /\ \A i, j \in 1..n : i # j => order[i] # order[j]
  BY DEF SetToSeqs
<1> HIDE DEF n
<1>3. Len(order) = n
  BY <1>1, <1>2
<1>4. \A x \in X : \E i \in 1..n : order[i] = x
  <2>1. order \in Injection(1..n, X)
    BY <1>2 DEF Injection, IsInjective
  <2>2. Cardinality(1..n) = n
    BY <1>1, FS_Interval
  <2>3. order \in Surjection(1..n, X)
    BY <2>1, <2>2, FS_Injection DEF n
  <2> QED  BY <2>3 DEF Surjection
<1> QED  BY <1>1, <1>2, <1>3, <1>4 DEF n
===========================================================================
