---------------------------- MODULE DaemonProofs ----------------------------
(***************************************************************************)
(* The daemon's books, for any number of processes and clients and any     *)
(* limits: the counters the limits are compared with are the children in   *)
(* the process table, the launch list holds every queue that has a time to *)
(* wait for, once and in order, and what stops the daemon with a division  *)
(* by zero is the unexpanded queue or mail for a host that was left        *)
(* without a wait.                                                         *)
(***************************************************************************)
EXTENDS Daemon, Loops

---------------------------------------------------------------------------
(* The queues and the launch list: what hq_deliver_pop, hq_deliver_push and *)
(* hq_free do to them.                                                     *)

HqMem ==
    [entries: Nat, jailed: Nat, wait: Nat, leaky: BOOLEAN, scheduled: BOOLEAN,
     due: Int, again: BOOLEAN, last: {"never", "now", "past"}]

Memory == [hq: UNION {[X -> HqMem] : X \in SUBSET Queues}, list: Seq(Queues)]

\* Sorted by launch time, each queue once.
Sorted(S) ==
    \A i, j \in DOMAIN S.list :
        i < j => /\ S.list[i] # S.list[j]
                 /\ S.hq[S.list[i]].due <= S.hq[S.list[j]].due

\* The list holds every queue that was scheduled, but for those of Out; a queue
\* that was not scheduled takes the next launch time it is given.
Listed(S, Out) ==
    /\ Sorted(S)
    /\ ToSet(S.list) = {q \in DOMAIN S.hq \ Out : S.hq[q].scheduled}
    /\ \A q \in DOMAIN S.hq : S.hq[q].scheduled \/ S.hq[q].again

\* The queues and the list, part by part.
LEMMA MemoryIs ==
    ASSUME NEW h, NEW l
    PROVE  [hq |-> h, list |-> l] \in Memory <=>
             /\ h = [q \in DOMAIN h |-> h[q]]
             /\ DOMAIN h \subseteq Queues
             /\ \A q \in DOMAIN h : h[q] \in HqMem
             /\ l \in Seq(Queues)
<1>1. h \in UNION {[X -> HqMem] : X \in SUBSET Queues} <=>
        \E X \in SUBSET Queues : h \in [X -> HqMem]
  BY Zenon
<1>2. ASSUME NEW X \in SUBSET Queues, h \in [X -> HqMem]
      PROVE  /\ h = [q \in DOMAIN h |-> h[q]]
             /\ DOMAIN h \subseteq Queues
             /\ \A q \in DOMAIN h : h[q] \in HqMem
  BY <1>2
<1>3. ASSUME h = [q \in DOMAIN h |-> h[q]], DOMAIN h \subseteq Queues,
             \A q \in DOMAIN h : h[q] \in HqMem
      PROVE  \E X \in SUBSET Queues : h \in [X -> HqMem]
  BY <1>3
<1>4. [hq |-> h, list |-> l] \in Memory <=>
        h \in UNION {[X -> HqMem] : X \in SUBSET Queues} /\ l \in Seq(Queues)
  BY Zenon DEF Memory
<1> QED  BY <1>1, <1>2, <1>3, <1>4, Zenon

\* The same, of what is in Memory.
LEMMA MemoryParts ==
    ASSUME NEW S \in Memory
    PROVE  /\ S = [hq |-> S.hq, list |-> S.list]
           /\ S.hq = [q \in DOMAIN S.hq |-> S.hq[q]]
           /\ DOMAIN S.hq \subseteq Queues
           /\ \A q \in DOMAIN S.hq : S.hq[q] \in HqMem
           /\ S.list \in Seq(Queues)
<1>1. S = [hq |-> S.hq, list |-> S.list]
  BY DEF Memory
<1>2. [hq |-> S.hq, list |-> S.list] \in Memory
  BY <1>1
<1> QED  BY <1>1, <1>2, MemoryIs, Zenon

\* hq_deliver_pop takes the queue out and leaves the order of the others.
LEMMA PopIs ==
    ASSUME NEW S \in Memory, Listed(S, {}), NEW q
    PROVE  /\ hq_deliver_pop(S, q) = [hq |-> S.hq, list |-> Dequeue(S.list, q)]
           /\ hq_deliver_pop(S, q) \in Memory
           /\ Listed(hq_deliver_pop(S, q), {q})
<1> DEFINE s == S.list
           t == Dequeue(s, q)
           P == [hq |-> S.hq, list |-> t]
<1>0. /\ S = [hq |-> S.hq, list |-> S.list]
      /\ s \in Seq(Queues) /\ DOMAIN s = 1..Len(s) /\ Len(s) \in Nat
  BY MemoryParts, LenProperties
<1>1. hq_deliver_pop(S, q) = P
  BY <1>0 DEF hq_deliver_pop
<1>2. CASE q \notin ToSet(s)
  <2>1. t = s
    BY <1>2 DEF Dequeue
  <2>2. P = S
    BY <2>1, <1>0
  <2>3. Listed(S, {q})
    BY <1>2 DEF Listed
  <2> QED  BY <1>1, <2>2, <2>3
<1>3. CASE q \in ToSet(s)
  <2> DEFINE at == CHOOSE i \in DOMAIN s : s[i] = q
  <2>1. at \in 1..Len(s) /\ s[at] = q
    <3>1. \E i \in DOMAIN s : s[i] = q
      BY <1>3 DEF ToSet
    <3> QED  BY <3>1, <1>0
  <2>2. t = RemoveAt(s, at)
    BY <1>3, Zenon DEF Dequeue
  <2> HIDE DEF at, t
  <2>3. /\ t \in Seq(Queues) /\ Len(t) = Len(s) - 1
        /\ \A i \in 1..(Len(s) - 1) : t[i] = IF i < at THEN s[i] ELSE s[i + 1]
    BY <2>1, <2>2, <1>0, RemoveAtIs, Zenon
  <2>4. DOMAIN t = 1..(Len(s) - 1)
    BY <2>3, LenProperties
  <2> DEFINE from(i) == IF i < at THEN i ELSE i + 1
  <2>5. \A i \in DOMAIN t : from(i) \in DOMAIN s /\ from(i) # at /\ t[i] = s[from(i)]
    BY <2>1, <2>3, <2>4, <1>0
  <2>6. \A i, j \in DOMAIN t : i < j => from(i) < from(j)
    BY <2>4, <2>1, <1>0
  <2>7. \A j \in DOMAIN s : j # at => \E i \in DOMAIN t : from(i) = j
    <3> SUFFICES ASSUME NEW j \in DOMAIN s, j # at
                 PROVE  \E i \in DOMAIN t : from(i) = j
      OBVIOUS
    <3>1. CASE j < at
      <4>1. j \in DOMAIN t /\ from(j) = j
        BY <3>1, <2>1, <2>4, <1>0
      <4> QED  BY <4>1
    <3>2. CASE j > at
      <4>1. j - 1 \in DOMAIN t /\ from(j - 1) = j
        BY <3>2, <2>1, <2>4, <1>0
      <4> QED  BY <4>1
    <3>3. j \in Int /\ at \in Int
      BY <2>1, <1>0
    <3> QED  BY <3>1, <3>2, <3>3
  <2> HIDE DEF from
  <2>8. P \in Memory
    BY <2>3, <1>0, MemoryIs, MemoryParts
  <2>9. Sorted(P)
    <3> SUFFICES ASSUME NEW i \in DOMAIN t, NEW j \in DOMAIN t, i < j
                 PROVE  t[i] # t[j] /\ S.hq[t[i]].due <= S.hq[t[j]].due
      BY DEF Sorted
    <3>1. from(i) < from(j)
      BY <2>6
    <3> QED  BY <3>1, <2>5 DEF Listed, Sorted
  <2>10. ToSet(t) = ToSet(s) \ {q}
    <3>1. \A j \in DOMAIN s : s[j] = q => j = at
      <4> SUFFICES ASSUME NEW j \in DOMAIN s, s[j] = q, j # at PROVE FALSE
        OBVIOUS
      <4>1. j < at \/ at < j
        BY <2>1, <1>0
      <4> QED  BY <4>1, <2>1, <1>0 DEF Listed, Sorted
    <3>2. ASSUME NEW x \in ToSet(t) PROVE x \in ToSet(s) \ {q}
      <4>1. PICK i \in DOMAIN t : x = t[i]
        BY <3>2 DEF ToSet
      <4> QED  BY <4>1, <2>5, <3>1 DEF ToSet
    <3>3. ASSUME NEW x \in ToSet(s) \ {q} PROVE x \in ToSet(t)
      <4>1. PICK j \in DOMAIN s : x = s[j]
        BY <3>3 DEF ToSet
      <4>2. PICK i \in DOMAIN t : from(i) = j
        BY <4>1, <2>1, <2>7
      <4> QED  BY <4>1, <4>2, <2>5 DEF ToSet
    <3> QED  BY <3>2, <3>3
  <2>11. Listed(P, {q})
    <3>1. P.list = t /\ P.hq = S.hq
      OBVIOUS
    <3>2. ToSet(P.list) = {x \in DOMAIN S.hq : S.hq[x].scheduled} \ {q}
      BY <2>10, <3>1 DEF Listed
    <3>3. ToSet(P.list) = {x \in DOMAIN P.hq \ {q} : P.hq[x].scheduled}
      BY <3>1, <3>2
    <3>4. \A x \in DOMAIN P.hq : P.hq[x].scheduled \/ P.hq[x].again
      BY <3>1 DEF Listed
    <3> QED  BY <2>9, <3>3, <3>4 DEF Listed
  <2>12. hq_deliver_pop(S, q) = [hq |-> S.hq, list |-> Dequeue(S.list, q)]
    BY <1>1 DEF t
  <2> QED  BY <1>1, <2>8, <2>11, <2>12, Zenon
<1> QED  BY <1>1, <1>2, <1>3

\* A queue takes the time it is given, unless it has one that is sooner.
LEMMA TakeIs ==
    ASSUME NEW h \in HqMem, h.scheduled \/ h.again,
           NEW c, c.wait \in Nat, c.next \in Int
    PROVE  Take(h, c) \in HqMem /\ Take(h, c).scheduled
BY DEF HqMem, Take

\* The place hq_deliver_push looks for: nothing in front of it is due later, and
\* nothing behind it sooner.
LEMMA PlaceIs ==
    ASSUME NEW s \in Seq(Queues), NEW h, NEW q,
           \A x \in ToSet(s) \union {q} : h[x].due \in Int,
           \A i, j \in DOMAIN s : i < j => h[s[i]].due <= h[s[j]].due
    PROVE  \E at \in 1..(Len(s) + 1) :
             /\ Insert(s, h, q) = InsertAt(s, at, q)
             /\ \A i \in DOMAIN s : i < at => h[s[i]].due <= h[q].due
             /\ \A i \in DOMAIN s : i >= at => h[q].due <= h[s[i]].due
<1>0. DOMAIN s = 1..Len(s) /\ Len(s) \in Nat /\ h[q].due \in Int
      /\ \A i \in DOMAIN s : h[s[i]].due \in Int
  BY LenProperties DEF ToSet
<1>1. \A i, j \in DOMAIN s : i <= j => h[s[i]].due <= h[s[j]].due
  <2> SUFFICES ASSUME NEW i \in DOMAIN s, NEW j \in DOMAIN s, i <= j
               PROVE  h[s[i]].due <= h[s[j]].due
    OBVIOUS
  <2>1. i < j \/ i = j
    BY <1>0
  <2> QED  BY <2>1, <1>0
<1>2. CASE s = << >> \/ h[s[1]].due >= h[q].due
  <2>1. Insert(s, h, q) = InsertAt(s, 1, q)
    BY <1>2 DEF Insert
  <2>2. \A i \in DOMAIN s : i >= 1 /\ ~(i < 1) /\ h[q].due <= h[s[i]].due
    <3> SUFFICES ASSUME NEW i \in DOMAIN s
                 PROVE  i >= 1 /\ h[q].due <= h[s[i]].due
      BY <1>0
    <3>1. 1 \in DOMAIN s /\ i >= 1 /\ s # << >>
      BY <1>0
    <3>2. h[s[1]].due <= h[s[i]].due
      BY <3>1, <1>1, <1>0
    <3> QED  BY <3>1, <3>2, <1>2, <1>0
  <2>3. 1 \in 1..(Len(s) + 1)
    BY <1>0
  <2> QED  BY <2>1, <2>2, <2>3
<1>3. CASE ~(s = << >> \/ h[s[1]].due >= h[q].due)
  <2> DEFINE Stop == {i \in 1..Len(s) : i = Len(s) \/ h[s[i + 1]].due > h[q].due}
             k == Min(Stop)
  <2>1. Insert(s, h, q) = InsertAt(s, 1 + k, q)
    BY <1>3, Zenon DEF Insert
  <2>2. Stop \in SUBSET Nat
    OBVIOUS
  <2>3. Len(s) \in Stop /\ 1 \in DOMAIN s
    <3>1. Len(s) # 0
      BY <1>3, <1>0
    <3> QED  BY <3>1, <1>0
  <2> HIDE DEF Stop
  <2>4. \E x \in Stop : \A y \in Stop : x <= y
    BY <2>2, <2>3, LeastNat
  <2>5. k \in Stop /\ \A y \in Stop : k <= y
    BY <2>4 DEF Min
  <2> HIDE DEF k
  <2>6. k \in 1..Len(s) /\ (k = Len(s) \/ h[s[k + 1]].due > h[q].due)
    BY <2>5 DEF Stop
  <2>7. k \in 1..Len(s)
    BY <2>6
  <2>8. ASSUME NEW i \in DOMAIN s, i < 1 + k PROVE h[s[i]].due <= h[q].due
    <3>1. CASE i = 1
      BY <3>1, <1>3, <1>0, <2>3
    <3>2. CASE i # 1
      <4>1. i - 1 \in 1..Len(s) /\ i - 1 # Len(s) /\ ~(k <= i - 1) /\ i - 1 + 1 = i
        BY <3>2, <2>7, <2>8, <1>0
      <4>2. i - 1 \notin Stop
        BY <4>1, <2>5
      <4> QED  BY <4>1, <4>2, <1>0 DEF Stop
    <3> QED  BY <3>1, <3>2
  <2>9. ASSUME NEW i \in DOMAIN s, i >= 1 + k PROVE h[q].due <= h[s[i]].due
    <3>1. k # Len(s) /\ k + 1 \in DOMAIN s /\ k + 1 <= i
      <4>1. i \in 1..Len(s) /\ Len(s) \in Nat /\ i >= 1 + k
        BY <2>9, <1>0
      <4>2. k < Len(s) /\ k + 1 \in 1..Len(s) /\ k + 1 <= i
        BY <4>1, <2>7
      <4>3. k # Len(s)
        BY <4>1, <4>2, <2>7
      <4>4. k + 1 \in DOMAIN s
        BY <4>2, <1>0
      <4> QED  BY <4>2, <4>3, <4>4
    <3>2. h[s[k + 1]].due <= h[s[i]].due
      BY <3>1, <1>1
    <3>3. h[s[k + 1]].due > h[q].due
      BY <3>1, <2>6
    <3> QED  BY <3>1, <3>2, <3>3, <1>0
  <2>10. 1 + k \in 1..(Len(s) + 1)
    BY <2>7, <1>0
  <2> QED  BY <2>1, <2>8, <2>9, <2>10
<1> QED  BY <1>2, <1>3

\* hq_deliver_push puts a queue that is not in the list where its time belongs.
LEMMA PushIs ==
    ASSUME NEW S \in Memory, NEW q \in DOMAIN S.hq, Listed(S, {q}),
           NEW c, c.wait \in Nat, c.next \in Int
    PROVE  /\ Push(S, q, c) \in Memory
           /\ Push(S, q, c).hq = [S.hq EXCEPT ![q] = Take(@, c)]
           /\ Listed(Push(S, q, c), {})
<1> DEFINE h == [S.hq EXCEPT ![q] = Take(@, c)]
           s == S.list
           t == Insert(s, h, q)
           P == [hq |-> h, list |-> t]
<1>0. /\ S.hq = [x \in DOMAIN S.hq |-> S.hq[x]]
      /\ s \in Seq(Queues) /\ DOMAIN s = 1..Len(s) /\ Len(s) \in Nat
      /\ DOMAIN S.hq \subseteq Queues
      /\ \A x \in DOMAIN S.hq : S.hq[x] \in HqMem
  BY MemoryParts, LenProperties, Zenon
<1>1. Push(S, q, c) = P
  BY Zenon DEF Push
<1>2. /\ DOMAIN h = DOMAIN S.hq /\ h[q] = Take(S.hq[q], c)
      /\ \A x \in DOMAIN S.hq : x # q => h[x] = S.hq[x]
      /\ h = [x \in DOMAIN h |-> h[x]]
  BY <1>0
<1>3. h[q] \in HqMem /\ h[q].scheduled
  BY <1>2, <1>0, TakeIs DEF Listed
<1>4. \A x \in DOMAIN h : h[x] \in HqMem
  BY <1>0, <1>2, <1>3
<1> HIDE DEF h, t
<1>5. ToSet(s) = {x \in DOMAIN S.hq \ {q} : S.hq[x].scheduled}
  BY DEF Listed
<1>6. \A i \in DOMAIN s : s[i] \in DOMAIN S.hq \ {q} /\ h[s[i]] = S.hq[s[i]]
  BY <1>5, <1>2 DEF ToSet
<1>7. \A x \in ToSet(s) \union {q} : h[x].due \in Int
  BY <1>5, <1>4, <1>2 DEF HqMem
<1>8. \A i, j \in DOMAIN s : i < j => h[s[i]].due <= h[s[j]].due
  BY <1>6 DEF Listed, Sorted
<1>9. PICK at \in 1..(Len(s) + 1) :
        /\ t = InsertAt(s, at, q)
        /\ \A i \in DOMAIN s : i < at => h[s[i]].due <= h[q].due
        /\ \A i \in DOMAIN s : i >= at => h[q].due <= h[s[i]].due
  BY <1>0, <1>7, <1>8, PlaceIs DEF t
<1>10. /\ t \in Seq(Queues) /\ Len(t) = Len(s) + 1
       /\ t[at] = q
       /\ \A i \in 1..(Len(s) + 1) : i < at => t[i] = s[i]
       /\ \A i \in 1..(Len(s) + 1) : i > at => t[i] = s[i - 1]
  <2>1. q \in Queues /\ at \in 1..(Len(s) + 1) /\ t = InsertAt(s, at, q)
    BY <1>0, <1>9
  <2>2. t \in Seq(Queues) /\ Inserted(t, s, at, q)
    BY <2>1, <1>0, InsertAtIs
  <2> QED  BY <2>2 DEF Inserted
<1>11. DOMAIN t = 1..(Len(s) + 1)
  BY <1>10, LenProperties
<1>12. P \in Memory
  BY <1>2, <1>4, <1>0, <1>10, MemoryIs
<1>13. Sorted(P)
  <2> SUFFICES ASSUME NEW i \in DOMAIN t, NEW j \in DOMAIN t, i < j
               PROVE  t[i] # t[j] /\ h[t[i]].due <= h[t[j]].due
    BY DEF Sorted
  <2>0. i \in Int /\ j \in Int /\ at \in Int
    BY <1>11, <1>9
  <2>1. CASE j < at
    <3>1. t[i] = s[i] /\ t[j] = s[j] /\ i \in DOMAIN s /\ j \in DOMAIN s
      BY <2>1, <2>0, <1>10, <1>11, <1>0
    <3> QED  BY <3>1, <1>8 DEF Listed, Sorted
  <2>2. CASE i < at /\ j = at
    <3>1. t[i] = s[i] /\ t[j] = q /\ i \in DOMAIN s
      BY <2>2, <2>0, <1>10, <1>11, <1>0
    <3> QED  BY <3>1, <2>2, <1>6, <1>9
  <2>3. CASE i < at /\ j > at
    <3>1. /\ t[i] = s[i] /\ t[j] = s[j - 1] /\ i \in DOMAIN s /\ j - 1 \in DOMAIN s
          /\ i < j - 1
      <4>1. /\ i \in 1..Len(s) /\ j - 1 \in 1..Len(s) /\ i < j - 1
            /\ ~(j < at) /\ j # at
        BY <2>3, <2>0, <1>9, <1>11, <1>0
      <4> QED  BY <4>1, <2>3, <1>10, <1>11, <1>0
    <3> QED  BY <3>1, <1>8 DEF Listed, Sorted
  <2>4. CASE i = at
    <3>1. t[i] = q /\ t[j] = s[j - 1] /\ j - 1 \in DOMAIN s /\ j - 1 >= at
      BY <2>4, <2>0, <1>10, <1>11, <1>0
    <3> QED  BY <3>1, <1>6, <1>9
  <2>5. CASE i > at
    <3>1. /\ t[i] = s[i - 1] /\ t[j] = s[j - 1] /\ i - 1 \in DOMAIN s /\ j - 1 \in DOMAIN s
          /\ i - 1 < j - 1
      BY <2>5, <2>0, <1>10, <1>11, <1>0
    <3> QED  BY <3>1, <1>8 DEF Listed, Sorted
  <2> QED  BY <2>0, <2>1, <2>2, <2>3, <2>4, <2>5
<1>14. ToSet(t) = ToSet(s) \union {q}
  <2>1. ASSUME NEW x \in ToSet(t) PROVE x \in ToSet(s) \union {q}
    <3>1. PICK i \in DOMAIN t : x = t[i]
      BY <2>1 DEF ToSet
    <3>2. i < at => i \in DOMAIN s
      BY <1>11, <1>9, <1>0
    <3>3. i > at => i - 1 \in DOMAIN s
      BY <1>11, <1>9, <1>0
    <3>4. i < at \/ i = at \/ i > at
      BY <1>11, <1>9
    <3> QED  BY <3>1, <3>2, <3>3, <3>4, <1>10, <1>11 DEF ToSet
  <2>2. ASSUME NEW x \in ToSet(s) PROVE x \in ToSet(t)
    <3>1. PICK i \in DOMAIN s : x = s[i]
      BY <2>2 DEF ToSet
    <3>2. CASE i < at
      <4>1. i \in DOMAIN t /\ t[i] = x
        BY <3>1, <3>2, <1>10, <1>11, <1>0
      <4> QED  BY <4>1 DEF ToSet
    <3>3. CASE i >= at
      <4>1. i + 1 \in DOMAIN t /\ t[i + 1] = x
        BY <3>1, <3>3, <1>10, <1>11, <1>0, <1>9
      <4> QED  BY <4>1 DEF ToSet
    <3> QED  BY <3>2, <3>3, <1>9, <1>0
  <2>3. q \in ToSet(t)
    <3>1. at \in DOMAIN t /\ t[at] = q
      BY <1>9, <1>10, <1>11
    <3> QED  BY <3>1 DEF ToSet
  <2> QED  BY <2>1, <2>2, <2>3
<1>15. Listed(P, {})
  <2>1. P.list = t /\ P.hq = h
    OBVIOUS
  <2>2. ToSet(P.list) = {x \in DOMAIN h : h[x].scheduled}
    BY <2>1, <1>14, <1>5, <1>2, <1>3
  <2>3. ToSet(P.list) = {x \in DOMAIN P.hq \ {} : P.hq[x].scheduled}
    BY <2>1, <2>2
  <2>4. \A x \in DOMAIN P.hq : P.hq[x].scheduled \/ P.hq[x].again
    BY <2>1, <1>2, <1>3 DEF Listed
  <2> QED  BY <1>13, <2>3, <2>4 DEF Listed
<1> QED  BY <1>1, <1>12, <1>15 DEF h

\* The loop of q_read_dir ends where its turns lead.
LEMMA VisitsEnd ==
    ASSUME NEW S, NEW order, NEW gone, NEW pick, NEW J, Len(order) \in Nat, S \in J[0],
           \A n \in 1..Len(order) : \A x \in J[n - 1] :
             Visit(x, order[n], gone, pick) \in J[n]
    PROVE  Visits(S, order, gone, pick) \in J[Len(order)]
<1> DEFINE N == Len(order)
           after[n \in 0..N] ==
             IF n = 0 THEN S ELSE Visit(after[n - 1], order[n], gone, pick)
           Is(f) ==
             f = [n \in 0..N |->
                    IF n = 0 THEN S ELSE Visit(f[n - 1], order[n], gone, pick)]
           Turn == [nx \in (1..N) \X UNION {J[n] : n \in 0..N} |->
                      Visit(nx[2], order[nx[1]], gone, pick)]
<1>1. Visits(S, order, gone, pick) = after[N]
  BY DEF Visits, InTurn
<1>2. (\E f : Is(f)) => Is(after)
  OBVIOUS
<1>3. \A n \in 1..N : \A x \in J[n - 1] :
        Turn[<<n, x>>] = Visit(x, order[n], gone, pick) /\ Turn[<<n, x>>] \in J[n]
  <2> SUFFICES ASSUME NEW n \in 1..N, NEW x \in J[n - 1]
               PROVE  Turn[<<n, x>>] = Visit(x, order[n], gone, pick)
    OBVIOUS
  <2>1. n - 1 \in 0..N
    OBVIOUS
  <2>2. x \in UNION {J[i] : i \in 0..N}
    BY <2>1
  <2>3. <<n, x>> \in (1..N) \X UNION {J[i] : i \in 0..N}
    BY <2>2
  <2> QED  BY <2>3, Zenon
<1> HIDE DEF Turn
<1>4. Leads(N, J, Turn, S)
  BY <1>3 DEF Leads
<1> HIDE DEF N
<1>5. PICK f : Looped(f, N, J, Turn, S)
  BY <1>4, LoopRuns
<1>6. Is(f)
  <2>1. ASSUME NEW n \in 0..N
        PROVE  f[n] = IF n = 0 THEN S ELSE Visit(f[n - 1], order[n], gone, pick)
    <3>1. f[n] = IF n = 0 THEN S ELSE Turn[<<n, f[n - 1]>>]
      BY <1>5 DEF Looped
    <3>2. n # 0 => n \in 1..N /\ n - 1 \in 0..N
      BY <1>4 DEF Leads
    <3>3. n # 0 => f[n - 1] \in J[n - 1]
      BY <1>5, <3>2 DEF Looped
    <3> QED  BY <3>1, <3>2, <3>3, <1>3
  <2>2. f = [n \in 0..N |-> f[n]]
    BY <1>5 DEF Looped
  <2> QED  BY <2>1, <2>2, Zenon
<1>7. Is(after)
  BY <1>2, <1>6
<1> HIDE DEF after, Turn
<1>8. N \in Nat /\ after[0] \in J[0]
  <2>1. N \in Nat /\ 0 \in 0..N
    BY <1>4 DEF Leads
  <2> QED  BY <2>1, <1>7
<1>9. \A n \in 1..N : after[n - 1] \in J[n - 1] => after[n] \in J[n]
  <2> SUFFICES ASSUME NEW n \in 1..N, after[n - 1] \in J[n - 1]
               PROVE  after[n] \in J[n]
    OBVIOUS
  <2>1. n \in 0..N /\ n # 0
    BY <1>8
  <2>2. after[n] = Visit(after[n - 1], order[n], gone, pick)
    BY <2>1, <1>7
  <2> QED  BY <2>2 DEF N
<1> QED  BY <1>1, <1>8, <1>9, LoopEnds DEF N

\* The loop of a command over its queues ends where its turns lead.
LEMMA PushesEnd ==
    ASSUME NEW S, NEW order, NEW J, Len(order) \in Nat, S \in J[0],
           \A n \in 1..Len(order) : \A x \in J[n - 1] : PushNow(x, order[n]) \in J[n]
    PROVE  InTurn(PushNow, S, order) \in J[Len(order)]
<1> DEFINE N == Len(order)
           after[n \in 0..N] == IF n = 0 THEN S ELSE PushNow(after[n - 1], order[n])
           Is(f) == f = [n \in 0..N |-> IF n = 0 THEN S ELSE PushNow(f[n - 1], order[n])]
           Turn == [nx \in (1..N) \X UNION {J[n] : n \in 0..N} |->
                      PushNow(nx[2], order[nx[1]])]
<1>1. InTurn(PushNow, S, order) = after[N]
  BY DEF InTurn
<1>2. (\E f : Is(f)) => Is(after)
  OBVIOUS
<1>3. \A n \in 1..N : \A x \in J[n - 1] :
        Turn[<<n, x>>] = PushNow(x, order[n]) /\ Turn[<<n, x>>] \in J[n]
  <2> SUFFICES ASSUME NEW n \in 1..N, NEW x \in J[n - 1]
               PROVE  Turn[<<n, x>>] = PushNow(x, order[n])
    OBVIOUS
  <2>1. n - 1 \in 0..N
    OBVIOUS
  <2>2. x \in UNION {J[i] : i \in 0..N}
    BY <2>1
  <2>3. <<n, x>> \in (1..N) \X UNION {J[i] : i \in 0..N}
    BY <2>2
  <2> QED  BY <2>3, Zenon
<1> HIDE DEF Turn
<1>4. Leads(N, J, Turn, S)
  BY <1>3 DEF Leads
<1> HIDE DEF N
<1>5. PICK f : Looped(f, N, J, Turn, S)
  BY <1>4, LoopRuns
<1>6. Is(f)
  <2>1. ASSUME NEW n \in 0..N
        PROVE  f[n] = IF n = 0 THEN S ELSE PushNow(f[n - 1], order[n])
    <3>1. f[n] = IF n = 0 THEN S ELSE Turn[<<n, f[n - 1]>>]
      BY <1>5 DEF Looped
    <3>2. n # 0 => n \in 1..N /\ n - 1 \in 0..N
      BY <1>4 DEF Leads
    <3>3. n # 0 => f[n - 1] \in J[n - 1]
      BY <1>5, <3>2 DEF Looped
    <3> QED  BY <3>1, <3>2, <3>3, <1>3
  <2>2. f = [n \in 0..N |-> f[n]]
    BY <1>5 DEF Looped
  <2> QED  BY <2>1, <2>2, Zenon
<1>7. Is(after)
  BY <1>2, <1>6
<1> HIDE DEF after, Turn
<1>8. N \in Nat /\ after[0] \in J[0]
  <2>1. N \in Nat /\ 0 \in 0..N
    BY <1>4 DEF Leads
  <2> QED  BY <2>1, <1>7
<1>9. \A n \in 1..N : after[n - 1] \in J[n - 1] => after[n] \in J[n]
  <2> SUFFICES ASSUME NEW n \in 1..N, after[n - 1] \in J[n - 1]
               PROVE  after[n] \in J[n]
    OBVIOUS
  <2>1. n \in 0..N /\ n # 0
    BY <1>8
  <2>2. after[n] = PushNow(after[n - 1], order[n])
    BY <2>1, <1>7
  <2> QED  BY <2>2 DEF N
<1> QED  BY <1>1, <1>8, <1>9, LoopEnds DEF N

---------------------------------------------------------------------------
(* The steps of the daemon.                                                *)

ListInv ==
    /\ slow \subseteq Msg
    /\ IsFiniteSet(DOMAIN envs) /\ DOMAIN envs \subseteq Msg
    /\ IsFiniteSet(DOMAIN hq)
    /\ \A m \in DOMAIN envs : HostOf[m] \in DOMAIN hq
    /\ Now \in Memory /\ Listed(Now, {})

\* The list stays sound when queues are added that have no launch time, those of
\* Out change, and the others keep their order.
LEMMA Relabelled ==
    ASSUME NEW S \in Memory, NEW Out, Listed(S, Out), NEW h,
           h = [x \in DOMAIN h |-> h[x]], DOMAIN h \subseteq Queues,
           DOMAIN S.hq \subseteq DOMAIN h,
           \A x \in DOMAIN h : h[x] \in HqMem /\ (h[x].scheduled \/ h[x].again),
           \A x \in DOMAIN h \ Out :
             h[x].scheduled <=> x \in DOMAIN S.hq /\ S.hq[x].scheduled,
           \A x, y \in DOMAIN S.hq \ Out :
             /\ S.hq[x].scheduled /\ S.hq[y].scheduled
             /\ S.hq[x].due <= S.hq[y].due
             => h[x].due <= h[y].due
    PROVE  /\ [hq |-> h, list |-> S.list] \in Memory
           /\ Listed([hq |-> h, list |-> S.list], Out)
<1> DEFINE P == [hq |-> h, list |-> S.list]
<1>1. S.list \in Seq(Queues)
  BY MemoryParts
<1>2. P \in Memory
  BY <1>1, MemoryIs
<1>3. \A i \in DOMAIN S.list : /\ S.list[i] \in DOMAIN S.hq \ Out
                               /\ S.hq[S.list[i]].scheduled
  BY DEF Listed, ToSet
<1>4. Sorted(P)
  <2> SUFFICES ASSUME NEW i \in DOMAIN S.list, NEW j \in DOMAIN S.list, i < j
               PROVE  /\ S.list[i] # S.list[j]
                      /\ h[S.list[i]].due <= h[S.list[j]].due
    BY DEF Sorted
  <2>1. S.list[i] # S.list[j] /\ S.hq[S.list[i]].due <= S.hq[S.list[j]].due
    BY DEF Listed, Sorted
  <2> QED  BY <2>1, <1>3
<1>5. ToSet(S.list) = {x \in DOMAIN h \ Out : h[x].scheduled}
  <2>1. ToSet(S.list) = {x \in DOMAIN S.hq \ Out : S.hq[x].scheduled}
    BY DEF Listed
  <2>2. \A x : x \in DOMAIN S.hq \ Out /\ S.hq[x].scheduled
                 <=> x \in DOMAIN h \ Out /\ h[x].scheduled
    OBVIOUS
  <2> QED  BY <2>1, <2>2
<1>6. Listed(P, Out)
  BY <1>4, <1>5 DEF Listed
<1> QED  BY <1>2, <1>6

\* The waits of a queue are times.
LEMMA QueueWaits ==
    ASSUME NEW q
    PROVE  HqMinWait(q) \in Nat /\ HqMaxWait(q) \in Nat
<1>1. MinWait \in Nat /\ MaxWait \in Nat
  BY HostQueueAssumption
<1>2. RedWait(q).min \in Nat /\ RedWait(q).max \in Nat
  BY HostQueueAssumption DEF RedWait
<1>3. /\ HqMinWait(q) \in {0, RedWait(q).min, MinWait}
      /\ HqMaxWait(q) \in {0, RedWait(q).max, MaxWait}
  <2>1. CASE q = Unexpanded
    BY <2>1 DEF HqMinWait, HqMaxWait
  <2>2. CASE q # Unexpanded /\ q \in RedHosts
    BY <2>2 DEF HqMinWait, HqMaxWait
  <2>3. CASE q # Unexpanded /\ q \notin RedHosts
    BY <2>3 DEF HqMinWait, HqMaxWait
  <2> QED  BY <2>1, <2>2, <2>3
<1> QED  BY <1>1, <1>2, <1>3

\* Whatever hq_deliver_push chooses, it is a time.
LEMMA WaitsAre ==
    ASSUME NEW q, NEW h \in HqMem, NEW c \in Waits(q, h)
    PROVE  c.wait \in Nat /\ c.next \in Int
<1>0. /\ HqMinWait(q) \in Nat /\ HqMaxWait(q) \in Nat /\ JailSeconds \in Nat
      /\ h.wait \in Nat
  BY QueueWaits, HostQueueAssumption DEF HqMem
<1>1. CASE c \in WaitJail(h)
  <2>1. PICK n : c = Schedule(JailSeconds, n) /\ n \in Int
    BY <1>1, <1>0 DEF WaitJail
  <2> QED  BY <2>1, <1>0 DEF Schedule
<1>2. CASE c \in WaitFirst(q)
  <2>1. PICK n : c = Schedule(HqMinWait(q), n) /\ n \in Int
    BY <1>2, <1>0 DEF WaitFirst
  <2> QED  BY <2>1, <1>0 DEF Schedule
<1>3. CASE c \in WaitTwice(q, h)
  <2>1. PICK w \in Nat : c = Schedule(w, w)
    BY <1>3, <1>0 DEF WaitTwice
  <2> QED  BY <2>1 DEF Schedule
<1> QED  BY <1>1, <1>2, <1>3 DEF Waits

\* The mark of a leaky queue has no part in the list.
LEMMA UnleakIs ==
    ASSUME NEW S \in Memory, NEW q \in DOMAIN S.hq, Listed(S, {q})
    PROVE  LET T == [S EXCEPT !.hq[q] = Unleak(@)]
           IN  /\ T \in Memory /\ Listed(T, {q}) /\ DOMAIN T.hq = DOMAIN S.hq
               /\ \A x \in DOMAIN S.hq : x # q => T.hq[x] = S.hq[x]
<1> DEFINE h == [S.hq EXCEPT ![q] = Unleak(@)]
           T == [S EXCEPT !.hq[q] = Unleak(@)]
<1>0. /\ S = [hq |-> S.hq, list |-> S.list]
      /\ S.hq = [x \in DOMAIN S.hq |-> S.hq[x]]
      /\ DOMAIN S.hq \subseteq Queues
      /\ \A x \in DOMAIN S.hq : S.hq[x] \in HqMem
  BY MemoryParts, Zenon
<1>1. T = [hq |-> h, list |-> S.list]
  BY <1>0
<1>2. /\ DOMAIN h = DOMAIN S.hq /\ h[q] = Unleak(S.hq[q])
      /\ \A x \in DOMAIN S.hq : x # q => h[x] = S.hq[x]
      /\ h = [x \in DOMAIN h |-> h[x]]
  BY <1>0
<1>3. /\ Unleak(S.hq[q]) \in HqMem
      /\ Unleak(S.hq[q]).scheduled = S.hq[q].scheduled
      /\ Unleak(S.hq[q]).again = S.hq[q].again
  <2>1. S.hq[q] \in HqMem /\ AllJailed(S.hq[q]) \in BOOLEAN
    BY <1>0, HostQueueAssumption DEF AllJailed
  <2> QED  BY <2>1 DEF Unleak, HqMem
<1> HIDE DEF h, T
<1>4. \A x \in DOMAIN h : h[x] \in HqMem /\ (h[x].scheduled \/ h[x].again)
  BY <1>0, <1>2, <1>3 DEF Listed
<1>5. [hq |-> h, list |-> S.list] \in Memory /\ Listed([hq |-> h, list |-> S.list], {q})
  BY <1>0, <1>2, <1>4, Relabelled
<1>6. T \in Memory /\ Listed(T, {q}) /\ T.hq = h
  BY <1>1, <1>5
<1> QED  BY <1>6, <1>2 DEF T

\* A queue that was taken out is put back, or nothing is changed.
LEMMA PushWaitIs ==
    ASSUME NEW S \in Memory, NEW q \in DOMAIN S.hq, Listed(S, {q}),
           NEW ok, PushWait(S, q, ok)
    PROVE  \/ UNCHANGED <<hq, deliver_q>>
           \/ Now' \in Memory /\ Listed(Now', {}) /\ DOMAIN hq' = DOMAIN S.hq
<1> SUFFICES ASSUME ~UNCHANGED <<hq, deliver_q>>
             PROVE  Now' \in Memory /\ Listed(Now', {}) /\ DOMAIN hq' = DOMAIN S.hq
  OBVIOUS
<1> DEFINE T == [S EXCEPT !.hq[q] = Unleak(@)]
<1>1. PICK c \in Waits(q, S.hq[q]) : Becomes(Push(T, q, c))
  BY Zenon DEF PushWait
<1>2. /\ T \in Memory /\ Listed(T, {q}) /\ DOMAIN T.hq = DOMAIN S.hq
  BY UnleakIs
<1>3. c.wait \in Nat /\ c.next \in Int
  <2>1. S.hq[q] \in HqMem
    BY MemoryParts
  <2> QED  BY <2>1, <1>1, WaitsAre
<1> HIDE DEF T
<1>4. /\ Push(T, q, c) \in Memory /\ Listed(Push(T, q, c), {})
      /\ Push(T, q, c).hq = [T.hq EXCEPT ![q] = Take(@, c)]
  BY <1>2, <1>3, PushIs
<1>5. Now' = Push(T, q, c)
  <2>1. Push(T, q, c) = [hq |-> Push(T, q, c).hq, list |-> Push(T, q, c).list]
    BY <1>4, MemoryParts, Zenon
  <2> QED  BY <2>1, <1>1 DEF Becomes, Now
<1> QED  BY <1>4, <1>5, <1>2 DEF Now

\* hq_free takes the queue out of both.
LEMMA FreeIs ==
    ASSUME NEW S \in Memory, Listed(S, {}), NEW q
    PROVE  /\ hq_free(S, q) \in Memory /\ Listed(hq_free(S, q), {})
           /\ hq_free(S, q).hq = [x \in DOMAIN S.hq \ {q} |-> S.hq[x]]
<1> DEFINE h == [x \in DOMAIN S.hq \ {q} |-> S.hq[x]]
           t == Dequeue(S.list, q)
           P == [hq |-> S.hq, list |-> t]
           F == [hq |-> h, list |-> t]
<1>1. hq_deliver_pop(S, q) = P /\ P \in Memory /\ Listed(P, {q})
  BY PopIs, Zenon
<1>2. hq_free(S, q) = F
  <2>1. hq_deliver_pop(S, q).list = t
    BY <1>1
  <2> HIDE DEF t
  <2> QED  BY <2>1, Zenon DEF hq_free
<1> HIDE DEF t
<1>3. /\ DOMAIN S.hq \subseteq Queues /\ t \in Seq(Queues)
      /\ \A x \in DOMAIN S.hq : S.hq[x] \in HqMem
  <2>1. P.list \in Seq(Queues)
    BY <1>1, MemoryParts, Zenon
  <2> QED  BY <2>1, MemoryParts
<1>4. F \in Memory
  BY <1>3, MemoryIs
<1>5. ToSet(t) = {x \in DOMAIN S.hq \ {q} : S.hq[x].scheduled}
  BY <1>1 DEF Listed
<1>6. Sorted(F)
  <2> SUFFICES ASSUME NEW i \in DOMAIN t, NEW j \in DOMAIN t, i < j
               PROVE  t[i] # t[j] /\ h[t[i]].due <= h[t[j]].due
    BY DEF Sorted
  <2>1. t[i] # t[j] /\ S.hq[t[i]].due <= S.hq[t[j]].due
    BY <1>1 DEF Listed, Sorted
  <2>2. t[i] \in DOMAIN h /\ t[j] \in DOMAIN h
    BY <1>5 DEF ToSet
  <2> QED  BY <2>1, <2>2
<1>7. Listed(F, {})
  <2>1. \A x \in DOMAIN S.hq : S.hq[x].scheduled \/ S.hq[x].again
    BY DEF Listed
  <2>2. F.list = t /\ F.hq = h
    OBVIOUS
  <2>3. ToSet(F.list) = {x \in DOMAIN F.hq \ {} : F.hq[x].scheduled}
    BY <2>2, <1>5
  <2> QED  BY <1>6, <2>1, <2>2, <2>3 DEF Listed
<1> QED  BY <1>2, <1>4, <1>7

\* A turn of the loop of q_read_dir over a queue that is empty or was never
\* scheduled.
LEMMA VisitIs ==
    ASSUME NEW S \in Memory, Listed(S, {}), NEW q \in DOMAIN S.hq, NEW gone,
           NEW pick,
           q \notin gone =>
             ~S.hq[q].scheduled /\ pick[q].wait \in Nat /\ pick[q].next \in Int
    PROVE  LET T == Visit(S, q, gone, pick)
           IN  /\ T \in Memory /\ Listed(T, {})
               /\ DOMAIN T.hq = DOMAIN S.hq \ (gone \intersect {q})
               /\ \A x \in DOMAIN S.hq : x # q => T.hq[x] = S.hq[x]
<1>1. CASE q \in gone
  <2>1. Visit(S, q, gone, pick) = hq_free(S, q)
    BY <1>1 DEF Visit
  <2>2. /\ hq_free(S, q) \in Memory /\ Listed(hq_free(S, q), {})
        /\ hq_free(S, q).hq = [x \in DOMAIN S.hq \ {q} |-> S.hq[x]]
    BY FreeIs
  <2>3. gone \intersect {q} = {q}
    BY <1>1
  <2>4. /\ DOMAIN hq_free(S, q).hq = DOMAIN S.hq \ {q}
        /\ \A x \in DOMAIN S.hq : x # q => hq_free(S, q).hq[x] = S.hq[x]
    BY <2>2
  <2> QED  BY <2>1, <2>2, <2>3, <2>4
<1>2. CASE q \notin gone
  <2> DEFINE U == [S EXCEPT !.hq[q] = Unleak(@)]
             T == Push(U, q, pick[q])
  <2>1. Visit(S, q, gone, pick) = T
    BY <1>2 DEF Visit
  <2>2. Listed(S, {q})
    BY <1>2 DEF Listed
  <2>3. /\ U \in Memory /\ Listed(U, {q}) /\ DOMAIN U.hq = DOMAIN S.hq
        /\ \A x \in DOMAIN S.hq : x # q => U.hq[x] = S.hq[x]
    BY <2>2, UnleakIs
  <2> HIDE DEF U
  <2>4. /\ T \in Memory /\ Listed(T, {})
        /\ T.hq = [U.hq EXCEPT ![q] = Take(@, pick[q])]
    BY <1>2, <2>3, PushIs
  <2> HIDE DEF T
  <2>5. DOMAIN T.hq = DOMAIN S.hq /\ \A x \in DOMAIN S.hq : x # q => T.hq[x] = S.hq[x]
    BY <2>3, <2>4
  <2>6. DOMAIN S.hq \ (gone \intersect {q}) = DOMAIN S.hq
    BY <1>2
  <2> QED  BY <2>1, <2>4, <2>5, <2>6
<1> QED  BY <1>1, <1>2

\* PushNow on a queue that exists.
LEMMA PushNowIs ==
    ASSUME NEW S \in Memory, Listed(S, {}), NEW q \in DOMAIN S.hq
    PROVE  LET T == PushNow(S, q)
           IN  T \in Memory /\ Listed(T, {}) /\ DOMAIN T.hq = DOMAIN S.hq
<1> DEFINE c == CHOOSE c \in WaitDelay(q, 0) : TRUE
           P == hq_deliver_pop(S, q)
<1>1. c.wait \in Nat /\ c.next \in Int
  <2>1. HqMinWait(q) \in Nat /\ HqMaxWait(q) \in Nat
    BY QueueWaits
  <2>2. c \in WaitDelay(q, 0)
    BY Zenon DEF WaitDelay
  <2> HIDE DEF c
  <2>3. \/ c = Schedule(HqMaxWait(q), HqMaxWait(q))
        \/ c = Schedule(HqMinWait(q), 0) \/ c = Schedule(0, 0)
    BY <2>1, <2>2 DEF WaitDelay
  <2> QED  BY <2>1, <2>3 DEF Schedule
<1>2. P \in Memory /\ Listed(P, {q}) /\ P.hq = S.hq
  BY PopIs
<1>3. PushNow(S, q) = Push(P, q, c)
  BY Zenon DEF PushNow
<1> HIDE DEF P, c
<1>4. /\ Push(P, q, c) \in Memory /\ Listed(Push(P, q, c), {})
      /\ Push(P, q, c).hq = [P.hq EXCEPT ![q] = Take(@, c)]
  BY <1>1, <1>2, PushIs
<1> QED  BY <1>2, <1>3, <1>4

\* A step that leaves the queues and the list alone.
LEMMA Unmoved ==
    ASSUME ListInv, slow' \subseteq Msg, UNCHANGED <<hq, deliver_q>>,
           IsFiniteSet(DOMAIN envs'), DOMAIN envs' \subseteq DOMAIN envs
    PROVE  ListInv'
<1>1. Now' = Now
  BY DEF Now
<1>2. Listed(Now, {})' = Listed(Now, {})
  BY <1>1 DEF Listed, Sorted
<1> QED  BY <1>1, <1>2 DEF ListInv

\* queue_envelope makes the queue if need be, and touches no launch time.
LEMMA EnvelopeStep ==
    ASSUME ListInv, ReadEntry
    PROVE  ListInv'
<1> USE DEF ListInv
<1>1. PICK m \in unread :
        IF m \in DOMAIN envs
        THEN envs' = [envs EXCEPT ![m].fresh = TRUE] /\ UNCHANGED hq
        ELSE IF m \in slow \ locked
        THEN /\ envs' = [n \in DOMAIN envs \union {m} |->
                           IF n = m THEN [jail |-> jail[m], fresh |-> TRUE] ELSE envs[n]]
             /\ hq' = queue_envelope(m)
        ELSE UNCHANGED <<envs, hq>>
  BY DEF ReadEntry
<1>2. slow' = slow /\ deliver_q' = deliver_q
  BY DEF ReadEntry
<1>3. CASE m \in DOMAIN envs \/ m \notin slow \ locked
  <2>1. UNCHANGED hq /\ DOMAIN envs' = DOMAIN envs
    BY <1>1, <1>3
  <2> QED  BY <1>2, <2>1, Unmoved
<1>4. CASE m \notin DOMAIN envs /\ m \in slow \ locked
  <2> DEFINE q == HostOf[m]
             D == DOMAIN hq \union {q, Unexpanded}
             h0 == [x \in D |-> IF x \in DOMAIN hq THEN hq[x] ELSE NewQueue]
             h == queue_envelope(m)
  <2>1. m \in Msg /\ q \in Queues /\ Unexpanded \in Queues
    BY <1>4, HostQueueAssumption DEF Queues
  <2>2. /\ DOMAIN envs' = DOMAIN envs \union {m}
        /\ hq' = h
    BY <1>1, <1>4
  <2>3. h = [h0 EXCEPT ![q].entries = @ + 1,
                       ![q].jailed = @ + IF jail[m] = "PRISONER" THEN 1 ELSE 0]
    BY DEF queue_envelope
  <2>4. /\ Now.hq = hq /\ Now.list = deliver_q /\ DOMAIN hq \subseteq Queues
        /\ \A x \in DOMAIN hq : hq[x] \in HqMem /\ (hq[x].scheduled \/ hq[x].again)
    BY MemoryParts DEF Now, Listed
  <2>5. NewQueue \in HqMem /\ ~NewQueue.scheduled /\ NewQueue.again
    BY DEF NewQueue, HqMem
  <2>6. /\ h = [x \in D |-> h[x]] /\ DOMAIN h = D
        /\ \A x \in D : h[x] = IF x = q
             THEN [h0[q] EXCEPT !.entries = @ + 1,
                                !.jailed = @ + IF jail[m] = "PRISONER" THEN 1 ELSE 0]
             ELSE h0[x]
    BY <2>3
  <2> HIDE DEF h
  <2>7. ASSUME NEW x \in D
        PROVE  /\ h0[x] \in HqMem /\ (h0[x].scheduled \/ h0[x].again)
               /\ h0[x].scheduled <=> x \in DOMAIN hq /\ hq[x].scheduled
               /\ x \in DOMAIN hq => h0[x].due = hq[x].due
    BY <2>4, <2>5
  <2> HIDE DEF h0
  <2>8. ASSUME NEW x \in D
        PROVE  /\ h[x] \in HqMem /\ h[x].scheduled = h0[x].scheduled
               /\ h[x].again = h0[x].again /\ h[x].due = h0[x].due
    <3>1. h0[x] \in HqMem
      BY <2>7
    <3>2. CASE x = q
      <4>1. h[x] = [h0[x] EXCEPT !.entries = @ + 1,
                                 !.jailed = @ + IF jail[m] = "PRISONER" THEN 1 ELSE 0]
        BY <2>6, <3>2
      <4>2. PICK j \in {0, 1} : h[x] = [h0[x] EXCEPT !.entries = @ + 1, !.jailed = @ + j]
        BY <4>1
      <4>3. h0[x].entries + 1 \in Nat /\ h0[x].jailed + j \in Nat
        BY <3>1, <4>2 DEF HqMem
      <4>4. PICK g \in HqMem : g = h0[x]
        BY <3>1
      <4>5. PICK e \in Nat, p \in Nat : e = g.entries + 1 /\ p = g.jailed + j
        BY <4>3, <4>4
      <4>6. h[x] = [g EXCEPT !.entries = e, !.jailed = p]
        BY <4>2, <4>4, <4>5
      <4>7. PICK k : k = h[x]
        OBVIOUS
      <4>8. k \in HqMem /\ k.scheduled = g.scheduled /\ k.again = g.again /\ k.due = g.due
        BY <4>6, <4>7 DEF HqMem
      <4> QED  BY <4>4, <4>7, <4>8
    <3>3. CASE x # q
      BY <2>6, <3>1, <3>3
    <3> QED  BY <3>2, <3>3
  <2>9. /\ [hq |-> h, list |-> Now.list] \in Memory
        /\ Listed([hq |-> h, list |-> Now.list], {})
    <3>1. \A x \in DOMAIN h : h[x] \in HqMem /\ (h[x].scheduled \/ h[x].again)
      BY <2>6, <2>7, <2>8
    <3>2. \A x \in DOMAIN h \ {} :
            h[x].scheduled <=> x \in DOMAIN Now.hq /\ Now.hq[x].scheduled
      BY <2>4, <2>6, <2>7, <2>8
    <3>3. \A x \in DOMAIN hq : h[x].due = hq[x].due
      BY <2>7, <2>8
    <3>4. DOMAIN Now.hq \subseteq DOMAIN h /\ DOMAIN h \subseteq Queues
      BY <2>1, <2>4, <2>6
    <3>5. Now \in Memory /\ Listed(Now, {})
      OBVIOUS
    <3> QED  BY <3>1, <3>2, <3>3, <3>4, <3>5, <2>4, <2>6, Relabelled
  <2>10. Now' = [hq |-> h, list |-> Now.list]
    BY <1>2, <2>2, <2>4 DEF Now
  <2>11. IsFiniteSet(DOMAIN envs') /\ IsFiniteSet(D)
    <3>1. IsFiniteSet(DOMAIN envs \union {m}) /\ IsFiniteSet(DOMAIN hq \union {q})
      BY FS_AddElement
    <3>2. IsFiniteSet((DOMAIN hq \union {q}) \union {Unexpanded})
      BY <3>1, FS_AddElement
    <3>3. D = (DOMAIN hq \union {q}) \union {Unexpanded}
      OBVIOUS
    <3> QED  BY <2>2, <3>1, <3>2, <3>3, Zenon
  <2>12. \A n \in DOMAIN envs' : HostOf[n] \in DOMAIN hq'
    BY <2>2, <2>6
  <2>13. Now' \in Memory /\ Listed(Now', {})
    BY <2>9, <2>10
  <2> QED  BY <1>2, <2>1, <2>2, <2>6, <2>11, <2>12, <2>13
<1> QED  BY <1>3, <1>4

\* prune_messages counts a queue anew and leaves its launch time.
LEMMA PruneIs ==
    ASSUME ListInv
    PROVE  LET h == [q \in DOMAIN hq |-> prune_messages(q)]
               S == [hq |-> h, list |-> deliver_q]
           IN  /\ S \in Memory /\ Listed(S, {})
               /\ \A q \in DOMAIN hq : h[q] \in HqMem /\ h[q].scheduled = hq[q].scheduled
<1> USE DEF ListInv
<1> DEFINE h == [q \in DOMAIN hq |-> prune_messages(q)]
<1>1. /\ Now.hq = hq /\ Now.list = deliver_q /\ DOMAIN hq \subseteq Queues
      /\ \A x \in DOMAIN hq : hq[x] \in HqMem /\ (hq[x].scheduled \/ hq[x].again)
  BY MemoryParts DEF Now, Listed
<1>2. ASSUME NEW q \in DOMAIN hq
      PROVE  /\ h[q] \in HqMem /\ h[q].scheduled = hq[q].scheduled
             /\ h[q].again = hq[q].again /\ h[q].due = hq[q].due
  <2> DEFINE mine == {m \in Kept : HostOf[m] = q}
             pris == {m \in mine : envs[m].jail = "PRISONER"}
  <2>1. mine \subseteq DOMAIN envs /\ pris \subseteq DOMAIN envs
    BY DEF Kept
  <2>2. Cardinality(mine) \in Nat /\ Cardinality(pris) \in Nat
    BY <2>1, FS_Subset, FS_CardinalityType
  <2>3. h[q] = [hq[q] EXCEPT !.entries = Cardinality(mine), !.jailed = Cardinality(pris)]
    BY DEF prune_messages
  <2> HIDE DEF mine, pris, h
  <2> QED  BY <1>1, <2>2, <2>3 DEF HqMem
<1>3. DOMAIN h = DOMAIN hq /\ h = [x \in DOMAIN h |-> h[x]]
  OBVIOUS
<1> HIDE DEF h
<1>4. /\ [hq |-> h, list |-> Now.list] \in Memory
      /\ Listed([hq |-> h, list |-> Now.list], {})
  <2>1. \A x \in DOMAIN h : h[x] \in HqMem /\ (h[x].scheduled \/ h[x].again)
    BY <1>1, <1>2, <1>3
  <2>2. Now \in Memory /\ Listed(Now, {})
    OBVIOUS
  <2> QED  BY <2>1, <2>2, <1>1, <1>2, <1>3, Relabelled
<1> QED  BY <1>1, <1>2, <1>4 DEF h

\* The end of a cycle: whatever order the queues are visited in, each turn finds
\* the queue it is about, and leaves the list sound.  What is left are queues of
\* mail that is left.
LEMMA ReadEndStep ==
    ASSUME ListInv, NEW ok, ReadEnd(ok)
    PROVE  /\ ListInv'
           /\ ok => \A q \in DOMAIN hq' \ {Unexpanded} :
                       \E m \in DOMAIN envs' : HostOf[m] = q
<1> USE DEF ListInv
<1> DEFINE h    == [q \in DOMAIN hq |-> prune_messages(q)]
           gone == {q \in DOMAIN hq \ {Unexpanded} : \A m \in Kept : HostOf[m] # q}
           new  == {q \in DOMAIN hq \ {Unexpanded} : q \notin gone /\ ~h[q].scheduled}
           S    == [hq |-> h, list |-> deliver_q]
<1>1. /\ slow' = slow /\ DOMAIN envs' = Kept /\ Kept \subseteq DOMAIN envs
      /\ IsFiniteSet(Kept)
  <2>1. slow' = slow /\ DOMAIN envs' = Kept
    BY DEF ReadEnd
  <2>2. Kept \subseteq DOMAIN envs
    BY DEF Kept
  <2> QED  BY <2>1, <2>2, FS_Subset
<1>2. CASE ~ok
  <2>1. UNCHANGED <<hq, deliver_q>>
    BY <1>2, Zenon DEF ReadEnd
  <2> QED  BY <1>1, <1>2, <2>1, Unmoved
<1>3. CASE ok
  <2>0. \A q \in DOMAIN hq \ {Unexpanded} : q \notin gone => \E m \in Kept : HostOf[m] = q
    OBVIOUS
  <2>1. PICK order \in SetToSeqs(gone \union new),
             pick \in [new -> UNION {Waits(q, h[q]) : q \in new}] :
          /\ \A q \in new : pick[q] \in Waits(q, h[q])
          /\ Becomes(Visits(S, order, gone, pick))
    BY <1>3, Zenon DEF ReadEnd
  <2> DEFINE R == Visits(S, order, gone, pick)
             N == Len(order)
  <2>2. /\ S \in Memory /\ Listed(S, {}) /\ S.hq = h /\ DOMAIN h = DOMAIN hq
        /\ \A q \in DOMAIN hq : h[q] \in HqMem
    BY PruneIs
  <2>3. /\ gone \subseteq DOMAIN hq /\ new \subseteq DOMAIN hq
        /\ new \intersect gone = {}
        /\ \A q \in new : ~h[q].scheduled /\ pick[q].wait \in Nat /\ pick[q].next \in Int
    <3>1. \A q \in new : h[q] \in HqMem /\ pick[q] \in Waits(q, h[q])
      BY <2>1, <2>2
    <3> QED  BY <3>1, WaitsAre
  <2>4. \A m \in Kept : HostOf[m] \in DOMAIN hq \ gone
    BY <1>1
  <2>5. IsFiniteSet(gone \union new)
    BY <2>3, FS_Subset
  <2> HIDE DEF gone, new, h, S
  <2>6. /\ N \in Nat
        /\ \A n \in 1..N : order[n] \in gone \union new
        /\ \A i, j \in 1..N : i # j => order[i] # order[j]
        /\ \A q \in gone : \E i \in 1..N : order[i] = q
    <3> HIDE DEF N
    <3>1. /\ Len(order) \in Nat /\ order \in [1..Len(order) -> gone \union new]
          /\ \A i, j \in 1..Len(order) : i # j => order[i] # order[j]
          /\ \A q \in gone : \E i \in 1..Len(order) : order[i] = q
      <4>1. /\ Len(order) \in Nat /\ order \in [1..Len(order) -> gone \union new]
            /\ \A i, j \in 1..Len(order) : i # j => order[i] # order[j]
        BY <2>5, OrderIs
      <4>2. \A q \in gone \union new : \E i \in 1..Len(order) : order[i] = q
        BY <2>5, OrderIs
      <4> QED  BY <4>1, <4>2
    <3> QED  BY <3>1 DEF N
  <2> DEFINE Ahead(T, n) ==
               \A i \in (n + 1)..N :
                 /\ order[i] \in DOMAIN T.hq
                 /\ order[i] \notin gone => ~T.hq[order[i]].scheduled
             Freed(T, n) ==
               \A i \in 1..n : order[i] \in gone => order[i] \notin DOMAIN T.hq
             J == [n \in 0..N |->
                     {T \in Memory : /\ Listed(T, {})
                                     /\ DOMAIN T.hq \subseteq DOMAIN hq
                                     /\ DOMAIN hq \ gone \subseteq DOMAIN T.hq
                                     /\ Ahead(T, n) /\ Freed(T, n)}]
  <2> HIDE DEF N
  <2>7. S \in J[0]
    <3>1. \A i \in (0 + 1)..N : i \in 1..N
      BY <2>6
    <3>2. \A i \in (0 + 1)..N : /\ order[i] \in DOMAIN h
                                /\ order[i] \notin gone => ~h[order[i]].scheduled
      BY <3>1, <2>2, <2>3, <2>6
    <3>3. Ahead(S, 0)
      BY <3>2, <2>2
    <3>4. 0 \in 0..N
      BY <2>6
    <3>5. DOMAIN S.hq = DOMAIN hq
      BY <2>2
    <3>6. Freed(S, 0)
      OBVIOUS
    <3> HIDE DEF Ahead, Freed
    <3> QED  BY <3>3, <3>4, <3>5, <3>6, <2>2
  <2>8. ASSUME NEW n \in 1..N, NEW T \in J[n - 1]
        PROVE  Visit(T, order[n], gone, pick) \in J[n]
    <3> DEFINE q == order[n]
               U == Visit(T, q, gone, pick)
    <3>0. n \in Nat /\ n - 1 \in 0..N /\ n \in 0..N
      BY <2>6
    <3>1. /\ T \in Memory /\ Listed(T, {}) /\ DOMAIN T.hq \subseteq DOMAIN hq
          /\ DOMAIN hq \ gone \subseteq DOMAIN T.hq
          /\ Ahead(T, n - 1) /\ Freed(T, n - 1)
      <4> HIDE DEF Ahead, Freed
      <4> QED  BY <3>0
    <3>2. \A i \in n..N : /\ order[i] \in DOMAIN T.hq
                          /\ order[i] \notin gone => ~T.hq[order[i]].scheduled
      BY <3>0, <3>1
    <3>3. n \in n..N /\ (n + 1)..N \subseteq n..N /\ n..N \subseteq 1..N
      BY <2>6, <3>0
    <3>4. /\ q \in DOMAIN T.hq
          /\ q \notin gone =>
               ~T.hq[q].scheduled /\ pick[q].wait \in Nat /\ pick[q].next \in Int
      BY <3>2, <3>3, <2>3, <2>6
    <3> HIDE DEF q
    <3>5. /\ U \in Memory /\ Listed(U, {})
          /\ DOMAIN U.hq = DOMAIN T.hq \ (gone \intersect {q})
          /\ \A x \in DOMAIN T.hq : x # q => U.hq[x] = T.hq[x]
      BY <3>1, <3>4, VisitIs
    <3> HIDE DEF U
    <3>6. ASSUME NEW i \in (n + 1)..N
          PROVE  /\ order[i] \in DOMAIN U.hq
                 /\ order[i] \notin gone => ~U.hq[order[i]].scheduled
      <4>1. order[i] # q
        <5>1. i # n /\ i \in 1..N /\ n \in 1..N
          BY <3>0, <3>3
        <5> QED  BY <5>1, <2>6 DEF q
      <4>2. order[i] \in DOMAIN T.hq /\ (order[i] \notin gone => ~T.hq[order[i]].scheduled)
        BY <3>2, <3>3
      <4> QED  BY <4>1, <4>2, <3>5
    <3>7. Ahead(U, n)
      BY <3>6
    <3>8. Freed(U, n)
      <4> SUFFICES ASSUME NEW i \in 1..n, order[i] \in gone
                   PROVE  order[i] \notin DOMAIN U.hq
        OBVIOUS
      <4>1. CASE i = n
        BY <4>1, <3>5 DEF q
      <4>2. CASE i # n
        <5>1. i \in 1..(n - 1)
          BY <3>0, <4>2
        <5> QED  BY <5>1, <3>1, <3>5
      <4> QED  BY <4>1, <4>2
    <3> HIDE DEF Ahead, Freed
    <3>9. U \in J[n]
      BY <3>0, <3>1, <3>5, <3>7, <3>8
    <3> QED  BY <3>9 DEF U, q
  <2>9. R \in J[N]
    <3> HIDE DEF J
    <3>1. /\ Len(order) \in Nat /\ S \in J[0]
          /\ \A n \in 1..Len(order) : \A T \in J[n - 1] :
               Visit(T, order[n], gone, pick) \in J[n]
      BY <2>6, <2>7, <2>8 DEF N
    <3> QED  BY <3>1, VisitsEnd DEF N
  <2>10. /\ R \in Memory /\ Listed(R, {})
         /\ DOMAIN R.hq \subseteq DOMAIN hq /\ DOMAIN hq \ gone \subseteq DOMAIN R.hq
         /\ DOMAIN R.hq \cap gone = {}
    <3>1. N \in 0..N
      BY <2>6
    <3> HIDE DEF R, Ahead, Freed
    <3>2. /\ R \in Memory /\ Listed(R, {}) /\ Freed(R, N)
          /\ DOMAIN R.hq \subseteq DOMAIN hq /\ DOMAIN hq \ gone \subseteq DOMAIN R.hq
      BY <2>9, <3>1
    <3>3. \A i \in 1..N : order[i] \in gone => order[i] \notin DOMAIN R.hq
      BY <3>2 DEF Freed
    <3> QED  BY <2>6, <3>2, <3>3
  <2>11. Becomes(R)
    BY <2>1
  <2> HIDE DEF R
  <2>12. Now' = R /\ hq' = R.hq
    <3>1. R = [hq |-> R.hq, list |-> R.list]
      BY <2>10, MemoryParts, Zenon
    <3> QED  BY <3>1, <2>11 DEF Becomes, Now
  <2>13. IsFiniteSet(DOMAIN hq')
    BY <2>10, <2>12, FS_Subset
  <2>14. \A m \in DOMAIN envs' : HostOf[m] \in DOMAIN hq'
    BY <1>1, <2>4, <2>10, <2>12
  <2>15. Now' \in Memory /\ Listed(Now', {})
    BY <2>10, <2>12
  <2>16. \A q \in DOMAIN hq' \ {Unexpanded} : \E m \in DOMAIN envs' : HostOf[m] = q
    BY <1>1, <2>0, <2>10, <2>12
  <2> QED  BY <1>1, <2>13, <2>14, <2>15, <2>16
<1> QED  BY <1>2, <1>3

\* A queue that is not in the list may change as it will.
LEMMA MarkedIs ==
    ASSUME NEW S \in Memory, NEW q \in DOMAIN S.hq, Listed(S, {q}),
           NEW g \in HqMem, g.scheduled \/ g.again, NEW T,
           T = [hq |-> [S.hq EXCEPT ![q] = g], list |-> S.list]
    PROVE  T \in Memory /\ Listed(T, {q}) /\ DOMAIN T.hq = DOMAIN S.hq
<1> DEFINE h == [S.hq EXCEPT ![q] = g]
<1>1. /\ S.hq = [x \in DOMAIN S.hq |-> S.hq[x]] /\ DOMAIN S.hq \subseteq Queues
      /\ \A x \in DOMAIN S.hq : S.hq[x] \in HqMem
  BY MemoryParts
<1>2. /\ DOMAIN h = DOMAIN S.hq /\ h = [x \in DOMAIN h |-> h[x]] /\ h[q] = g
      /\ \A x \in DOMAIN S.hq : x # q => h[x] = S.hq[x]
  BY <1>1
<1> HIDE DEF h
<1>3. \A x \in DOMAIN h : h[x] \in HqMem /\ (h[x].scheduled \/ h[x].again)
  BY <1>1, <1>2 DEF Listed
<1>4. [hq |-> h, list |-> S.list] \in Memory /\ Listed([hq |-> h, list |-> S.list], {q})
  BY <1>1, <1>2, <1>3, Relabelled
<1>5. T = [hq |-> h, list |-> S.list] /\ T.hq = h
  BY DEF h
<1> QED  BY <1>2, <1>4, <1>5

\* What is taken out to be marked and pushed again leaves the list sound.
LEMMA PushedAgain ==
    ASSUME ListInv, NEW q \in DOMAIN hq, NEW g \in HqMem, g.scheduled \/ g.again,
           NEW T, T = [hq |-> [hq EXCEPT ![q] = g], list |-> hq_deliver_pop(Now, q).list],
           NEW ok, PushWait(T, q, ok), UNCHANGED <<slow, envs>>
    PROVE  ListInv' /\ DOMAIN hq' = DOMAIN hq
<1> USE DEF ListInv
<1> DEFINE S == hq_deliver_pop(Now, q)
<1>1. S \in Memory /\ Listed(S, {q}) /\ S.hq = hq
  BY PopIs DEF Now
<1>2. T = [hq |-> [S.hq EXCEPT ![q] = g], list |-> S.list]
  BY <1>1
<1> HIDE DEF S
<1>3. T \in Memory /\ Listed(T, {q}) /\ DOMAIN T.hq = DOMAIN hq
  BY <1>1, <1>2, MarkedIs
<1>4. CASE UNCHANGED <<hq, deliver_q>>
  BY <1>4, Unmoved
<1>5. CASE ~UNCHANGED <<hq, deliver_q>>
  BY <1>3, <1>5, PushWaitIs
<1> QED  BY <1>4, <1>5

\* hq_launch takes the head of the list, which exists, and puts it back.
LEMMA LaunchStep ==
    ASSUME ListInv, HqLaunch
    PROVE  ListInv' /\ DOMAIN hq' = DOMAIN hq
<1> DEFINE q == Head(deliver_q)
           S == hq_deliver_pop(Now, q)
           T == [S EXCEPT !.hq[q].last = "now", !.hq[q].again = TRUE]
<1>1. PICK ok \in BOOLEAN : PushWait(T, q, ok)
  BY Zenon DEF HqLaunch, hq_launch
<1>2. UNCHANGED <<slow, envs>>
  BY DEF HqLaunch
<1>3. q \in DOMAIN hq
  <2>1. deliver_q \in Seq(Queues) /\ deliver_q # << >>
    BY MemoryParts DEF ListInv, Now, HqLaunch, Due
  <2>2. 1 \in DOMAIN deliver_q /\ q = deliver_q[1]
    BY <2>1
  <2>3. q \in ToSet(deliver_q)
    BY <2>2 DEF ToSet
  <2> QED  BY <2>3 DEF ListInv, Listed, Now
<1>4. S = [hq |-> hq, list |-> S.list]
  <2>1. Now \in Memory /\ Listed(Now, {}) /\ Now.hq = hq
    BY DEF ListInv, Now
  <2>2. S = [hq |-> hq, list |-> Dequeue(Now.list, q)]
    BY <2>1, PopIs
  <2> QED  BY <2>2
<1>5. hq[q] \in HqMem /\ hq = [x \in DOMAIN hq |-> hq[x]]
  <2>1. Now \in Memory /\ Now.hq = hq
    BY DEF ListInv, Now
  <2> QED  BY <1>3, <2>1, MemoryParts
<1> HIDE DEF q, S
<1>6. PICK f, l : f = hq /\ l = S.list
  OBVIOUS
<1> DEFINE g == [hq[q] EXCEPT !.last = "now", !.again = TRUE]
<1>7. g \in HqMem /\ g.again
  BY <1>5 DEF HqMem
<1>8. T = [hq |-> [hq EXCEPT ![q] = g], list |-> S.list]
  <2> DEFINE U == [hq |-> f, list |-> l]
             U1 == [U EXCEPT !.hq[q].last = "now"]
             f1 == [f EXCEPT ![q].last = "now"]
  <2>1. S = U
    BY <1>4, <1>6
  <2>2. U1 = [hq |-> f1, list |-> l]
    OBVIOUS
  <2>3. T = [U1 EXCEPT !.hq[q].again = TRUE]
    BY <2>1
  <2> HIDE DEF U1, T
  <2>4. PICK e : e = f1
    OBVIOUS
  <2>5. T = [[hq |-> e, list |-> l] EXCEPT !.hq[q].again = TRUE]
    BY <2>2, <2>3, <2>4
  <2>6. T = [hq |-> [e EXCEPT ![q].again = TRUE], list |-> l]
    BY <2>5
  <2>7. [f1 EXCEPT ![q].again = TRUE]
          = [f EXCEPT ![q] = [f[q] EXCEPT !.last = "now", !.again = TRUE]]
    BY <1>3, <1>5, <1>6
  <2> HIDE DEF f1
  <2> QED  BY <1>6, <2>4, <2>6, <2>7
<1> HIDE DEF T, g
<1> QED  BY <1>1, <1>2, <1>3, <1>7, <1>8, PushedAgain DEF S

\* A queue whose runner moved mail to its host is pushed again.
LEMMA LeakyStep ==
    ASSUME ListInv, HqLeaky
    PROVE  ListInv' /\ DOMAIN hq' = DOMAIN hq
<1>1. PICK q \in Host, ok \in BOOLEAN : Leaky(q, ok)
  BY DEF HqLeaky
<1>2. UNCHANGED <<slow, envs>>
  BY DEF HqLeaky
<1>3. CASE q \notin DOMAIN hq \ {Unexpanded}
  <2>1. UNCHANGED <<hq, deliver_q>>
    BY <1>1, <1>3 DEF Leaky
  <2> QED  BY <1>2, <2>1, Unmoved DEF ListInv
<1>4. CASE q \in DOMAIN hq \ {Unexpanded}
  <2> DEFINE S == hq_deliver_pop(Now, q)
             T == [S EXCEPT !.hq[q].leaky = TRUE]
             g == [hq[q] EXCEPT !.leaky = TRUE]
  <2>1. PushWait(T, q, ok)
    BY <1>1, <1>4, Zenon DEF Leaky
  <2>2. /\ Now \in Memory /\ Listed(Now, {}) /\ Now.hq = hq
    BY DEF ListInv, Now
  <2>3. S = [hq |-> hq, list |-> S.list]
    <3>1. S = [hq |-> hq, list |-> Dequeue(Now.list, q)]
      BY <2>2, PopIs
    <3> QED  BY <3>1
  <2>4. hq[q] \in HqMem /\ hq = [x \in DOMAIN hq |-> hq[x]]
    BY <1>4, <2>2, MemoryParts
  <2>5. g \in HqMem /\ (g.scheduled \/ g.again)
    <3>1. hq[q].scheduled \/ hq[q].again
      BY <1>4, <2>2 DEF Listed
    <3> QED  BY <2>4, <3>1 DEF HqMem
  <2> HIDE DEF S
  <2>6. T = [hq |-> [hq EXCEPT ![q] = g], list |-> S.list]
    <3>1. PICK f, l : f = hq /\ l = S.list
      OBVIOUS
    <3>2. S = [hq |-> f, list |-> l]
      BY <2>3, <3>1
    <3>3. T = [[hq |-> f, list |-> l] EXCEPT !.hq[q].leaky = TRUE]
      BY <3>2
    <3> HIDE DEF T
    <3>4. T = [hq |-> [f EXCEPT ![q].leaky = TRUE], list |-> l]
      BY <3>3
    <3> QED  BY <3>1, <3>4
  <2> HIDE DEF T, g
  <2> QED  BY <1>2, <1>4, <2>1, <2>5, <2>6, PushedAgain DEF S
<1> QED  BY <1>3, <1>4

\* The clock keeps the order: what lags behind by MaxLag stays there.
LEMMA ElapsedIs ==
    ASSUME NEW t \in Int, NEW u \in Int, t <= u
    PROVE  Elapsed(t, 1) \in Int /\ Elapsed(t, 1) <= Elapsed(u, 1)
<1>1. MaxLag \in Nat
  BY HostQueueAssumption
<1>2. ASSUME NEW a \in Int
      PROVE  Elapsed(a, 1) = IF a - 1 >= 0 - MaxLag THEN a - 1 ELSE 0 - MaxLag
  <2> DEFINE T == {a - 1, 0 - MaxLag}
  <2>1. \E x \in T : \A y \in T : x >= y
    BY <1>1
  <2>2. Max(T) \in T /\ \A y \in T : Max(T) >= y
    BY <2>1 DEF Max
  <2> QED  BY <1>1, <2>2 DEF Elapsed
<1> QED  BY <1>1, <1>2

\* A second passes.
LEMMA TickStep ==
    ASSUME ListInv, HqTick
    PROVE  ListInv' /\ DOMAIN hq' = DOMAIN hq
<1>0. Now \in Memory /\ Listed(Now, {}) /\ Now.hq = hq /\ Now.list = deliver_q
  BY DEF ListInv, Now
<1>1. UNCHANGED <<slow, envs, deliver_q>>
  BY DEF HqTick
<1>2. hq' = [q \in DOMAIN hq |->
              [hq[q] EXCEPT !.due = IF hq[q].scheduled THEN Elapsed(@, 1) ELSE @,
                            !.last = IF @ = "now" /\ 1 > 0 THEN "past" ELSE @]]
  BY Zenon DEF HqTick, Advance
<1>3. DOMAIN hq' = DOMAIN hq /\ hq' = [q \in DOMAIN hq' |-> hq'[q]]
  BY <1>2
<1>4. /\ DOMAIN hq \subseteq Queues
      /\ \A q \in DOMAIN hq : hq[q] \in HqMem /\ (hq[q].scheduled \/ hq[q].again)
  BY <1>0, MemoryParts DEF Listed
<1>5. ASSUME NEW q \in DOMAIN hq
      PROVE  /\ hq'[q] \in HqMem
             /\ hq'[q].scheduled = hq[q].scheduled /\ hq'[q].again = hq[q].again
             /\ hq[q].scheduled => hq'[q].due = Elapsed(hq[q].due, 1)
  <2>1. PICK k \in HqMem : k = hq[q]
    BY <1>4
  <2>2. PICK d \in Int, l \in {"never", "now", "past"} :
          /\ hq'[q] = [k EXCEPT !.due = d, !.last = l]
          /\ hq[q].scheduled => d = Elapsed(hq[q].due, 1)
    <3>1. k.due \in Int /\ k.last \in {"never", "now", "past"}
      BY <2>1 DEF HqMem
    <3>2. Elapsed(k.due, 1) \in Int
      BY <3>1, ElapsedIs
    <3>3. PICK d, l :
            /\ d = IF hq[q].scheduled THEN Elapsed(hq[q].due, 1) ELSE hq[q].due
            /\ l = IF hq[q].last = "now" /\ 1 > 0 THEN "past" ELSE hq[q].last
      OBVIOUS
    <3>4. d \in Int /\ l \in {"never", "now", "past"}
      BY <2>1, <3>1, <3>2, <3>3
    <3>5. hq'[q] = [hq[q] EXCEPT
                     !.due = IF hq[q].scheduled THEN Elapsed(hq[q].due, 1) ELSE hq[q].due,
                     !.last = IF hq[q].last = "now" /\ 1 > 0 THEN "past" ELSE hq[q].last]
      BY <1>2, Zenon
    <3>6. hq'[q] = [k EXCEPT !.due = d, !.last = l]
      BY <2>1, <3>3, <3>5, Zenon
    <3> QED  BY <2>1, <3>3, <3>4, <3>6
  <2>3. PICK n : n = hq'[q]
    OBVIOUS
  <2>4. n \in HqMem /\ n.scheduled = k.scheduled /\ n.again = k.again /\ n.due = d
    BY <2>2, <2>3 DEF HqMem
  <2> QED  BY <2>1, <2>2, <2>3, <2>4
<1>6. \A x, y \in DOMAIN hq :
        hq[x].scheduled /\ hq[y].scheduled /\ hq[x].due <= hq[y].due
        => hq'[x].due <= hq'[y].due
  <2> SUFFICES ASSUME NEW x \in DOMAIN hq, NEW y \in DOMAIN hq, hq[x].scheduled,
                      hq[y].scheduled, hq[x].due <= hq[y].due
               PROVE  hq'[x].due <= hq'[y].due
    OBVIOUS
  <2>1. hq[x].due \in Int /\ hq[y].due \in Int
    BY <1>4 DEF HqMem
  <2> QED  BY <2>1, <1>5, ElapsedIs
<1>7. Now' = [hq |-> hq', list |-> Now.list]
  BY <1>0, <1>1 DEF Now
<1>8. Now' \in Memory /\ Listed(Now', {})
  <2>1. \A q \in DOMAIN hq' : hq'[q] \in HqMem /\ (hq'[q].scheduled \/ hq'[q].again)
    BY <1>3, <1>4, <1>5
  <2>2. \A q \in DOMAIN hq' \ {} :
          hq'[q].scheduled <=> q \in DOMAIN Now.hq /\ Now.hq[q].scheduled
    BY <1>0, <1>3, <1>5
  <2>3. PICK h : h = hq'
    OBVIOUS
  <2> QED  BY <1>0, <1>3, <1>4, <1>6, <1>7, <2>1, <2>2, <2>3, Relabelled
<1> QED  BY <1>1, <1>3, <1>8 DEF ListInv

\* A command on messages M makes the queues of Q due at once: each is pushed once,
\* and is in its place again.
LEMMA PromoteStep ==
    ASSUME ListInv, NEW M, M \subseteq DOMAIN envs, NEW Q, Q \subseteq DOMAIN hq,
           NEW ok, Promote(M, Q, ok)
    PROVE  ListInv' /\ DOMAIN hq' = DOMAIN hq /\ DOMAIN envs' = DOMAIN envs
<1> USE DEF ListInv
<1>1. CASE UNCHANGED hqVars
  <2>1. UNCHANGED <<slow, envs, hq, deliver_q>>
    BY <1>1 DEF hqVars
  <2> QED  BY <2>1, Unmoved
<1>2. CASE ~UNCHANGED hqVars
  <2> DEFINE h == CountParole(hq, M)
             S == [hq |-> h, list |-> deliver_q]
  <2>1. /\ DOMAIN envs' = DOMAIN envs /\ slow' = slow
        /\ \E order \in SetToSeqs(Q) : Becomes(InTurn(PushNow, S, order))
    BY <1>2, Zenon DEF Promote
  <2>2. PICK order \in SetToSeqs(Q) : Becomes(InTurn(PushNow, S, order))
    BY <2>1, Zenon
  <2>3. /\ Now.hq = hq /\ Now.list = deliver_q /\ DOMAIN hq \subseteq Queues
        /\ \A q \in DOMAIN hq : hq[q] \in HqMem /\ (hq[q].scheduled \/ hq[q].again)
    BY MemoryParts DEF Now, Listed
  <2>4. ASSUME NEW q \in DOMAIN hq
        PROVE  /\ h[q] \in HqMem /\ h[q].scheduled = hq[q].scheduled
               /\ h[q].again = hq[q].again /\ h[q].due = hq[q].due
    <3> DEFINE mine == {m \in Paroled(M) : HostOf[m] = q}
    <3>1. mine \subseteq DOMAIN envs
      BY DEF Paroled
    <3>2. Cardinality(mine) \in Nat
      BY <3>1, FS_Subset, FS_CardinalityType
    <3>3. PICK k \in HqMem, n \in HqMem \union {h[q]} : k = hq[q] /\ n = h[q]
      BY <2>3
    <3>4. n = [k EXCEPT !.jailed = @ + Cardinality(mine)]
      BY <3>3 DEF CountParole
    <3> HIDE DEF mine, h
    <3>5. PICK j \in Nat : n = [k EXCEPT !.jailed = j]
      <4>1. k.jailed + Cardinality(mine) \in Nat
        BY <3>2, <3>3 DEF HqMem
      <4> QED  BY <3>4, <4>1
    <3>6. n \in HqMem /\ n.scheduled = k.scheduled /\ n.again = k.again /\ n.due = k.due
      BY <3>5 DEF HqMem
    <3> QED  BY <3>3, <3>6
  <2>5. DOMAIN h = DOMAIN hq /\ h = [x \in DOMAIN h |-> h[x]]
    BY DEF CountParole
  <2> HIDE DEF h
  <2>6. S \in Memory /\ Listed(S, {})
    <3>1. \A q \in DOMAIN h : h[q] \in HqMem /\ (h[q].scheduled \/ h[q].again)
      BY <2>3, <2>4, <2>5
    <3>2. Now \in Memory /\ Listed(Now, {})
      OBVIOUS
    <3> QED  BY <2>3, <2>4, <2>5, <3>1, <3>2, Relabelled
  <2>7. S.hq = h
    OBVIOUS
  <2> HIDE DEF S
  <2>8. Len(order) \in Nat /\ \A n \in 1..Len(order) : order[n] \in DOMAIN hq
    <3>1. IsFiniteSet(Q)
      BY FS_Subset
    <3>2. Len(order) \in Nat /\ order \in [1..Len(order) -> Q]
      BY <3>1, OrderIs
    <3> QED  BY <3>2
  <2> DEFINE N == Len(order)
             Sound == {T \in Memory : Listed(T, {}) /\ DOMAIN T.hq = DOMAIN hq}
             J == [n \in 0..N |-> Sound]
             R == InTurn(PushNow, S, order)
  <2>9. R \in Sound
    <3>1. S \in Sound
      BY <2>5, <2>6, <2>7
    <3>2. \A n \in 1..Len(order) : \A T \in Sound : PushNow(T, order[n]) \in Sound
      BY <2>8, PushNowIs
    <3> HIDE DEF Sound
    <3>3. N \in Nat /\ S \in J[0]
      BY <2>8, <3>1
    <3>4. \A n \in 1..N : \A T \in J[n - 1] : PushNow(T, order[n]) \in J[n]
      BY <2>8, <3>2
    <3>5. J[N] = Sound
      BY <3>3
    <3> HIDE DEF J
    <3> QED  BY <3>3, <3>4, <3>5, PushesEnd
  <2>10. Becomes(R)
    BY <2>2
  <2> HIDE DEF R
  <2>11. Now' = R /\ hq' = R.hq
    <3>1. R = [hq |-> R.hq, list |-> R.list]
      BY <2>9, MemoryParts, Zenon
    <3> QED  BY <3>1, <2>10 DEF Becomes, Now
  <2>12. Now' \in Memory /\ Listed(Now', {}) /\ DOMAIN hq' = DOMAIN hq
    BY <2>9, <2>11
  <2> QED  BY <2>1, <2>12
<1> QED  BY <1>1, <1>2

\* Each command file is about messages in memory and the queues they are in.
LEMMA CommandStep ==
    ASSUME ListInv, HqCommand
    PROVE  ListInv' /\ DOMAIN hq' = DOMAIN hq /\ DOMAIN envs' = DOMAIN envs
<1>1. PICK c \in HqCommands, ok \in BOOLEAN : Command(c, ok)
  BY DEF HqCommand
<1>2. CASE UNCHANGED hqVars
  <2>1. UNCHANGED <<slow, envs, hq, deliver_q>>
    BY <1>2 DEF hqVars
  <2> QED  BY <2>1, Unmoved DEF ListInv
<1>3. CASE mid_promote(c.mid, ok) /\ ~UNCHANGED hqVars
  <2>1. c.mid \in DOMAIN envs /\ Promote({c.mid}, {HostOf[c.mid]}, ok)
    BY <1>3 DEF mid_promote
  <2>2. {HostOf[c.mid]} \subseteq DOMAIN hq
    BY <2>1 DEF ListInv
  <2> QED  BY <2>1, <2>2, PromoteStep
<1>4. CASE sender_promote(c.mids, ok)
  <2> DEFINE mine == c.mids \intersect DOMAIN envs
  <2>1. Promote(mine, {HostOf[m] : m \in mine}, ok)
    BY <1>4 DEF sender_promote
  <2>2. {HostOf[m] : m \in mine} \subseteq DOMAIN hq
    BY DEF ListInv
  <2> QED  BY <2>1, <2>2, PromoteStep
<1>5. CASE queue_promote(c.host, ok) /\ ~UNCHANGED hqVars
  <2>1. c.host \in DOMAIN hq /\ Promote(Members(c.host), {c.host}, ok)
    BY <1>5 DEF queue_promote
  <2>2. Members(c.host) \subseteq DOMAIN envs
    BY DEF Members
  <2> QED  BY <2>1, <2>2, PromoteStep
<1>6. \/ mid_promote(c.mid, ok) \/ sender_promote(c.mids, ok)
      \/ queue_promote(c.host, ok) \/ UNCHANGED hqVars
  <2>1. CASE c.type = "message"
    BY <1>1, <2>1 DEF Command
  <2>2. CASE c.type = "sender"
    BY <1>1, <2>2 DEF Command
  <2>3. CASE c.type = "queue"
    BY <1>1, <2>3 DEF Command
  <2>4. CASE c.type \notin {"message", "sender", "queue"}
    BY <1>1, <2>4 DEF Command
  <2> QED  BY <2>1, <2>2, <2>3, <2>4
<1> QED  BY <1>2, <1>3, <1>4, <1>5, <1>6

\* The daemon starts without a queue.
LEMMA ListInit == HqInit => ListInv
<1> SUFFICES ASSUME HqInit PROVE ListInv
  OBVIOUS
<1>1. /\ slow \subseteq Msg /\ DOMAIN envs = {} /\ DOMAIN hq = {}
      /\ hq = [q \in DOMAIN hq |-> hq[q]] /\ deliver_q = << >>
  BY DEF HqInit
<1>2. << >> \in Seq(Queues) /\ DOMAIN << >> = {}
  OBVIOUS
<1>3. Now \in Memory /\ Now.hq = hq /\ Now.list = << >>
  BY <1>1, <1>2, MemoryIs DEF Now
<1>4. Listed(Now, {})
  BY <1>1, <1>2, <1>3 DEF Listed, Sorted, ToSet
<1> QED  BY <1>1, <1>3, <1>4, FS_EmptySet DEF ListInv

\* Every step keeps the list sound.
LEMMA ListNext == ListInv /\ [HqNext]_<<hqVars, halted>> => ListInv'
<1> SUFFICES ASSUME ListInv, [HqNext]_<<hqVars, halted>> PROVE ListInv'
  OBVIOUS
<1>1. CASE UNCHANGED <<hqVars, halted>>
  BY <1>1, Unmoved DEF hqVars, ListInv
<1>2. CASE ReadStart
  <2>1. DOMAIN envs' = DOMAIN envs /\ UNCHANGED <<slow, hq, deliver_q>>
    BY <1>2 DEF ReadStart
  <2> QED  BY <2>1, Unmoved DEF ListInv
<1>3. CASE ReadEntry
  BY <1>3, EnvelopeStep
<1>4. CASE \E ok \in BOOLEAN : ReadEnd(ok)
  BY <1>4, ReadEndStep
<1>5. CASE HqLaunch
  BY <1>5, LaunchStep
<1>6. CASE HqLeaky
  BY <1>6, LeakyStep
<1>7. CASE HqTick
  BY <1>7, TickStep
<1>8. CASE HqCommand
  BY <1>8, CommandStep
<1>9. ASSUME NEW m \in Msg, Arrive(m) \/ Lock(m) \/ Unlock(m) \/ Unlink(m)
      PROVE  ListInv'
  <2>1. UNCHANGED <<envs, hq, deliver_q>> /\ slow' \subseteq Msg
    BY <1>9 DEF Arrive, Lock, Unlock, Unlink, ListInv
  <2> QED  BY <2>1, Unmoved DEF ListInv
<1> QED
  BY <1>1, <1>2, <1>3, <1>4, <1>5, <1>6, <1>7, <1>8, <1>9 DEF HqNext

\* Whatever mail comes, however often the daemon reads, launches and is commanded,
\* and for any waits: each queue is in the launch list once, in the order of the
\* launch times, and no queue that has a launch time is missing from it
\* (hq_deliver_push, hq_deliver_pop, q_read_dir, hq_launch).
THEOREM LaunchListInOrder == HqSpec => []LaunchListSound
<1>1. ListInv => LaunchListSound
  BY DEF ListInv, Listed, Sorted, Now, LaunchListSound
<1> QED  BY <1>1, ListInit, ListNext, PTL DEF HqSpec

---------------------------------------------------------------------------
(* The division by zero.                                                   *)

\* A host has a queue only while mail for it is in memory.
Homed ==
    halted = "no" =>
        \A q \in DOMAIN hq \ {Unexpanded} : \E m \in DOMAIN envs : HostOf[m] = q

\* Queues are made with their first envelope and freed with their last.
LEMMA HomedStep ==
    ASSUME ListInv, Homed, HqNext
    PROVE  Homed'
<1>0. /\ halted = "no" /\ "trap" # "no"
      /\ \A q \in DOMAIN hq \ {Unexpanded} : \E m \in DOMAIN envs : HostOf[m] = q
  BY DEF HqNext, Homed
<1>1. ASSUME DOMAIN envs' = DOMAIN envs, DOMAIN hq' = DOMAIN hq
      PROVE  Homed'
  BY <1>0, <1>1 DEF Homed
<1>2. CASE ReadStart
  <2>1. DOMAIN envs' = DOMAIN envs /\ hq' = hq
    BY <1>2 DEF ReadStart
  <2> QED  BY <2>1, <1>1
<1>3. CASE ReadEntry
  <2>1. PICK m \in unread :
          IF m \in DOMAIN envs
          THEN envs' = [envs EXCEPT ![m].fresh = TRUE] /\ UNCHANGED hq
          ELSE IF m \in slow \ locked
          THEN /\ envs' = [n \in DOMAIN envs \union {m} |->
                             IF n = m THEN [jail |-> jail[m], fresh |-> TRUE] ELSE envs[n]]
               /\ hq' = queue_envelope(m)
          ELSE UNCHANGED <<envs, hq>>
    BY <1>3 DEF ReadEntry
  <2>2. CASE m \in DOMAIN envs \/ m \notin slow \ locked
    <3>1. DOMAIN envs' = DOMAIN envs /\ DOMAIN hq' = DOMAIN hq
      BY <2>1, <2>2
    <3> QED  BY <3>1, <1>1
  <2>3. CASE m \notin DOMAIN envs /\ m \in slow \ locked
    <3>1. /\ DOMAIN envs' = DOMAIN envs \union {m}
          /\ hq' = queue_envelope(m)
      BY <2>1, <2>3
    <3>2. DOMAIN hq' = DOMAIN hq \union {HostOf[m], Unexpanded}
      BY <3>1 DEF queue_envelope
    <3> QED  BY <1>0, <3>1, <3>2 DEF Homed
  <2> QED  BY <2>2, <2>3
<1>4. ASSUME NEW ok \in BOOLEAN, ReadEnd(ok), Halts(ok, "trap")
      PROVE  Homed'
  <2>1. ok => \A q \in DOMAIN hq' \ {Unexpanded} : \E m \in DOMAIN envs' : HostOf[m] = q
    BY <1>4, ReadEndStep
  <2>2. ~ok => halted' = "trap"
    BY <1>4 DEF Halts
  <2> QED  BY <1>0, <2>1, <2>2 DEF Homed
<1>5. CASE HqLaunch
  <2>1. DOMAIN hq' = DOMAIN hq /\ UNCHANGED envs
    BY <1>5, LaunchStep DEF HqLaunch
  <2> QED  BY <2>1, <1>1
<1>6. CASE HqLeaky
  <2>1. DOMAIN hq' = DOMAIN hq /\ UNCHANGED envs
    BY <1>6, LeakyStep DEF HqLeaky
  <2> QED  BY <2>1, <1>1
<1>7. CASE HqTick
  <2>1. DOMAIN hq' = DOMAIN hq /\ UNCHANGED envs
    BY <1>7, TickStep DEF HqTick
  <2> QED  BY <2>1, <1>1
<1>8. CASE HqCommand
  BY <1>1, <1>8, CommandStep
<1>9. ASSUME NEW m \in Msg, Arrive(m) \/ Lock(m) \/ Unlock(m) \/ Unlink(m)
      PROVE  Homed'
  <2>1. UNCHANGED <<envs, hq>>
    BY <1>9 DEF Arrive, Lock, Unlock, Unlink
  <2> QED  BY <2>1, <1>1
<1> QED
  BY <1>2, <1>3, <1>4, <1>5, <1>6, <1>7, <1>8, <1>9 DEF HqNext

\* A queue that cannot be given a wait is the unexpanded one, or that of a host
\* whose rule leaves it none.
LEMMA NoWait ==
    ASSUME JailSeconds > 0, NEW q, NEW h, Waits(q, h) = {}, q # Unexpanded
    PROVE  q \in RedHosts /\ RedWait(q).min = 0
<1>1. WaitJail(h) # {}
  <2>1. JailSeconds \in Nat \ {0}
    BY HostQueueAssumption
  <2>2. 0 \in 0..(JailSeconds - 1)
    BY <2>1
  <2> QED  BY <2>2 DEF WaitJail
<1>2. WaitTwice(q, h) # {}
  BY DEF WaitTwice
<1>3. WaitFirst(q) = {}
  BY <1>1, <1>2 DEF Waits
<1>4. HqMinWait(q) = 0
  <2>1. HqMinWait(q) \in Nat
    BY QueueWaits
  <2>2. HqMinWait(q) # 0 => 0 \in 0..(HqMinWait(q) - 1)
    BY <2>1
  <2> QED  BY <2>2, <1>3 DEF WaitFirst
<1>5. CASE q \in RedHosts
  BY <1>4, <1>5 DEF HqMinWait
<1>6. CASE q \notin RedHosts
  <2>1. HqMinWait(q) = MinWait
    BY <1>6 DEF HqMinWait
  <2> QED  BY <2>1, <1>4, HostQueueAssumption
<1> QED  BY <1>5, <1>6

\* A step that divides by zero is about such a queue.
LEMMA TrapStep ==
    ASSUME JailSeconds > 0, ListInv, Homed, HqNext, halted' = "trap"
    PROVE  TrapOnlyWithoutWait'
<1>0. /\ halted = "no" /\ "no" # "trap" /\ "error" # "trap"
      /\ \A q \in DOMAIN hq \ {Unexpanded} : \E m \in DOMAIN envs : HostOf[m] = q
  BY DEF HqNext, Homed
<1>1. ASSUME NEW q, q # Unexpanded, NEW h, Waits(q, h) = {},
             \E m \in DOMAIN envs' : HostOf[m] = q
      PROVE  TrapOnlyWithoutWait'
  BY <1>1, NoWait DEF TrapOnlyWithoutWait
<1>2. ASSUME NEW ok \in BOOLEAN, ReadEnd(ok), Halts(ok, "trap")
      PROVE  TrapOnlyWithoutWait'
  <2>1. ~ok
    BY <1>0, <1>2 DEF Halts
  <2> DEFINE g    == [q \in DOMAIN hq |-> prune_messages(q)]
             gone == {q \in DOMAIN hq \ {Unexpanded} : \A m \in Kept : HostOf[m] # q}
             new  == {q \in DOMAIN hq \ {Unexpanded} : q \notin gone /\ ~g[q].scheduled}
  <2>2. ~(\A q \in new : Waits(q, g[q]) # {})
    BY <1>2, <2>1, Zenon DEF ReadEnd
  <2>3. PICK q \in new : Waits(q, g[q]) = {}
    BY <2>2
  <2>4. q # Unexpanded /\ \E m \in Kept : HostOf[m] = q
    BY <2>3
  <2>5. DOMAIN envs' = Kept
    BY <1>2 DEF ReadEnd
  <2> QED  BY <2>3, <2>4, <2>5, <1>1
<1>3. CASE HqLaunch
  <2>1. PICK ok \in BOOLEAN : hq_launch(ok) /\ Halts(ok, "trap")
    BY <1>3 DEF HqLaunch
  <2>2. ~ok
    BY <1>0, <2>1 DEF Halts
  <2> DEFINE q == Head(deliver_q)
             S == [hq_deliver_pop(Now, q) EXCEPT !.hq[q].last = "now", !.hq[q].again = TRUE]
  <2>3. PushWait(S, q, ok)
    BY <2>1, Zenon DEF hq_launch
  <2>4. Waits(q, S.hq[q]) = {} /\ deliver_q' = deliver_q
    BY <2>2, <2>3, Zenon DEF PushWait
  <2>5. deliver_q # << >> /\ deliver_q \in Seq(Queues) /\ UNCHANGED envs
    BY <1>3, MemoryParts DEF HqLaunch, Due, ListInv, Now
  <2>6. CASE q = Unexpanded
    BY <2>4, <2>5, <2>6 DEF TrapOnlyWithoutWait
  <2>7. CASE q # Unexpanded
    <3>1. q \in ToSet(deliver_q)
      <4>1. 1 \in DOMAIN deliver_q /\ q = deliver_q[1]
        BY <2>5
      <4> QED  BY <4>1 DEF ToSet
    <3>2. q \in DOMAIN hq
      BY <3>1 DEF ListInv, Listed, Now
    <3>3. \E m \in DOMAIN envs' : HostOf[m] = q
      BY <1>0, <2>5, <2>7, <3>2
    <3> HIDE DEF q, S
    <3> QED  BY <1>1, <2>4, <2>7, <3>3
  <2> QED  BY <2>6, <2>7
<1>4. CASE HqLeaky
  <2>1. PICK q \in Host, ok \in BOOLEAN : Leaky(q, ok) /\ Halts(ok, "trap")
    BY <1>4 DEF HqLeaky
  <2>2. ~ok /\ UNCHANGED envs
    BY <1>0, <1>4, <2>1 DEF Halts, HqLeaky
  <2>3. q \in DOMAIN hq \ {Unexpanded}
    BY <2>1, <2>2 DEF Leaky
  <2> DEFINE S == [hq_deliver_pop(Now, q) EXCEPT !.hq[q].leaky = TRUE]
  <2>4. PushWait(S, q, ok)
    BY <2>1, <2>3, Zenon DEF Leaky
  <2>5. Waits(q, S.hq[q]) = {}
    BY <2>2, <2>4, Zenon DEF PushWait
  <2> HIDE DEF S
  <2> QED  BY <1>0, <1>1, <2>2, <2>3, <2>5
<1>5. halted' # halted
  BY <1>0
<1>6. ~HqCommand
  BY <1>0 DEF HqCommand, Halts
<1>7. ~HqTick
  BY <1>5 DEF HqTick, Runs
<1> QED
  BY <1>2, <1>3, <1>4, <1>5, <1>6, <1>7 DEF HqNext, Runs

\* Whatever rules, waits, limits, mail and commands there are, the daemon divides
\* by zero only when it launches the unexpanded queue, which never got its waits,
\* or while it has mail for a host whose rule leaves it without a wait
\* (host_q_create_or_lookup, hq_deliver_push, hq_launch, q_read_dir).
THEOREM TrapsWithoutWait == HqSpec => []TrapOnlyWithoutWait
<1> DEFINE TrapInv == ListInv /\ Homed /\ TrapOnlyWithoutWait
<1>1. HqInit => TrapInv
  BY ListInit DEF HqInit, Homed, TrapOnlyWithoutWait
<1>2. TrapInv /\ [HqNext]_<<hqVars, halted>> => TrapInv'
  <2> SUFFICES ASSUME ListInv, Homed, TrapOnlyWithoutWait, [HqNext]_<<hqVars, halted>>
               PROVE  ListInv' /\ Homed' /\ TrapOnlyWithoutWait'
    OBVIOUS
  <2>1. CASE HqNext
    <3>1. ~(JailSeconds > 0 /\ halted' = "trap") => TrapOnlyWithoutWait'
      BY DEF TrapOnlyWithoutWait
    <3> QED  BY <2>1, <3>1, ListNext, HomedStep, TrapStep
  <2>2. CASE UNCHANGED <<hqVars, halted>>
    <3>1. Homed' /\ TrapOnlyWithoutWait'
      BY <2>2 DEF hqVars, Homed, TrapOnlyWithoutWait
    <3> QED  BY <3>1, ListNext
  <2> QED  BY <2>1, <2>2
<1> QED  BY <1>1, <1>2, PTL DEF HqSpec

---------------------------------------------------------------------------
(* The counters.                                                           *)

Kinds == {"local", "slow", "receive"}

\* The receivers that serve client i.
Serving(i) == {p \in Children("receive") : proc[p].host = i}

\* The process table is one, and the flag of daemon_waitpid is only raised there.
TableOK ==
    /\ IsFiniteSet(DOMAIN proc)
    /\ \A p \in DOMAIN proc :
        /\ proc[p] = [type |-> proc[p].type, host |-> proc[p].host,
                      todo |-> proc[p].todo, status |-> proc[p].status]
        /\ proc[p].type \in Kinds
    /\ count \in [Kinds -> Int]
    /\ \A i \in DOMAIN cinfo :
        cinfo[i] = [total |-> cinfo[i].total, left |-> cinfo[i].left]
    /\ errors \in BOOLEAN /\ (errors => pc = "reap")

\* What CountersAgree says, and of clients without a receiver too: their entries
\* have to be at zero when the next connection finds them.
Agree ==
    /\ \A t \in Kinds : count[t] = Cardinality(Children(t))
    /\ count["local"] <= LocalMax
    /\ \A i \in DOMAIN cinfo : cinfo[i].total = Cardinality(Serving(i))
    /\ \A p \in Children("receive") : proc[p].host \in DOMAIN cinfo

\* The inductive invariant of CountersAgree.
BookInv == TableOK /\ (halted = "no" /\ ~errors => Agree)

\* Every set that is counted is finite.
LEMMA FiniteTable ==
    ASSUME TableOK
    PROVE  /\ \A t : IsFiniteSet(Children(t)) /\ Cardinality(Children(t)) \in Nat
           /\ \A i : IsFiniteSet(Serving(i)) /\ Cardinality(Serving(i)) \in Nat
<1>1. IsFiniteSet(DOMAIN proc)
  BY DEF TableOK
<1>2. \A t : Children(t) \in SUBSET (DOMAIN proc)
  BY DEF Children
<1>3. \A i : Serving(i) \in SUBSET (DOMAIN proc)
  BY DEF Serving, Children
<1>4. \A T \in SUBSET (DOMAIN proc) : IsFiniteSet(T) /\ Cardinality(T) \in Nat
  BY <1>1, FS_Subset, FS_CardinalityType
<1> QED  BY <1>2, <1>3, <1>4

\* A step that leaves the table alone.
LEMMA QuietBooks ==
    ASSUME BookInv, UNCHANGED <<proc, count, cinfo>>,
           errors' \in BOOLEAN, errors' => pc' = "reap",
           halted' = "no" /\ ~errors' => halted = "no" /\ ~errors
    PROVE  BookInv'
<1>1. TableOK'
  BY DEF BookInv, TableOK
<1>2. Agree' <=> Agree
  BY DEF Agree, Children, Serving
<1> QED  BY <1>1, <1>2 DEF BookInv

\* A child that is added is counted.
LEMMA ForkBooks ==
    ASSUME TableOK, Agree, NEW child, NEW next, Fork(child, next),
           child = [type |-> child.type, host |-> child.host,
                    todo |-> child.todo, status |-> child.status],
           child.type \in Kinds, child.type = "local" => count["local"] < LocalMax,
           ~errors, errors' = errors,
           \A i \in DOMAIN cinfo' :
                cinfo'[i] = [total |-> cinfo'[i].total, left |-> cinfo'[i].left],
           \/ child.type # "receive" /\ cinfo' = cinfo
           \/ /\ child.type = "receive"
              /\ DOMAIN cinfo' = DOMAIN cinfo \union {child.host}
              /\ \A i \in DOMAIN cinfo : i # child.host => cinfo'[i].total = cinfo[i].total
              /\ cinfo'[child.host].total =
                    IF child.host \in DOMAIN cinfo THEN cinfo[child.host].total + 1 ELSE 1
    PROVE  BookInv'
<1>1. CASE Pid \ DOMAIN proc = {}
  <2>1. halted' = "error" /\ UNCHANGED <<proc, count>>
    BY <1>1 DEF Fork
  <2> QED  BY <2>1 DEF BookInv, TableOK
<1>2. CASE Pid \ DOMAIN proc # {}
  <2>1. PICK p : /\ p \notin DOMAIN proc
                 /\ proc' = [x \in DOMAIN proc \union {p} |->
                                IF x = p THEN child ELSE proc[x]]
                 /\ count' = [count EXCEPT ![child.type] = @ + 1]
    <3> DEFINE q == CHOOSE x \in Pid \ DOMAIN proc : TRUE
    <3>1. q \in Pid \ DOMAIN proc
      BY <1>2
    <3> QED  BY <1>2, <3>1 DEF Fork
  <2>2. \A t : Children(t)' = IF t = child.type THEN Children(t) \union {p}
                              ELSE Children(t)
    BY <2>1 DEF Children
  <2>3. \A i : Serving(i)' = IF child.type = "receive" /\ i = child.host
                             THEN Serving(i) \union {p} ELSE Serving(i)
    BY <2>1 DEF Serving, Children
  <2>4. \A t : p \notin Children(t)
    BY <2>1 DEF Children
  <2>5. \A i : p \notin Serving(i)
    BY <2>4 DEF Serving
  <2>6. \A t : /\ IsFiniteSet(Children(t)) /\ Cardinality(Children(t)) \in Nat
               /\ Cardinality(Children(t) \union {p}) = Cardinality(Children(t)) + 1
    BY <2>4, FiniteTable, FS_AddElement
  <2>7. \A i : /\ IsFiniteSet(Serving(i)) /\ Cardinality(Serving(i)) \in Nat
               /\ Cardinality(Serving(i) \union {p}) = Cardinality(Serving(i)) + 1
    BY <2>5, FiniteTable, FS_AddElement
  <2>8. TableOK'
    <3>1. IsFiniteSet(DOMAIN proc')
      BY <2>1, FS_AddElement DEF TableOK
    <3>2. \A x \in DOMAIN proc' :
            /\ proc'[x] = [type |-> proc'[x].type, host |-> proc'[x].host,
                           todo |-> proc'[x].todo, status |-> proc'[x].status]
            /\ proc'[x].type \in Kinds
      BY <2>1 DEF TableOK
    <3>3. count' \in [Kinds -> Int]
      BY <2>1 DEF TableOK
    <3> QED  BY <3>1, <3>2, <3>3 DEF TableOK
  <2>9. \A t \in Kinds : count'[t] = Cardinality(Children(t)')
    BY <2>1, <2>2, <2>6 DEF Agree, TableOK
  <2>10. count'["local"] <= LocalMax
    BY <2>1, DaemonAssumption DEF Agree, TableOK, Kinds
  <2>11. \A i \in DOMAIN cinfo' : cinfo'[i].total = Cardinality(Serving(i)')
    <3>1. CASE child.type # "receive"
      BY <2>3, <3>1 DEF Agree
    <3>2. CASE child.type = "receive"
      <4>1. child.host \notin DOMAIN cinfo => Serving(child.host) = {}
        BY DEF Agree, Serving
      <4>2. cinfo'[child.host].total = Cardinality(Serving(child.host)) + 1
        <5>1. CASE child.host \in DOMAIN cinfo
          BY <3>2, <5>1 DEF Agree
        <5>2. CASE child.host \notin DOMAIN cinfo
          <6>1. Cardinality(Serving(child.host)) = 0
            BY <4>1, <5>2, FS_EmptySet
          <6> QED  BY <3>2, <5>2, <6>1
        <5> QED  BY <5>1, <5>2
      <4>3. \A i \in DOMAIN cinfo' : i # child.host =>
                i \in DOMAIN cinfo /\ cinfo'[i].total = cinfo[i].total
        BY <3>2
      <4> QED  BY <2>3, <2>7, <3>2, <4>2, <4>3 DEF Agree
    <3> QED  BY <3>1, <3>2
  <2>12. \A x \in Children("receive")' : proc'[x].host \in DOMAIN cinfo'
    BY <2>1, <2>2 DEF Agree, Children
  <2> QED  BY <2>8, <2>9, <2>10, <2>11, <2>12 DEF BookInv, Agree
<1> QED  BY <1>1, <1>2

\* A child that is reaped is counted off, unless it ends the daemon.
LEMMA ReapBooks ==
    ASSUME BookInv, halted = "no", Reap
    PROVE  BookInv'
<1>1. PICK p \in Zombies :
        /\ Forget(p)
        /\ errors' = (errors \/ proc[p].status \in {"error", "killed"})
  BY DEF Reap
<1>2. /\ p \in DOMAIN proc /\ proc[p].type \in Kinds /\ TableOK
      /\ pc' = pc /\ pc = "reap"
      /\ proc' = [x \in DOMAIN proc \ {p} |-> proc[x]]
      /\ count' = [count EXCEPT ![proc[p].type] = @ - 1]
      /\ cinfo' = IF proc[p].type = "receive" /\ proc[p].status # "killed"
                  THEN [cinfo EXCEPT ![proc[p].host].total = @ - 1] ELSE cinfo
  BY <1>1 DEF Zombies, Forget, Reap, BookInv, TableOK
<1>3. TableOK'
  <2>1. IsFiniteSet(DOMAIN proc')
    BY <1>2, FS_RemoveElement DEF TableOK
  <2>2. \A x \in DOMAIN proc' :
          /\ proc'[x] = [type |-> proc'[x].type, host |-> proc'[x].host,
                         todo |-> proc'[x].todo, status |-> proc'[x].status]
          /\ proc'[x].type \in Kinds
    BY <1>2 DEF TableOK
  <2>3. count' \in [Kinds -> Int]
    BY <1>2 DEF TableOK
  <2>4. errors' \in BOOLEAN /\ (errors' => pc' = "reap")
    BY <1>1, <1>2
  <2>5. \A i \in DOMAIN cinfo' :
            cinfo'[i] = [total |-> cinfo'[i].total, left |-> cinfo'[i].left]
    BY <1>2 DEF TableOK
  <2> QED  BY <2>1, <2>2, <2>3, <2>4, <2>5 DEF TableOK
<1>4. ASSUME ~errors' PROVE Agree'
  <2>1. ~errors /\ proc[p].status # "killed" /\ Agree
    BY <1>1, <1>4 DEF BookInv
  <2>2. \A t : Children(t)' = IF t = proc[p].type THEN Children(t) \ {p} ELSE Children(t)
    BY <1>2 DEF Children
  <2>3. \A i : Serving(i)' = IF proc[p].type = "receive" /\ i = proc[p].host
                             THEN Serving(i) \ {p} ELSE Serving(i)
    BY <1>2 DEF Serving, Children
  <2>4. p \in Children(proc[p].type)
    BY <1>2 DEF Children
  <2>5. proc[p].type = "receive" =>
          p \in Serving(proc[p].host) /\ proc[p].host \in DOMAIN cinfo
    BY <2>1, <2>4 DEF Serving, Agree
  <2>6. \A t : /\ IsFiniteSet(Children(t)) /\ Cardinality(Children(t)) \in Nat
               /\ p \in Children(t) =>
                    Cardinality(Children(t) \ {p}) = Cardinality(Children(t)) - 1
    BY <1>2, FiniteTable, FS_RemoveElement
  <2>7. \A i : /\ IsFiniteSet(Serving(i)) /\ Cardinality(Serving(i)) \in Nat
               /\ p \in Serving(i) =>
                    Cardinality(Serving(i) \ {p}) = Cardinality(Serving(i)) - 1
    BY <1>2, FiniteTable, FS_RemoveElement
  <2>8. \A t \in Kinds : count'[t] = Cardinality(Children(t)')
    BY <1>2, <2>1, <2>2, <2>4, <2>6 DEF Agree, TableOK
  <2>9. count'["local"] <= LocalMax
    BY <1>2, <2>1, DaemonAssumption DEF Agree, TableOK, Kinds
  <2>10. /\ DOMAIN cinfo' = DOMAIN cinfo
         /\ \A i \in DOMAIN cinfo : cinfo'[i].total =
              IF proc[p].type = "receive" /\ i = proc[p].host
              THEN cinfo[i].total - 1 ELSE cinfo[i].total
    BY <1>2, <2>1, <2>5 DEF TableOK
  <2>11. \A i \in DOMAIN cinfo' : cinfo'[i].total = Cardinality(Serving(i)')
    BY <2>1, <2>3, <2>5, <2>7, <2>10 DEF Agree
  <2>12. \A x \in Children("receive")' : proc'[x].host \in DOMAIN cinfo'
    BY <1>2, <2>1, <2>2, <2>10 DEF Agree, Children
  <2> QED  BY <2>8, <2>9, <2>11, <2>12 DEF Agree
<1> QED  BY <1>3, <1>4 DEF BookInv

\* The clients that are forgotten have no receiver.
LEMMA WakeBooks ==
    ASSUME BookInv, halted = "no", Wake, Runs
    PROVE  BookInv'
<1>1. PICK d : cinfo' = Throttled(d)
  BY DEF Wake, WakeFrom
<1>2. /\ UNCHANGED <<proc, count, errors>> /\ pc \in {"asleep", "woken"}
      /\ TableOK
  BY DEF Wake, WakeFrom, BookInv
<1>3. ~errors /\ Agree
  BY <1>2 DEF BookInv, TableOK
<1>4. /\ DOMAIN cinfo' \subseteq DOMAIN cinfo
      /\ \A i \in DOMAIN cinfo : cinfo[i].total > 0 => i \in DOMAIN cinfo'
      /\ \A i \in DOMAIN cinfo' :
            /\ cinfo'[i] = [total |-> cinfo'[i].total, left |-> cinfo'[i].left]
            /\ cinfo'[i].total = cinfo[i].total
  BY <1>1, <1>2 DEF Throttled, TableOK
<1>5. TableOK'
  BY <1>2, <1>3, <1>4 DEF TableOK
<1>6. \A t : Children(t)' = Children(t)
  BY <1>2 DEF Children
<1>7. \A i : Serving(i)' = Serving(i)
  BY <1>2, <1>6 DEF Serving
<1>8. \A p \in Children("receive") : proc[p].host \in DOMAIN cinfo'
  <2> SUFFICES ASSUME NEW p \in Children("receive") PROVE proc[p].host \in DOMAIN cinfo'
    OBVIOUS
  <2>1. p \in Serving(proc[p].host)
    BY DEF Serving
  <2>2. /\ IsFiniteSet(Serving(proc[p].host))
        /\ Cardinality(Serving(proc[p].host)) \in Nat
    BY <1>2, FiniteTable
  <2>3. Cardinality(Serving(proc[p].host)) > 0
    BY <2>1, <2>2, FS_EmptySet
  <2> QED  BY <1>3, <1>4, <2>3 DEF Agree
<1>9. Agree'
  BY <1>2, <1>3, <1>4, <1>6, <1>7, <1>8 DEF Agree
<1> QED  BY <1>5, <1>9 DEF BookInv

\* A child at work, or at its end, stays in the table until it is reaped.
LEMMA WorkBooks ==
    ASSUME BookInv, halted = "no", NEW p \in DOMAIN proc, LocalRead(p) \/ Exit(p)
    PROVE  BookInv'
<1>1. /\ TableOK /\ UNCHANGED <<count, cinfo, errors>>
      /\ pc = "reap" => pc' = "reap"
  BY DEF BookInv, LocalRead, Exit, Raise, loopVars
<1>2. /\ DOMAIN proc' = DOMAIN proc
      /\ \A x \in DOMAIN proc :
            /\ proc'[x] = [type |-> proc'[x].type, host |-> proc'[x].host,
                           todo |-> proc'[x].todo, status |-> proc'[x].status]
            /\ proc'[x].type = proc[x].type
            /\ proc[x].type # "local" => proc'[x].host = proc[x].host
  <2>1. \A x \in DOMAIN proc :
          proc[x] = [type |-> proc[x].type, host |-> proc[x].host,
                     todo |-> proc[x].todo, status |-> proc[x].status]
    BY <1>1 DEF TableOK
  <2>2. CASE LocalRead(p)
    <3>1. proc' = [proc EXCEPT ![p] = [@ EXCEPT !.host = "read"]]
          /\ proc[p].type = "local"
      BY <2>2 DEF LocalRead
    <3> QED  BY <2>1, <3>1
  <2>3. CASE Exit(p)
    <3>1. PICK s : proc' = [proc EXCEPT ![p] =
                                [[@ EXCEPT !.status = s] EXCEPT !.todo = {}]]
      BY <2>3 DEF Exit
    <3>2. proc'[p] = [type |-> proc[p].type, host |-> proc[p].host,
                      todo |-> {}, status |-> s]
      <4>1. proc'[p] = [[proc[p] EXCEPT !.status = s] EXCEPT !.todo = {}]
        BY <3>1
      <4>2. proc[p] = [type |-> proc[p].type, host |-> proc[p].host,
                       todo |-> proc[p].todo, status |-> proc[p].status]
        BY <2>1
      <4> QED  BY <4>1, <4>2
    <3>3. DOMAIN proc' = DOMAIN proc /\ \A x \in DOMAIN proc : x # p => proc'[x] = proc[x]
      BY <3>1
    <3> QED  BY <2>1, <3>2, <3>3
  <2> QED  BY <2>2, <2>3
<1>3. TableOK'
  BY <1>1, <1>2 DEF TableOK
<1>4. \A t : Children(t)' = Children(t)
  BY <1>2 DEF Children
<1>5. \A i : Serving(i)' = Serving(i)
  BY <1>2, <1>4 DEF Serving, Children
<1>6. Agree => Agree'
  BY <1>1, <1>2, <1>4, <1>5 DEF Agree, Children
<1> QED  BY <1>1, <1>3, <1>6 DEF BookInv

\* The loop forks for local mail, for unexpanded mail, for a queue that is due,
\* and for a client.
LEMMA LoopBooks ==
    ASSUME BookInv, halted = "no", Loop
    PROVE  BookInv'
<1>0. TableOK /\ errors \in BOOLEAN /\ (pc # "reap" => ~errors /\ Agree)
  BY DEF BookInv, TableOK
<1>1. CASE LocalRunner
  <2>1. CASE "simsendmail" \in sig /\ count["local"] < LocalMax
    <3>1. /\ Fork(Child("local", "start", {}), Wait) /\ pc = "local"
          /\ UNCHANGED <<cinfo, errors>>
      BY <1>1, <2>1 DEF LocalRunner, loopVars
    <3>2. TableOK /\ Agree /\ ~errors
      BY <1>0, <3>1
    <3>3. \A i \in DOMAIN cinfo' :
            cinfo'[i] = [total |-> cinfo'[i].total, left |-> cinfo'[i].left]
      BY <3>1, <3>2 DEF TableOK
    <3> QED  BY <2>1, <3>1, <3>2, <3>3, ForkBooks DEF Child, Kinds
  <2>2. CASE ~("simsendmail" \in sig /\ count["local"] < LocalMax)
    BY <1>0, <1>1, <2>2, QuietBooks DEF LocalRunner, Runs, loopVars
  <2> QED  BY <2>1, <2>2
<1>2. CASE Reap
  BY <1>2, ReapBooks
<1>3. CASE WaitDone
  BY <1>0, <1>3, QuietBooks DEF WaitDone, Halts, procVars
<1>4. CASE CommandEntry
  <2>1. pc = "command" /\ UNCHANGED <<errors, proc, count, cinfo>>
    BY <1>4 DEF CommandEntry, procVars
  <2> QED  BY <1>0, <2>1, QuietBooks
<1>5. CASE DiskEnd
  <2>1. pc = "disk" /\ UNCHANGED <<errors, proc, count, cinfo>>
    BY <1>5 DEF DiskEnd, procVars
  <2> QED  BY <1>0, <2>1, QuietBooks
<1>6. CASE UnexpandedRunner
  <2>1. CASE Members(Unexpanded) # {} /\ timer["unexpanded"] <= 0
    <3>1. /\ Fork(Child("slow", Unexpanded, Members(Unexpanded)), "launch")
          /\ pc = "unexpanded" /\ UNCHANGED <<cinfo, errors>>
      BY <1>6, <2>1 DEF UnexpandedRunner
    <3>2. TableOK /\ Agree /\ ~errors
      BY <1>0, <3>1
    <3>3. \A i \in DOMAIN cinfo' :
            cinfo'[i] = [total |-> cinfo'[i].total, left |-> cinfo'[i].left]
      BY <3>1, <3>2 DEF TableOK
    <3> QED  BY <3>1, <3>2, <3>3, ForkBooks DEF Child, Kinds
  <2>2. CASE ~(Members(Unexpanded) # {} /\ timer["unexpanded"] <= 0)
    BY <1>0, <1>6, <2>2, QuietBooks DEF UnexpandedRunner, Runs
  <2> QED  BY <2>1, <2>2
<1>7. CASE Launch
  <2>1. pc = "launch" /\ UNCHANGED <<cinfo, errors>>
    BY <1>7 DEF Launch
  <2>2. TableOK /\ Agree /\ ~errors
    BY <1>0, <2>1
  <2>3. CASE halted' = "trap" /\ UNCHANGED <<pc, proc, count>>
    <3>1. UNCHANGED <<proc, count, cinfo>> /\ ~errors' /\ errors' = errors
      BY <2>1, <2>2, <2>3
    <3>2. errors' \in BOOLEAN /\ (errors' => pc' = "reap")
      BY <1>0, <3>1
    <3> QED  BY <1>0, <2>2, <2>3, <3>1, <3>2, QuietBooks
  <2>4. ASSUME NEW q, Fork(Child("slow", q, Members(q)), "launch")
        PROVE  BookInv'
    <3>1. \A i \in DOMAIN cinfo' :
            cinfo'[i] = [total |-> cinfo'[i].total, left |-> cinfo'[i].left]
      BY <2>1, <2>2 DEF TableOK
    <3> QED  BY <2>1, <2>2, <2>4, <3>1, ForkBooks DEF Child, Kinds
  <2> QED  BY <1>7, <2>3, <2>4 DEF Launch
<1>8. CASE Receive
  <2>1. pc = "receive" /\ UNCHANGED errors
    BY <1>8 DEF Receive, loopVars
  <2>2. TableOK /\ Agree /\ ~errors
    BY <1>0, <2>1
  <2>3. CASE pc' = "local" /\ Runs /\ UNCHANGED procVars
    <3>1. UNCHANGED <<proc, count, cinfo>> /\ ~errors' /\ errors' = errors
      BY <2>1, <2>2, <2>3 DEF procVars
    <3>2. errors' \in BOOLEAN /\ (errors' => pc' = "reap")
      BY <1>0, <3>1
    <3> QED  BY <1>0, <2>2, <3>1, <3>2, QuietBooks
  <2>4. ASSUME NEW i \in Ip, NEW left,
               LET old == IF i \in DOMAIN cinfo THEN cinfo[i]
                          ELSE [total |-> 0, left |-> 0 - 1]
               IN  cinfo' = [j \in DOMAIN cinfo \union {i} |->
                      IF j = i THEN [total |-> old.total + 1, left |-> left] ELSE cinfo[j]],
               Fork(Child("receive", i, {}), "local")
        PROVE  BookInv'
    <3>1. /\ DOMAIN cinfo' = DOMAIN cinfo \union {i}
          /\ \A j \in DOMAIN cinfo : j # i => cinfo'[j] = cinfo[j]
          /\ cinfo'[i] = [total |-> (IF i \in DOMAIN cinfo THEN cinfo[i].total ELSE 0) + 1,
                          left |-> left]
      BY <2>4
    <3>2. \A j \in DOMAIN cinfo' :
            cinfo'[j] = [total |-> cinfo'[j].total, left |-> cinfo'[j].left]
      BY <2>2, <3>1 DEF TableOK
    <3>3. cinfo'[i].total = IF i \in DOMAIN cinfo THEN cinfo[i].total + 1 ELSE 1
      BY <3>1
    <3> QED  BY <2>1, <2>2, <2>4, <3>1, <3>2, <3>3, ForkBooks DEF Child, Kinds
  <2> QED  BY <1>8, <2>3, <2>4 DEF Receive
<1>9. CASE Runs /\ Wake
  BY <1>9, WakeBooks
<1>10. CASE Runs /\ (\/ WaitStart \/ CommandOpen \/ CommandEnd \/ DiskStart
                     \/ DiskEntry \/ LaunchDone \/ Select)
  <2>1. /\ UNCHANGED <<proc, count, cinfo, halted>> /\ pc # "reap"
        /\ errors' \in {errors, FALSE}
    BY <1>10
       DEF WaitStart, CommandOpen, CommandEnd, DiskStart, DiskEntry,
           LaunchDone, Select, procVars, loopVars, Runs
  <2>2. errors = FALSE
    BY <1>0, <2>1
  <2>3. errors' = FALSE
    BY <2>1, <2>2
  <2> QED  BY <2>1, <2>2, <2>3, QuietBooks
<1> QED
  BY <1>1, <1>2, <1>3, <1>4, <1>5, <1>6, <1>7, <1>8, <1>9, <1>10 DEF Loop

\* BookInv is inductive.
LEMMA BookNext == BookInv /\ [Next]_vars => BookInv'
<1> SUFFICES ASSUME BookInv, [Next]_vars PROVE BookInv'
  OBVIOUS
<1>0. errors \in BOOLEAN /\ (errors => pc = "reap")
  BY DEF BookInv, TableOK
<1>1. CASE halted = "no" /\ Loop
  BY <1>1, LoopBooks
<1>2. CASE Others
  <2>1. UNCHANGED <<proc, count, cinfo, errors, halted>> /\ (pc = "reap" => pc' = "reap")
    BY <1>2
       DEF Others, Runs, Submit, SubmitSignal, Post, PostSignal, NewMail,
           Raise,
           procVars, loopVars
  <2> QED  BY <1>0, <2>1, QuietBooks
<1>3. ASSUME NEW p \in Pid, halted = "no", Work(p) PROVE BookInv'
  BY <1>3, WorkBooks DEF Work
<1>4. CASE UNCHANGED vars
  BY <1>0, <1>4, QuietBooks DEF vars, procVars, loopVars
<1> QED  BY <1>1, <1>2, <1>3, <1>4 DEF Next

\* The daemon starts without children.
LEMMA BookInit == Init => BookInv
<1> SUFFICES ASSUME Init PROVE BookInv
  OBVIOUS
<1>1. DOMAIN proc = {} /\ DOMAIN cinfo = {} /\ ~errors /\ errors \in BOOLEAN
  BY DEF Init
<1>2. IsFiniteSet({}) /\ Cardinality({}) = 0
  BY FS_EmptySet
<1>3. \A t : Children(t) = {}
  BY <1>1 DEF Children
<1>4. count = [t \in Kinds |-> 0]
  BY DEF Init, Kinds
<1>5. LocalMax \in Nat
  BY DaemonAssumption
<1>6. TableOK
  BY <1>1, <1>2, <1>4 DEF TableOK
<1>7. Agree
  <2>1. \A t \in Kinds : count[t] = Cardinality(Children(t))
    BY <1>2, <1>3, <1>4
  <2>2. count["local"] <= LocalMax
    BY <1>4, <1>5 DEF Kinds
  <2>3. Children("receive") = {}
    BY <1>3
  <2> QED  BY <1>1, <2>1, <2>2, <2>3 DEF Agree
<1> QED  BY <1>6, <1>7 DEF BookInv

\* However many processes and clients there are, whatever the limits, and in
\* whatever order children end and signals come, the counters are the numbers of
\* children in the table, the local runners keep within their limit and each
\* receiver is counted for its client (simta_child_receive, daemon_waitpid, the
\* throttle table of simta_server).
THEOREM BooksBalance == Spec => []CountersAgree
<1>1. BookInv => CountersAgree
  <2> SUFFICES ASSUME TableOK, Agree, halted = "no", ~errors PROVE CountersAgree
    BY DEF BookInv, CountersAgree
  <2>1. DOMAIN count = Kinds
    BY DEF TableOK
  <2>2. \A p \in Children("receive") :
          {x \in Children("receive") : proc[x].host = proc[p].host} = Serving(proc[p].host)
    BY DEF Serving
  <2> QED  BY <2>1, <2>2 DEF Agree, CountersAgree
<1> QED  BY <1>1, BookInit, BookNext, PTL DEF Spec
=============================================================================
