-------------------------- MODULE ExpansionProofs --------------------------
(***************************************************************************)
(* A message without moderated or forwarded groups, with any number of     *)
(* hosts and bounces, whatever calls fail and however often a process dies *)
(* and simta or simta -C is started again: no envelope is lost, none is    *)
(* delivered beside its original, and the assertions of the clean-up hold. *)
(***************************************************************************)
EXTENDS Expansion, Loops

---------------------------------------------------------------------------
(* The tree.                                                               *)

\* No moderated or forwarded group: the message is expanded to envelopes for hosts
\* and to bounces, and a bounce to envelopes for hosts.
Ungrouped(t) ==
    /\ \A m \in Id : t.kind[m] \in {"root", "host", "error", None}
    /\ \A m \in Id : t.kind[m] = "error" => t.parent[m] = Root
    /\ \A m \in Id : t.kind[m] = "host" =>
         t.parent[m] = Root \/ (t.parent[m] \in Id /\ t.kind[t.parent[m]] = "error")

Bounces == {m \in Id : tree.kind[m] = "error"}
Original == {Root} \union Bounces
HostsOf(o) == {h \in Host : tree.parent[h] = o}

Flat == tree \in Tree /\ Ungrouped(tree)

\* Which messages there are, and what was expanded from what.
LEMMA FamilyIs ==
    ASSUME Flat
    PROVE  /\ Original \subseteq Id /\ Host \subseteq Id /\ Host \intersect Original = {}
           /\ Root \in Original /\ Root \notin Bounces /\ tree.parent[Root] = None
           /\ \A e \in Bounces : tree.parent[e] = Root
           /\ \A h \in Host : tree.parent[h] \in Original /\ h \in HostsOf(tree.parent[h])
           /\ \A o \in Original : HostsOf(o) \subseteq Host /\ HostsOf(o) \subseteq Child(o)
           /\ \A m \in Id : \A k \in Child(m) :
                k \in HostsOf(m) \/ (k \in Bounces /\ m = Root)
           /\ Root \notin {k \in Id : \E m \in Id : k \in Child(m)}
<1>1. /\ Root \in Id
      /\ tree.parent \in [Id -> Id \union {None}] /\ tree.kind \in [Id -> Kind \union {None}]
      /\ \A m \in Id : tree.kind[m] = "root" <=> m = Root
      /\ \A m \in Id : tree.parent[m] = None <=> tree.kind[m] \in {"root", None}
  BY TreeAssumption DEF Flat
<1>2. /\ \A m \in Id : tree.kind[m] \in {"root", "host", "error", None}
      /\ \A m \in Id : tree.kind[m] = "error" => tree.parent[m] = Root
      /\ \A m \in Id : tree.kind[m] = "host" =>
           tree.parent[m] = Root
           \/ (tree.parent[m] \in Id /\ tree.kind[tree.parent[m]] = "error")
  BY DEF Flat, Ungrouped
<1>3. None \notin Id
  BY NoneAssumption
<1>4. Original \subseteq Id /\ Host \subseteq Id /\ Host \intersect Original = {}
  BY <1>1 DEF Original, Host, Bounces
<1>5. Root \in Original /\ Root \notin Bounces /\ tree.parent[Root] = None
  BY <1>1 DEF Original, Bounces
<1>6. \A e \in Bounces : tree.parent[e] = Root
  BY <1>2 DEF Bounces
<1>7. \A h \in Host : tree.parent[h] \in Original /\ h \in HostsOf(tree.parent[h])
  BY <1>2 DEF Host, Original, Bounces, HostsOf
<1>8. \A o \in Original : HostsOf(o) \subseteq Host /\ HostsOf(o) \subseteq Child(o)
  BY DEF HostsOf, Host, Child
<1>9. \A m \in Id : \A k \in Child(m) : k \in HostsOf(m) \/ (k \in Bounces /\ m = Root)
  <2> SUFFICES ASSUME NEW m \in Id, NEW k \in Id, tree.parent[k] = m
               PROVE  k \in HostsOf(m) \/ (k \in Bounces /\ m = Root)
    BY DEF Child
  <2>1. tree.kind[k] \notin {"root", None}
    BY <1>1, <1>3
  <2>2. tree.kind[k] \in {"host", "error"}
    BY <2>1, <1>2
  <2> QED  BY <2>2, <1>2 DEF HostsOf, Host, Bounces
<1>10. Root \notin {k \in Id : \E m \in Id : k \in Child(m)}
  BY <1>5, <1>3 DEF Child
<1> QED  BY <1>4, <1>5, <1>6, <1>7, <1>8, <1>9, <1>10

\* Their lines, levels and D inodes.
LEMMA LineIs ==
    ASSUME Flat
    PROVE  /\ Line(Root) = {Root}
           /\ \A e \in Bounces : Line(e) = {e, Root}
           /\ \A h \in Host : Line(h) = {h, tree.parent[h], Root}
<1> DEFINE p == tree.parent
           Turn(f, x) == {x} \union (IF p[x] = None THEN {} ELSE f[p[x]])
           Is(f) == f = [x \in Id |-> Turn(f, x)]
           line[x \in Id] == {x} \union (IF tree.parent[x] = None THEN {}
                                         ELSE line[tree.parent[x]])
           L == [x \in Id |-> IF p[x] = None THEN {x}
                              ELSE IF p[x] = Root THEN {x, Root} ELSE {x, p[x], Root}]
<1>1. \A x : Line(x) = line[x]
  BY DEF Line
<1>2. (\E f : Is(f)) => Is(line)
  OBVIOUS
<1>3. None \notin Id
  BY NoneAssumption
<1>4. p[Root] = None /\ Root \in Id
  BY FamilyIs DEF Original
<1>5. \A x \in Id : p[x] = None \/ p[x] = Root \/ (p[x] \in Id /\ p[p[x]] = Root)
  <2> SUFFICES ASSUME NEW x \in Id, p[x] # None
               PROVE  p[x] = Root \/ (p[x] \in Id /\ p[p[x]] = Root)
    OBVIOUS
  <2>1. p[x] \in Id
    BY TreeAssumption DEF Flat
  <2>2. x \in Child(p[x])
    BY <2>1 DEF Child
  <2>3. x \in Host \/ p[x] = Root
    BY <2>1, <2>2, FamilyIs DEF HostsOf
  <2> QED  BY <2>1, <2>3, FamilyIs DEF Original
<1>6. Is(L)
  <2>1. ASSUME NEW x \in Id PROVE L[x] = Turn(L, x)
    <3>1. CASE p[x] = None
      BY <3>1
    <3>2. CASE p[x] # None /\ p[x] = Root
      BY <3>2, <1>4
    <3>3. CASE p[x] # None /\ p[x] # Root
      <4>1. p[x] \in Id /\ p[p[x]] = Root /\ Root # None
        BY <3>3, <1>5, <1>4, <1>3
      <4>2. L[p[x]] = {p[x], Root}
        BY <4>1
      <4> QED  BY <3>3, <4>2
    <3> QED  BY <3>1, <3>2, <3>3
  <2> HIDE DEF Turn
  <2> QED  BY <2>1
<1>7. \A x \in Id : line[x] = Turn(line, x)
  <2>1. Is(line)
    BY <1>2, <1>6
  <2> HIDE DEF line, Turn
  <2> QED  BY <2>1
<1> HIDE DEF line
<1>8. line[Root] = {Root}
  BY <1>4, <1>7
<1>9. \A e \in Bounces : line[e] = {e, Root}
  BY <1>3, <1>4, <1>7, <1>8, FamilyIs DEF Bounces
<1>10. \A h \in Host : line[h] = {h, p[h], Root}
  <2> SUFFICES ASSUME NEW h \in Host PROVE line[h] = {h, p[h], Root}
    OBVIOUS
  <2>1. p[h] \in Original /\ p[h] # None /\ h \in Id
    BY FamilyIs, <1>3
  <2>2. line[h] = {h} \union line[p[h]]
    BY <2>1, <1>7
  <2> QED  BY <2>1, <2>2, <1>8, <1>9 DEF Original
<1> QED  BY <1>1, <1>8, <1>9, <1>10

\* A host's D file is a link to that of the message it was expanded from.
LEMMA DinodeIs ==
    ASSUME Flat
    PROVE  /\ \A o \in Original : Dinode(o) = o
           /\ \A h \in Host : Dinode(h) = tree.parent[h]
<1> DEFINE p == tree.parent
           Own(x) == p[x] = None \/ tree.kind[x] = "error"
           Is(f) == f = [x \in Id |-> IF Own(x) THEN x ELSE f[p[x]]]
           dinode[x \in Id] == IF tree.parent[x] = None \/ tree.kind[x] = "error" THEN x
                               ELSE dinode[tree.parent[x]]
           D == [x \in Id |-> IF Own(x) THEN x ELSE p[x]]
<1>1. \A x : Dinode(x) = dinode[x]
  BY DEF Dinode
<1>2. (\E f : Is(f)) => Is(dinode)
  OBVIOUS
<1>3. \A o \in Original : o \in Id /\ Own(o)
  BY FamilyIs DEF Original, Bounces
<1>4. \A x \in Id : Own(x) \/ p[x] \in Original
  <2> SUFFICES ASSUME NEW x \in Id, ~Own(x)
               PROVE  p[x] \in Original
    OBVIOUS
  <2>1. p[x] \in Id
    BY TreeAssumption DEF Flat
  <2>2. x \in Child(p[x])
    BY <2>1 DEF Child
  <2>3. x \in Host
    BY <2>1, <2>2, FamilyIs DEF HostsOf, Bounces
  <2> QED  BY <2>3, FamilyIs
<1>5. Is(D)
  <2>1. ASSUME NEW x \in Id PROVE D[x] = IF Own(x) THEN x ELSE D[p[x]]
    BY <1>3, <1>4
  <2> HIDE DEF Own
  <2> QED  BY <2>1
<1>6. \A x \in Id : dinode[x] = IF Own(x) THEN x ELSE dinode[p[x]]
  <2>1. Is(dinode)
    BY <1>2, <1>5
  <2> HIDE DEF dinode, Own
  <2> QED  BY <2>1
<1> HIDE DEF dinode
<1>7. \A o \in Original : dinode[o] = o
  BY <1>3, <1>6
<1>8. \A h \in Host : h \in Id /\ p[h] \in Original /\ ~Own(h)
  BY FamilyIs, NoneAssumption DEF Host
<1>9. \A h \in Host : dinode[h] = p[h]
  BY <1>6, <1>7, <1>8
<1> QED  BY <1>1, <1>7, <1>9

\* How far below the root a message is.
LEMMA LevelIs ==
    ASSUME Flat
    PROVE  /\ \A o \in Original : Level(o) \in Nat
           /\ \A h \in Host : Level(h) = 1 + Level(tree.parent[h])
<1> DEFINE p == tree.parent
           Is(f) == f = [x \in Id |-> IF p[x] = None THEN 0 ELSE 1 + f[p[x]]]
           level[x \in Id] == IF tree.parent[x] = None THEN 0 ELSE 1 + level[tree.parent[x]]
           L == [x \in Id |-> IF p[x] = None THEN 0 ELSE IF p[x] = Root THEN 1 ELSE 2]
<1>1. \A x : Level(x) = level[x]
  BY DEF Level
<1>2. (\E f : Is(f)) => Is(level)
  OBVIOUS
<1>3. p[Root] = None /\ Root \in Id /\ Root # None
  BY FamilyIs, NoneAssumption DEF Original
<1>4. \A x \in Id : p[x] = None \/ p[x] = Root \/ (p[x] \in Id /\ p[p[x]] = Root)
  <2> SUFFICES ASSUME NEW x \in Id, p[x] # None
               PROVE  p[x] = Root \/ (p[x] \in Id /\ p[p[x]] = Root)
    OBVIOUS
  <2>1. p[x] \in Id
    BY TreeAssumption DEF Flat
  <2>2. x \in Child(p[x])
    BY <2>1 DEF Child
  <2>3. x \in Host \/ p[x] = Root
    BY <2>1, <2>2, FamilyIs DEF HostsOf
  <2> QED  BY <2>1, <2>3, FamilyIs DEF Original
<1>5. Is(L)
  <2>1. ASSUME NEW x \in Id PROVE L[x] = IF p[x] = None THEN 0 ELSE 1 + L[p[x]]
    BY <1>3, <1>4
  <2> QED  BY <2>1
<1>6. \A x \in Id : level[x] = IF p[x] = None THEN 0 ELSE 1 + level[p[x]]
  <2>1. Is(level)
    BY <1>2, <1>5
  <2> HIDE DEF level
  <2> QED  BY <2>1
<1> HIDE DEF level
<1>7. level[Root] = 0
  BY <1>3, <1>6
<1>8. \A o \in Original : level[o] \in Nat
  <2>1. \A e \in Bounces : e \in Id /\ p[e] = Root
    BY FamilyIs DEF Bounces
  <2> QED  BY <1>3, <1>6, <1>7, <2>1 DEF Original
<1>9. \A h \in Host : h \in Id /\ p[h] \in Original /\ p[h] # None
  BY FamilyIs, NoneAssumption
<1>10. \A h \in Host : level[h] = 1 + level[p[h]]
  BY <1>6, <1>9
<1> QED  BY <1>1, <1>8, <1>10

---------------------------------------------------------------------------
(* What q_expansion_cleanup makes of a directory.                          *)

Tallies ==
    [expanded : [Id -> SUBSET Id], unexpanded : [Id -> Id \union {None}],
     doomed : SUBSET Id, ok : BOOLEAN]

\* The envelopes of S whose D file is a link to that of o.
Sharing(o, S) == {x \in S : Dinode(x) = o /\ ~(Nlink(x) <= 1)}

\* One D inode: nothing of it seen, the original, hosts, or the original and hosts.
Sorted(acc, o, F) ==
    \/ F = {} /\ acc.expanded[o] = {} /\ acc.unexpanded[o] = None
    \/ F = {o} /\ acc.expanded[o] = {o} /\ acc.unexpanded[o] = None
    \/ F # {} /\ o \notin F /\ acc.expanded[o] = F /\ acc.unexpanded[o] = None
    \/ o \in F /\ F # {o} /\ acc.unexpanded[o] = o /\ F \ {o} \subseteq acc.doomed

\* What the loop knows when it has seen S.
Judged(acc, S) ==
    /\ acc \in Tallies /\ acc.ok
    /\ \A o \in Original : Sorted(acc, o, Sharing(o, S))
    /\ \A m \in acc.doomed : m \in S /\ m \in Host /\ tree.parent[m] \in S

\* One turn of it.
LEMMA JudgeIs ==
    ASSUME Flat, NEW acc, NEW S \in SUBSET (Original \union Host), Judged(acc, S),
           NEW m \in (Original \union Host) \ S
    PROVE  Judged(Judge(acc, m), S \union {m})
<1> DEFINE i == Dinode(m)
           F == Sharing(i, S)
           whole == acc.unexpanded[i]
           copies == acc.expanded[i]
           level == CHOOSE n \in {Level(x) : x \in copies} : TRUE
           r == Judge(acc, m)
           T == S \union {m}
<1>1. /\ i \in Original /\ i \in Id /\ m \in Id /\ i # None
      /\ m = i \/ (m \in Host /\ m # i /\ tree.parent[m] = i)
  BY DinodeIs, FamilyIs, NoneAssumption
<1>2. /\ acc \in Tallies /\ acc.ok /\ Sorted(acc, i, F)
      /\ \A o \in Original : Sorted(acc, o, Sharing(o, S))
      /\ \A x \in acc.doomed : x \in S /\ x \in Host /\ tree.parent[x] \in S
  BY <1>1 DEF Judged
<1>3. \A o \in Original : o # i => Sharing(o, T) = Sharing(o, S)
  BY DEF Sharing
<1>4. /\ F \subseteq S /\ m \notin F
      /\ \A x \in F : x \in Id /\ (x = i \/ (x \in Host /\ x # i /\ tree.parent[x] = i))
  BY DinodeIs, FamilyIs DEF Sharing
<1>5. /\ Level(i) \in Nat
      /\ \A x \in F : x # i => Level(x) = 1 + Level(i)
      /\ m # i => Level(m) = 1 + Level(i)
  BY <1>1, <1>4, LevelIs
<1>6. /\ copies \in SUBSET Id /\ whole \in Id \union {None}
      /\ acc.expanded \in [Id -> SUBSET Id] /\ acc.unexpanded \in [Id -> Id \union {None}]
      /\ acc.doomed \in SUBSET Id
      /\ acc = [expanded |-> acc.expanded, unexpanded |-> acc.unexpanded,
                doomed |-> acc.doomed, ok |-> acc.ok]
  BY <1>1, <1>2 DEF Tallies
<1>7. CASE Nlink(m) <= 1
  <2>1. r = acc
    BY <1>2, <1>7 DEF Judge
  <2>2. \A o \in Original : Sharing(o, T) = Sharing(o, S)
    BY <1>7 DEF Sharing
  <2> QED  BY <1>2, <2>1, <2>2 DEF Judged
<1>8. CASE ~(Nlink(m) <= 1)
  <2>1. Sharing(i, T) = F \union {m}
    BY <1>8 DEF Sharing
  <2>2. SUFFICES /\ r \in Tallies /\ r.ok
                 /\ Sorted(r, i, F \union {m})
                 /\ \A o \in Original : o # i =>
                      /\ r.expanded[o] = acc.expanded[o]
                      /\ r.unexpanded[o] = acc.unexpanded[o]
                 /\ acc.doomed \subseteq r.doomed
                 /\ \A x \in r.doomed : x \in T /\ x \in Host /\ tree.parent[x] \in T
    <3>1. \A o \in Original : o # i => Sorted(r, o, Sharing(o, T))
      <4> HIDE DEF r, T, i
      <4> QED  BY <1>2, <1>3, <2>2 DEF Sorted
    <3> QED  BY <2>1, <2>2, <3>1 DEF Judged
  <2>3. CASE whole # None
    <3>1. r = [acc EXCEPT !.ok = Level(m) - 1 = Level(whole),
                          !.doomed = @ \union {m}]
      BY <1>2, <1>8, <2>3 DEF Judge
    <3>2. i \in F /\ F # {i} /\ whole = i /\ F \ {i} \subseteq acc.doomed
      BY <1>2, <2>3 DEF Sorted
    <3>3. m # i /\ Level(m) - 1 = Level(i)
      BY <1>4, <1>5, <3>2
    <3> HIDE DEF r
    <3>4. /\ r.ok = (Level(m) - 1 = Level(i)) /\ r.doomed = acc.doomed \union {m}
          /\ r.expanded = acc.expanded /\ r.unexpanded = acc.unexpanded
          /\ r = [expanded |-> r.expanded, unexpanded |-> r.unexpanded,
                  doomed |-> r.doomed, ok |-> r.ok]
      BY <3>1, <3>2, <1>6
    <3>6. r.ok /\ r.ok \in BOOLEAN
      BY <3>3, <3>4
    <3>7. r \in Tallies
      BY <3>4, <3>6, <1>1, <1>6 DEF Tallies
    <3>5. Sorted(r, i, F \union {m})
      BY <3>2, <3>3, <3>4 DEF Sorted
    <3> QED  BY <3>2, <3>3, <3>4, <3>5, <3>6, <3>7, <1>1, <1>2, <1>4
  <2>4. CASE whole = None /\ copies = {}
    <3>1. r = [acc EXCEPT !.expanded[i] = {m}]
      BY <1>2, <1>8, <2>4 DEF Judge
    <3>2. F = {}
      BY <1>1, <1>2, <2>4 DEF Sorted
    <3>3. /\ r.ok = acc.ok /\ r.doomed = acc.doomed /\ r.unexpanded = acc.unexpanded
          /\ r.expanded = [acc.expanded EXCEPT ![i] = {m}]
      BY <3>1, <1>6
    <3>4. r \in Tallies
      BY <3>1, <1>1, <1>2 DEF Tallies
    <3> HIDE DEF r
    <3>5. r.expanded[i] = {m}
      BY <3>3, <1>1, <1>6
    <3>6. Sorted(r, i, {m})
      BY <3>3, <3>5, <2>4 DEF Sorted
    <3>7. \A o \in Original : o # i => r.expanded[o] = acc.expanded[o]
      BY <3>3, <1>6
    <3> QED  BY <3>2, <3>3, <3>4, <3>6, <3>7, <1>2
  <2>5. CASE whole = None /\ copies # {} /\ F = {i}
    <3>1. copies = {i} /\ m # i /\ Level(m) = 1 + Level(i)
      BY <1>2, <1>4, <1>5, <2>5 DEF Sorted
    <3>2. level = Level(i) /\ (CHOOSE x \in copies : TRUE) = i
      BY <3>1
    <3>3. Cardinality(copies) = 1
      BY <3>1, FS_Singleton
    <3>4. level # Level(m) /\ level # Level(m) + 1 /\ level = Level(m) - 1
      BY <3>1, <3>2, <1>5
    <3>5. r = [acc EXCEPT !.ok = /\ Cardinality(copies) = 1
                                  /\ level = Level(m) - 1,
                          !.unexpanded[i] = CHOOSE x \in copies : TRUE,
                          !.expanded[i] = {m},
                          !.doomed = @ \union {m}]
      BY <1>2, <1>8, <2>5, <3>4 DEF Judge
    <3> HIDE DEF r, level
    <3>6. /\ r.ok = (Cardinality(copies) = 1 /\ level = Level(m) - 1)
          /\ r.doomed = acc.doomed \union {m}
          /\ r.unexpanded = [acc.unexpanded EXCEPT ![i] = CHOOSE x \in copies : TRUE]
          /\ r.expanded = [acc.expanded EXCEPT ![i] = {m}]
          /\ r = [expanded |-> r.expanded, unexpanded |-> r.unexpanded,
                  doomed |-> r.doomed, ok |-> r.ok]
      BY <3>5, <1>6
    <3> HIDE DEF copies
    <3>7. r.ok /\ r.unexpanded = [acc.unexpanded EXCEPT ![i] = i]
      BY <3>2, <3>3, <3>4, <3>6
    <3>8. r \in Tallies
      <4>1. r.ok \in BOOLEAN /\ r.doomed \in SUBSET Id
        BY <3>6, <1>1, <1>6
      <4>2. r.unexpanded \in [Id -> Id \union {None}] /\ r.expanded \in [Id -> SUBSET Id]
        BY <3>6, <3>7, <1>1, <1>6
      <4> QED  BY <3>6, <4>1, <4>2 DEF Tallies
    <3>9. r.unexpanded[i] = i
      BY <3>7, <1>1, <1>6
    <3>10. Sorted(r, i, F \union {m})
      BY <2>5, <3>1, <3>6, <3>9 DEF Sorted
    <3>11. \A o \in Original : o # i => /\ r.expanded[o] = acc.expanded[o]
                                        /\ r.unexpanded[o] = acc.unexpanded[o]
      BY <3>6, <3>7, <1>6
    <3>12. i \in S /\ m \in Host /\ tree.parent[m] = i
      BY <2>5, <1>1, <1>4, <3>1
    <3> QED  BY <3>6, <3>7, <3>8, <3>10, <3>11, <3>12, <1>2
  <2>6. CASE whole = None /\ copies # {} /\ i \notin F
    <3>1. F # {} /\ copies = F
      BY <1>2, <2>6 DEF Sorted
    <3>2. {Level(x) : x \in copies} = {1 + Level(i)}
      BY <3>1, <2>6, <1>5
    <3>3. level = 1 + Level(i)
      BY <3>2
    <3>4. CASE m # i
      <4>1. level = Level(m) /\ level # Level(m) + 1
        <5> HIDE DEF level, i
        <5> QED  BY <3>3, <3>4, <1>5
      <4>2. r = [acc EXCEPT !.expanded[i] = @ \union {m}]
        BY <1>2, <1>8, <2>6, <4>1 DEF Judge
      <4> HIDE DEF r
      <4>3. /\ r.ok = acc.ok /\ r.doomed = acc.doomed /\ r.unexpanded = acc.unexpanded
            /\ r.expanded = [acc.expanded EXCEPT ![i] = copies \union {m}]
            /\ r = [expanded |-> r.expanded, unexpanded |-> r.unexpanded,
                    doomed |-> r.doomed, ok |-> r.ok]
        BY <4>2, <1>6
      <4> HIDE DEF copies
      <4>4. r.expanded \in [Id -> SUBSET Id] /\ r.expanded[i] = copies \union {m}
        BY <4>3, <1>1, <1>6
      <4>5. r \in Tallies
        BY <4>3, <4>4, <1>2, <1>6 DEF Tallies
      <4>6. Sorted(r, i, F \union {m})
        BY <4>3, <4>4, <3>1, <3>4, <2>6 DEF Sorted
      <4>7. \A o \in Original : o # i => r.expanded[o] = acc.expanded[o]
        BY <4>3, <1>6
      <4> QED  BY <4>3, <4>5, <4>6, <4>7, <1>2
    <3>5. CASE m = i
      <4>1. level # Level(m) /\ level = Level(m) + 1
        <5>1. Level(m) = Level(i)
          BY <3>5
        <5> HIDE DEF level, i
        <5> QED  BY <3>3, <5>1, <1>5
      <4>2. r = [acc EXCEPT !.unexpanded[i] = m, !.doomed = @ \union copies]
        BY <1>2, <1>8, <2>6, <4>1 DEF Judge
      <4> HIDE DEF r
      <4>3. /\ r.ok = acc.ok /\ r.doomed = acc.doomed \union copies
            /\ r.expanded = acc.expanded
            /\ r.unexpanded = [acc.unexpanded EXCEPT ![i] = m]
            /\ r = [expanded |-> r.expanded, unexpanded |-> r.unexpanded,
                    doomed |-> r.doomed, ok |-> r.ok]
        BY <4>2, <1>6
      <4> HIDE DEF copies
      <4>4. r.unexpanded \in [Id -> Id \union {None}] /\ r.unexpanded[i] = i
        BY <4>3, <3>5, <1>1, <1>6
      <4>5. r.doomed \in SUBSET Id
        BY <4>3, <1>6
      <4>6. r \in Tallies
        BY <4>3, <4>4, <4>5, <1>2, <1>6 DEF Tallies
      <4>7. Sorted(r, i, F \union {m})
        BY <4>3, <4>4, <3>1, <3>5, <2>6 DEF Sorted
      <4>8. \A o \in Original : o # i => r.unexpanded[o] = acc.unexpanded[o]
        BY <4>3, <1>6
      <4>9. \A x \in copies : x \in T /\ x \in Host /\ tree.parent[x] \in T
        BY <3>1, <3>5, <1>4, <2>6
      <4> QED  BY <4>3, <4>6, <4>7, <4>8, <4>9, <1>2
    <3> QED  BY <3>4, <3>5
  <2>7. whole # None \/ copies = {} \/ F = {i} \/ i \notin F
    BY <1>1, <1>2 DEF Sorted
  <2> QED  BY <2>3, <2>4, <2>5, <2>6, <2>7
<1> QED  BY <1>7, <1>8

\* The loop over envelopes of any order finds each copy of an original it meets, and
\* no assertion fails.
LEMMA JudgementIs ==
    ASSUME Flat, NEW order, Len(order) \in Nat,
           order \in [1..Len(order) -> Original \union Host],
           \A i, j \in 1..Len(order) : i # j => order[i] # order[j]
    PROVE  Judged(Judgement(order), {order[k] : k \in 1..Len(order)})
<1> DEFINE N == Len(order)
           S == [expanded |-> [i \in Id |-> {}], unexpanded |-> [i \in Id |-> None],
                 doomed |-> {}, ok |-> TRUE]
           Seen(n) == {order[k] : k \in 1..n}
           J == [n \in 0..N |-> {acc \in Tallies : Judged(acc, Seen(n))}]
           Turn == [nx \in (1..N) \X Tallies |-> Judge(nx[2], order[nx[1]])]
           judged[n \in 0..Len(order)] ==
             IF n = 0 THEN [expanded |-> [i \in Id |-> {}],
                            unexpanded |-> [i \in Id |-> None],
                            doomed |-> {}, ok |-> TRUE]
             ELSE Judge(judged[n - 1], order[n])
           Is(f) == f = [n \in 0..N |-> IF n = 0 THEN S ELSE Judge(f[n - 1], order[n])]
<1>1. Judgement(order) = judged[N]
  BY DEF Judgement
<1>2. (\E f : Is(f)) => Is(judged)
  OBVIOUS
<1>3. S \in J[0]
  <2>1. S \in Tallies
    BY DEF Tallies
  <2>2. Seen(0) = {}
    OBVIOUS
  <2>3. \A o \in Original : Sharing(o, {}) = {} /\ o \in Id
    BY FamilyIs DEF Sharing
  <2>4. \A o \in Original : Sorted(S, o, Sharing(o, {}))
    BY <2>3 DEF Sorted
  <2>5. S.ok /\ S.doomed = {}
    OBVIOUS
  <2> HIDE DEF S, Seen
  <2>6. Judged(S, {})
    BY <2>1, <2>4, <2>5 DEF Judged
  <2>7. 0 \in 0..N
    OBVIOUS
  <2> QED  BY <2>1, <2>2, <2>6, <2>7
<1> HIDE DEF S
<1>4. \A n \in 1..N : \A acc \in J[n - 1] : /\ Judge(acc, order[n]) \in J[n]
                                            /\ acc \in Tallies
  <2> SUFFICES ASSUME NEW n \in 1..N, NEW acc \in J[n - 1]
               PROVE  Judge(acc, order[n]) \in J[n] /\ acc \in Tallies
    OBVIOUS
  <2>1. n - 1 \in 0..N /\ n \in 0..N
    OBVIOUS
  <2>2. acc \in Tallies /\ Judged(acc, Seen(n - 1))
    BY <2>1
  <2>3. Seen(n - 1) \in SUBSET (Original \union Host)
    OBVIOUS
  <2>4. order[n] \in (Original \union Host) \ Seen(n - 1)
    OBVIOUS
  <2>5. Seen(n) = Seen(n - 1) \union {order[n]}
    OBVIOUS
  <2> HIDE DEF Seen
  <2>6. Judged(Judge(acc, order[n]), Seen(n))
    BY <2>2, <2>3, <2>4, <2>5, JudgeIs
  <2>7. Judge(acc, order[n]) \in Tallies
    BY <2>6 DEF Judged
  <2> QED  BY <2>1, <2>2, <2>6, <2>7
<1>5. Leads(N, J, Turn, S)
  <2>1. ASSUME NEW n \in 1..N, NEW acc \in J[n - 1] PROVE Turn[<<n, acc>>] \in J[n]
    <3>1. <<n, acc>> \in (1..N) \X Tallies
      BY <1>4
    <3>2. Turn[<<n, acc>>] = Judge(acc, order[n])
      BY <3>1
    <3> QED  BY <3>2, <1>4
  <2> HIDE DEF Turn, J
  <2> QED  BY <2>1, <1>3 DEF Leads
<1>6. PICK f : Looped(f, N, J, Turn, S)
  <2> HIDE DEF Turn, J
  <2> QED  BY <1>5, LoopRuns
<1>7. Is(f)
  <2>1. ASSUME NEW n \in 0..N
        PROVE  f[n] = IF n = 0 THEN S ELSE Judge(f[n - 1], order[n])
    <3>1. f[n] = IF n = 0 THEN S ELSE Turn[<<n, f[n - 1]>>]
      BY <1>6 DEF Looped
    <3>2. CASE n = 0
      BY <3>1, <3>2
    <3>3. CASE n # 0
      <4>1. n \in 1..N /\ n - 1 \in 0..N
        BY <3>3
      <4>2. f[n - 1] \in J[n - 1]
        BY <4>1, <1>6 DEF Looped
      <4>3. <<n, f[n - 1]>> \in (1..N) \X Tallies
        BY <4>1, <4>2, <1>4
      <4>4. Turn[<<n, f[n - 1]>>] = Judge(f[n - 1], order[n])
        BY <4>3
      <4> QED  BY <3>1, <3>3, <4>4
    <3> QED  BY <3>2, <3>3
  <2>2. f = [n \in 0..N |-> f[n]]
    BY <1>6 DEF Looped
  <2> QED  BY <2>1, <2>2
<1>8. \A n \in 0..N : judged[n] = IF n = 0 THEN S ELSE Judge(judged[n - 1], order[n])
  <2>1. Is(judged)
    BY <1>2, <1>7
  <2> HIDE DEF judged
  <2> QED  BY <2>1
<1> HIDE DEF judged
<1>9. judged[0] \in J[0]
  <2>1. 0 \in 0..N
    OBVIOUS
  <2>2. judged[0] = S
    BY <1>8, <2>1
  <2> HIDE DEF J
  <2> QED  BY <2>2, <1>3
<1>10. \A n \in 1..N : judged[n - 1] \in J[n - 1] => judged[n] \in J[n]
  <2> SUFFICES ASSUME NEW n \in 1..N, judged[n - 1] \in J[n - 1]
               PROVE  judged[n] \in J[n]
    OBVIOUS
  <2>1. n \in 0..N /\ n # 0
    OBVIOUS
  <2>2. judged[n] = Judge(judged[n - 1], order[n])
    BY <2>1, <1>8
  <2> HIDE DEF J
  <2> QED  BY <2>2, <1>4
<1>11. judged[N] \in J[N]
  <2> HIDE DEF J
  <2> QED  BY <1>9, <1>10, LoopEnds
<1>12. N \in 0..N
  OBVIOUS
<1> QED  BY <1>1, <1>11, <1>12

---------------------------------------------------------------------------
(* The inductive invariant.                                                *)

\* The message m has an envelope in one of the directories of F.
On(F, m) == \E d \in Dir : m \in F[d]

\* An original that is gone while an envelope for a host is still there was
\* expanded in full.
Complete(F, S) ==
    \A o \in Original : ~On(F, o) /\ (\E g \in HostsOf(o) : On(F, g)) =>
       \A h \in HostsOf(o) : h \in S \/ On(F, h)

Kept(F, S) == \A h \in Host \ S : \E m \in Line(h) : On(F, m)

Files ==
    /\ tree \in Tree
    /\ Efile \in [Dir -> SUBSET (Original \union Host)]
    /\ Dfile \in [Dir -> SUBSET Id] /\ Tfile \in [Dir -> SUBSET Id]
    /\ \A d \in Dir : Efile[d] \subseteq Dfile[d]
    /\ settled \subseteq Host
    /\ Complete(Efile, settled) /\ Kept(Efile, settled)
    /\ \A h \in settled : tree.parent[h] = Root => ~On(Efile, Root)

\* An original beside its own expansion.
Pair(F, o, h) == On(F, o) /\ On(F, h)

Together ==
    \A o \in Original : \A h \in HostsOf(o) : Pair(Efile, o, h) =>
       \A d \in Dir : o \in Efile[d] \/ h \in Efile[d] => d = "fast"

At == IF pc \in CallLabel THEN call.ret ELSE pc

\* What is left once the E file of the call is unlinked.
Unlinked == [Efile EXCEPT ![call.from] = @ \ {call.id}]

RunnerReturn == {"deliver", "punt", "next", "expand", "leftOver", "unwind"}

Calling ==
    pc \in CallLabel =>
      /\ call.id \in Original \union Host
      /\ call.from \in Dir /\ call.to \in Dir \union {None} /\ call.to # call.from
      /\ call.ret \in RunnerReturn \union {"delete", "toSlow"}
      /\ call.ret = "deliver" => call.id \in Host \/ call.to = None
      /\ pc \in {"linkD", "linkE"} => call.to # None /\ call.id \notin Efile[call.to]
      /\ pc \in {"linkD", "linkE", "unlinkE"} => call.id \in Efile[call.from]
      /\ pc = "linkE" => call.id \in Dfile[call.to]
      /\ pc \in {"unlinkE", "unlinkD"} /\ call.to # None => call.id \in Efile[call.to]
      /\ pc = "unlinkD" => call.id \notin Efile[call.from]
      /\ pc = "unlinkE" => Complete(Unlinked, settled) /\ Kept(Unlinked, settled)

\* The daemon runs: a message is in one directory, but while it is moved.
OnePlace ==
    \A m \in Id : \A d, e \in Dir : m \in Efile[d] /\ m \in Efile[e] /\ d # e =>
       pc = "unlinkE" /\ m = call.id /\ {d, e} = {call.from, call.to}

\* The message that is being expanded.
Writing == {"write", "createT", "renameT"}
Unwinding == {"unlinkOut", "unwind"}
Busy == IF At \in Writing \union Unwinding THEN cur
        ELSE IF pc = "unlinkE" /\ At = "deliver" THEN call.id ELSE None

Apart == \A o \in Original : \A h \in HostsOf(o) : Pair(Efile, o, h) => o = Busy

Queued == hostq \union puntq \union Range(unexpanded)

Queues ==
    /\ hostq \subseteq Host /\ puntq \subseteq Host /\ hostq \intersect puntq = {}
    /\ unexpanded \in Seq(Id)
    /\ \A i \in DOMAIN unexpanded : unexpanded[i] \notin Host
    /\ \A i, j \in DOMAIN unexpanded : unexpanded[i] = unexpanded[j] => i = j
    /\ \A m \in Queued : \E d \in {"fast", role} \intersect Dir : m \in Efile[d]
    /\ pc \in CallLabel => call.id \notin Queued

Nobody(F, o) == \A h \in HostsOf(o) : ~On(F, h)

Expanding ==
    /\ At \in {"expand", "failed"} \union Writing \union Unwinding =>
         cur \in Original /\ cur \notin Queued
    /\ pc \in CallLabel /\ At = "expand" => call.id = cur /\ call.to = "fast"
    /\ pc \in CallLabel /\ At = "unwind" =>
         call.id \in Child(cur) /\ call.from = "fast" /\ call.to = None
    /\ pc \in {"expand", "failed"} \union Writing \/ At \in Unwinding =>
         cur \in Efile["fast"]
    /\ At \in Writing =>
         /\ written \subseteq Child(cur) /\ written \subseteq Efile["fast"] /\ written \intersect puntq = {}
         /\ \A h \in HostsOf(cur) : On(Efile, h) => h \in written
         /\ \A e \in written : Nobody(Efile, e)
    /\ At \in Unwinding =>
         /\ unwind \subseteq Child(cur) /\ unwind \subseteq Efile["fast"] /\ unwind \intersect puntq = {}
         /\ \A h \in HostsOf(cur) :
              On(Efile, h) => h \in unwind \/ (pc = "unlinkE" /\ h = call.id)
         /\ \A e \in unwind : Nobody(Efile, e)
         /\ pc \in CallLabel => call.id \notin unwind
    /\ pc \in {"createT", "renameT", "unlinkOut"} =>
         /\ out \in Child(cur) /\ out \in Dfile["fast"] /\ ~On(Efile, out)
         /\ Nobody(Efile, out)

Running == At \in RunnerLabel => up /\ Queues /\ Expanding

Resting == At \notin RunnerLabel => hostq = {} /\ puntq = {} /\ unexpanded = <<>>

\* The clean-up.
Moving == IF pc \in {"linkD", "linkE", "unlinkE"} THEN {call.id} ELSE {}

Deleting ==
    /\ scanned = "fast" /\ doomed \subseteq list
    /\ \A h \in doomed : h \in Host /\ tree.parent[h] \in list
    /\ \A o \in Original : \A h \in HostsOf(o) : Pair(Efile, o, h) =>
         h \in doomed \/ (pc = "unlinkE" /\ h = call.id)
    /\ pc \in CallLabel =>
         /\ call.from = "fast" /\ call.to = None
         /\ call.id \in Host /\ tree.parent[call.id] \in list

ToSlowInv ==
    /\ scanned \in {"fast", "local"}
    /\ clean => ~collided
    /\ \A o \in Original : \A h \in HostsOf(o) : ~Pair(Efile, o, h)
    /\ pc \in CallLabel =>
         /\ call.from = scanned /\ call.to \in {"slow", None}
         /\ call.to = None => call.id \in Efile["slow"]
         /\ call.id \in slowList

Cleaning ==
    At \in CleanerLabel =>
      /\ ~up /\ scanned \in Dir /\ pc # "abort"
      /\ scanned = "local" => Efile["fast"] = {}
      /\ At \in {"mark", "delete", "toSlow"} => scanned # "slow"
      /\ ~clean /\ scanned = "fast" /\ At \in {"trash", "mark"} => Efile["fast"] = {}
      /\ At \in {"scan", "trash", "mark", "delete"} => ~collided
      /\ pc = "trash" =>
           \A f \in trash : f \in {"D", "t"} \X Id
                            /\ (f[1] = "D" => f[2] \notin Efile[scanned])
      /\ At \in {"trash", "mark", "delete", "toSlow"} =>
           /\ list \subseteq Efile[scanned]
           /\ ~collided => Efile[scanned] \subseteq list \union Moving
           /\ pc \in CallLabel => call.id \notin list
      /\ scanned # "slow" =>
           /\ Efile["slow"] \subseteq slowList
           /\ slowList \subseteq Efile["slow"]
                \union (IF At = "toSlow" THEN Moving ELSE {})
      /\ At = "mark" => scanned = "fast"
      /\ At = "delete" => Deleting
      /\ At = "toSlow" => ToSlowInv

Settled ==
    /\ pc \in {"idle"} \union CallLabel \union RunnerLabel \union CleanerLabel
    /\ up \in BOOLEAN
    /\ up => OnePlace /\ Apart /\ At \notin CleanerLabel

RestartInv ==
    /\ Files /\ Together /\ Calling /\ Settled /\ Running /\ Resting /\ Cleaning

---------------------------------------------------------------------------
(* What the clean-up deletes.                                              *)

\* An order of a set is an order of all of it.
LEMMA OrderCovers ==
    ASSUME NEW X, IsFiniteSet(X), NEW order \in SetToSeqs(X)
    PROVE  {order[k] : k \in 1..Len(order)} = X
<1> DEFINE D == 1..Len(order)
<1>1. /\ Len(order) \in Nat /\ order \in [D -> X]
      /\ \A i, j \in D : i # j => order[i] # order[j]
      /\ Len(order) = Cardinality(X)
  BY OrderIs
<1>2. order \in Injection(D, X)
  BY <1>1 DEF Injection, IsInjective
<1>3. Cardinality(D) = Cardinality(X)
  BY <1>1, FS_Interval
<1>4. order \in Surjection(D, X)
  BY <1>2, <1>3, FS_Injection
<1> QED  BY <1>1, <1>4 DEF Surjection

\* A D file has as many links as there are envelopes of one inode.
LEMMA SharedIs ==
    ASSUME Flat, NEW o \in Original, NEW h \in HostsOf(o), NEW d \in Dir,
           o \in Dfile[d], h \in Dfile[d]
    PROVE  ~(Nlink(o) <= 1) /\ ~(Nlink(h) <= 1)
<1> DEFINE T == {f \in Dir \X Id : f[2] \in Dfile[f[1]] /\ Dinode(f[2]) = o}
           two == {<<d, o>>} \union {<<d, h>>}
<1>1. /\ o \in Id /\ h \in Id /\ o # h /\ Dinode(o) = o /\ Dinode(h) = o
  BY FamilyIs, DinodeIs DEF HostsOf
<1>2. Nlink(o) = Cardinality(T) /\ Nlink(h) = Cardinality(T)
  BY <1>1 DEF Nlink
<1>3. IsFiniteSet(Dir)
  <2>1. IsFiniteSet({"local"} \union {"fast"} \union {"slow"})
    BY FS_Singleton, FS_AddElement
  <2>2. Dir = {"local"} \union {"fast"} \union {"slow"}
    BY DEF Dir
  <2> QED  BY <2>1, <2>2
<1>4. IsFiniteSet(Dir \X Id)
  BY <1>3, IdAssumption, FS_Product
<1>5. IsFiniteSet(T)
  <2>1. T \in SUBSET (Dir \X Id)
    OBVIOUS
  <2> HIDE DEF T
  <2> QED  BY <2>1, <1>4, FS_Subset
<1>6. two \in SUBSET T
  BY <1>1
<1>7. Cardinality(two) = 2
  <2>1. IsFiniteSet({<<d, o>>}) /\ Cardinality({<<d, o>>}) = 1
    BY FS_Singleton
  <2>2. <<d, h>> \notin {<<d, o>>}
    BY <1>1
  <2>3. Cardinality({<<d, o>>} \union {<<d, h>>}) = 1 + 1
    BY <2>1, <2>2, FS_AddElement
  <2> QED  BY <2>3
<1>8. Cardinality(two) <= Cardinality(T)
  <2> HIDE DEF T, two
  <2> QED  BY <1>5, <1>6, FS_Subset
<1>9. Cardinality(T) \in Nat
  <2> HIDE DEF T
  <2> QED  BY <1>5, FS_CardinalityType
<1> HIDE DEF T, two
<1> QED  BY <1>2, <1>7, <1>8, <1>9

\* Of an original and its envelopes in one directory every envelope is deleted,
\* and nothing else is.
LEMMA DoomedIs ==
    ASSUME Flat, NEW X \in SUBSET (Original \union Host), NEW order \in SetToSeqs(X),
           NEW d \in Dir, X \subseteq Dfile[d]
    PROVE  /\ Judgement(order).ok
           /\ \A m \in Judgement(order).doomed :
                m \in X /\ m \in Host /\ tree.parent[m] \in X
           /\ \A o \in Original : \A h \in HostsOf(o) :
                o \in X /\ h \in X => h \in Judgement(order).doomed
<1> DEFINE end == Judgement(order)
<1>1. IsFiniteSet(X)
  <2>1. X \in SUBSET Id
    BY FamilyIs
  <2> QED  BY <2>1, IdAssumption, FS_Subset
<1>2. /\ Len(order) \in Nat /\ order \in [1..Len(order) -> X]
      /\ \A i, j \in 1..Len(order) : i # j => order[i] # order[j]
  BY <1>1, OrderIs
<1>3. {order[k] : k \in 1..Len(order)} = X
  BY <1>1, OrderCovers
<1>4. order \in [1..Len(order) -> Original \union Host]
  BY <1>2
<1>5. Judged(end, X)
  BY <1>2, <1>3, <1>4, JudgementIs
<1> HIDE DEF end
<1>6. ASSUME NEW o \in Original, NEW h \in HostsOf(o), o \in X, h \in X
      PROVE  h \in end.doomed
  <2>1. ~(Nlink(o) <= 1) /\ ~(Nlink(h) <= 1)
    BY <1>6, SharedIs
  <2>2. Dinode(o) = o /\ Dinode(h) = o /\ h # o
    BY FamilyIs, DinodeIs DEF HostsOf
  <2>3. o \in Sharing(o, X) /\ h \in Sharing(o, X)
    BY <1>6, <2>1, <2>2 DEF Sharing
  <2>4. Sorted(end, o, Sharing(o, X))
    BY <1>5 DEF Judged
  <2> QED  BY <2>2, <2>3, <2>4 DEF Sorted
<1>7. /\ end.ok
      /\ \A m \in end.doomed : m \in X /\ m \in Host /\ tree.parent[m] \in X
  BY <1>5 DEF Judged
<1> QED  BY <1>6, <1>7 DEF end

---------------------------------------------------------------------------
(* What a step leaves as it is.                                            *)

\* Relations of the tree stay while it does.
LEMMA SameTree ==
    ASSUME tree' = tree
    PROVE  /\ Original' = Original /\ Host' = Host /\ Bounces' = Bounces
           /\ \A m : HostsOf(m)' = HostsOf(m) /\ Child(m)' = Child(m) /\ Line(m)' = Line(m)
<1>1. Host' = Host
  BY DEF Host
<1> QED  BY <1>1 DEF Original, Bounces, HostsOf, Child, Line

\* A table of E files.
Table(F) == F \in [Dir -> SUBSET (Original \union Host)]

\* A step that touches neither E files nor what is settled.
LEMMA SameFiles ==
    ASSUME Files, Together, tree' = tree, Efile' = Efile, settled' = settled,
           Dfile' \in [Dir -> SUBSET Id], Tfile' \in [Dir -> SUBSET Id],
           \A d \in Dir : Efile[d] \subseteq Dfile'[d]
    PROVE  Files' /\ Together'
<1>1. Files'
  BY SameTree DEF Files, Complete, Kept, On
<1>2. Together'
  BY SameTree DEF Together, Pair, On
<1> QED  BY <1>1, <1>2

\* Nor a D or t file.
LEMMA SameSpool ==
    ASSUME Files, Together, tree' = tree, UNCHANGED spool, settled' = settled
    PROVE  Files' /\ Together'
<1>1. UNCHANGED <<Efile, Dfile, Tfile>>
  BY DEF spool
<1> QED  BY <1>1, SameFiles DEF Files

\* E files come and go and envelopes are settled.
LEMMA FilesAre ==
    ASSUME Files, tree' = tree, Efile' \in [Dir -> SUBSET (Original \union Host)],
           Dfile' \in [Dir -> SUBSET Id], Tfile' \in [Dir -> SUBSET Id],
           \A d \in Dir : Efile'[d] \subseteq Dfile'[d],
           settled' \subseteq Host, Complete(Efile', settled'), Kept(Efile', settled'),
           \A h \in settled' : tree.parent[h] = Root => ~On(Efile', Root)
    PROVE  Files'
BY SameTree DEF Files, Complete, Kept, On

\* Who is at work.
LEMMA AtIs ==
    /\ CallLabel \intersect RunnerLabel = {} /\ CallLabel \intersect CleanerLabel = {}
    /\ RunnerLabel \intersect CleanerLabel = {}
    /\ "idle" \notin CallLabel \union RunnerLabel \union CleanerLabel
    /\ pc \notin CallLabel => At = pc
    /\ pc \in CallLabel => At = call.ret
BY DEF At, CallLabel, RunnerLabel, CleanerLabel

\* The clean-up, a start and an end leave the queues of a runner alone.
LEMMA NoRunnerIs ==
    ASSUME Resting, At \notin RunnerLabel, At' \notin RunnerLabel, UNCHANGED runnerVars
    PROVE  Running' /\ Resting'
BY DEF Resting, Running, runnerVars

---------------------------------------------------------------------------
(* The calls of env_move and env_unlink.                                   *)

\* An envelope that is settled may go.
LEMMA DropSettled ==
    ASSUME Flat, NEW F, Table(F), NEW S, NEW T, S \subseteq T,
           Complete(F, S), Kept(F, S),
           NEW h \in Host, h \in T, NEW d \in Dir, NEW G, G = [F EXCEPT ![d] = @ \ {h}]
    PROVE  Complete(G, T) /\ Kept(G, T)
<1>1. \A m : On(G, m) => On(F, m)
  BY DEF On, Table
<1>2. \A m : m # h /\ On(F, m) => On(G, m)
  BY DEF On, Table
<1>3. Complete(G, T)
  <2> SUFFICES ASSUME NEW o \in Original, ~On(G, o), NEW g \in HostsOf(o), On(G, g),
                      NEW x \in HostsOf(o), x \notin T
               PROVE  On(G, x)
    BY DEF Complete
  <2>1. o # h
    BY FamilyIs
  <2>2. ~On(F, o) /\ On(F, g)
    BY <1>1, <1>2, <2>1
  <2>3. On(F, x)
    BY <2>2 DEF Complete
  <2> QED  BY <2>3, <1>2
<1>4. Kept(G, T)
  <2> SUFFICES ASSUME NEW x \in Host \ T
               PROVE  \E m \in Line(x) : On(G, m)
    BY DEF Kept
  <2>1. PICK m \in Line(x) : On(F, m)
    BY DEF Kept
  <2>2. m # h
    BY LineIs, FamilyIs
  <2> QED  BY <2>1, <2>2, <1>2
<1> QED  BY <1>3, <1>4

\* A message may go that nothing was expanded from, as long as what it was expanded
\* from is there.
LEMMA DropChild ==
    ASSUME Flat, NEW F, Table(F), NEW S, Complete(F, S), Kept(F, S),
           NEW p \in Original, NEW k \in Child(p), On(F, p), Nobody(F, k),
           NEW d \in Dir, NEW G, G = [F EXCEPT ![d] = @ \ {k}]
    PROVE  Complete(G, S) /\ Kept(G, S)
<1>1. \A m : On(G, m) => On(F, m)
  BY DEF On, Table
<1>2. \A m : m # k /\ On(F, m) => On(G, m)
  BY DEF On, Table
<1>3. p # k /\ (k \in HostsOf(p) \/ (k \in Bounces /\ p = Root))
  BY FamilyIs DEF Original, HostsOf
<1>4. On(G, p)
  BY <1>2, <1>3
<1>5. Complete(G, S)
  <2> SUFFICES ASSUME NEW o \in Original, ~On(G, o), NEW g \in HostsOf(o), On(G, g),
                      NEW h \in HostsOf(o), h \notin S
               PROVE  On(G, h)
    BY DEF Complete
  <2>1. o # k
    BY <1>1 DEF Nobody
  <2>2. ~On(F, o) /\ On(F, g)
    BY <1>1, <1>2, <2>1
  <2>3. On(F, h)
    BY <2>2 DEF Complete
  <2>4. h # k
    BY <2>2, <1>3, FamilyIs DEF HostsOf, Original
  <2> QED  BY <2>3, <2>4, <1>2
<1>6. Kept(G, S)
  <2> SUFFICES ASSUME NEW x \in Host \ S
               PROVE  \E m \in Line(x) : On(G, m)
    BY DEF Kept
  <2>1. PICK m \in Line(x) : On(F, m)
    BY DEF Kept
  <2>2. CASE m # k
    BY <2>1, <2>2, <1>2
  <2>3. CASE m = k
    <3>1. p \in Line(x)
      BY <2>1, <2>3, <1>3, LineIs, FamilyIs DEF HostsOf, Original
    <3> QED  BY <3>1, <1>4
  <2> QED  BY <2>2, <2>3
<1> QED  BY <1>5, <1>6

\* A name that is in another directory, too, may go.
LEMMA DropCopy ==
    ASSUME NEW F, Table(F), NEW S, Complete(F, S), Kept(F, S),
           NEW m, NEW d \in Dir, NEW e \in Dir, d # e, m \in F[e],
           NEW G, G = [F EXCEPT ![d] = @ \ {m}]
    PROVE  Complete(G, S) /\ Kept(G, S)
<1>1. \A x : On(G, x) <=> On(F, x)
  BY DEF On, Table
<1> QED  BY <1>1 DEF Complete, Kept

\* What a call starts with.
LEMMA CalledIs ==
    ASSUME Files, tree' = tree, Efile' = Efile,
           NEW m \in Original \union Host, NEW from \in Dir, NEW to \in Dir \union {None},
           NEW ret \in RunnerReturn \union {"delete", "toSlow"}, Call(m, from, to, ret),
           m \in Efile[from], from # to /\ to # None => m \notin Efile[to],
           ret = "deliver" => m \in Host \/ to = None,
           to = None => LET G == [Efile EXCEPT ![from] = @ \ {m}]
                        IN  Complete(G, settled') /\ Kept(G, settled')
    PROVE  /\ Calling' /\ At' = ret
           /\ from = to => pc' = ret /\ pc' \notin CallLabel
           /\ from # to => /\ pc' = IF to = None THEN "unlinkE" ELSE "linkD"
                           /\ pc' \in CallLabel
                           /\ call'.id = m /\ call'.from = from
                           /\ call'.to = to /\ call'.ret = ret
<1>1. ret \notin CallLabel
  BY DEF RunnerReturn, CallLabel
<1>2. CASE from = to
  BY <1>1, <1>2 DEF Call, Calling, At
<1>3. CASE from # to
  <2>1. /\ pc' = (IF to = None THEN "unlinkE" ELSE "linkD") /\ pc' \in CallLabel
        /\ call'.id = m /\ call'.from = from /\ call'.to = to /\ call'.ret = ret
    BY <1>3 DEF Call, CallLabel
  <2>2. At' = ret
    BY <2>1 DEF At
  <2>3. None \notin Dir
    BY NoneAssumption
  <2>4. pc' = "unlinkE" => Complete(Unlinked', settled') /\ Kept(Unlinked', settled')
    BY <2>1 DEF Unlinked
  <2>5. Calling'
    BY <1>3, <2>1, <2>3, <2>4, SameTree DEF Calling, Complete, Kept, On
  <2> QED  BY <1>3, <2>1, <2>2, <2>5
<1> QED  BY <1>2, <1>3


\* What a call changes: the spool, its own state and nothing else.
CallFrame == UNCHANGED <<up, cleanerVars, runnerVars, settled, faults>>

\* A call that puts a name into another directory moves a message that is not beside
\* its expansion or its original.
LEMMA AloneIs ==
    ASSUME Flat, RestartInv, pc \in CallLabel, call.to # None
    PROVE  /\ At \notin Unwinding \union Writing \union {"delete"}
           /\ \A o \in Original : \A h \in HostsOf(o) : ~Pair(Efile, o, h)
           /\ At = "toSlow" => call.from = scanned /\ call.to = "slow"
<1>1. At = call.ret /\ call.ret \in RunnerReturn \union {"delete", "toSlow"}
  BY AtIs DEF RestartInv, Calling
<1>2. At \notin Writing
  BY <1>1 DEF Writing, RunnerReturn
<1>3. At \notin Unwinding
  <2>1. At \in Unwinding => At = "unwind" /\ At \in RunnerLabel
    BY <1>1 DEF Unwinding, RunnerReturn, RunnerLabel
  <2> QED  BY <2>1 DEF RestartInv, Running, Expanding
<1>4. At # "delete"
  BY DEF RestartInv, Cleaning, Deleting, CleanerLabel
<1>5. CASE At = "toSlow"
  BY <1>2, <1>3, <1>4, <1>5 DEF RestartInv, Cleaning, ToSlowInv, CleanerLabel
<1>6. CASE At \in RunnerReturn
  <2>1. up /\ Apart
    BY <1>6 DEF RestartInv, Running, RunnerReturn, RunnerLabel, Settled
  <2>2. pc = "unlinkE" /\ At = "deliver" => call.id \in Host
    BY <1>1 DEF RestartInv, Calling
  <2>3. Busy \notin Original
    BY <1>2, <1>3, <2>2, FamilyIs, NoneAssumption DEF Busy
  <2> QED  BY <1>2, <1>3, <1>4, <1>6, <2>1, <2>3 DEF Apart, RunnerReturn
<1> QED  BY <1>1, <1>4, <1>5, <1>6

\* The link of the D file, the first call of a move.
LEMMA LinkDKeeps ==
    ASSUME Flat, RestartInv, tree' = tree, LinkD, CallFrame
    PROVE  RestartInv'
<1>1. /\ pc = "linkD" /\ pc' = "linkE" /\ pc \in CallLabel /\ pc' \in CallLabel
      /\ call' = call /\ Efile' = Efile /\ Tfile' = Tfile /\ up' = up
      /\ UNCHANGED cleanerVars /\ UNCHANGED runnerVars /\ settled' = settled
      /\ Dfile' = [Dfile EXCEPT ![call.to] = @ \union {call.id}]
  BY DEF LinkD, CallFrame, CallLabel
<1>2. /\ call.id \in Id /\ call.to \in Dir /\ call.from \in Dir /\ call.to # call.from
      /\ call.id \in Efile[call.from] /\ call.id \notin Efile[call.to]
  BY <1>1, FamilyIs DEF RestartInv, Calling
<1>3. Dfile' \in [Dir -> SUBSET Id] /\ \A d \in Dir : Dfile[d] \subseteq Dfile'[d]
  BY <1>1, <1>2 DEF RestartInv, Files
<1>4. Files' /\ Together'
  BY <1>1, <1>3, SameFiles DEF RestartInv, Files
<1>5. At' = At
  BY <1>1 DEF At
<1>6. Calling'
  <2>1. call.id \in Dfile'[call.to]
    BY <1>1, <1>2 DEF RestartInv, Files
  <2> QED  BY <1>1, <1>2, <2>1, SameTree DEF RestartInv, Calling
<1>7. Busy' = Busy /\ Moving' = Moving
  BY <1>1, <1>5 DEF Busy, Moving, runnerVars
<1>8. Settled'
  BY <1>1, <1>5, <1>7, SameTree
     DEF RestartInv, Settled, OnePlace, Apart, Pair, On
<1>9. Running' /\ Resting'
  <2>1. Queues => Queues'
    BY <1>1, SameTree DEF Queues, Queued, runnerVars
  <2>2. Expanding => Expanding'
    BY <1>1, <1>3, <1>5, SameTree
       DEF Expanding, runnerVars, Nobody, On, Queued, Writing
  <2> QED  BY <1>1, <1>5, <2>1, <2>2 DEF RestartInv, Running, Resting,
      runnerVars
<1>10. Cleaning'
  BY <1>1, <1>5, <1>7, SameTree
     DEF RestartInv, Cleaning, Deleting, ToSlowInv, cleanerVars, Pair, On
<1> QED  BY <1>4, <1>6, <1>8, <1>9, <1>10 DEF RestartInv

\* The link of the E file: for a moment the envelope is in two directories.
LEMMA LinkEKeeps ==
    ASSUME Flat, RestartInv, tree' = tree, LinkE, CallFrame
    PROVE  RestartInv'
<1>1. /\ pc = "linkE" /\ pc' = "unlinkE" /\ pc \in CallLabel /\ pc' \in CallLabel
      /\ call' = call /\ Dfile' = Dfile /\ Tfile' = Tfile /\ up' = up
      /\ UNCHANGED cleanerVars /\ UNCHANGED runnerVars /\ settled' = settled
      /\ Efile' = [Efile EXCEPT ![call.to] = @ \union {call.id}]
  BY DEF LinkE, CallFrame, CallLabel
<1>2. /\ call.id \in Original \union Host
      /\ call.to \in Dir /\ call.from \in Dir /\ call.to # call.from /\ call.to # None
      /\ call.id \in Efile[call.from] /\ call.id \notin Efile[call.to]
      /\ call.id \in Dfile[call.to]
      /\ Table(Efile)
  BY <1>1 DEF RestartInv, Calling, Files, Table
<1>3. /\ \A d \in Dir : d # call.to => Efile'[d] = Efile[d]
      /\ Efile'[call.to] = Efile[call.to] \union {call.id}
      /\ Table(Efile')
  BY <1>1, <1>2 DEF Table
<1>4. \A m : On(Efile', m) <=> On(Efile, m)
  BY <1>2, <1>3 DEF On
<1>5. Files'
  <2>1. /\ Efile \in [Dir -> SUBSET (Original \union Host)]
        /\ Dfile \in [Dir -> SUBSET Id] /\ Tfile \in [Dir -> SUBSET Id]
        /\ \A d \in Dir : Efile[d] \subseteq Dfile[d]
        /\ settled \subseteq Host
        /\ Complete(Efile, settled) /\ Kept(Efile, settled)
        /\ \A h \in settled : tree.parent[h] = Root => ~On(Efile, Root)
    BY DEF RestartInv, Files
  <2>2. Complete(Efile', settled) /\ Kept(Efile', settled)
    BY <1>4, <2>1 DEF Complete, Kept
  <2>3. \A d \in Dir : Efile'[d] \subseteq Dfile'[d]
    BY <1>1, <1>2, <1>3, <2>1
  <2> QED  BY <1>1, <1>3, <1>4, <2>1, <2>2, <2>3, FilesAre DEF RestartInv,
      Table
<1>6. /\ At \notin Unwinding \union Writing \union {"delete"}
      /\ \A o \in Original : \A h \in HostsOf(o) : ~Pair(Efile', o, h)
      /\ At = "toSlow" => call.from = scanned /\ call.to = "slow"
  BY <1>1, <1>2, <1>4, AloneIs DEF Pair
<1>7. Together'
  BY <1>6, SameTree DEF Together
<1>8. At' = At
  BY <1>1 DEF At
<1>9. Calling'
  <2> DEFINE G == [Efile' EXCEPT ![call.from] = @ \ {call.id}]
  <2>1. Complete(Efile', settled') /\ Kept(Efile', settled')
    BY <1>5, SameTree DEF Files, Complete, Kept
  <2>2. Complete(G, settled') /\ Kept(G, settled')
    BY <1>2, <1>3, <2>1, DropCopy
  <2>3. Unlinked' = G
    BY <1>1 DEF Unlinked
  <2> HIDE DEF G
  <2>4. Complete(Unlinked, settled)' /\ Kept(Unlinked, settled)'
    BY <2>2, <2>3, SameTree DEF Complete, Kept
  <2> QED  BY <1>1, <1>2, <1>3, <2>4, SameTree DEF RestartInv, Calling
<1>10. Settled'
  <2>1. ASSUME up PROVE OnePlace'
    <3>1. \A m \in Id : \A d, e \in Dir : m \in Efile[d] /\ m \in Efile[e] => d = e
      BY <2>1, <1>1 DEF RestartInv, Settled, OnePlace
    <3>2. SUFFICES ASSUME NEW m \in Id, NEW d \in Dir, NEW e \in Dir,
                          m \in Efile'[d], m \in Efile'[e], d # e
                   PROVE  m = call.id /\ {d, e} = {call.from, call.to}
      BY <1>1 DEF OnePlace
    <3>3. m = call.id
      BY <1>3, <3>1, <3>2
    <3>4. \A x \in Dir : m \in Efile'[x] => x = call.from \/ x = call.to
      BY <1>2, <1>3, <3>1, <3>3
    <3> QED  BY <3>2, <3>3, <3>4
  <2>2. Apart'
    BY <1>6, SameTree DEF Apart
  <2> QED  BY <1>1, <1>8, <2>1, <2>2 DEF RestartInv, Settled
<1>11. Running' /\ Resting'
  <2>1. Queues => Queues'
    <3>1. \A d \in Dir : Efile[d] \subseteq Efile'[d]
      BY <1>3
    <3> QED  BY <1>1, <3>1, SameTree DEF Queues, Queued, runnerVars
  <2>2. Expanding => Expanding'
    <3>1. Efile["fast"] \subseteq Efile'["fast"]
      BY <1>3 DEF Dir
    <3>2. pc' \notin {"expand", "failed", "createT", "renameT", "unlinkOut"} \union Writing
      BY <1>1 DEF Writing
    <3> QED  BY <1>1, <1>6, <1>8, <3>1, <3>2, SameTree
             DEF Expanding, runnerVars, Nobody, On, Queued
  <2> QED  BY <1>1, <1>8, <2>1, <2>2 DEF RestartInv, Running, Resting,
      runnerVars
<1>12. Cleaning'
  <2> SUFFICES ASSUME At \in CleanerLabel PROVE Cleaning'
    BY <1>8 DEF Cleaning
  <2>1. At = "toSlow"
    BY <1>1, <1>6, AtIs DEF RestartInv, Calling, RunnerReturn, CleanerLabel
  <2>2. /\ ToSlowInv /\ ~up /\ scanned \in {"fast", "local"}
        /\ scanned = "local" => Efile["fast"] = {}
        /\ list \subseteq Efile[scanned] /\ call.id \notin list
        /\ ~collided => Efile[scanned] \subseteq list \union Moving
        /\ Efile["slow"] \subseteq slowList /\ slowList \subseteq Efile["slow"] \union Moving
    BY <1>1, <2>1 DEF RestartInv, Cleaning, ToSlowInv, CleanerLabel
  <2>3. /\ Efile'["slow"] = Efile["slow"] \union {call.id}
        /\ Efile'[scanned] = Efile[scanned] /\ Efile'["fast"] = Efile["fast"]
        /\ call.id \in slowList
    BY <1>1, <1>3, <1>6, <2>1, <2>2 DEF Dir, ToSlowInv
  <2>4. ToSlowInv'
    BY <1>1, <1>6, <2>1, <2>2, <2>3, SameTree DEF ToSlowInv, cleanerVars
  <2>5. Moving' = Moving
    BY <1>1 DEF Moving
  <2> QED  BY <1>1, <1>8, <2>1, <2>2, <2>3, <2>4, <2>5 DEF Cleaning,
      cleanerVars, Dir
<1> QED  BY <1>5, <1>7, <1>9, <1>10, <1>11, <1>12 DEF RestartInv


\* The unlink of the E file, from a move, a delivery or a deleted message.
LEMMA UnlinkEKeeps ==
    ASSUME Flat, RestartInv, tree' = tree, UnlinkE, CallFrame
    PROVE  RestartInv'
<1>1. /\ pc = "unlinkE" /\ pc' = "unlinkD" /\ pc \in CallLabel /\ pc' \in CallLabel
      /\ call' = call /\ Dfile' = Dfile /\ Tfile' = Tfile /\ up' = up
      /\ UNCHANGED cleanerVars /\ UNCHANGED runnerVars /\ settled' = settled
      /\ Efile' = [Efile EXCEPT ![call.from] = @ \ {call.id}] /\ Efile' = Unlinked
  BY DEF UnlinkE, CallFrame, CallLabel, Unlinked
<1>2. /\ call.id \in Original \union Host /\ call.id \in Id
      /\ call.to \in Dir \union {None} /\ call.from \in Dir /\ call.to # call.from
      /\ call.id \in Efile[call.from] /\ (call.to # None => call.id \in Efile[call.to])
      /\ Table(Efile)
  BY <1>1, FamilyIs DEF RestartInv, Calling, Files, Table
<1>3. /\ \A d \in Dir : d # call.from => Efile'[d] = Efile[d]
      /\ Efile'[call.from] = Efile[call.from] \ {call.id}
      /\ Table(Efile') /\ \A d \in Dir : Efile'[d] \subseteq Efile[d]
  BY <1>1, <1>2 DEF Table
<1>4. /\ \A m : On(Efile', m) => On(Efile, m)
      /\ \A o, h : Pair(Efile', o, h) => Pair(Efile, o, h)
  BY <1>3 DEF On, Pair
<1>5. Files'
  <2>1. /\ Dfile \in [Dir -> SUBSET Id] /\ Tfile \in [Dir -> SUBSET Id]
        /\ \A d \in Dir : Efile[d] \subseteq Dfile[d]
        /\ settled \subseteq Host
        /\ \A h \in settled : tree.parent[h] = Root => ~On(Efile, Root)
    BY DEF RestartInv, Files
  <2>2. Complete(Efile', settled) /\ Kept(Efile', settled)
    BY <1>1 DEF RestartInv, Calling
  <2>3. \A d \in Dir : Efile'[d] \subseteq Dfile'[d]
    BY <1>1, <1>3, <2>1
  <2> QED  BY <1>1, <1>3, <1>4, <2>1, <2>2, <2>3, FilesAre DEF RestartInv,
      Table
<1>6. Together'
  BY <1>3, <1>4, SameTree DEF RestartInv, Together
<1>7. At' = At /\ At = call.ret
  BY <1>1 DEF At
<1>8. Calling'
  BY <1>1, <1>2, <1>3, SameTree, NoneAssumption DEF RestartInv, Calling
<1>9. ASSUME up PROVE \A m \in Id : \A d, e \in Dir : m \in Efile'[d] /\ m \in Efile'[e] => d = e
  <2> SUFFICES ASSUME NEW m \in Id, NEW d \in Dir, NEW e \in Dir,
                      m \in Efile'[d], m \in Efile'[e], d # e
               PROVE  FALSE
    OBVIOUS
  <2>1. m = call.id /\ {d, e} = {call.from, call.to}
    BY <1>1, <1>3, <1>9 DEF RestartInv, Settled, OnePlace
  <2> QED  BY <1>3, <2>1
<1>10. ASSUME up, call.to = None PROVE ~On(Efile', call.id)
  <2> SUFFICES ASSUME NEW d \in Dir, call.id \in Efile'[d] PROVE FALSE
    BY DEF On
  <2>1. d # call.from /\ call.id \in Efile[d]
    BY <1>3
  <2>2. {d, call.from} = {call.from, call.to}
    BY <1>1, <1>2, <1>10, <2>1 DEF RestartInv, Settled, OnePlace
  <2> QED  BY <1>10, <2>1, <2>2, NoneAssumption
<1>11. Settled'
  <2>1. ASSUME up PROVE Apart'
    <3> SUFFICES ASSUME NEW o \in Original, NEW h \in HostsOf(o), Pair(Efile', o, h)
                 PROVE  o = Busy'
      BY SameTree DEF Apart
    <3>1. o = Busy
      BY <1>4, <2>1 DEF RestartInv, Settled, Apart
    <3>2. CASE At \in Writing \union Unwinding
      BY <1>1, <1>7, <3>1, <3>2 DEF Busy, runnerVars
    <3>3. CASE At \notin Writing \union Unwinding
      <4>1. At = "deliver" /\ o = call.id
        BY <1>1, <3>1, <3>3, FamilyIs, NoneAssumption DEF Busy
      <4>2. call.to = None
        BY <1>1, <1>7, <4>1, FamilyIs DEF RestartInv, Calling
      <4> QED  BY <1>10, <2>1, <4>1, <4>2 DEF Pair
    <3> QED  BY <3>2, <3>3
  <2>2. up => OnePlace'
    BY <1>9 DEF OnePlace
  <2> QED  BY <1>1, <1>7, <2>1, <2>2 DEF RestartInv, Settled
<1>12. Running' /\ Resting'
  <2>1. Queues => Queues'
    <3> SUFFICES ASSUME Queues PROVE Queues'
      OBVIOUS
    <3>1. \A m \in Queued : \E d \in {"fast", role} \intersect Dir : m \in Efile'[d]
      BY <1>1, <1>3 DEF Queues
    <3> QED  BY <1>1, <3>1, SameTree DEF Queues, Queued, runnerVars
  <2>2. ASSUME up, Expanding PROVE Expanding'
    <3>1. /\ cur' = cur /\ out' = out /\ unwind' = unwind /\ Queued' = Queued /\ puntq' = puntq
      BY <1>1 DEF runnerVars, Queued
    <3>2. /\ At \in {"expand", "failed"} \union Writing \union Unwinding =>
               cur \in Original /\ cur \notin Queued
          /\ At = "expand" => call.id = cur /\ call.to = "fast"
          /\ At = "unwind" => call.id \in Child(cur) /\ call.from = "fast" /\ call.to = None
      BY <1>1, <2>2 DEF Expanding
    <3>3. /\ pc' \notin {"expand", "failed", "createT", "renameT", "unlinkOut"} \union Writing
          /\ At \notin Writing /\ (At \in Unwinding => At = "unwind")
      BY <1>1, <1>7 DEF Writing, Unwinding, RestartInv, Calling, RunnerReturn
    <3>4. ASSUME At = "unwind"
          PROVE  /\ cur \in Efile'["fast"] /\ unwind \subseteq Child(cur)
                 /\ unwind \subseteq Efile'["fast"] /\ unwind \intersect puntq = {}
                 /\ \A h \in HostsOf(cur) : On(Efile', h) => h \in unwind
                 /\ \A e \in unwind : Nobody(Efile', e)
                 /\ call.id \notin unwind
      <4>1. /\ cur \in Efile["fast"] /\ unwind \subseteq Child(cur)
            /\ unwind \subseteq Efile["fast"] /\ unwind \intersect puntq = {}
            /\ \A h \in HostsOf(cur) : On(Efile, h) => h \in unwind \/ h = call.id
            /\ \A e \in unwind : Nobody(Efile, e)
            /\ call.id \notin unwind
        BY <1>1, <2>2, <3>4 DEF Expanding, Unwinding
      <4>2. cur \in Original /\ cur # call.id
        BY <3>2, <3>4, FamilyIs DEF Original, Unwinding, HostsOf
      <4>3. cur \in Efile'["fast"] /\ unwind \subseteq Efile'["fast"]
        BY <1>3, <3>2, <3>4, <4>1, <4>2
      <4>4. ~On(Efile', call.id)
        BY <1>10, <2>2, <3>2, <3>4
      <4> QED  BY <1>4, <4>1, <4>3, <4>4 DEF Nobody
    <3> QED  BY <1>1, <1>7, <3>1, <3>2, <3>3, <3>4, SameTree DEF Expanding,
        Nobody, On
  <2> QED  BY <1>1, <1>7, <2>1, <2>2 DEF RestartInv, Running, Resting,
      runnerVars
<1>13. Cleaning'
  <2> SUFFICES ASSUME At \in CleanerLabel PROVE Cleaning'
    BY <1>7 DEF Cleaning
  <2>1. /\ At \in {"delete", "toSlow"} /\ Moving = {call.id} /\ Moving' = {}
        /\ pc' \notin {"abort", "trash"}
    BY <1>1, <1>7 DEF RestartInv, Calling, RunnerReturn, CleanerLabel, Moving
  <2>2. /\ ~up /\ scanned \in Dir /\ scanned # "slow" /\ UNCHANGED cleanerVars
        /\ scanned = "local" => Efile["fast"] = {}
        /\ At = "delete" => ~collided
        /\ list \subseteq Efile[scanned] /\ call.id \notin list
        /\ ~collided => Efile[scanned] \subseteq list \union {call.id}
        /\ Efile["slow"] \subseteq slowList
        /\ slowList \subseteq Efile["slow"] \union (IF At = "toSlow" THEN {call.id} ELSE {})
        /\ At = "delete" => Deleting
        /\ At = "toSlow" => ToSlowInv
    BY <1>1, <2>1 DEF RestartInv, Cleaning
  <2>3. call.from = scanned
    BY <1>1, <2>1, <2>2 DEF Deleting, ToSlowInv
  <2>4. /\ Efile'["slow"] = Efile["slow"]
        /\ list \subseteq Efile'[scanned]
        /\ ~collided => Efile'[scanned] \subseteq list
        /\ scanned = "local" => Efile'["fast"] = {}
    BY <1>3, <2>2, <2>3 DEF Dir
  <2>5. slowList \subseteq Efile'["slow"]
    BY <1>2, <2>1, <2>2, <2>3, <2>4, <1>1 DEF ToSlowInv
  <2>6. At = "delete" => Deleting'
    <3> SUFFICES ASSUME At = "delete" PROVE Deleting'
      OBVIOUS
    <3>1. Deleting
      BY <2>2
    <3>2. /\ call.from = "fast" /\ call.to = None /\ call.id \in Host
          /\ tree.parent[call.id] \in list /\ doomed \subseteq list
          /\ \A h \in doomed : h \in Host /\ tree.parent[h] \in list
      BY <1>1, <3>1 DEF Deleting
    <3>3. ASSUME NEW o \in Original, NEW h \in HostsOf(o), Pair(Efile', o, h)
          PROVE  h \in doomed
      <4>1. Pair(Efile, o, h) /\ (h \in doomed \/ h = call.id)
        BY <1>4, <3>1, <3>3 DEF Deleting
      <4>2. h # call.id
        <5>1. \A d \in Dir : h \in Efile[d] => d = "fast"
          BY <4>1 DEF RestartInv, Together
        <5>2. PICK d \in Dir : h \in Efile'[d]
          BY <3>3 DEF Pair, On
        <5> QED  BY <1>3, <3>2, <5>1, <5>2
      <4> QED  BY <4>1, <4>2
    <3> QED  BY <1>1, <2>2, <3>1, <3>2, <3>3, SameTree DEF Deleting,
        cleanerVars
  <2>7. At = "toSlow" => ToSlowInv'
    BY <1>1, <1>2, <1>4, <2>2, <2>4, SameTree
       DEF ToSlowInv, cleanerVars, Pair, On
  <2>8. /\ clean' = clean /\ scanned' = scanned /\ trash' = trash /\ list' = list
        /\ slowList' = slowList /\ collided' = collided /\ up' = up /\ call' = call
        /\ pc' = "unlinkD" /\ pc' \in CallLabel /\ At' = At
    BY <1>1, <1>7 DEF cleanerVars
  <2>9. scanned' # "slow" => /\ Efile'["slow"] \subseteq slowList'
                            /\ slowList' \subseteq Efile'["slow"]
    BY <2>2, <2>4, <2>5, <2>8
  <2> QED  BY <2>1, <2>2, <2>4, <2>6, <2>7, <2>8, <2>9 DEF Cleaning
<1> QED  BY <1>5, <1>6, <1>8, <1>11, <1>12, <1>13 DEF RestartInv

\* The unlink of the D file, with nothing left to refer to it.
LEMMA UnlinkDKeeps ==
    ASSUME Flat, RestartInv, tree' = tree, UnlinkD, CallFrame
    PROVE  RestartInv'
<1>1. /\ pc = "unlinkD" /\ pc' = call.ret /\ pc \in CallLabel
      /\ Efile' = Efile /\ Tfile' = Tfile /\ up' = up
      /\ UNCHANGED cleanerVars /\ UNCHANGED runnerVars /\ settled' = settled
      /\ Dfile' = [Dfile EXCEPT ![call.from] = @ \ {call.id}]
  BY DEF UnlinkD, CallFrame, CallLabel
<1>2. /\ call.id \in Id /\ call.from \in Dir /\ call.id \notin Efile[call.from]
      /\ call.ret \in RunnerReturn \union {"delete", "toSlow"}
      /\ call.to # None => call.id \in Efile[call.to]
  BY <1>1, FamilyIs DEF RestartInv, Calling
<1>3. Dfile' \in [Dir -> SUBSET Id] /\ \A d \in Dir : Efile[d] \subseteq Dfile'[d]
  BY <1>1, <1>2 DEF RestartInv, Files
<1>4. Files' /\ Together'
  BY <1>1, <1>3, SameFiles DEF RestartInv, Files
<1>5. pc' \notin CallLabel /\ At' = At /\ At = pc'
  BY <1>1, <1>2 DEF At, RunnerReturn, CallLabel
<1>6. Calling'
  BY <1>5 DEF Calling
<1>7. Busy' = Busy /\ Moving' = {} /\ Moving = {}
  BY <1>1, <1>2, <1>5 DEF Busy, Moving, runnerVars, RunnerReturn
<1>8. Settled'
  <2>1. pc' \in RunnerLabel \union CleanerLabel
    BY <1>1, <1>2 DEF RunnerReturn, RunnerLabel, CleanerLabel
  <2>2. up => OnePlace'
    BY <1>1 DEF RestartInv, Settled, OnePlace
  <2>3. up => Apart'
    BY <1>1, <1>7, SameTree DEF RestartInv, Settled, Apart, Pair, On
  <2> QED  BY <1>1, <1>5, <2>1, <2>2, <2>3 DEF RestartInv, Settled
<1>9. Running' /\ Resting'
  <2>1. Queues => Queues'
    BY <1>1, <1>5, SameTree DEF Queues, Queued, runnerVars
  <2>2. ASSUME Expanding PROVE Expanding'
    <3>1. pc' \notin {"failed", "createT", "renameT", "unlinkOut"} \union Writing
      BY <1>1, <1>2 DEF RunnerReturn, Writing
    <3>2. pc' = "expand" => cur \in Efile["fast"]
      BY <1>1, <1>2, <1>5, <2>2, NoneAssumption DEF Expanding, Dir
    <3>3. /\ Queued' = Queued /\ cur' = cur /\ written' = written /\ unwind' = unwind
          /\ puntq' = puntq /\ At' = At /\ Efile' = Efile /\ At = pc' /\ pc = "unlinkD"
          /\ pc' \notin CallLabel /\ pc \in CallLabel
      BY <1>1, <1>5 DEF runnerVars, Queued
    <3>4. At \in Unwinding => /\ cur \in Efile["fast"]
                              /\ \A h \in HostsOf(cur) : On(Efile, h) => h \in unwind
      BY <2>2, <3>3 DEF Expanding
    <3> QED  BY <2>2, <3>1, <3>2, <3>3, <3>4, SameTree DEF Expanding, Nobody,
        On
  <2> QED  BY <1>1, <1>5, <2>1, <2>2 DEF RestartInv, Running, Resting,
      runnerVars
<1>10. Cleaning'
  <2>1. pc' \notin {"abort", "trash"}
    BY <1>1, <1>2 DEF RunnerReturn
  <2> QED  BY <1>1, <1>5, <1>7, <2>1, SameTree
           DEF RestartInv, Cleaning, Deleting, ToSlowInv, cleanerVars, Pair, On
<1> QED  BY <1>4, <1>6, <1>8, <1>9, <1>10 DEF RestartInv

\* Every step of env_move and env_unlink.
LEMMA CallKeeps ==
    ASSUME Flat, RestartInv, tree' = tree, CallStep
    PROVE  RestartInv'
<1>1. CallFrame
  BY DEF CallStep, CallFrame
<1> QED  BY <1>1, LinkDKeeps, LinkEKeeps, UnlinkEKeeps, UnlinkDKeeps
         DEF CallStep, EnvelopeCall


---------------------------------------------------------------------------
(* The run.                                                                *)

\* A message in a queue is where the runner looks for it.
LEMMA WhereIs ==
    ASSUME Queues, NEW m \in Queued
    PROVE  Where(m) \in Dir /\ m \in Efile[Where(m)]
BY DEF Queues, Where, Dir

\* Only while an expansion is written is there an original beside its envelopes.
LEMMA NoPair ==
    ASSUME Flat, RestartInv, up, pc \notin CallLabel \union Writing \union Unwinding
    PROVE  \A o \in Original : \A h \in HostsOf(o) : ~Pair(Efile, o, h)
<1>1. Busy = None
  BY DEF Busy, At, CallLabel
<1> QED  BY <1>1, FamilyIs, NoneAssumption DEF RestartInv, Settled, Apart

\* Without a call under way a message is in one directory.
LEMMA OneDir ==
    ASSUME RestartInv, up, pc \notin CallLabel
    PROVE  \A m \in Id : \A d, e \in Dir : m \in Efile[d] /\ m \in Efile[e] => d = e
BY DEF RestartInv, Settled, OnePlace, CallLabel

\* A step of the runner that leaves the E files as they are.
LEMMA RunnerKeeps ==
    ASSUME Flat, RestartInv, tree' = tree, up, up' = up, pc \notin CallLabel,
           Efile' = Efile, Files', Calling', pc' \in CallLabel \union RunnerLabel,
           At' \in RunnerLabel, Queues', Expanding',
           \A o \in Original : \A h \in HostsOf(o) : Pair(Efile, o, h) => o = Busy'
    PROVE  RestartInv'
<1>1. Together'
  BY SameTree DEF RestartInv, Together, Pair, On
<1>2. OnePlace'
  BY OneDir DEF OnePlace
<1>3. Apart'
  BY SameTree DEF Apart, Pair, On
<1>4. At' \notin CleanerLabel
  BY DEF RunnerLabel, CleanerLabel
<1>5. Settled'
  BY <1>2, <1>3, <1>4 DEF Settled, RestartInv
<1>6. Running' /\ Resting' /\ Cleaning'
  BY <1>4 DEF Running, Resting, Cleaning
<1> QED  BY <1>1, <1>5, <1>6 DEF RestartInv

\* Outside expand() nothing is asked of its variables.
LEMMA NotExpanding ==
    ASSUME At' \in {"deliver", "punt", "next", "leftOver"}
    PROVE  Expanding'
BY DEF At, Expanding, CallLabel, Writing, Unwinding

\* Outside a call nothing is asked of its arguments.
LEMMA NotCalling ==
    ASSUME pc' \in RunnerLabel
    PROVE  Calling' /\ At' = pc' /\ pc' \notin CallLabel
BY DEF At, Calling, CallLabel, RunnerLabel

\* An envelope is settled, and the call that unlinks it starts.
LEMMA SettleIs ==
    ASSUME Flat, RestartInv, tree' = tree, up, UNCHANGED spool,
           pc \notin CallLabel \union Writing \union Unwinding,
           NEW h \in hostq \union puntq, Queues, NEW ret \in {"deliver", "punt"},
           settled' = settled \union {h}, Call(h, Where(h), None, ret)
    PROVE  /\ Files' /\ Calling' /\ At' = ret /\ pc' = "unlinkE" /\ call'.id = h
           /\ At' \in RunnerLabel /\ pc' \in CallLabel
<1>1. UNCHANGED <<Efile, Dfile, Tfile>>
  BY DEF spool
<1>2. h \in Host /\ Where(h) \in Dir /\ h \in Efile[Where(h)] /\ Where(h) # None
  BY WhereIs, NoneAssumption DEF Queues, Queued
<1>3. /\ Table(Efile) /\ settled \subseteq Host
      /\ Complete(Efile, settled) /\ Kept(Efile, settled)
      /\ Dfile \in [Dir -> SUBSET Id] /\ Tfile \in [Dir -> SUBSET Id]
      /\ \A d \in Dir : Efile[d] \subseteq Dfile[d]
      /\ \A x \in settled : tree.parent[x] = Root => ~On(Efile, Root)
  BY DEF RestartInv, Files, Table
<1>4. tree.parent[h] = Root => ~On(Efile, Root)
  <2>1. h \in HostsOf(tree.parent[h]) /\ Root \in Original
    BY <1>2, FamilyIs
  <2> QED  BY <1>2, <2>1, NoPair DEF Pair, On
<1>5. Complete(Efile, settled') /\ Kept(Efile, settled')
  BY <1>3 DEF Complete, Kept
<1>6. Files'
  <2>1. settled' \subseteq Host
    BY <1>2, <1>3
  <2>2. \A x \in settled' : tree.parent[x] = Root => ~On(Efile, Root)
    BY <1>3, <1>4
  <2> QED  BY <1>1, <1>3, <1>5, <2>1, <2>2, FilesAre DEF RestartInv, Table
<1>7. /\ Calling' /\ At' = ret /\ pc' = "unlinkE" /\ pc' \in CallLabel /\ call'.id = h
  <2> DEFINE G == [Efile EXCEPT ![Where(h)] = @ \ {h}]
  <2>1. Complete(G, settled') /\ Kept(G, settled')
    BY <1>2, <1>3, DropSettled
  <2>2. h \in Original \union Host /\ ret \in RunnerReturn \union {"delete", "toSlow"}
    BY <1>2 DEF RunnerReturn
  <2> QED  BY <1>1, <1>2, <2>1, <2>2, CalledIs DEF RestartInv
<1> QED  BY <1>6, <1>7 DEF RunnerLabel

\* What a message needs to be moved to slow.
LEMMA MoveIs ==
    ASSUME Flat, RestartInv, tree' = tree, up, UNCHANGED spool, settled' = settled,
           pc \notin CallLabel, NEW m \in Original \union Host, NEW from \in Dir,
           m \in Efile[from], NEW to \in Dir,
           NEW ret \in RunnerReturn, ret = "deliver" => m \in Host, Call(m, from, to, ret)
    PROVE  /\ Files' /\ Calling' /\ At' = ret /\ pc' \in CallLabel \union RunnerLabel
           /\ At' \in RunnerLabel /\ pc' # "unlinkE"
           /\ from = to => pc' = ret
           /\ from # to => pc' \in CallLabel
           /\ pc' \in CallLabel => call'.id = m /\ call'.to = to
<1>1. UNCHANGED <<Efile, Dfile, Tfile>> /\ to # None
  BY NoneAssumption DEF spool
<1>2. Files'
  BY SameSpool DEF RestartInv
<1>3. from # to => m \notin Efile[to]
  BY OneDir, FamilyIs
<1>4. /\ Calling' /\ At' = ret
      /\ from = to => pc' = ret /\ pc' \notin CallLabel
      /\ from # to => /\ pc' = "linkD" /\ pc' \in CallLabel /\ call'.id = m
                      /\ call'.to = to
  <2>1. /\ Files /\ to \in Dir \union {None}
        /\ ret \in RunnerReturn \union {"delete", "toSlow"}
        /\ ret = "deliver" => m \in Host \/ to = None
        /\ from # to /\ to # None => m \notin Efile[to]
    BY <1>3 DEF RestartInv
  <2>2. to = None => LET G == [Efile EXCEPT ![from] = @ \ {m}]
                     IN  Complete(G, settled') /\ Kept(G, settled')
    BY <1>1
  <2> QED  BY <1>1, <2>1, <2>2, CalledIs
<1> QED  BY <1>2, <1>4 DEF RunnerReturn, RunnerLabel

\* An attempt settles an envelope, moves it to slow or leaves it for the punt host.
LEMMA DeliverKeeps ==
    ASSUME Flat, RestartInv, tree' = tree, Deliver, UNCHANGED <<cleanerVars, faults>>
    PROVE  RestartInv'
<1>1. /\ pc = "deliver" /\ pc \notin CallLabel \union Writing \union Unwinding
      /\ At = pc /\ pc \in RunnerLabel
  BY DEF Deliver, At, CallLabel, Writing, Unwinding, RunnerLabel
<1>2. up /\ Queues
  BY <1>1 DEF RestartInv, Running
<1>3. /\ UNCHANGED spool /\ Efile' = Efile /\ up' = up /\ role' = role
      /\ unexpanded' = unexpanded
  BY DEF Deliver, spool
<1>4. \A o \in Original : \A h \in HostsOf(o) : ~Pair(Efile, o, h)
  BY <1>1, <1>2, NoPair
<1>5. CASE hostq = {} /\ pc' = "punt" /\ UNCHANGED <<call, hostq, puntq, settled>>
  <2>1. Calling' /\ At' = pc' /\ pc' \notin CallLabel
    BY <1>5, NotCalling DEF RunnerLabel
  <2>2. Files'
    BY <1>3, <1>5, SameSpool DEF RestartInv
  <2>3. Queues'
    BY <1>2, <1>3, <1>5, <2>1, SameTree DEF Queues, Queued
  <2> QED  BY <1>1, <1>2, <1>3, <1>4, <1>5, <2>1, <2>2, <2>3, NotExpanding,
      RunnerKeeps
           DEF RunnerLabel
<1>6. ASSUME NEW h \in hostq, hostq' = hostq \ {h},
             \/ /\ settled' = settled \union {h}
                /\ Call(h, Where(h), None, "deliver")
                /\ UNCHANGED puntq
             \/ /\ puntq' = puntq \union {h}
                /\ UNCHANGED <<pc, call, settled>>
             \/ /\ Call(h, Where(h), "slow", "deliver")
                /\ UNCHANGED <<puntq, settled>>
      PROVE  RestartInv'
  <2>1. /\ h \in Host /\ h \notin puntq /\ h \notin Range(unexpanded) /\ h \in Queued
    BY <1>2 DEF Queues, Queued, Range
  <2>2. ASSUME puntq' \in {puntq, puntq \union {h}},
               pc' \in CallLabel => puntq' = puntq /\ call'.id = h
        PROVE  Queues'
    <3>1. Queued' \subseteq Queued
      BY <1>3, <1>6, <2>2 DEF Queued
    <3>2. pc' \in CallLabel => h \notin Queued'
      BY <1>3, <1>6, <2>1, <2>2 DEF Queued
    <3> QED  BY <1>2, <1>3, <1>6, <2>1, <2>2, <3>1, <3>2, SameTree DEF Queues
  <2>3. CASE /\ settled' = settled \union {h}
             /\ Call(h, Where(h), None, "deliver")
             /\ UNCHANGED puntq
    <3>1. /\ Files' /\ Calling' /\ At' = "deliver" /\ pc' = "unlinkE" /\ call'.id = h
          /\ At' \in RunnerLabel /\ pc' \in CallLabel
      BY <1>1, <1>2, <1>3, <2>3, SettleIs
    <3> QED  BY <1>1, <1>2, <1>3, <1>4, <2>2, <2>3, <3>1, NotExpanding,
        RunnerKeeps
  <2>4. CASE puntq' = puntq \union {h} /\ UNCHANGED <<pc, call, settled>>
    <3>1. Calling' /\ At' = pc' /\ pc' \notin CallLabel
      BY <1>1, <2>4, NotCalling
    <3>2. Files'
      BY <1>3, <2>4, SameSpool DEF RestartInv
    <3>3. Expanding'
      BY <1>1, <2>4, <3>1, NotExpanding
    <3>4. Queues'
      BY <2>2, <2>4, <3>1
    <3>5. pc' = pc
      BY <2>4
    <3> QED  BY <1>1, <1>2, <1>3, <1>4, <3>1, <3>2, <3>3, <3>4, <3>5,
        RunnerKeeps
  <2>5. CASE Call(h, Where(h), "slow", "deliver") /\ UNCHANGED <<puntq, settled>>
    <3>1. Where(h) \in Dir /\ h \in Efile[Where(h)] /\ "slow" \in Dir
      BY <1>2, <2>1, WhereIs DEF Dir
    <3>2. /\ Files' /\ Calling' /\ At' = "deliver" /\ pc' \in CallLabel \union RunnerLabel
          /\ At' \in RunnerLabel
          /\ pc' \in CallLabel => call'.id = h
      BY <1>1, <1>2, <1>3, <2>1, <2>5, <3>1, MoveIs DEF RunnerReturn
    <3> QED  BY <1>1, <1>2, <1>3, <1>4, <2>2, <2>5, <3>2, NotExpanding,
        RunnerKeeps
  <2> QED  BY <1>6, <2>3, <2>4, <2>5
<1> QED  BY <1>5, <1>6 DEF Deliver


\* The punt queue is delivered.
LEMMA PuntDeliverKeeps ==
    ASSUME Flat, RestartInv, tree' = tree, PuntDeliver, UNCHANGED <<cleanerVars, faults>>
    PROVE  RestartInv'
<1>1. /\ pc = "punt" /\ pc \notin CallLabel \union Writing \union Unwinding
      /\ At = pc /\ pc \in RunnerLabel
  BY DEF PuntDeliver, At, CallLabel, Writing, Unwinding, RunnerLabel
<1>2. up /\ Queues
  BY <1>1 DEF RestartInv, Running
<1>3. /\ UNCHANGED spool /\ Efile' = Efile /\ up' = up /\ role' = role
      /\ unexpanded' = unexpanded /\ hostq' = hostq
  BY DEF PuntDeliver, spool
<1>4. \A o \in Original : \A h \in HostsOf(o) : ~Pair(Efile, o, h)
  BY <1>1, <1>2, NoPair
<1>5. CASE pc' = "next" /\ UNCHANGED <<call, puntq, settled>>
  <2>1. Calling' /\ At' = pc' /\ pc' \notin CallLabel
    BY <1>5, NotCalling DEF RunnerLabel
  <2>2. Files'
    BY <1>3, <1>5, SameSpool DEF RestartInv
  <2>3. Queues'
    BY <1>2, <1>3, <1>5, <2>1, SameTree DEF Queues, Queued
  <2> QED  BY <1>1, <1>2, <1>3, <1>4, <1>5, <2>1, <2>2, <2>3, NotExpanding,
      RunnerKeeps
           DEF RunnerLabel
<1>6. ASSUME NEW h \in puntq, puntq' = puntq \ {h}, settled' = settled \union {h},
             Call(h, Where(h), None, "punt")
      PROVE  RestartInv'
  <2>1. /\ h \in Host /\ h \notin hostq /\ h \notin Range(unexpanded)
    BY <1>2 DEF Queues, Range
  <2>2. /\ Files' /\ Calling' /\ At' = "punt" /\ pc' = "unlinkE" /\ call'.id = h
        /\ At' \in RunnerLabel /\ pc' \in CallLabel
    BY <1>1, <1>2, <1>3, <1>6, SettleIs
  <2>3. Queues'
    <3>1. Queued' \subseteq Queued /\ h \notin Queued'
      BY <1>3, <1>6, <2>1 DEF Queued
    <3> QED  BY <1>2, <1>3, <1>6, <2>2, <3>1, SameTree DEF Queues
  <2> QED  BY <1>1, <1>2, <1>3, <1>4, <2>2, <2>3, NotExpanding, RunnerKeeps
<1> QED  BY <1>5, <1>6 DEF PuntDeliver

\* The next unexpanded message is popped, and moved to fast if it is in slow.
LEMMA NextKeeps ==
    ASSUME Flat, RestartInv, tree' = tree, NextUnexpanded, UNCHANGED <<cleanerVars, faults>>
    PROVE  RestartInv'
<1>1. /\ pc = "next" /\ pc \notin CallLabel \union Writing \union Unwinding
      /\ At = pc /\ pc \in RunnerLabel
  BY DEF NextUnexpanded, At, CallLabel, Writing, Unwinding, RunnerLabel
<1>2. up /\ Queues
  BY <1>1 DEF RestartInv, Running
<1>3. /\ UNCHANGED spool /\ Efile' = Efile /\ up' = up /\ role' = role /\ settled' = settled
      /\ hostq' = hostq /\ puntq' = puntq
  BY DEF NextUnexpanded, spool
<1>4. \A o \in Original : \A h \in HostsOf(o) : ~Pair(Efile, o, h)
  BY <1>1, <1>2, NoPair
<1>5. CASE unexpanded = <<>>
  <2>1. pc' = "leftOver" /\ UNCHANGED <<call, cur, unexpanded>>
    BY <1>5 DEF NextUnexpanded
  <2>2. Calling' /\ At' = pc' /\ pc' \notin CallLabel
    BY <2>1, NotCalling DEF RunnerLabel
  <2>3. Files'
    BY <1>3, SameSpool DEF RestartInv
  <2>4. Queues'
    BY <1>2, <1>3, <2>1, <2>2, SameTree DEF Queues, Queued
  <2> QED  BY <1>1, <1>2, <1>3, <1>4, <2>1, <2>2, <2>3, <2>4, NotExpanding,
      RunnerKeeps
           DEF RunnerLabel
<1>6. CASE unexpanded # <<>>
  <2> DEFINE m == Head(unexpanded)
  <2>1. /\ cur' = m /\ unexpanded' = Tail(unexpanded)
        /\ Call(m, Where(m), "fast", "expand")
    BY <1>6 DEF NextUnexpanded
  <2>2. /\ m = unexpanded[1] /\ 1 \in DOMAIN unexpanded
        /\ unexpanded' \in Seq(Id) /\ Len(unexpanded) \in Nat
        /\ Len(unexpanded') = Len(unexpanded) - 1
        /\ \A i \in 1..Len(unexpanded') : /\ i + 1 \in 1..Len(unexpanded)
                                          /\ unexpanded'[i] = unexpanded[i + 1]
        /\ DOMAIN unexpanded = 1..Len(unexpanded)
        /\ DOMAIN unexpanded' = 1..Len(unexpanded')
    BY <1>2, <1>6, <2>1 DEF Queues
  <2>3. m \in Queued /\ m \notin Host
    BY <1>2, <2>2 DEF Queues, Queued, Range
  <2>4. /\ Where(m) \in Dir /\ m \in Efile[Where(m)] /\ "fast" \in Dir
        /\ Where(m) = "fast" => m \in Efile["fast"]
    BY <1>2, <2>3, WhereIs DEF Dir
  <2>5. m \in Original
    BY <2>3, <2>4 DEF RestartInv, Files
  <2> HIDE DEF m
  <2>6. /\ Files' /\ Calling' /\ At' = "expand" /\ pc' \in CallLabel \union RunnerLabel
        /\ At' \in RunnerLabel /\ pc' # "unlinkE"
        /\ Where(m) = "fast" => pc' = "expand"
        /\ Where(m) # "fast" => pc' \in CallLabel
        /\ pc' \in CallLabel => call'.id = m /\ call'.to = "fast"
    <3>1. "expand" \in RunnerReturn /\ m \in Original \union Host
      BY <2>5 DEF RunnerReturn
    <3> QED  BY <1>1, <1>2, <1>3, <2>1, <2>4, <3>1, MoveIs
  <2>7. Range(unexpanded') \subseteq Range(unexpanded) /\ m \notin Range(unexpanded')
    <3>1. \A i \in 1..Len(unexpanded') : unexpanded[i + 1] # unexpanded[1]
      BY <1>2, <2>2 DEF Queues
    <3> QED  BY <2>2, <3>1 DEF Range
  <2>8. m \notin Queued' /\ Queued' \subseteq Queued
    BY <1>2, <1>3, <2>3, <2>7 DEF Queues, Queued
  <2>9. Queues'
    <3>1. \A i \in DOMAIN unexpanded' : unexpanded'[i] \notin Host
      BY <1>2, <2>2 DEF Queues
    <3>2. \A i, j \in DOMAIN unexpanded' : unexpanded'[i] = unexpanded'[j] => i = j
      <4> SUFFICES ASSUME NEW i \in DOMAIN unexpanded', NEW j \in DOMAIN unexpanded',
                          unexpanded'[i] = unexpanded'[j]
                   PROVE  i = j
        OBVIOUS
      <4>1. i + 1 = j + 1
        BY <1>2, <2>2 DEF Queues
      <4> QED  BY <2>2, <4>1
    <3> QED  BY <1>2, <1>3, <2>2, <2>6, <2>8, <3>1, <3>2, SameTree DEF Queues
  <2>10. Expanding'
    <3>1. pc' = "expand" => cur' \in Efile'["fast"]
      BY <1>3, <2>1, <2>4, <2>6 DEF CallLabel, m
    <3>2. /\ At' = "expand" /\ cur' = m /\ cur' \in Original' /\ cur' \notin Queued'
      BY <2>1, <2>5, <2>6, <2>8, SameTree DEF m
    <3>3. pc' = "expand" \/ pc' \in {"linkD", "linkE", "unlinkD"}
      BY <2>6 DEF CallLabel
    <3>4. pc' \in CallLabel => call'.id = cur' /\ call'.to = "fast"
      BY <2>6, <3>2
    <3> QED  BY <3>1, <3>2, <3>3, <3>4 DEF Expanding, Writing, Unwinding
  <2> QED  BY <1>1, <1>2, <1>3, <1>4, <2>6, <2>9, <2>10, RunnerKeeps
<1> QED  BY <1>5, <1>6

\* expand() starts.
LEMMA ExpandKeeps ==
    ASSUME Flat, RestartInv, tree' = tree, Expand, UNCHANGED <<cleanerVars, faults>>
    PROVE  RestartInv'
<1>1. /\ pc = "expand" /\ pc \notin CallLabel \union Writing \union Unwinding
      /\ At = pc /\ pc \in RunnerLabel /\ pc' = "write"
  BY DEF Expand, At, CallLabel, Writing, Unwinding, RunnerLabel
<1>2. up /\ Queues /\ Expanding
  BY <1>1 DEF RestartInv, Running
<1>3. /\ UNCHANGED spool /\ Efile' = Efile /\ up' = up /\ role' = role /\ settled' = settled
      /\ hostq' = hostq /\ puntq' = puntq /\ unexpanded' = unexpanded
      /\ cur' = cur /\ written' = {} /\ Queued' = Queued
  BY DEF Expand, spool, Queued
<1>4. \A o \in Original : \A h \in HostsOf(o) : ~Pair(Efile, o, h)
  BY <1>1, <1>2, NoPair
<1>5. Calling' /\ At' = pc' /\ pc' \notin CallLabel
  BY <1>1, NotCalling DEF RunnerLabel
<1>6. Files'
  BY <1>3, SameSpool DEF RestartInv
<1>7. Queues'
  BY <1>2, <1>3, <1>5, SameTree DEF Queues
<1>8. cur \in Original /\ cur \notin Queued /\ cur \in Efile["fast"]
  BY <1>1, <1>2 DEF Expanding
<1>9. \A h \in HostsOf(cur) : ~On(Efile, h)
  BY <1>4, <1>8 DEF Pair, On, Dir
<1>10. Expanding'
  BY <1>1, <1>3, <1>5, <1>8, <1>9, SameTree
     DEF Expanding, On, Writing, Unwinding
<1> QED  BY <1>1, <1>2, <1>3, <1>4, <1>5, <1>6, <1>7, <1>10,
    RunnerKeeps DEF RunnerLabel


\* The bounce of an old message, and of everything it would have been expanded to.
LEMMA BounceKeeps ==
    ASSUME Flat, RestartInv, tree' = tree, UNCHANGED <<cleanerVars, faults>>,
           pc = "failed", up' = up, UNCHANGED runnerVars, UNCHANGED <<Dfile, Tfile>>,
           settled' = settled \union {h \in Host : cur \in Line(h)},
           Efile' = [Efile EXCEPT !["fast"] = @ \ {cur}],
           call' = [id |-> cur, from |-> "fast", to |-> None, ret |-> "next"],
           pc' = "unlinkD"
    PROVE  RestartInv'
<1>1. /\ pc \notin CallLabel \union Writing \union Unwinding /\ At = pc /\ pc \in RunnerLabel
      /\ pc' \in CallLabel /\ At' = "next" /\ At' \in RunnerLabel \ CleanerLabel
  BY DEF At, CallLabel, Writing, Unwinding, RunnerLabel, CleanerLabel
<1>2. up /\ Queues /\ Expanding
  BY <1>1 DEF RestartInv, Running
<1>3. /\ cur \in Original /\ cur \notin Queued /\ cur \in Efile["fast"] /\ cur \in Id
      /\ "fast" \in Dir
  BY <1>1, <1>2, FamilyIs DEF Expanding, Dir
<1>4. /\ Table(Efile) /\ settled \subseteq Host
      /\ Complete(Efile, settled) /\ Kept(Efile, settled)
      /\ Dfile \in [Dir -> SUBSET Id] /\ Tfile \in [Dir -> SUBSET Id]
      /\ \A d \in Dir : Efile[d] \subseteq Dfile[d]
      /\ \A x \in settled : tree.parent[x] = Root => ~On(Efile, Root)
  BY DEF RestartInv, Files, Table
<1>5. /\ Table(Efile') /\ \A d \in Dir : Efile'[d] \subseteq Efile[d]
      /\ \A d \in Dir : d # "fast" => Efile'[d] = Efile[d]
      /\ Efile'["fast"] = Efile["fast"] \ {cur}
  BY <1>3, <1>4 DEF Table
<1>6. /\ ~On(Efile', cur) /\ \A m : On(Efile', m) => On(Efile, m)
      /\ \A m : m # cur /\ On(Efile, m) => On(Efile', m)
  <2>1. \A d \in Dir : cur \in Efile[d] => d = "fast"
    BY <1>1, <1>2, <1>3, OneDir
  <2> QED  BY <1>5, <2>1 DEF On
<1>7. \A h \in Host : h # cur /\ (cur \in Line(h) => h \in settled')
  BY <1>3, FamilyIs
<1>8. Complete(Efile', settled')
  <2> SUFFICES ASSUME NEW o \in Original, ~On(Efile', o), NEW g \in HostsOf(o),
                      On(Efile', g), NEW h \in HostsOf(o), h \notin settled'
               PROVE  On(Efile', h)
    BY DEF Complete
  <2>1. h \in Host /\ o \in Line(h)
    BY LineIs, FamilyIs DEF HostsOf
  <2>2. o # cur
    BY <1>7, <2>1
  <2>3. ~On(Efile, o) /\ On(Efile, g)
    BY <1>6, <2>2
  <2>4. On(Efile, h)
    BY <1>4, <2>3 DEF Complete
  <2> QED  BY <1>6, <1>7, <2>1, <2>4
<1>9. Kept(Efile', settled')
  <2> SUFFICES ASSUME NEW x \in Host \ settled'
               PROVE  \E m \in Line(x) : On(Efile', m)
    BY DEF Kept
  <2>1. PICK m \in Line(x) : On(Efile, m)
    BY <1>4 DEF Kept
  <2>2. m # cur
    BY <1>7, <2>1
  <2> QED  BY <1>6, <2>1, <2>2
<1>10. \A x \in settled' : tree.parent[x] = Root => ~On(Efile', Root)
  <2> SUFFICES ASSUME NEW x \in Host, cur \in Line(x), tree.parent[x] = Root
               PROVE  ~On(Efile', Root)
    BY <1>4, <1>6
  <2>1. cur = Root
    BY <1>7, LineIs
  <2> QED  BY <1>6, <2>1
<1>11. Files'
  <2>1. settled' \subseteq Host
    BY <1>4
  <2>2. \A d \in Dir : Efile'[d] \subseteq Dfile'[d]
    BY <1>4, <1>5
  <2> QED  BY <1>4, <1>5, <1>8, <1>9, <1>10, <2>1, <2>2,
      FilesAre DEF RestartInv, Table
<1>12. \A o \in Original : \A h \in HostsOf(o) : ~Pair(Efile', o, h)
  BY <1>1, <1>2, <1>6, NoPair DEF Pair
<1>13. Together'
  BY <1>12, SameTree DEF Together
<1>14. Calling'
  <2>1. /\ call'.id = cur /\ call'.from = "fast" /\ call'.to = None /\ call'.ret = "next"
    OBVIOUS
  <2> QED  BY <1>3, <1>5, <2>1, SameTree, NoneAssumption DEF Calling,
      RunnerReturn
<1>15. Settled'
  <2>1. OnePlace'
    BY <1>1, <1>2, <1>5, OneDir DEF OnePlace
  <2>2. Apart'
    BY <1>12, SameTree DEF Apart
  <2> QED  BY <1>1, <1>2, <2>1, <2>2 DEF Settled, RestartInv
<1>16. Queues'
  <2>1. /\ hostq' = hostq /\ puntq' = puntq /\ unexpanded' = unexpanded /\ role' = role
        /\ Queued' = Queued /\ call'.id = cur
    BY DEF Queued, runnerVars
  <2>2. \A m \in Queued : \E d \in {"fast", role} \intersect Dir : m \in Efile'[d]
    BY <1>2, <1>3, <1>5 DEF Queues
  <2> QED  BY <1>2, <1>3, <2>1, <2>2, SameTree DEF Queues
<1> QED  BY <1>1, <1>2, <1>11, <1>13, <1>14, <1>15, <1>16, NotExpanding
         DEF RestartInv, Running, Resting, Cleaning

\* A message whose expansion failed is moved to slow.
LEMMA ExpandFailedKeeps ==
    ASSUME Flat, RestartInv, tree' = tree, ExpandFailed, UNCHANGED <<cleanerVars, faults>>
    PROVE  RestartInv'
<1>1. /\ pc = "failed" /\ pc \notin CallLabel \union Writing \union Unwinding
      /\ At = pc /\ pc \in RunnerLabel
  BY DEF ExpandFailed, At, CallLabel, Writing, Unwinding, RunnerLabel
<1>2. up /\ Queues /\ Expanding
  BY <1>1 DEF RestartInv, Running
<1>3. UNCHANGED <<Dfile, Tfile, up>> /\ UNCHANGED runnerVars
  BY DEF ExpandFailed
<1>4. CASE role = "slow" /\ old
  BY <1>1, <1>3, <1>4, BounceKeeps DEF ExpandFailed
<1>5. CASE ~(role = "slow" /\ old)
  <2>1. Call(cur, "fast", "slow", "next") /\ UNCHANGED <<Efile, settled>> /\ UNCHANGED spool
    BY <1>3, <1>5 DEF ExpandFailed, spool
  <2>2. cur \in Original /\ cur \notin Queued /\ cur \in Efile["fast"]
    BY <1>1, <1>2 DEF Expanding
  <2>3. /\ Files' /\ Calling' /\ At' = "next" /\ pc' \in CallLabel /\ At' \in RunnerLabel
        /\ call'.id = cur
    BY <1>1, <1>2, <2>1, <2>2, MoveIs DEF RunnerReturn, Dir
  <2>4. Queues'
    <3>1. /\ hostq' = hostq /\ puntq' = puntq /\ unexpanded' = unexpanded /\ role' = role
          /\ Queued' = Queued
      BY <1>3 DEF Queued, runnerVars
    <3> QED  BY <1>2, <2>1, <2>2, <2>3, <3>1, SameTree DEF Queues
  <2>5. \A o \in Original : \A h \in HostsOf(o) : ~Pair(Efile, o, h)
    BY <1>1, <1>2, NoPair
  <2> QED  BY <1>1, <1>2, <1>3, <2>1, <2>3, <2>4, <2>5, NotExpanding,
      RunnerKeeps
<1> QED  BY <1>4, <1>5

\* simta_expand or q_runner ends: what is left in memory is moved to slow.
LEMMA LeftOverKeeps ==
    ASSUME Flat, RestartInv, tree' = tree, LeftOver, UNCHANGED <<cleanerVars, faults>>
    PROVE  RestartInv'
<1>1. /\ pc = "leftOver" /\ pc \notin CallLabel \union Writing \union Unwinding
      /\ At = pc /\ pc \in RunnerLabel
  BY DEF LeftOver, At, CallLabel, Writing, Unwinding, RunnerLabel
<1>2. up /\ Queues
  BY <1>1 DEF RestartInv, Running
<1>3. UNCHANGED spool /\ Efile' = Efile /\ settled' = settled
  BY DEF LeftOver, spool
<1>4. \A o \in Original : \A h \in HostsOf(o) : ~Pair(Efile, o, h)
  BY <1>1, <1>2, NoPair
<1>5. ASSUME NEW h \in puntq, puntq' = puntq \ {h}, Call(h, Where(h), "slow", "leftOver"),
             UNCHANGED <<up, role, cur, out, written, unwind, unexpanded, hostq>>
      PROVE  RestartInv'
  <2>1. /\ h \in Host /\ h \notin hostq /\ h \notin Range(unexpanded) /\ h \in Queued
    BY <1>2 DEF Queues, Queued, Range
  <2>2. Where(h) \in Dir /\ h \in Efile[Where(h)] /\ "slow" \in Dir
    BY <1>2, <2>1, WhereIs DEF Dir
  <2>3. /\ Files' /\ Calling' /\ At' = "leftOver" /\ pc' \in CallLabel \union RunnerLabel
        /\ At' \in RunnerLabel
        /\ pc' \in CallLabel => call'.id = h
    BY <1>1, <1>2, <1>3, <1>5, <2>1, <2>2, MoveIs DEF RunnerReturn
  <2>4. Queues'
    <3>1. Queued' \subseteq Queued /\ h \notin Queued'
      BY <1>3, <1>5, <2>1 DEF Queued
    <3> QED  BY <1>2, <1>3, <1>5, <2>3, <3>1, SameTree DEF Queues
  <2> QED  BY <1>1, <1>2, <1>3, <1>4, <1>5, <2>3, <2>4, NotExpanding,
      RunnerKeeps
<1>6. CASE pc' = "idle" /\ up' = (Efile["fast"] = {}) /\ NoRunner /\ UNCHANGED call
  <2>1. /\ At' = "idle" /\ pc' \notin CallLabel /\ At' \notin RunnerLabel \union CleanerLabel
    BY <1>6 DEF At, CallLabel, RunnerLabel, CleanerLabel
  <2>2. Files' /\ Together'
    BY <1>3, SameSpool DEF RestartInv
  <2>3. Calling'
    BY <2>1 DEF Calling
  <2>4. OnePlace' /\ Apart'
    <3>1. OnePlace'
      BY <1>1, <1>2, <1>3, OneDir DEF OnePlace
    <3>2. Apart'
      BY <1>3, <1>4, SameTree DEF Apart, Pair, On
    <3> QED  BY <3>1, <3>2
  <2>5. Settled'
    BY <1>6, <2>1, <2>4 DEF Settled
  <2>6. Running' /\ Resting' /\ Cleaning'
    BY <1>6, <2>1 DEF Running, Resting, Cleaning, NoRunner
  <2> QED  BY <2>2, <2>3, <2>5, <2>6 DEF RestartInv
<1> QED  BY <1>5, <1>6 DEF LeftOver

\* A runner reads its directory.
LEMMA LaunchKeeps ==
    ASSUME Flat, RestartInv, tree' = tree, NEW d \in {"local", "slow"}, Launch(d),
           UNCHANGED settled, UNCHANGED <<cleanerVars, faults>>
    PROVE  RestartInv'
<1>1. /\ pc = "idle" /\ up /\ pc \notin CallLabel \union Writing \union Unwinding
      /\ At = pc /\ pc \notin RunnerLabel /\ d \in Dir
  BY DEF Launch, At, CallLabel, Writing, Unwinding, RunnerLabel, Dir
<1>2. hostq = {} /\ puntq = {} /\ unexpanded = <<>>
  BY <1>1 DEF RestartInv, Resting
<1>3. /\ UNCHANGED spool /\ Efile' = Efile /\ up' = up /\ puntq' = puntq /\ role' = d
      /\ pc' = "deliver" /\ pc' \in RunnerLabel
  BY DEF Launch, spool, RunnerLabel
<1>4. \A o \in Original : \A h \in HostsOf(o) : ~Pair(Efile, o, h)
  BY <1>1, NoPair
<1>5. Calling' /\ At' = pc' /\ pc' \notin CallLabel
  BY <1>3, NotCalling
<1>6. Files'
  BY <1>3, SameSpool DEF RestartInv
<1>7. PICK hosts \in SUBSET (Whole(d) \intersect Host), others \in {{}, Whole(d) \ Host} :
        hostq' = hosts /\ unexpanded' \in SetToSeqs(others)
  BY DEF Launch
<1>8. /\ hosts \subseteq Efile[d] /\ hosts \subseteq Host
      /\ others \subseteq Efile[d] /\ others \intersect Host = {} /\ others \subseteq Id
  BY <1>1, FamilyIs DEF Whole, RestartInv, Files
<1>9. /\ unexpanded' \in Seq(others) /\ Len(unexpanded') \in Nat
      /\ unexpanded' \in [1..Len(unexpanded') -> others]
      /\ \A i, j \in 1..Len(unexpanded') : i # j => unexpanded'[i] # unexpanded'[j]
  <2>1. others \in SUBSET Id
    BY <1>8
  <2>2. IsFiniteSet(others)
    BY <2>1, IdAssumption, FS_Subset
  <2>3. /\ Len(unexpanded') \in Nat /\ unexpanded' \in [1..Len(unexpanded') -> others]
        /\ \A i, j \in 1..Len(unexpanded') : i # j => unexpanded'[i] # unexpanded'[j]
    BY <1>7, <2>2, OrderIs
  <2> QED  BY <2>3
<1>10. Range(unexpanded') \subseteq others /\ DOMAIN unexpanded' = 1..Len(unexpanded')
  BY <1>9 DEF Range
<1>11. Queues'
  <2>1. \A m \in Queued' : m \in Efile'[d]
    BY <1>2, <1>3, <1>7, <1>8, <1>10 DEF Queued
  <2>2. unexpanded' \in Seq(Id)
    BY <1>8, <1>9
  <2>3. \A i \in DOMAIN unexpanded' : unexpanded'[i] \notin Host
    BY <1>8, <1>9, <1>10
  <2> QED  BY <1>1, <1>2, <1>3, <1>5, <1>7, <1>8, <1>9, <1>10, <2>1, <2>2,
      <2>3, SameTree
           DEF Queues
<1> QED  BY <1>1, <1>3, <1>4, <1>5, <1>6, <1>11, NotExpanding, RunnerKeeps


---------------------------------------------------------------------------
(* The expansion.                                                          *)

\* While envelopes are written.
LEMMA WritingIs ==
    ASSUME Flat, RestartInv, pc \in Writing
    PROVE  /\ pc \notin CallLabel /\ At = pc /\ pc \in RunnerLabel /\ Busy = cur
           /\ up /\ Queues
           /\ cur \in Original /\ cur \notin Queued /\ cur \in Efile["fast"] /\ cur \in Id
           /\ written \subseteq Child(cur) /\ written \subseteq Efile["fast"]
           /\ written \intersect puntq = {}
           /\ \A h \in HostsOf(cur) : On(Efile, h) => h \in written
           /\ \A e \in written : Nobody(Efile, e)
           /\ \A o \in Original : \A h \in HostsOf(o) : Pair(Efile, o, h) => o = cur
           /\ cur \notin Child(cur)
<1>1. pc \notin CallLabel /\ At = pc /\ pc \in RunnerLabel /\ Busy = cur
  BY DEF Writing, CallLabel, RunnerLabel, At, Busy
<1>2. up /\ Queues /\ Expanding
  BY <1>1 DEF RestartInv, Running
<1>3. /\ cur \in Original /\ cur \notin Queued /\ cur \in Efile["fast"]
      /\ written \subseteq Child(cur) /\ written \subseteq Efile["fast"]
      /\ written \intersect puntq = {}
      /\ \A h \in HostsOf(cur) : On(Efile, h) => h \in written
      /\ \A e \in written : Nobody(Efile, e)
  BY <1>1, <1>2 DEF Expanding
<1>4. \A o \in Original : \A h \in HostsOf(o) : Pair(Efile, o, h) => o = cur
  BY <1>1, <1>2 DEF RestartInv, Settled, Apart
<1>5. cur \in Id /\ cur \notin Child(cur)
  BY <1>3, FamilyIs DEF Original, HostsOf
<1> QED  BY <1>1, <1>2, <1>3, <1>4, <1>5

\* While they are unlinked.
LEMMA UnwindingIs ==
    ASSUME Flat, RestartInv, pc \in Unwinding
    PROVE  /\ pc \notin CallLabel /\ At = pc /\ pc \in RunnerLabel /\ Busy = cur
           /\ up /\ Queues
           /\ cur \in Original /\ cur \notin Queued /\ cur \in Efile["fast"] /\ cur \in Id
           /\ unwind \subseteq Child(cur) /\ unwind \subseteq Efile["fast"]
           /\ unwind \intersect puntq = {}
           /\ \A h \in HostsOf(cur) : On(Efile, h) => h \in unwind
           /\ \A e \in unwind : Nobody(Efile, e)
           /\ \A o \in Original : \A h \in HostsOf(o) : Pair(Efile, o, h) => o = cur
           /\ cur \notin Child(cur)
<1>1. pc \notin CallLabel /\ At = pc /\ pc \in RunnerLabel /\ Busy = cur /\ pc # "unlinkE"
  BY DEF Unwinding, CallLabel, RunnerLabel, At, Busy
<1>2. up /\ Queues /\ Expanding
  BY <1>1 DEF RestartInv, Running
<1>3. /\ cur \in Original /\ cur \notin Queued /\ cur \in Efile["fast"]
      /\ unwind \subseteq Child(cur) /\ unwind \subseteq Efile["fast"]
      /\ unwind \intersect puntq = {}
      /\ \A h \in HostsOf(cur) : On(Efile, h) => h \in unwind
      /\ \A e \in unwind : Nobody(Efile, e)
  BY <1>1, <1>2 DEF Expanding
<1>4. \A o \in Original : \A h \in HostsOf(o) : Pair(Efile, o, h) => o = cur
  BY <1>1, <1>2 DEF RestartInv, Settled, Apart
<1>5. cur \in Id /\ cur \notin Child(cur)
  BY <1>3, FamilyIs DEF Original, HostsOf
<1> QED  BY <1>1, <1>2, <1>3, <1>4, <1>5

\* What is written.
LEMMA WritableIs ==
    ASSUME NEW k \in Writable
    PROVE  k \in ToWrite /\ k \in Child(cur) \ written
BY DEF Writable, ToWrite, OfKind

\* A step of an expansion that leaves the queues and the E files alone.
LEMMA WritingKeeps ==
    ASSUME Flat, RestartInv, tree' = tree, pc \in Writing \union Unwinding,
           UNCHANGED <<Efile, up, call, role, cur, unexpanded, hostq, puntq, settled>>,
           Dfile' \in [Dir -> SUBSET Id], Tfile' \in [Dir -> SUBSET Id],
           \A d \in Dir : Efile[d] \subseteq Dfile'[d],
           pc' \in Writing \union Unwinding, Expanding'
    PROVE  RestartInv'
<1>1. /\ pc \notin CallLabel /\ pc \in RunnerLabel /\ up /\ Queues
      /\ \A o \in Original : \A h \in HostsOf(o) : Pair(Efile, o, h) => o = cur
  BY WritingIs, UnwindingIs
<1>2. Files'
  BY SameFiles DEF RestartInv
<1>3. pc' \in RunnerLabel
  BY DEF Writing, Unwinding, RunnerLabel
<1>4. Calling' /\ At' = pc' /\ pc' \notin CallLabel
  BY <1>3, NotCalling
<1>5. Busy' = cur
  BY <1>4 DEF Busy
<1>6. Queues'
  BY <1>1, <1>4, SameTree DEF Queues, Queued
<1> QED  BY <1>1, <1>2, <1>3, <1>4, <1>5, <1>6, RunnerKeeps

\* env_outfile: the D file of the next envelope is linked.
LEMMA WriteDfileKeeps ==
    ASSUME Flat, RestartInv, tree' = tree, WriteDfile, UNCHANGED <<cleanerVars, faults>>
    PROVE  RestartInv'
<1>1. /\ pc = "write" /\ pc \in Writing /\ pc' = "createT" /\ pc' \in Writing
      /\ UNCHANGED <<Efile, Tfile, up, call, role, cur, written, unwind,
                     unexpanded, hostq, puntq, settled>>
  BY DEF WriteDfile, Writing
<1>2. PICK k \in Writable :
        /\ \A d \in Dir : k \notin Efile[d] \union Dfile[d] \union Tfile[d]
        /\ Dfile' = [Dfile EXCEPT !["fast"] = @ \union {k}]
        /\ out' = k
  BY DEF WriteDfile
<1>3. k \in ToWrite /\ k \in Child(cur) /\ k \in Id
  BY WritableIs DEF Child
<1>4. /\ cur \in Original /\ cur \notin Queued /\ cur \in Efile["fast"] /\ cur \in Id
      /\ written \subseteq Child(cur) /\ written \subseteq Efile["fast"]
      /\ written \intersect puntq = {}
      /\ \A h \in HostsOf(cur) : On(Efile, h) => h \in written
      /\ \A e \in written : Nobody(Efile, e)
  BY <1>1, WritingIs
<1>5. /\ Dfile' \in [Dir -> SUBSET Id] /\ Tfile' \in [Dir -> SUBSET Id]
      /\ \A d \in Dir : Efile[d] \subseteq Dfile'[d]
      /\ k \in Dfile'["fast"]
  BY <1>1, <1>2, <1>3 DEF RestartInv, Files, Dir
<1>6. ~On(Efile, k)
  BY <1>2 DEF On
<1>7. Nobody(Efile, k)
  <2>1. CASE k \in HostsOf(cur)
    <3>1. k \in Host /\ k \notin Original
      BY <2>1, FamilyIs DEF HostsOf
    <3> QED  BY <3>1, FamilyIs DEF Nobody, HostsOf
  <2>2. CASE k \in Bounces
    <3>1. \A d \in Dir : \A x \in Efile[d] : k \notin Line(x)
      BY <1>3, <2>2 DEF ToWrite, Bounces
    <3>2. \A h \in HostsOf(k) : k \in Line(h)
      BY LineIs DEF HostsOf
    <3> QED  BY <3>1, <3>2 DEF Nobody, On
  <2> QED  BY <1>3, <1>4, <2>1, <2>2, FamilyIs
<1>8. Expanding'
  <2>1. At' = "createT" /\ pc' \notin CallLabel
    BY <1>1 DEF At, CallLabel
  <2>2. Queued' = Queued
    BY <1>1 DEF Queued
  <2> QED  BY <1>1, <1>2, <1>3, <1>4, <1>5, <1>6, <1>7, <2>1, <2>2, SameTree
           DEF Expanding, Nobody, On, Unwinding, Writing
<1> QED  BY <1>1, <1>5, <1>8, WritingKeeps

\* env_outfile: the temporary file is written.
LEMMA CreateTKeeps ==
    ASSUME Flat, RestartInv, tree' = tree, CreateT, UNCHANGED <<cleanerVars, faults>>
    PROVE  RestartInv'
<1>1. /\ pc = "createT" /\ pc \in Writing /\ pc' = "renameT" /\ pc' \in Writing
      /\ UNCHANGED <<Efile, Dfile, up, call, settled>> /\ UNCHANGED runnerVars
      /\ Tfile' = [Tfile EXCEPT !["fast"] = @ \union {out}]
  BY DEF CreateT, Writing
<1>2. Expanding /\ At = pc
  BY <1>1, WritingIs DEF RestartInv, Running
<1>3. out \in Id
  BY <1>1, <1>2 DEF Expanding, Child
<1>4. /\ Dfile' \in [Dir -> SUBSET Id] /\ Tfile' \in [Dir -> SUBSET Id]
      /\ \A d \in Dir : Efile[d] \subseteq Dfile'[d]
  BY <1>1, <1>3 DEF RestartInv, Files
<1>5. Expanding'
  <2>1. At' = "renameT" /\ pc' \notin CallLabel
    BY <1>1 DEF At, CallLabel
  <2>2. Queued' = Queued
    BY <1>1 DEF Queued, runnerVars
  <2> QED  BY <1>1, <1>2, <2>1, <2>2, SameTree
           DEF Expanding, Nobody, On, Unwinding, Writing, runnerVars
<1> QED  BY <1>1, <1>4, <1>5, WritingKeeps DEF runnerVars


\* Without groups every failure unwinds the envelopes for hosts.
LEMMA UnwoundIs ==
    ASSUME NEW kind, kind \notin {"moderated", "forward"}, NEW U \in Unwound(kind)
    PROVE  U \subseteq written /\ OfKind(written, {"host"}) \subseteq U
<1> DEFINE hosts == OfKind(written, {"host"})
           First(S) == {S} \union {{x} : x \in S}
<1>1. \A kinds : OfKind(written, kinds) \subseteq written
  BY DEF OfKind
<1>2. CASE kind = "host"
  BY <1>1, <1>2 DEF Unwound
<1>3. CASE kind # "host"
  <2>1. Unwound(kind) =
          {hosts \union f \union e : f \in First(OfKind(written, {"forward"})),
                                     e \in First(OfKind(written, {"error"}))}
    BY <1>3 DEF Unwound
  <2>2. \A kinds : \A f \in First(OfKind(written, kinds)) : f \subseteq written
    BY <1>1
  <2> HIDE DEF First, hosts
  <2>3. PICK f \in First(OfKind(written, {"forward"})), e \in First(OfKind(written, {"error"})) :
          U = hosts \union f \union e
    BY <2>1
  <2>4. f \subseteq written /\ e \subseteq written
    BY <2>2
  <2> QED  BY <1>1, <2>3, <2>4 DEF hosts
<1> QED  BY <1>2, <1>3

\* What a failure leaves to be unwound.
LEMMA FailureIs ==
    ASSUME Flat, RestartInv, pc \in Writing, NEW k, k \in Child(cur) \/ tree.kind[k] = "error",
           unwind' \in Unwound(tree.kind[k])
    PROVE  /\ unwind' \subseteq Child(cur) /\ unwind' \subseteq Efile["fast"]
           /\ unwind' \intersect puntq = {}
           /\ \A h \in HostsOf(cur) : On(Efile, h) => h \in unwind'
           /\ \A e \in unwind' : Nobody(Efile, e)
<1>1. /\ written \subseteq Child(cur) /\ written \subseteq Efile["fast"]
      /\ written \intersect puntq = {}
      /\ \A h \in HostsOf(cur) : On(Efile, h) => h \in written
      /\ \A e \in written : Nobody(Efile, e)
  BY WritingIs
<1>2. tree.kind[k] \notin {"moderated", "forward"}
  <2>1. k \in Child(cur) => k \in Host \/ k \in Bounces
    BY WritingIs, FamilyIs DEF HostsOf
  <2> QED  BY <2>1 DEF Host, Bounces
<1>3. unwind' \subseteq written /\ OfKind(written, {"host"}) \subseteq unwind'
  BY <1>2, UnwoundIs
<1>4. \A h \in HostsOf(cur) : h \in written => h \in unwind'
  BY <1>3 DEF HostsOf, Host, OfKind
<1> QED  BY <1>1, <1>3, <1>4

\* env_outfile fails, and expand() begins to unwind.
LEMMA OutfileFailsKeeps ==
    ASSUME Flat, RestartInv, tree' = tree, OutfileFails
    PROVE  RestartInv'
<1>1. /\ pc = "createT" /\ pc \in Writing /\ pc' = "unlinkOut" /\ pc' \in Unwinding
      /\ unwind' \in Unwound(tree.kind[out])
      /\ UNCHANGED <<Efile, Dfile, Tfile, up, call, role, cur, out, written, unexpanded,
                     hostq, puntq, settled>>
  BY DEF OutfileFails, FailAt, Writing, Unwinding, spool
<1>2. Expanding /\ At = pc /\ cur \in Original /\ cur \notin Queued /\ cur \in Efile["fast"]
  BY <1>1, WritingIs DEF RestartInv, Running
<1>3. /\ out \in Child(cur) /\ out \in Dfile["fast"] /\ ~On(Efile, out)
      /\ Nobody(Efile, out)
  BY <1>1, <1>2 DEF Expanding
<1>4. /\ unwind' \subseteq Child(cur) /\ unwind' \subseteq Efile["fast"]
      /\ unwind' \intersect puntq = {}
      /\ \A h \in HostsOf(cur) : On(Efile, h) => h \in unwind'
      /\ \A e \in unwind' : Nobody(Efile, e)
  BY <1>1, <1>3, FailureIs
<1>5. Expanding'
  <2>1. At' = "unlinkOut" /\ pc' \notin CallLabel
    BY <1>1 DEF At, CallLabel
  <2>2. Queued' = Queued
    BY <1>1 DEF Queued
  <2> QED  BY <1>1, <1>2, <1>3, <1>4, <2>1, <2>2, SameTree
           DEF Expanding, Nobody, On, Unwinding, Writing
<1> QED  BY <1>1, <1>5, WritingKeeps DEF RestartInv, Files

\* An envelope fails before it has a D file.
LEMMA WriteFailsKeeps ==
    ASSUME Flat, RestartInv, tree' = tree, WriteFails
    PROVE  RestartInv'
<1>1. /\ pc = "write" /\ pc \in Writing /\ pc' = "unwind" /\ pc' \in Unwinding
      /\ UNCHANGED <<Efile, Dfile, Tfile, up, call, role, cur, out, written, unexpanded,
                     hostq, puntq, settled>>
  BY DEF WriteFails, FailAt, Writing, Unwinding, spool
<1>2. cur \in Original /\ cur \notin Queued /\ cur \in Efile["fast"]
  BY <1>1, WritingIs
<1>3. /\ unwind' \subseteq Child(cur) /\ unwind' \subseteq Efile["fast"]
      /\ unwind' \intersect puntq = {}
      /\ \A h \in HostsOf(cur) : On(Efile, h) => h \in unwind'
      /\ \A e \in unwind' : Nobody(Efile, e)
  <2>1. CASE \E k \in Writable : FailAt(tree.kind[k], "unwind")
    <3>1. PICK k \in Writable : unwind' \in Unwound(tree.kind[k])
      BY <2>1 DEF FailAt
    <3>2. k \in Child(cur)
      BY WritableIs
    <3> QED  BY <1>1, <3>1, <3>2, FailureIs
  <2>2. CASE FailAt("error", "unwind")
    <3>1. unwind' \subseteq written /\ OfKind(written, {"host"}) \subseteq unwind'
      BY <2>2, UnwoundIs DEF FailAt
    <3>2. \A h \in HostsOf(cur) : h \in written => h \in unwind'
      BY <3>1 DEF HostsOf, Host, OfKind
    <3> QED  BY <1>1, <3>1, <3>2, WritingIs
  <2> QED  BY <2>1, <2>2 DEF WriteFails
<1>4. Expanding'
  <2>1. At' = "unwind" /\ pc' \notin CallLabel
    BY <1>1 DEF At, CallLabel
  <2>2. Queued' = Queued
    BY <1>1 DEF Queued
  <2> QED  BY <1>1, <1>2, <1>3, <2>1, <2>2, SameTree
           DEF Expanding, Nobody, On, Unwinding, Writing
<1> QED  BY <1>1, <1>4, WritingKeeps DEF RestartInv, Files

\* env_outfile removes the D file it leaves without an envelope.
LEMMA UnlinkOutKeeps ==
    ASSUME Flat, RestartInv, tree' = tree, UnlinkOut, UNCHANGED <<cleanerVars, faults>>
    PROVE  RestartInv'
<1>1. /\ pc = "unlinkOut" /\ pc \in Unwinding /\ pc' = "unwind" /\ pc' \in Unwinding
      /\ UNCHANGED <<Efile, Tfile, up, call, settled>> /\ UNCHANGED runnerVars
      /\ Dfile' = [Dfile EXCEPT !["fast"] = @ \ {out}]
  BY DEF UnlinkOut, Unwinding
<1>2. Expanding /\ At = pc
  BY <1>1, UnwindingIs DEF RestartInv, Running
<1>3. out \in Id /\ ~On(Efile, out)
  BY <1>1, <1>2 DEF Expanding, Child
<1>4. /\ Dfile' \in [Dir -> SUBSET Id] /\ Tfile' \in [Dir -> SUBSET Id]
      /\ \A d \in Dir : Efile[d] \subseteq Dfile'[d]
  BY <1>1, <1>3 DEF RestartInv, Files, On
<1>5. Expanding'
  <2>1. At' = "unwind" /\ pc' \notin CallLabel
    BY <1>1 DEF At, CallLabel
  <2>2. Queued' = Queued
    BY <1>1 DEF Queued, runnerVars
  <2> QED  BY <1>1, <1>2, <2>1, <2>2, SameTree
           DEF Expanding, Nobody, On, Unwinding, Writing, runnerVars
<1> QED  BY <1>1, <1>4, <1>5, WritingKeeps DEF runnerVars


\* env_outfile: the rename that makes the envelope exist.
LEMMA RenameTKeeps ==
    ASSUME Flat, RestartInv, tree' = tree, RenameT, UNCHANGED <<cleanerVars, faults>>
    PROVE  RestartInv'
<1>1. /\ pc = "renameT" /\ pc \in Writing /\ pc' = "write" /\ pc' \in Writing
      /\ UNCHANGED <<Dfile, up, call, role, cur, out, unwind, puntq, settled>>
      /\ Tfile' = [Tfile EXCEPT !["fast"] = @ \ {out}]
      /\ Efile' = [Efile EXCEPT !["fast"] = @ \union {out}]
      /\ written' = written \union {out}
      /\ IF out \in Host
         THEN hostq' = hostq \union {out} /\ unexpanded' = unexpanded
         ELSE unexpanded' = Append(unexpanded, out) /\ hostq' = hostq
  BY DEF RenameT, Writing
<1>2. /\ At = pc /\ pc \notin CallLabel /\ pc \in RunnerLabel
      /\ cur \in Original /\ cur \notin Queued /\ cur \in Efile["fast"] /\ cur \in Id
      /\ written \subseteq Child(cur) /\ written \subseteq Efile["fast"]
      /\ written \intersect puntq = {}
      /\ \A h \in HostsOf(cur) : On(Efile, h) => h \in written
      /\ \A e \in written : Nobody(Efile, e)
      /\ \A o \in Original : \A h \in HostsOf(o) : Pair(Efile, o, h) => o = cur
      /\ up /\ Queues /\ Expanding
  BY <1>1, WritingIs DEF RestartInv, Running
<1>3. /\ out \in Child(cur) /\ out \in Dfile["fast"] /\ ~On(Efile, out)
      /\ Nobody(Efile, out)
  BY <1>1, <1>2 DEF Expanding
<1>4. /\ out \in Id /\ out \in Original \union Host /\ out # cur /\ out # Root
      /\ \A o \in Original : out \in HostsOf(o) => o = cur
      /\ out \notin HostsOf(out)
      /\ out \in Host => out \in HostsOf(cur)
  BY <1>2, <1>3, FamilyIs DEF Child, HostsOf, Original
<1>5. /\ Table(Efile) /\ settled \subseteq Host
      /\ Complete(Efile, settled) /\ Kept(Efile, settled)
      /\ Dfile \in [Dir -> SUBSET Id] /\ Tfile \in [Dir -> SUBSET Id]
      /\ \A d \in Dir : Efile[d] \subseteq Dfile[d]
      /\ \A x \in settled : tree.parent[x] = Root => ~On(Efile, Root)
  BY DEF RestartInv, Files, Table
<1>6. /\ Table(Efile') /\ \A d \in Dir : d # "fast" => Efile'[d] = Efile[d]
      /\ Efile'["fast"] = Efile["fast"] \union {out} /\ "fast" \in Dir
  BY <1>1, <1>4, <1>5 DEF Table, Dir
<1>7. /\ \A m : m # out => (On(Efile', m) <=> On(Efile, m))
      /\ On(Efile', out) /\ On(Efile', cur) /\ On(Efile, cur)
  BY <1>2, <1>6 DEF On
<1>8. Files'
  <2>1. Complete(Efile', settled)
    <3> SUFFICES ASSUME NEW o \in Original, ~On(Efile', o), NEW g \in HostsOf(o),
                        On(Efile', g), NEW h \in HostsOf(o), h \notin settled
                 PROVE  On(Efile', h)
      BY DEF Complete
    <3>1. o # cur /\ o # out /\ g # out /\ h # out
      BY <1>4, <1>7
    <3>2. ~On(Efile, o) /\ On(Efile, g)
      BY <1>7, <3>1
    <3> QED  BY <1>5, <1>7, <3>1, <3>2 DEF Complete
  <2>2. Kept(Efile', settled)
    BY <1>5, <1>7 DEF Kept
  <2>3. \A d \in Dir : Efile'[d] \subseteq Dfile'[d]
    BY <1>1, <1>3, <1>5, <1>6
  <2>4. Tfile' \in [Dir -> SUBSET Id]
    BY <1>1, <1>5
  <2> QED  BY <1>1, <1>4, <1>5, <1>6, <1>7, <2>1, <2>2, <2>3, <2>4, FilesAre
           DEF RestartInv, Table
<1>9. \A o \in Original : \A h \in HostsOf(o) : Pair(Efile', o, h) => o = cur
  <2> SUFFICES ASSUME NEW o \in Original, NEW h \in HostsOf(o), Pair(Efile', o, h), o # cur
               PROVE  FALSE
    OBVIOUS
  <2>1. h # out
    BY <1>4
  <2>2. o # out
    BY <1>3, <1>7, <2>1 DEF Nobody, Pair
  <2> QED  BY <1>2, <1>7, <2>1, <2>2 DEF Pair
<1>10. \A m \in Id : \A d, e \in Dir : m \in Efile'[d] /\ m \in Efile'[e] => d = e
  <2>1. \A m \in Id : \A d, e \in Dir : m \in Efile[d] /\ m \in Efile[e] => d = e
    BY <1>2, OneDir
  <2>2. \A d \in Dir : out \in Efile'[d] => d = "fast"
    BY <1>3, <1>6 DEF On
  <2> QED  BY <1>6, <2>1, <2>2
<1>11. Together'
  <2> SUFFICES ASSUME NEW o \in Original, NEW h \in HostsOf(o), Pair(Efile', o, h),
                      NEW d \in Dir, o \in Efile'[d] \/ h \in Efile'[d]
               PROVE  d = "fast"
    BY SameTree DEF Together, Pair, On
  <2>1. o = cur /\ h \in Id /\ cur \in Efile'["fast"]
    BY <1>2, <1>6, <1>9, FamilyIs
  <2>2. h \in Efile'["fast"]
    BY <1>2, <1>6, <1>7, <2>1 DEF Pair
  <2> QED  BY <1>2, <1>6, <1>10, <2>1, <2>2
<1>12. Calling' /\ At' = pc' /\ pc' \notin CallLabel /\ pc' \in RunnerLabel
  BY <1>1, NotCalling DEF RunnerLabel
<1>13. Settled'
  <2>1. OnePlace'
    BY <1>10 DEF OnePlace
  <2>2. Busy' = cur
    BY <1>1, <1>12 DEF Busy
  <2>3. Apart'
    BY <1>9, <2>2, SameTree DEF Apart, Pair, On
  <2> QED  BY <1>1, <1>2, <1>12, <2>1, <2>3 DEF Settled, RestartInv,
      RunnerLabel, CleanerLabel
<1>14. out \notin Queued
  BY <1>2, <1>3 DEF Queues, On
<1>15. Queued' = Queued \union {out} /\ Queues'
  <2>1. \A m \in Queued \union {out} : \E d \in {"fast", role} \intersect Dir : m \in Efile'[d]
    BY <1>2, <1>6 DEF Queues
  <2>2. CASE out \in Host
    <3>1. Queued' = Queued \union {out}
      BY <1>1, <2>2 DEF Queued
    <3> QED  BY <1>1, <1>2, <1>12, <1>14, <2>1, <2>2, <3>1,
        SameTree DEF Queues, Queued
  <2>3. CASE out \notin Host
    <3>1. /\ unexpanded \in Seq(Id) /\ unexpanded' \in Seq(Id) /\ Len(unexpanded) \in Nat
          /\ Len(unexpanded') = Len(unexpanded) + 1
          /\ \A i \in 1..Len(unexpanded) : unexpanded'[i] = unexpanded[i]
          /\ unexpanded'[Len(unexpanded) + 1] = out
          /\ DOMAIN unexpanded = 1..Len(unexpanded)
          /\ DOMAIN unexpanded' = 1..(Len(unexpanded) + 1)
      BY <1>1, <1>2, <1>4, <2>3 DEF Queues
    <3>2. Range(unexpanded') = Range(unexpanded) \union {out}
      <4>1. \A i \in 1..(Len(unexpanded) + 1) :
              i \in 1..Len(unexpanded) \/ i = Len(unexpanded) + 1
        BY <3>1
      <4>2. \A i \in 1..Len(unexpanded) : i \in 1..(Len(unexpanded) + 1)
        BY <3>1
      <4>3. Len(unexpanded) + 1 \in 1..(Len(unexpanded) + 1)
        BY <3>1
      <4> QED  BY <3>1, <4>1, <4>2, <4>3 DEF Range
    <3>3. Queued' = Queued \union {out} /\ out \notin Range(unexpanded)
      BY <1>1, <1>14, <2>3, <3>2 DEF Queued
    <3>4. \A i \in DOMAIN unexpanded' : unexpanded'[i] \notin Host
      BY <1>2, <2>3, <3>1 DEF Queues
    <3>5. \A i, j \in DOMAIN unexpanded' : unexpanded'[i] = unexpanded'[j] => i = j
      <4>1. \A i \in 1..Len(unexpanded) : unexpanded[i] # out
        BY <3>1, <3>3 DEF Range
      <4> QED  BY <1>2, <3>1, <4>1 DEF Queues
    <3> QED  BY <1>1, <1>2, <1>12, <2>1, <2>3, <3>1, <3>3, <3>4, <3>5,
        SameTree DEF Queues
  <2> QED  BY <2>2, <2>3
<1>16. Expanding'
  <2>1. cur \notin Queued'
    BY <1>2, <1>4, <1>15
  <2>2. /\ written' \subseteq Child(cur) /\ written' \subseteq Efile'["fast"]
        /\ written' \intersect puntq = {}
    BY <1>1, <1>2, <1>3, <1>6, <1>14 DEF Queued
  <2>3. \A h \in HostsOf(cur) : On(Efile', h) => h \in written'
    BY <1>1, <1>2, <1>7
  <2>4. \A e \in written' : Nobody(Efile', e)
    <3>1. ASSUME NEW e \in written PROVE out \notin HostsOf(e)
      <4>1. e # cur
        BY <1>1, <1>2, WritingIs
      <4> QED  BY <1>3, <4>1 DEF HostsOf, Child
    <3> QED  BY <1>1, <1>2, <1>3, <1>4, <1>7, <3>1 DEF Nobody
  <2>5. At' = "write"
    BY <1>1, <1>12
  <2>6. cur \in Efile'["fast"]
    BY <1>2, <1>6
  <2> QED  BY <1>1, <1>2, <1>12, <2>1, <2>2, <2>3, <2>4, <2>5, <2>6, SameTree
           DEF Expanding, Nobody, On, Unwinding, Writing
<1>17. Running' /\ Resting' /\ Cleaning'
  BY <1>1, <1>2, <1>12, <1>15, <1>16
     DEF Running, Resting, Cleaning, RunnerLabel, CleanerLabel
<1> QED  BY <1>8, <1>11, <1>12, <1>13, <1>17 DEF RestartInv


\* All are written: the message they stand for is deleted.
LEMMA DeleteOriginalKeeps ==
    ASSUME Flat, RestartInv, tree' = tree, DeleteOriginal, UNCHANGED <<cleanerVars, faults>>
    PROVE  RestartInv'
<1>1. /\ pc = "write" /\ pc \in Writing /\ ToWrite = {}
      /\ Call(cur, "fast", None, "deliver")
      /\ UNCHANGED <<Efile, Dfile, Tfile>> /\ UNCHANGED spool
      /\ UNCHANGED <<up, role, unwind, unexpanded, hostq, puntq, settled>>
  BY DEF DeleteOriginal, Writing, spool
<1>2. /\ pc \notin CallLabel /\ At = pc /\ up /\ Queues
      /\ cur \in Original /\ cur \notin Queued /\ cur \in Efile["fast"] /\ cur \in Id
      /\ written \subseteq Child(cur) /\ written \subseteq Efile["fast"]
      /\ \A o \in Original : \A h \in HostsOf(o) : Pair(Efile, o, h) => o = cur
      /\ cur \notin Child(cur) /\ "fast" \in Dir
  BY <1>1, WritingIs DEF Dir
<1>3. Table(Efile) /\ Complete(Efile, settled) /\ Kept(Efile, settled)
  BY DEF RestartInv, Files, Table
<1> DEFINE G == [Efile EXCEPT !["fast"] = @ \ {cur}]
<1>4. /\ ~On(G, cur)
      /\ \A m : On(G, m) => On(Efile, m)
      /\ \A m : m # cur /\ On(Efile, m) => On(G, m)
  <2>1. \A d \in Dir : cur \in Efile[d] => d = "fast"
    BY <1>2, OneDir
  <2>2. /\ \A d \in Dir : d # "fast" => G[d] = Efile[d]
        /\ G["fast"] = Efile["fast"] \ {cur}
    BY <1>2, <1>3 DEF Table
  <2> HIDE DEF G
  <2> QED  BY <2>1, <2>2 DEF On
<1>5. \A k \in Child(cur) : k \in written \/ tree.kind[k] = "error"
  BY <1>1 DEF ToWrite
<1>6. \A e \in Child(cur) : e \notin written =>
        \E d \in Dir : \E x \in Efile[d] : e \in Line(x)
  BY <1>1 DEF ToWrite
<1> HIDE DEF G
<1>7. \A h \in HostsOf(cur) : h \in written /\ On(G, h)
  <2> SUFFICES ASSUME NEW h \in HostsOf(cur) PROVE h \in written /\ On(G, h)
    OBVIOUS
  <2>1. h \in Child(cur) /\ tree.kind[h] = "host" /\ h # cur
    BY <1>2, FamilyIs DEF HostsOf, Host
  <2>2. h \in written
    BY <1>5, <2>1
  <2> QED  BY <1>2, <1>4, <2>1, <2>2 DEF On
<1>8. Complete(G, settled)
  <2> SUFFICES ASSUME NEW o \in Original, ~On(G, o), NEW g \in HostsOf(o), On(G, g),
                      NEW h \in HostsOf(o), h \notin settled
               PROVE  On(G, h)
    BY DEF Complete
  <2>1. CASE o = cur
    BY <2>1, <1>7
  <2>2. CASE o # cur
    <3>1. ~On(Efile, o) /\ On(Efile, g) /\ h # cur
      BY <1>2, <1>4, <2>2, FamilyIs
    <3> QED  BY <1>3, <1>4, <3>1 DEF Complete
  <2> QED  BY <2>1, <2>2
<1>9. Kept(G, settled)
  <2> SUFFICES ASSUME NEW x \in Host \ settled
               PROVE  \E m \in Line(x) : On(G, m)
    BY DEF Kept
  <2>1. PICK m \in Line(x) : On(Efile, m)
    BY <1>3 DEF Kept
  <2>2. CASE m # cur
    BY <1>4, <2>1, <2>2
  <2>3. CASE m = cur
    <3>1. Line(x) = {x, tree.parent[x], Root} /\ x \notin Original
      BY LineIs, FamilyIs
    <3>2. CASE x \in HostsOf(cur)
      BY <1>7, <3>1, <3>2
    <3>3. CASE x \notin HostsOf(cur)
      <4> DEFINE e == tree.parent[x]
      <4>1. cur = Root /\ e \in Bounces /\ e \in Line(x) /\ x \in HostsOf(e)
        BY <1>2, <2>1, <2>3, <3>1, <3>3, FamilyIs DEF HostsOf, Original
      <4>2. e \in Child(cur) /\ e # cur /\ e \in Original
        BY <1>2, <4>1, FamilyIs DEF Child, Bounces, Original
      <4> HIDE DEF e
      <4>3. CASE e \in written
        <5>1. On(Efile, e)
          BY <1>2, <4>3 DEF On
        <5> QED  BY <1>4, <4>1, <4>2, <5>1
      <4>4. CASE e \notin written
        <5>0. PICK d \in Dir : \E y \in Efile[d] : e \in Line(y)
          BY <1>6, <4>2, <4>4
        <5>1. PICK y \in Efile[d] : e \in Line(y)
          BY <5>0
        <5>2. On(Efile, y) /\ y \in Original \union Host
          BY <5>1 DEF On, RestartInv, Files
        <5>3. y = e \/ y \in HostsOf(e)
          BY <4>1, <4>2, <5>1, <5>2, LineIs, FamilyIs DEF Original
        <5>4. CASE On(Efile, e)
          BY <1>4, <4>1, <4>2, <5>4
        <5>5. CASE ~On(Efile, e)
          <6>1. On(Efile, x)
            BY <1>3, <4>1, <4>2, <5>2, <5>3, <5>5 DEF Complete
          <6> QED  BY <1>2, <1>4, <3>1, <6>1
        <5> QED  BY <5>4, <5>5
      <4> QED  BY <4>3, <4>4
    <3> QED  BY <3>2, <3>3
  <2> QED  BY <2>2, <2>3
<1>10. /\ Calling' /\ At' = "deliver" /\ pc' = "unlinkE" /\ pc' \in CallLabel
       /\ call'.id = cur
  <2>1. "deliver" \in RunnerReturn \union {"delete", "toSlow"} /\ None \in Dir \union {None}
        /\ "fast" # None /\ cur \in Original \union Host
    BY <1>2, NoneAssumption DEF RunnerReturn
  <2>2. Files
    BY DEF RestartInv
  <2>3. Complete(G, settled') /\ Kept(G, settled')
    BY <1>1, <1>8, <1>9
  <2> QED  BY <1>1, <1>2, <2>1, <2>2, <2>3, CalledIs DEF G
<1>11. Files'
  BY <1>1, SameSpool DEF RestartInv
<1>12. Queues'
  BY <1>1, <1>2, <1>10, SameTree DEF Queues, Queued
<1>13. Busy' = cur
  BY <1>10 DEF Busy, Writing, Unwinding
<1> QED  BY <1>1, <1>2, <1>10, <1>11, <1>12, <1>13, NotExpanding, RunnerKeeps
         DEF RunnerLabel

\* What queue_remove_envelope leaves of a queue.
LEMMA DequeueIs ==
    ASSUME NEW Q, NEW queue \in Seq(Q), NEW m,
           \A i, j \in DOMAIN queue : queue[i] = queue[j] => i = j
    PROVE  LET rest == Dequeue(queue, m)
           IN  /\ rest \in Seq(Q) /\ Range(rest) \subseteq Range(queue)
               /\ m \notin Range(rest)
               /\ \A i, j \in DOMAIN rest : rest[i] = rest[j] => i = j
<1> DEFINE rest == Dequeue(queue, m)
           at == CHOOSE i \in DOMAIN queue : queue[i] = m
<1>1. DOMAIN queue = 1..Len(queue) /\ Len(queue) \in Nat
  OBVIOUS
<1>2. CASE ~Contains(queue, m)
  <2>1. rest = queue
    BY <1>2 DEF Dequeue
  <2>2. m \notin Range(queue)
    BY <1>1, <1>2 DEF Contains, Range
  <2> QED  BY <2>1, <2>2
<1>3. CASE Contains(queue, m)
  <2>1. at \in 1..Len(queue) /\ queue[at] = m
    BY <1>1, <1>3 DEF Contains
  <2>2. rest = RemoveAt(queue, at)
    BY <1>3 DEF Dequeue
  <2> HIDE DEF rest, at
  <2>3. /\ rest \in Seq(Q) /\ Len(rest) = Len(queue) - 1
        /\ \A i \in 1..(Len(queue) - 1) :
             rest[i] = IF i < at THEN queue[i] ELSE queue[i + 1]
    BY <2>1, <2>2, RemoveAtIs
  <2>4. DOMAIN rest = 1..(Len(queue) - 1)
    BY <2>3
  <2> DEFINE Old(i) == IF i < at THEN i ELSE i + 1
  <2>5. /\ \A i \in 1..(Len(queue) - 1) : /\ Old(i) \in 1..Len(queue) /\ Old(i) # at
                                          /\ rest[i] = queue[Old(i)]
        /\ \A i, j \in 1..(Len(queue) - 1) : Old(i) = Old(j) => i = j
    BY <1>1, <2>1, <2>3
  <2> HIDE DEF Old
  <2>6. Range(rest) \subseteq Range(queue) /\ m \notin Range(rest)
    BY <1>1, <2>1, <2>4, <2>5 DEF Range
  <2>7. \A i, j \in DOMAIN rest : rest[i] = rest[j] => i = j
    BY <1>1, <2>4, <2>5
  <2> QED  BY <2>3, <2>6, <2>7 DEF rest
<1> QED  BY <1>2, <1>3

\* One more envelope of a failed expansion is taken back.
LEMMA UnwindKeeps ==
    ASSUME Flat, RestartInv, tree' = tree, Unwind, UNCHANGED <<cleanerVars, faults>>
    PROVE  RestartInv'
<1>1. /\ pc = "unwind" /\ pc \in Unwinding
      /\ UNCHANGED <<Efile, Dfile, Tfile>> /\ UNCHANGED spool
      /\ UNCHANGED <<up, role, cur, out, written, puntq, settled>>
  BY DEF Unwind, Unwinding, spool
<1>2. /\ pc \notin CallLabel /\ At = pc /\ pc \in RunnerLabel /\ up /\ Queues
      /\ cur \in Original /\ cur \notin Queued /\ cur \in Efile["fast"] /\ cur \in Id
      /\ unwind \subseteq Child(cur) /\ unwind \subseteq Efile["fast"]
      /\ unwind \intersect puntq = {}
      /\ \A h \in HostsOf(cur) : On(Efile, h) => h \in unwind
      /\ \A e \in unwind : Nobody(Efile, e)
      /\ \A o \in Original : \A h \in HostsOf(o) : Pair(Efile, o, h) => o = cur
      /\ cur \notin Child(cur) /\ "fast" \in Dir
  BY <1>1, UnwindingIs DEF Dir
<1>3. Files'
  BY <1>1, SameSpool DEF RestartInv
<1>4. CASE unwind = {} /\ pc' = "failed" /\ UNCHANGED <<call, unwind, unexpanded, hostq>>
  <2>1. Calling' /\ At' = pc' /\ pc' \notin CallLabel /\ pc' \in RunnerLabel
    BY <1>4, NotCalling DEF RunnerLabel
  <2>2. Queued' = Queued
    BY <1>1, <1>4 DEF Queued
  <2>3. Queues'
    BY <1>1, <1>2, <1>4, <2>1, <2>2, SameTree DEF Queues
  <2>4. Expanding'
    BY <1>1, <1>2, <1>4, <2>1, <2>2, SameTree DEF Expanding, Writing, Unwinding
  <2>5. \A o \in Original : \A h \in HostsOf(o) : ~Pair(Efile, o, h)
    BY <1>2, <1>4 DEF Pair
  <2> QED  BY <1>1, <1>2, <1>3, <2>1, <2>3, <2>4, <2>5, RunnerKeeps
<1>5. ASSUME NEW k \in unwind, unwind' = unwind \ {k}, hostq' = hostq \ {k},
             unexpanded' = Dequeue(unexpanded, k), Call(k, "fast", None, "unwind")
      PROVE  RestartInv'
  <2>1. k \in Child(cur) /\ k \in Efile["fast"] /\ k \in Original \union Host /\ k \notin puntq
    BY <1>2, <1>5, FamilyIs DEF HostsOf, Original
  <2>2. /\ Calling' /\ At' = "unwind" /\ pc' = "unlinkE" /\ pc' \in CallLabel
        /\ call'.id = k /\ call'.from = "fast" /\ call'.to = None
    <3> DEFINE G == [Efile EXCEPT !["fast"] = @ \ {k}]
    <3>1. Table(Efile) /\ Complete(Efile, settled) /\ Kept(Efile, settled)
      BY DEF RestartInv, Files, Table
    <3>2. On(Efile, cur) /\ Nobody(Efile, k)
      BY <1>2, <1>5 DEF On
    <3>3. Complete(G, settled) /\ Kept(G, settled)
      BY <1>2, <2>1, <3>1, <3>2, DropChild
    <3> HIDE DEF G
    <3>4. Complete(G, settled') /\ Kept(G, settled')
      BY <1>1, <3>3
    <3>5. /\ "unwind" \in RunnerReturn \union {"delete", "toSlow"}
          /\ None \in Dir \union {None} /\ "fast" # None /\ Files
      BY <1>2, NoneAssumption DEF RunnerReturn, RestartInv
    <3> QED  BY <1>1, <1>2, <1>5, <2>1, <3>4, <3>5, CalledIs DEF G
  <2>3. /\ unexpanded' \in Seq(Id) /\ Range(unexpanded') \subseteq Range(unexpanded)
        /\ k \notin Range(unexpanded')
        /\ \A i, j \in DOMAIN unexpanded' : unexpanded'[i] = unexpanded'[j] => i = j
    BY <1>2, <1>5, DequeueIs DEF Queues
  <2>4. k \notin Queued' /\ Queued' \subseteq Queued
    BY <1>1, <1>5, <2>1, <2>3 DEF Queued
  <2>5. Queues'
    <3>1. \A i \in DOMAIN unexpanded' : unexpanded'[i] \notin Host
      <4>1. \A x \in Range(unexpanded) : x \notin Host
        BY <1>2 DEF Queues, Range
      <4> QED  BY <2>3, <4>1 DEF Range
    <3> QED  BY <1>1, <1>2, <1>5, <2>2, <2>3, <2>4, <3>1, SameTree DEF Queues
  <2>6. Expanding'
    <3>1. /\ cur' = cur /\ puntq' = puntq /\ pc' = "unlinkE" /\ At' = "unwind"
          /\ At' \in Unwinding /\ At' \notin Writing \union {"expand", "failed"}
          /\ unwind' = unwind \ {k} /\ Efile' = Efile
      BY <1>1, <1>5, <2>2 DEF Unwinding, Writing
    <3>2. /\ unwind' \subseteq Child(cur) /\ unwind' \subseteq Efile["fast"]
          /\ unwind' \intersect puntq = {}
          /\ \A h \in HostsOf(cur) : On(Efile, h) => h \in unwind' \/ h = k
          /\ \A e \in unwind' : Nobody(Efile, e)
          /\ k \notin unwind' /\ cur \notin Queued'
      BY <1>2, <1>5, <2>4
    <3>3. pc' \notin {"expand", "failed", "createT", "renameT", "unlinkOut"} \union Writing
      BY <3>1 DEF Writing
    <3> QED  BY <1>2, <2>1, <2>2, <3>1, <3>2, <3>3, SameTree DEF Expanding,
        Nobody, On
  <2>7. Busy' = cur
    BY <1>1, <2>2 DEF Busy, Unwinding
  <2> QED  BY <1>1, <1>2, <1>3, <2>2, <2>5, <2>6, <2>7,
      RunnerKeeps DEF RunnerLabel
<1> QED  BY <1>4, <1>5 DEF Unwind


---------------------------------------------------------------------------
(* The clean-up.                                                           *)

\* What its steps leave alone.
CleanerFrame == UNCHANGED <<runnerVars, settled, faults>>

\* A step of it.
LEMMA CleanerKeeps ==
    ASSUME RestartInv, tree' = tree, CleanerFrame, UNCHANGED Efile, Files',
           At \notin RunnerLabel, At' \notin RunnerLabel,
           Calling', Cleaning', pc' \in {"idle"} \union CallLabel \union CleanerLabel,
           up' = FALSE
    PROVE  RestartInv'
<1>1. Together'
  BY SameTree DEF RestartInv, Together, Pair, On
<1>2. Running' /\ Resting'
  BY NoRunnerIs DEF CleanerFrame, RestartInv
<1>3. Settled'
  BY DEF Settled
<1> QED  BY <1>1, <1>2, <1>3 DEF RestartInv

\* The process ends, and the daemon does not run.
LEMMA EndKeeps ==
    ASSUME RestartInv, tree' = tree, CleanerFrame, UNCHANGED spool,
           At \notin RunnerLabel, pc' = "idle", up' = FALSE
    PROVE  RestartInv'
<1>1. Files' /\ UNCHANGED Efile
  BY SameSpool DEF RestartInv, CleanerFrame, spool
<1>2. At' = "idle" /\ pc' \notin CallLabel
  BY DEF At, CallLabel
<1>3. Calling' /\ Cleaning' /\ At' \notin RunnerLabel
  BY <1>2 DEF Calling, Cleaning, CleanerLabel, RunnerLabel
<1> QED  BY <1>1, <1>3, CleanerKeeps

\* A label of the clean-up.
LEMMA NotCalled ==
    ASSUME pc' \in CleanerLabel
    PROVE  /\ Calling' /\ At' = pc' /\ pc' \notin CallLabel /\ At' \notin RunnerLabel
           /\ Moving' = {}
BY DEF At, Calling, CallLabel, CleanerLabel, RunnerLabel, Moving

\* simta or simta -C starts to clean up.
LEMMA StartKeeps ==
    ASSUME RestartInv, tree' = tree, NEW c \in BOOLEAN, Start(c), CleanerFrame
    PROVE  RestartInv'
<1>1. /\ pc = "idle" /\ ~up /\ pc' = "scan" /\ up' = FALSE /\ pc' \in CleanerLabel
      /\ At \notin RunnerLabel /\ UNCHANGED spool /\ UNCHANGED Efile
      /\ scanned' = "slow" /\ collided' = FALSE
  BY DEF Start, NoCleaner, At, CallLabel, RunnerLabel, CleanerLabel, spool,
         RestartInv, Settled
<1>2. Files'
  BY <1>1, SameSpool DEF RestartInv, CleanerFrame
<1>3. Calling' /\ At' = "scan" /\ pc' \notin CallLabel /\ At' \notin RunnerLabel
  BY <1>1, NotCalled
<1>4. Cleaning'
  BY <1>1, <1>3 DEF Cleaning, Dir
<1> QED  BY <1>1, <1>2, <1>3, <1>4, CleanerKeeps

\* What a step of the clean-up finds.
LEMMA CleanerIs ==
    ASSUME RestartInv, pc \in CleanerLabel
    PROVE  /\ At = pc /\ pc \notin CallLabel /\ At \notin RunnerLabel /\ Moving = {}
           /\ up = FALSE /\ Cleaning
BY DEF RestartInv, Cleaning, At, CallLabel, CleanerLabel, RunnerLabel, Moving,
   Settled

\* q_cleanup reads a directory.
LEMMA ScanKeeps ==
    ASSUME RestartInv, tree' = tree, Scan, CleanerFrame
    PROVE  RestartInv'
<1>1. pc = "scan" /\ pc \in CleanerLabel /\ UNCHANGED <<spool, call>> /\ UNCHANGED Efile
  BY DEF Scan, CleanerLabel, spool
<1>2. At = pc /\ At \notin RunnerLabel /\ up = FALSE /\ Cleaning
  BY <1>1, CleanerIs
<1>3. CASE BadFilesystem(scanned)
  <2>1. pc' = "idle" /\ up' = FALSE
    BY <1>3 DEF Scan, Finish
  <2> QED  BY <1>1, <1>2, <2>1, EndKeeps
<1>4. CASE ~BadFilesystem(scanned)
  <2>1. /\ trash' = (IF clean /\ scanned # "local" THEN Stranded(scanned) ELSE {})
        /\ list' = Whole(scanned) /\ pc' = "trash" /\ pc' \in CleanerLabel
        /\ UNCHANGED <<up, clean, scanned, doomed, slowList, collided>>
    BY <1>4 DEF Scan, CleanerLabel
  <2>2. /\ Calling' /\ At' = "trash" /\ pc' \notin CallLabel /\ At' \notin RunnerLabel
        /\ Moving' = {}
    BY <2>1, NotCalled
  <2>3. Files'
    BY <1>1, SameSpool DEF RestartInv, CleanerFrame
  <2>4. scanned \in Dir /\ Efile[scanned] \subseteq Dfile[scanned] /\ Dfile[scanned] \subseteq Id
        /\ Tfile[scanned] \subseteq Id
    BY <1>1, <1>2 DEF Cleaning, RestartInv, Files
  <2>5. list' = Efile[scanned]
    BY <2>1, <2>4 DEF Whole
  <2>6. ~clean /\ scanned = "fast" => Efile["fast"] = {}
    BY <1>4 DEF BadFilesystem
  <2>7. \A f \in trash' : f \in {"D", "t"} \X Id /\ (f[1] = "D" => f[2] \notin Efile[scanned])
    BY <2>1, <2>4 DEF Stranded
  <2>8. /\ scanned = "local" => Efile["fast"] = {}
        /\ ~collided
        /\ scanned # "slow" => Efile["slow"] \subseteq slowList /\ slowList \subseteq Efile["slow"]
    BY <1>1, <1>2 DEF Cleaning
  <2>9. Cleaning'
    BY <1>1, <1>2, <2>1, <2>2, <2>4, <2>5, <2>6, <2>7, <2>8 DEF Cleaning
  <2> QED  BY <1>1, <1>2, <2>1, <2>2, <2>3, <2>9, CleanerKeeps
<1> QED  BY <1>3, <1>4

\* A file that belongs to no envelope is removed.
LEMMA UnlinkTrashKeeps ==
    ASSUME RestartInv, tree' = tree, UnlinkTrash, CleanerFrame
    PROVE  RestartInv'
<1>1. pc = "trash" /\ pc \in CleanerLabel /\ UNCHANGED Efile /\ pc' = pc
      /\ UNCHANGED <<call, up, clean, scanned, list, doomed, slowList, collided>>
  BY DEF UnlinkTrash, CleanerLabel
<1>2. At = pc /\ At \notin RunnerLabel /\ up = FALSE /\ Cleaning /\ Moving = {}
  BY <1>1, CleanerIs
<1>3. PICK f \in trash :
        /\ trash' = trash \ {f}
        /\ Dfile' = [Dfile EXCEPT ![scanned] = IF f[1] = "D" THEN @ \ {f[2]} ELSE @]
        /\ Tfile' = [Tfile EXCEPT ![scanned] = IF f[1] = "t" THEN @ \ {f[2]} ELSE @]
  BY DEF UnlinkTrash
<1>4. scanned \in Dir /\ (f[1] = "D" => f[2] \notin Efile[scanned])
  BY <1>1, <1>2 DEF Cleaning
<1>5. /\ Dfile' \in [Dir -> SUBSET Id] /\ Tfile' \in [Dir -> SUBSET Id]
      /\ \A d \in Dir : Efile[d] \subseteq Dfile'[d]
  BY <1>3, <1>4 DEF RestartInv, Files
<1>6. Files'
  BY <1>1, <1>5, SameFiles DEF RestartInv, CleanerFrame
<1>7. /\ Calling' /\ At' = pc' /\ pc' \notin CallLabel /\ At' \notin RunnerLabel
      /\ Moving' = {}
  BY <1>1, NotCalled
<1>8. Cleaning'
  <2>1. \A g \in trash' : g \in {"D", "t"} \X Id /\ (g[1] = "D" => g[2] \notin Efile[scanned])
    BY <1>1, <1>2, <1>3 DEF Cleaning
  <2> QED  BY <1>1, <1>2, <1>7, <2>1 DEF Cleaning
<1> QED  BY <1>1, <1>2, <1>6, <1>7, <1>8, CleanerKeeps

\* A directory is read, and what follows depends on which it is.
LEMMA ScannedKeeps ==
    ASSUME RestartInv, tree' = tree, Scanned, CleanerFrame
    PROVE  RestartInv'
<1>1. /\ pc = "trash" /\ pc \in CleanerLabel /\ UNCHANGED <<spool, call>> /\ UNCHANGED Efile
      /\ UNCHANGED <<up, clean, doomed, collided>>
  BY DEF Scanned, CleanerLabel, spool
<1>2. At = pc /\ At \notin RunnerLabel /\ up = FALSE /\ Cleaning /\ Moving = {}
  BY <1>1, CleanerIs
<1>3. Files'
  BY <1>1, SameSpool DEF RestartInv, CleanerFrame
<1>4. /\ scanned \in Dir /\ ~collided
      /\ list \subseteq Efile[scanned] /\ Efile[scanned] \subseteq list
      /\ scanned = "local" => Efile["fast"] = {}
      /\ ~clean /\ scanned = "fast" => Efile["fast"] = {}
      /\ scanned # "slow" => Efile["slow"] \subseteq slowList /\ slowList \subseteq Efile["slow"]
  BY <1>1, <1>2 DEF Cleaning
<1>5. CASE scanned = "slow"
  <2>1. /\ slowList' = list /\ list' = {} /\ scanned' = "fast" /\ pc' = "scan"
        /\ pc' \in CleanerLabel
    BY <1>5 DEF Scanned, CleanerLabel
  <2>2. /\ Calling' /\ At' = "scan" /\ pc' \notin CallLabel /\ At' \notin RunnerLabel
    BY <2>1, NotCalled
  <2>3. Cleaning'
    BY <1>1, <1>2, <1>4, <1>5, <2>1, <2>2 DEF Cleaning, Dir
  <2> QED  BY <1>1, <1>2, <1>3, <2>1, <2>2, <2>3, CleanerKeeps
<1>6. CASE scanned = "fast"
  <2>1. /\ pc' = "mark" /\ UNCHANGED <<slowList, list, scanned>> /\ pc' \in CleanerLabel
    BY <1>6 DEF Scanned, CleanerLabel
  <2>2. /\ Calling' /\ At' = "mark" /\ pc' \notin CallLabel /\ At' \notin RunnerLabel
        /\ Moving' = {}
    BY <2>1, NotCalled
  <2>3. Cleaning'
    BY <1>1, <1>2, <1>4, <1>6, <2>1, <2>2 DEF Cleaning
  <2> QED  BY <1>1, <1>2, <1>3, <2>1, <2>2, <2>3, CleanerKeeps
<1>7. CASE scanned = "local"
  <2>1. /\ pc' = "toSlow" /\ UNCHANGED <<slowList, list, scanned>> /\ pc' \in CleanerLabel
    BY <1>7 DEF Scanned, CleanerLabel
  <2>2. /\ Calling' /\ At' = "toSlow" /\ pc' \notin CallLabel /\ At' \notin RunnerLabel
        /\ Moving' = {}
    BY <2>1, NotCalled
  <2>3. \A o \in Original : \A h \in HostsOf(o) : ~Pair(Efile, o, h)
    BY <1>4, <1>7 DEF RestartInv, Together, Pair, On
  <2>4. ToSlowInv'
    BY <1>1, <1>4, <1>7, <2>1, <2>2, <2>3, SameTree DEF ToSlowInv, Pair, On
  <2>5. Cleaning'
    BY <1>1, <1>2, <1>4, <1>7, <2>1, <2>2, <2>4 DEF Cleaning
  <2> QED  BY <1>1, <1>2, <1>3, <2>1, <2>2, <2>5, CleanerKeeps
<1> QED  BY <1>4, <1>5, <1>6, <1>7 DEF Dir


\* The assertions hold, and the envelopes beside their originals are found.
LEMMA MarkKeeps ==
    ASSUME Flat, RestartInv, tree' = tree, MarkExpansions, CleanerFrame
    PROVE  RestartInv'
<1>1. /\ pc = "mark" /\ pc \in CleanerLabel /\ UNCHANGED <<spool, call>> /\ UNCHANGED Efile
      /\ UNCHANGED <<up, clean, scanned, trash, list, slowList, collided>>
  BY DEF MarkExpansions, CleanerLabel, spool
<1>2. At = pc /\ At \notin RunnerLabel /\ up = FALSE /\ Cleaning /\ Moving = {}
  BY <1>1, CleanerIs
<1>3. Files'
  BY <1>1, SameSpool DEF RestartInv, CleanerFrame
<1>4. /\ scanned = "fast" /\ "fast" \in Dir /\ ~collided
      /\ list = Efile["fast"]
      /\ ~clean => list = {}
      /\ Efile["slow"] \subseteq slowList /\ slowList \subseteq Efile["slow"]
  BY <1>1, <1>2 DEF Cleaning, Dir
<1>5. list \in SUBSET (Original \union Host) /\ list \subseteq Dfile["fast"]
  BY <1>4 DEF RestartInv, Files
<1>6. PICK order \in IF clean THEN SetToSeqs(list) ELSE {<<>>} :
        IF Judgement(order).ok
        THEN pc' = "delete" /\ doomed' = Judgement(order).doomed
        ELSE pc' = "abort" /\ UNCHANGED doomed
  BY DEF MarkExpansions
<1>7. order \in SetToSeqs(list)
  <2>1. CASE clean
    BY <1>6, <2>1
  <2>2. CASE ~clean
    <3>1. list = {} /\ order = <<>> /\ Cardinality(list) = 0
      BY <1>4, <1>6, <2>2, FS_EmptySet
    <3>2. order \in [1..0 -> list] /\ \A i, j \in 1..0 : FALSE
      BY <3>1
    <3> QED  BY <3>1, <3>2 DEF SetToSeqs
  <2> QED  BY <2>1, <2>2
<1>8. /\ Judgement(order).ok
      /\ \A m \in Judgement(order).doomed : m \in list /\ m \in Host /\ tree.parent[m] \in list
      /\ \A o \in Original : \A h \in HostsOf(o) :
           o \in list /\ h \in list => h \in Judgement(order).doomed
  BY <1>4, <1>5, <1>7, DoomedIs
<1>9. pc' = "delete" /\ doomed' = Judgement(order).doomed /\ pc' \in CleanerLabel
  BY <1>6, <1>8 DEF CleanerLabel
<1>10. /\ Calling' /\ At' = "delete" /\ pc' \notin CallLabel /\ At' \notin RunnerLabel
       /\ Moving' = {}
  BY <1>9, NotCalled
<1>11. \A o \in Original : \A h \in HostsOf(o) : Pair(Efile, o, h) => h \in doomed'
  <2> SUFFICES ASSUME NEW o \in Original, NEW h \in HostsOf(o), Pair(Efile, o, h)
               PROVE  o \in Efile["fast"] /\ h \in Efile["fast"]
    BY <1>4, <1>8, <1>9
  <2>1. \A d \in Dir : o \in Efile[d] \/ h \in Efile[d] => d = "fast"
    BY DEF RestartInv, Together
  <2> QED  BY <2>1 DEF Pair, On
<1>12. Deleting'
  BY <1>1, <1>4, <1>8, <1>9, <1>10, <1>11, SameTree DEF Deleting, Pair, On
<1>13. Cleaning'
  BY <1>1, <1>2, <1>4, <1>9, <1>10, <1>12 DEF Cleaning
<1> QED  BY <1>1, <1>2, <1>3, <1>9, <1>10, <1>13, CleanerKeeps

\* A copy whose original is there is deleted.
LEMMA DeleteDoomedKeeps ==
    ASSUME Flat, RestartInv, tree' = tree, DeleteDoomed, CleanerFrame
    PROVE  RestartInv'
<1>1. /\ pc = "delete" /\ pc \in CleanerLabel /\ UNCHANGED spool /\ UNCHANGED Efile
      /\ UNCHANGED <<up, clean, scanned, trash, slowList, collided>> /\ settled' = settled
  BY DEF DeleteDoomed, CleanerLabel, spool, CleanerFrame
<1>2. /\ At = pc /\ At \notin RunnerLabel /\ up = FALSE /\ Cleaning /\ Moving = {}
      /\ pc \notin CallLabel
  BY <1>1, CleanerIs
<1>3. Files'
  BY <1>1, SameSpool DEF RestartInv
<1>4. /\ scanned = "fast" /\ "fast" \in Dir /\ ~collided /\ list = Efile["fast"]
      /\ doomed \subseteq list
      /\ \A h \in doomed : h \in Host /\ tree.parent[h] \in list
      /\ \A o \in Original : \A h \in HostsOf(o) : Pair(Efile, o, h) => h \in doomed
      /\ Efile["slow"] \subseteq slowList /\ slowList \subseteq Efile["slow"]
  BY <1>1, <1>2 DEF Cleaning, Deleting, Dir
<1>5. CASE doomed = {}
  <2>1. /\ pc' = "toSlow" /\ UNCHANGED <<call, doomed, list>> /\ pc' \in CleanerLabel
    BY <1>5 DEF DeleteDoomed, CleanerLabel
  <2>2. /\ Calling' /\ At' = "toSlow" /\ pc' \notin CallLabel /\ At' \notin RunnerLabel
        /\ Moving' = {}
    BY <2>1, NotCalled
  <2>3. ToSlowInv'
    BY <1>1, <1>4, <1>5, <2>1, <2>2, SameTree DEF ToSlowInv, Pair, On
  <2>4. Cleaning'
    BY <1>1, <1>2, <1>4, <2>1, <2>2, <2>3 DEF Cleaning
  <2> QED  BY <1>1, <1>2, <1>3, <2>1, <2>2, <2>4, CleanerKeeps
<1>6. CASE doomed # {}
  <2>1. PICK m \in doomed : /\ Call(m, scanned, None, "delete")
                            /\ doomed' = doomed \ {m}
                            /\ list' = list \ {m}
    BY <1>6 DEF DeleteDoomed
  <2>2. m \in Host /\ m \in Efile["fast"] /\ tree.parent[m] \in list
    BY <1>4
  <2>3. /\ tree.parent[m] \in Original /\ m \in Child(tree.parent[m]) /\ m \notin Original
        /\ \A o \in Original : m \notin HostsOf(o) \/ o = tree.parent[m]
        /\ HostsOf(m) = {}
    BY <2>2, FamilyIs DEF HostsOf
  <2>4. /\ Calling' /\ At' = "delete" /\ pc' = "unlinkE" /\ pc' \in CallLabel
        /\ call'.id = m /\ call'.from = "fast" /\ call'.to = None
    <3> DEFINE G == [Efile EXCEPT !["fast"] = @ \ {m}]
    <3>1. Table(Efile) /\ Complete(Efile, settled) /\ Kept(Efile, settled)
      BY DEF RestartInv, Files, Table
    <3>2. On(Efile, tree.parent[m]) /\ Nobody(Efile, m)
      BY <1>4, <2>2, <2>3 DEF On, Nobody
    <3>3. Complete(G, settled) /\ Kept(G, settled)
      BY <1>4, <2>3, <3>1, <3>2, DropChild
    <3> HIDE DEF G
    <3>4. Complete(G, settled') /\ Kept(G, settled')
      BY <1>1, <3>3
    <3>5. /\ "delete" \in RunnerReturn \union {"delete", "toSlow"}
          /\ None \in Dir \union {None} /\ "fast" # None /\ Files
      BY <1>4, NoneAssumption DEF RestartInv
    <3> QED  BY <1>1, <1>4, <2>1, <2>2, <3>4, <3>5, CalledIs DEF G
  <2>5. Moving' = {m} /\ At' \notin RunnerLabel
    BY <2>4 DEF Moving, RunnerLabel
  <2>6. Deleting'
    <3>1. \A h \in doomed' : h \in Host /\ tree.parent[h] \in list'
      BY <1>4, <2>1, <2>3, FamilyIs
    <3>2. tree.parent[m] \in list'
      BY <2>1, <2>2, <2>3
    <3>3. \A o \in Original : \A h \in HostsOf(o) : Pair(Efile, o, h) => h \in doomed' \/ h = m
      BY <1>4, <2>1
    <3> QED  BY <1>1, <1>4, <2>1, <2>2, <2>4, <3>1, <3>2, <3>3, SameTree
             DEF Deleting, Pair, On
  <2>7. Cleaning'
    BY <1>1, <1>2, <1>4, <2>1, <2>4, <2>5, <2>6 DEF Cleaning
  <2> QED  BY <1>1, <1>2, <1>3, <2>4, <2>5, <2>7, CleanerKeeps
<1> QED  BY <1>5, <1>6

\* An envelope is moved to slow, or found there already.
LEMMA ToSlowKeeps ==
    ASSUME Flat, RestartInv, tree' = tree, ToSlow, CleanerFrame
    PROVE  RestartInv'
<1>1. /\ pc = "toSlow" /\ pc \in CleanerLabel /\ UNCHANGED spool /\ UNCHANGED Efile
      /\ UNCHANGED <<up, clean, scanned, trash, doomed>> /\ settled' = settled
  BY DEF ToSlow, CleanerLabel, spool, CleanerFrame
<1>2. /\ At = pc /\ At \notin RunnerLabel /\ up = FALSE /\ Cleaning /\ Moving = {}
      /\ pc \notin CallLabel
  BY <1>1, CleanerIs
<1>3. Files'
  BY <1>1, SameSpool DEF RestartInv
<1>4. /\ scanned \in {"fast", "local"} /\ scanned \in Dir /\ scanned # "slow" /\ "slow" \in Dir
      /\ scanned = "local" => Efile["fast"] = {}
      /\ list \subseteq Efile[scanned] /\ (~collided => Efile[scanned] \subseteq list)
      /\ clean => ~collided
      /\ Efile["slow"] \subseteq slowList /\ slowList \subseteq Efile["slow"]
      /\ \A o \in Original : \A h \in HostsOf(o) : ~Pair(Efile, o, h)
  BY <1>1, <1>2 DEF Cleaning, ToSlowInv, Dir
<1>5. PICK m \in list :
        /\ list' = list \ {m}
        /\ \/ /\ m \notin slowList
              /\ Call(m, scanned, "slow", "toSlow")
              /\ slowList' = slowList \union {m}
              /\ UNCHANGED collided
           \/ /\ m \in slowList /\ clean
              /\ Call(m, scanned, None, "toSlow")
              /\ UNCHANGED <<slowList, collided>>
           \/ /\ m \in slowList /\ ~clean
              /\ collided' = TRUE
              /\ UNCHANGED <<pc, call, slowList>>
  BY DEF ToSlow
<1>6. m \in Efile[scanned] /\ m \in Original \union Host
  BY <1>4, <1>5 DEF RestartInv, Files
<1>7. ASSUME NEW to \in {"slow", None}, Call(m, scanned, to, "toSlow"),
             IF to = None THEN m \in slowList ELSE m \notin slowList,
             slowList' = slowList \union {m}, UNCHANGED collided
      PROVE  RestartInv'
  <2>1. to # scanned /\ to \in Dir \union {None} /\ "slow" # None
    BY <1>4, NoneAssumption
  <2>2. to # None => m \notin Efile[to]
    BY <1>4, <1>7, <2>1
  <2>3. to = None => m \in Efile["slow"]
    BY <1>4, <1>7
  <2>4. /\ Calling' /\ At' = "toSlow" /\ pc' = (IF to = None THEN "unlinkE" ELSE "linkD")
        /\ pc' \in CallLabel /\ call'.id = m /\ call'.from = scanned /\ call'.to = to
    <3> DEFINE G == [Efile EXCEPT ![scanned] = @ \ {m}]
    <3>1. Table(Efile) /\ Complete(Efile, settled) /\ Kept(Efile, settled)
      BY DEF RestartInv, Files, Table
    <3>2. to = None => Complete(G, settled) /\ Kept(G, settled)
      BY <1>4, <2>3, <3>1, DropCopy
    <3> HIDE DEF G
    <3>3. to = None => Complete(G, settled') /\ Kept(G, settled')
      BY <1>1, <3>2
    <3>4. "toSlow" \in RunnerReturn \union {"delete", "toSlow"} /\ Files
      BY DEF RestartInv
    <3> QED  BY <1>1, <1>4, <1>6, <1>7, <2>1, <2>2, <3>3, <3>4, CalledIs DEF G
  <2>5. Moving' = {m} /\ At' \notin RunnerLabel
    BY <2>4 DEF Moving, RunnerLabel
  <2>6. ToSlowInv'
    BY <1>1, <1>4, <1>7, <2>3, <2>4, SameTree DEF ToSlowInv, Pair, On
  <2>7. /\ list' \subseteq Efile[scanned] /\ m \notin list'
        /\ ~collided => Efile[scanned] \subseteq list' \union {m}
        /\ Efile["slow"] \subseteq slowList' /\ slowList' \subseteq Efile["slow"] \union {m}
    BY <1>4, <1>5, <1>7
  <2>8. pc' \notin {"abort", "trash"}
    BY <2>4
  <2>9. Cleaning'
    BY <1>1, <1>2, <1>4, <1>7, <2>4, <2>5, <2>6, <2>7, <2>8 DEF Cleaning
  <2> QED  BY <1>1, <1>2, <1>3, <2>4, <2>5, <2>9, CleanerKeeps
<1>8. CASE m \in slowList /\ ~clean /\ collided' = TRUE /\ UNCHANGED <<pc, call, slowList>>
  <2>1. /\ Calling' /\ At' = "toSlow" /\ pc' \notin CallLabel /\ At' \notin RunnerLabel
        /\ Moving' = {} /\ pc' \in CleanerLabel
    BY <1>1, <1>8, NotCalled
  <2>2. ToSlowInv'
    BY <1>1, <1>4, <1>8, <2>1, SameTree DEF ToSlowInv, Pair, On
  <2>3. Cleaning'
    BY <1>1, <1>2, <1>4, <1>5, <1>8, <2>1, <2>2 DEF Cleaning
  <2> QED  BY <1>1, <1>2, <1>3, <2>1, <2>3, CleanerKeeps
<1>9. CASE /\ m \notin slowList
           /\ Call(m, scanned, "slow", "toSlow")
           /\ slowList' = slowList \union {m}
           /\ UNCHANGED collided
  BY <1>4, <1>7, <1>9, NoneAssumption
<1>10. CASE /\ m \in slowList /\ clean
            /\ Call(m, scanned, None, "toSlow")
            /\ UNCHANGED <<slowList, collided>>
  BY <1>7, <1>10
<1> QED  BY <1>5, <1>8, <1>9, <1>10

\* After fast comes local; after local, or a collision, the end.
LEMMA MovedToSlowKeeps ==
    ASSUME Flat, RestartInv, tree' = tree, MovedToSlow, CleanerFrame
    PROVE  RestartInv'
<1>1. /\ pc = "toSlow" /\ pc \in CleanerLabel /\ UNCHANGED <<spool, call>>
      /\ UNCHANGED Efile /\ list = {}
  BY DEF MovedToSlow, CleanerLabel, spool
<1>2. At = pc /\ At \notin RunnerLabel /\ up = FALSE /\ Cleaning /\ Moving = {}
  BY <1>1, CleanerIs
<1>3. Files'
  BY <1>1, SameSpool DEF RestartInv, CleanerFrame
<1>4. /\ scanned \in {"fast", "local"}
      /\ scanned = "local" => Efile["fast"] = {}
      /\ ~collided => Efile[scanned] = {}
      /\ Efile["slow"] \subseteq slowList /\ slowList \subseteq Efile["slow"]
      /\ \A o \in Original : \A h \in HostsOf(o) : ~Pair(Efile, o, h)
  BY <1>1, <1>2 DEF Cleaning, ToSlowInv
<1>5. CASE scanned = "fast" /\ ~collided
  <2>1. /\ scanned' = "local" /\ pc' = "scan" /\ pc' \in CleanerLabel
        /\ UNCHANGED <<up, clean, trash, list, doomed, slowList, collided>>
    BY <1>5 DEF MovedToSlow, CleanerLabel
  <2>2. /\ Calling' /\ At' = "scan" /\ pc' \notin CallLabel /\ At' \notin RunnerLabel
        /\ Moving' = {}
    BY <2>1, NotCalled
  <2>3. Cleaning'
    BY <1>1, <1>2, <1>4, <1>5, <2>1, <2>2 DEF Cleaning, Dir
  <2> QED  BY <1>1, <1>2, <1>3, <2>1, <2>2, <2>3, CleanerKeeps
<1>6. CASE ~(scanned = "fast" /\ ~collided)
  <2>1. pc' = "idle" /\ up' = (~collided /\ ~clean)
    BY <1>6 DEF MovedToSlow, Finish
  <2>2. CASE ~up'
    <3>1. up' = FALSE
      BY <2>1, <2>2
    <3> QED  BY <1>1, <1>2, <2>1, <3>1, EndKeeps
  <2>3. CASE up'
    <3>1. Efile["local"] = {} /\ Efile["fast"] = {}
      BY <1>4, <1>6, <2>1, <2>3
    <3>2. OnePlace'
      BY <1>1, <3>1 DEF OnePlace, Dir
    <3>3. Apart'
      BY <1>1, <1>4, SameTree DEF Apart, Pair, On
    <3>4. At' = "idle" /\ pc' \notin CallLabel /\ At' \notin RunnerLabel \union CleanerLabel
      BY <2>1 DEF At, CallLabel, RunnerLabel, CleanerLabel
    <3>5. Settled'
      BY <2>1, <3>2, <3>3, <3>4 DEF Settled
    <3>6. Calling' /\ Cleaning'
      BY <3>4 DEF Calling, Cleaning
    <3>7. Running' /\ Resting'
      BY <1>2, <3>4, NoRunnerIs DEF CleanerFrame, RestartInv
    <3>8. Together'
      BY <1>1, SameTree DEF RestartInv, Together, Pair, On
    <3> QED  BY <1>3, <3>5, <3>6, <3>7, <3>8 DEF RestartInv
  <2> QED  BY <2>2, <2>3
<1> QED  BY <1>5, <1>6

\* Every step of the clean-up.
LEMMA CleanerStepKeeps ==
    ASSUME Flat, RestartInv, tree' = tree, CleanerStep, CleanerFrame
    PROVE  RestartInv'
<1>1. ~Abort
  BY DEF Abort, RestartInv, Cleaning, At, CallLabel, CleanerLabel
<1> QED  BY <1>1, ScanKeeps, UnlinkTrashKeeps, ScannedKeeps, MarkKeeps,
    DeleteDoomedKeeps,
            ToSlowKeeps, MovedToSlowKeeps DEF CleanerStep


---------------------------------------------------------------------------
(* The system.                                                             *)

\* The message that was just accepted.
LEMMA StartsWell ==
    ASSUME Ungrouped(tree), Init
    PROVE  RestartInv
<1>1. tree \in Tree /\ Flat
  BY DEF Init, Flat
<1>2. PICK d \in {"local", "fast"} :
        /\ Efile = [e \in Dir |-> IF e = d THEN {Root} ELSE {}]
        /\ role = IF d = "fast" THEN "receive" ELSE "local"
  BY DEF Init
<1>3. /\ d \in Dir /\ Root \in Original /\ Root \in Id /\ Root \notin Host
      /\ Efile[d] = {Root} /\ \A e \in Dir : e # d => Efile[e] = {}
      /\ Table(Efile)
  BY <1>1, <1>2, FamilyIs DEF Dir, Table
<1>4. \A m : On(Efile, m) <=> m = Root
  BY <1>3 DEF On
<1>5. /\ Dfile = Efile /\ Tfile = [e \in Dir |-> {}] /\ up = TRUE /\ settled = {}
      /\ pc = (IF role = "receive" THEN "deliver" ELSE "idle")
      /\ unexpanded = (IF role = "receive" THEN <<Root>> ELSE <<>>)
      /\ hostq = {} /\ puntq = {}
  BY DEF Init
<1>6. \A o \in Original : \A h \in HostsOf(o) : ~Pair(Efile, o, h)
  BY <1>1, <1>3, <1>4, FamilyIs DEF Pair
<1>7. Files
  <2>1. Complete(Efile, settled)
    BY <1>1, <1>3, <1>4, FamilyIs DEF Complete
  <2>2. Kept(Efile, settled)
    BY <1>1, <1>4, LineIs DEF Kept
  <2>3. Efile \in [Dir -> SUBSET Id]
    BY <1>1, <1>3, FamilyIs DEF Table
  <2>4. Tfile \in [Dir -> SUBSET Id]
    BY <1>5
  <2> QED  BY <1>1, <1>3, <1>5, <2>1, <2>2, <2>3, <2>4 DEF Files, Table
<1>8. Together
  BY <1>6 DEF Together
<1>9. /\ pc \in {"idle", "deliver"} /\ pc \notin CallLabel /\ At = pc
      /\ At \notin CleanerLabel
  BY <1>5 DEF At, CallLabel, CleanerLabel
<1>10. Calling /\ Cleaning
  BY <1>9 DEF Calling, Cleaning
<1>11. Settled
  <2>1. OnePlace
    BY <1>3 DEF OnePlace
  <2>2. Apart
    BY <1>6 DEF Apart
  <2> QED  BY <1>5, <1>9, <2>1, <2>2 DEF Settled, RunnerLabel
<1>12. CASE d = "fast"
  <2>1. pc = "deliver" /\ role = "receive" /\ unexpanded = <<Root>>
    BY <1>2, <1>5, <1>12
  <2>2. /\ unexpanded \in Seq(Id) /\ DOMAIN unexpanded = {1} /\ unexpanded[1] = Root
    BY <1>3, <2>1
  <2>3. Queued = {Root}
    BY <1>5, <2>2 DEF Queued, Range
  <2>4. Queues
    BY <1>3, <1>5, <1>9, <1>12, <2>2, <2>3 DEF Queues
  <2>5. Expanding
    BY <1>9, <2>1 DEF Expanding, Writing, Unwinding
  <2> QED  BY <1>5, <1>7, <1>8, <1>9, <1>10, <1>11, <2>1, <2>4, <2>5
           DEF RestartInv, Running, Resting, RunnerLabel
<1>13. CASE d = "local"
  <2>1. pc = "idle" /\ unexpanded = <<>>
    BY <1>2, <1>5, <1>13
  <2> QED  BY <1>5, <1>7, <1>8, <1>9, <1>10, <1>11, <2>1
           DEF RestartInv, Running, Resting, RunnerLabel
<1> QED  BY <1>12, <1>13

\* The process dies at any step.
LEMMA CrashKeeps ==
    ASSUME RestartInv, tree' = tree, Crash
    PROVE  RestartInv'
<1>1. /\ pc' = "idle" /\ up' = FALSE /\ NoRunner /\ UNCHANGED spool /\ settled' = settled
  BY DEF Crash
<1>2. Files' /\ Together'
  BY <1>1, SameSpool DEF RestartInv
<1>3. At' = "idle" /\ pc' \notin CallLabel /\ At' \notin RunnerLabel \union CleanerLabel
  BY <1>1 DEF At, CallLabel, RunnerLabel, CleanerLabel
<1>4. Calling' /\ Cleaning' /\ Settled'
  BY <1>1, <1>3 DEF Calling, Cleaning, Settled
<1>5. Running' /\ Resting'
  BY <1>1, <1>3 DEF Running, Resting, NoRunner
<1> QED  BY <1>2, <1>4, <1>5 DEF RestartInv

\* What the invariant is about.
restartVars == <<spool, up, pc, call, cleanerVars, runnerVars, settled>>

\* A step of nothing the invariant is about.
LEMMA StutterKeeps ==
    ASSUME RestartInv, tree' = tree, UNCHANGED restartVars
    PROVE  RestartInv'
<1>1. /\ UNCHANGED spool /\ UNCHANGED <<up, pc, call, settled>>
      /\ UNCHANGED cleanerVars /\ UNCHANGED runnerVars
  BY DEF restartVars
<1>2. UNCHANGED <<Efile, Dfile, Tfile>>
  BY <1>1 DEF spool
<1>3. Files' /\ Together'
  BY <1>1, SameSpool DEF RestartInv
<1>4. At' = At /\ Busy' = Busy /\ Moving' = Moving /\ Queued' = Queued /\ Unlinked' = Unlinked
  BY <1>1, <1>2 DEF At, Busy, Moving, Queued, Unlinked, runnerVars
<1>5. Calling'
  <2>1. Complete(Unlinked, settled)' <=> Complete(Unlinked, settled)
    BY <1>1, <1>4, SameTree DEF Complete, On
  <2>2. Kept(Unlinked, settled)' <=> Kept(Unlinked, settled)
    BY <1>1, <1>4, SameTree DEF Kept, On
  <2> QED  BY <1>1, <1>2, <1>4, <2>1, <2>2, SameTree DEF RestartInv, Calling
<1>6. Settled'
  BY <1>1, <1>2, <1>4, SameTree
     DEF RestartInv, Settled, OnePlace, Apart, Pair, On
<1>7. Queues => Queues'
  BY <1>1, <1>2, <1>4, SameTree DEF Queues, runnerVars
<1>8. Expanding => Expanding'
  BY <1>1, <1>2, <1>4, SameTree DEF Expanding, Nobody, On, runnerVars
<1>9. Running' /\ Resting'
  BY <1>1, <1>4, <1>7, <1>8 DEF RestartInv, Running, Resting, runnerVars
<1>10. Cleaning'
  BY <1>1, <1>2, <1>4, SameTree
     DEF RestartInv, Cleaning, Deleting, ToSlowInv, Pair, On, cleanerVars
<1> QED  BY <1>3, <1>5, <1>6, <1>9, <1>10 DEF RestartInv

\* Every step.
LEMMA StepKeeps ==
    ASSUME Ungrouped(tree), RestartInv, [Next]_vars
    PROVE  RestartInv'
<1>1. Flat
  BY DEF RestartInv, Files, Flat
<1>2. tree' = tree
  BY DEF Next, vars
<1>3. CASE Run
  <2>1. UNCHANGED <<cleanerVars, faults>>
    BY <1>3 DEF Run
  <2>2. CASE (Launch("local") \/ Launch("slow")) /\ UNCHANGED settled
    BY <1>1, <1>2, <2>1, <2>2, LaunchKeeps
  <2>3. CASE Deliver \/ PuntDeliver \/ NextUnexpanded \/ ExpandFailed \/ LeftOver
    BY <1>1, <1>2, <2>1, <2>3, DeliverKeeps, PuntDeliverKeeps, NextKeeps,
       ExpandFailedKeeps,
       LeftOverKeeps
  <2>4. CASE \/ Expand \/ WriteDfile \/ CreateT \/ RenameT \/ DeleteOriginal
             \/ UnlinkOut \/ Unwind
    BY <1>1, <1>2, <2>1, <2>4, ExpandKeeps, WriteDfileKeeps, CreateTKeeps,
       RenameTKeeps,
       DeleteOriginalKeeps, UnlinkOutKeeps, UnwindKeeps
  <2> QED  BY <1>3, <2>2, <2>3, <2>4 DEF Run
<1>4. CASE Fail
  BY <1>1, <1>2, <1>4, OutfileFailsKeeps, WriteFailsKeeps DEF Fail
<1>5. CASE CallStep
  BY <1>1, <1>2, <1>5, CallKeeps
<1>6. CASE CleanUp
  BY <1>1, <1>2, <1>6, CleanerStepKeeps DEF CleanUp, CleanerFrame
<1>7. CASE \E c \in BOOLEAN : StartUp(c)
  BY <1>2, <1>7, StartKeeps DEF StartUp, CleanerFrame
<1>8. CASE Crash
  BY <1>2, <1>8, CrashKeeps
<1>9. CASE GetOld \/ Done
  <2>1. UNCHANGED restartVars
    BY <1>9 DEF GetOld, Done, restartVars, worldVars
  <2> QED  BY <1>2, <2>1, StutterKeeps
<1>10. CASE UNCHANGED vars
  <2>1. UNCHANGED restartVars
    BY <1>10 DEF vars, worldVars, restartVars
  <2> QED  BY <1>2, <2>1, StutterKeeps
<1> QED  BY <1>3, <1>4, <1>5, <1>6, <1>7, <1>8, <1>9, <1>10 DEF Next, Work

\* A tree without groups stays one.
LEMMA StillUngrouped ==
    ASSUME [Next]_vars
    PROVE  tree' = tree /\ (Ungrouped(tree)' <=> Ungrouped(tree))
<1>1. tree' = tree
  BY DEF Next, vars
<1> QED  BY <1>1 DEF Ungrouped

\* The invariant of q_runner, expand and q_cleanup together: the fault of no call,
\* no death, no restart and no clean-up breaks it.
THEOREM RestartSound == Spec => [](Ungrouped(tree) => RestartInv)
<1>1. Init => (Ungrouped(tree) => RestartInv)
  BY StartsWell
<1>2. (Ungrouped(tree) => RestartInv) /\ [Next]_vars
        => (Ungrouped(tree) => RestartInv)'
  BY StepKeeps, StillUngrouped
<1> QED  BY <1>1, <1>2, PTL DEF Spec

---------------------------------------------------------------------------
(* What the runs check.                                                    *)

\* Expansion.NoLoss: whatever q_runner, expand and q_cleanup do and wherever they
\* die, an envelope that was not settled is on the disk, or what it comes from is.
THEOREM NothingLost == Spec => [](Ungrouped(tree) => NoLoss)
<1>1. Ungrouped(tree) /\ RestartInv => NoLoss
  <2> SUFFICES ASSUME Ungrouped(tree), RestartInv, NEW h \in Host \ settled
               PROVE  \E m \in Line(h), d \in Dir : m \in Whole(d)
    BY DEF NoLoss
  <2>1. PICK m \in Line(h) : On(Efile, m)
    BY DEF RestartInv, Files, Kept
  <2> QED  BY <2>1 DEF RestartInv, Files, On, Whole
<1> QED  BY <1>1, RestartSound, PTL

\* Expansion.OneHolder: when the daemon runs and no runner is at work, a message or
\* what q_expansion_cleanup left of its expansion is there, not both, and once.
THEOREM OneHolds == Spec => [](Ungrouped(tree) => OneHolder)
<1>1. Ungrouped(tree) /\ RestartInv => OneHolder
  <2> SUFFICES ASSUME Ungrouped(tree), RestartInv, pc = "idle", up, NEW h \in Host,
                      \A m \in Line(h) : tree.kind[m] # "error"
               PROVE  Cardinality({f \in Line(h) \X Dir : f[1] \in Efile[f[2]]}) <= 1
    BY DEF OneHolder
  <2> DEFINE holders == {f \in Line(h) \X Dir : f[1] \in Efile[f[2]]}
  <2>1. Flat
    BY DEF RestartInv, Files, Flat
  <2>2. /\ pc \notin CallLabel \union Writing \union Unwinding
    BY DEF CallLabel, Writing, Unwinding
  <2>3. /\ Line(h) = {h, Root} /\ h \in HostsOf(Root) /\ Line(h) \subseteq Id
        /\ Root \in Original
    <3>1. Line(h) = {h, tree.parent[h], Root} /\ tree.parent[h] \in Original
          /\ h \in HostsOf(tree.parent[h])
      BY <2>1, LineIs, FamilyIs
    <3>2. tree.parent[h] = Root
      BY <3>1 DEF Original, Bounces
    <3> QED  BY <2>1, <3>1, <3>2, FamilyIs
  <2>4. \A f, g \in holders : f = g
    <3> SUFFICES ASSUME NEW f \in holders, NEW g \in holders PROVE f = g
      OBVIOUS
    <3>1. /\ f[1] \in Line(h) /\ f[2] \in Dir /\ f[1] \in Efile[f[2]] /\ f = <<f[1], f[2]>>
          /\ g[1] \in Line(h) /\ g[2] \in Dir /\ g[1] \in Efile[g[2]] /\ g = <<g[1], g[2]>>
      OBVIOUS
    <3>2. f[1] = g[1]
      BY <2>1, <2>2, <2>3, <3>1, NoPair DEF Pair, On
    <3>3. f[2] = g[2]
      BY <2>2, <2>3, <3>1, <3>2, OneDir
    <3> QED  BY <3>1, <3>2, <3>3
  <2>5. holders = {} \/ \E f \in holders : holders = {f}
    BY <2>4
  <2> HIDE DEF holders
  <2>6. Cardinality(holders) = 0 \/ Cardinality(holders) = 1
    BY <2>5, FS_EmptySet, FS_Singleton
  <2> QED  BY <2>6 DEF holders
<1> QED  BY <1>1, RestartSound, PTL

\* Expansion.DeliveredOnceExpanded: an envelope that was delivered is not expanded a
\* second time.
THEOREM DeliveredOnce == Spec => [](Ungrouped(tree) => DeliveredOnceExpanded)
<1>1. Ungrouped(tree) /\ RestartInv => DeliveredOnceExpanded
  <2> SUFFICES ASSUME Ungrouped(tree), RestartInv, NEW h \in settled, NEW d \in Dir,
                      \A m \in Line(h) : tree.kind[m] # "error"
               PROVE  Line(h) \intersect Efile[d] \subseteq {h}
    BY DEF DeliveredOnceExpanded
  <2>1. Flat /\ h \in Host
    BY DEF RestartInv, Files, Flat
  <2>2. Line(h) = {h, tree.parent[h], Root} /\ tree.parent[h] \in Original
    BY <2>1, LineIs, FamilyIs
  <2>3. tree.parent[h] = Root
    BY <2>2 DEF Original, Bounces
  <2>4. ~On(Efile, Root)
    BY <2>3 DEF RestartInv, Files
  <2> QED  BY <2>2, <2>3, <2>4 DEF On
<1> QED  BY <1>1, RestartSound, PTL

\* Expansion.AssertsHold: no assert of q_expansion_cleanup fails, in whatever order
\* the envelopes come.
THEOREM NeverAborts == Spec => [](Ungrouped(tree) => AssertsHold)
<1>1. Ungrouped(tree) /\ RestartInv => AssertsHold
  BY DEF RestartInv, Cleaning, AssertsHold, At, CallLabel, CleanerLabel
<1> QED  BY <1>1, RestartSound, PTL
=============================================================================
