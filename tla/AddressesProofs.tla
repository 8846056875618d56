-------------------------- MODULE AddressesProofs --------------------------
(***************************************************************************)
(* Whatever the directory holds, in whatever order it lists the members of *)
(* a group, and whenever its servers fail: an address is bounced as        *)
(* unknown only if it is, or if a full answer was never got; and a message *)
(* does not get past a members-only group that refused it.                 *)
(***************************************************************************)
EXTENDS Addresses, Loops

---------------------------------------------------------------------------
(* What paths lead to.                                                     *)

\* The start is in it, it is closed, and it is in every closed set that has the
\* start.
LEMMA ReachIs ==
    ASSUME NEW S \in SUBSET Addr, NEW to, \A a \in Addr : to[a] \subseteq Addr
    PROVE  /\ Reach(S, to) \subseteq Addr /\ S \subseteq Reach(S, to)
           /\ \A a \in Reach(S, to) : to[a] \subseteq Reach(S, to)
           /\ \A T \in SUBSET Addr :
                S \subseteq T /\ (\A a \in T : to[a] \subseteq T) => Reach(S, to) \subseteq T
<1> DEFINE Closed == {T \in SUBSET Addr : S \subseteq T /\ \A a \in T : to[a] \subseteq T}
<1>1. Reach(S, to) = {a \in Addr : \A T \in Closed : a \in T}
  BY DEF Reach
<1>2. \A T \in Closed : S \subseteq T /\ (\A a \in T : to[a] \subseteq T)
  OBVIOUS
<1>3. \A T \in SUBSET Addr :
        S \subseteq T /\ (\A a \in T : to[a] \subseteq T) => T \in Closed
  OBVIOUS
<1> HIDE DEF Closed
<1> QED  BY <1>1, <1>2, <1>3

\* What the message and the directory say an address leads to.
LEMMA LinksAre ==
    ASSUME world \in World
    PROVE  /\ \A a \in Addr : Links[a] = Below(a) /\ Below(a) \subseteq Addr
           /\ ToSet(world.rcpts) \subseteq Addr
<1>1. \A a \in Addr : world.entry[a].to \subseteq Addr
  BY DEF World, Entry
<1>2. \A a \in Addr : Below(a) \subseteq Addr
  BY <1>1 DEF Below
<1>3. world.rcpts \in Seq(Addr)
  BY DEF World
<1> QED  BY <1>2, <1>3 DEF Links, ToSet

\* Whom the message could be for, were there no members-only groups.
Everyone == Reach(ToSet(world.rcpts), Links)

LeadsToSender(a) == \E s \in Reach({a}, Links) : IsSender(s)

\* The sender is found below an address if it is found below one of its members.
LEMMA LeadsUp ==
    ASSUME world \in World, NEW a \in Addr, NEW b \in Below(a), LeadsToSender(b)
    PROVE  LeadsToSender(a)
<1>1. b \in Addr
  BY LinksAre
<1>2. /\ {a} \subseteq Reach({a}, Links) /\ Reach({a}, Links) \subseteq Addr
      /\ \A x \in Reach({a}, Links) : Links[x] \subseteq Reach({a}, Links)
  <2>1. {a} \in SUBSET Addr /\ \A x \in Addr : Links[x] \subseteq Addr
    BY LinksAre
  <2> QED  BY <2>1, ReachIs
<1>3. b \in Reach({a}, Links)
  BY <1>2, LinksAre
<1>4. Reach({b}, Links) \subseteq Reach({a}, Links)
  BY <1>1, <1>2, <1>3, ReachIs, LinksAre
<1> QED  BY <1>4 DEF LeadsToSender

\* From the sender's own address the sender is found.
LEMMA LeadsToItself ==
    ASSUME world \in World, NEW a \in Addr, IsSender(a)
    PROVE  LeadsToSender(a)
<1>1. {a} \subseteq Reach({a}, Links)
  BY ReachIs, LinksAre
<1> QED  BY <1>1 DEF LeadsToSender

\* What a refused group is.
LEMMA RefusedIs ==
    ASSUME world \in World, NEW g
    PROVE  g \in Refused <=>
             /\ g \in Everyone
             /\ kind(g) = "group" /\ ~GroupLoops(world.entry[g])
             /\ Refusable(world.entry[g])
             /\ ~(world.entry[g].ok \in Everyone /\ g \in Below(world.entry[g].ok))
             /\ ~\E a \in Reach(world.entry[g].to, Links) : IsSender(a)
BY DEF Refused, Everyone

\* A refused group has no members from which the sender is found.
LEMMA RefusedHasNoSender ==
    ASSUME world \in World, NEW g \in Refused, NEW b \in Below(g)
    PROVE  ~LeadsToSender(b)
<1>1. g \in Everyone /\ Everyone \subseteq Addr
  BY RefusedIs, ReachIs, LinksAre DEF Everyone
<1>2. Below(g) \subseteq world.entry[g].to /\ world.entry[g].to \subseteq Addr
  BY <1>1 DEF Below, World, Entry
<1>3. /\ \A x \in Reach(world.entry[g].to, Links) :
            Links[x] \subseteq Reach(world.entry[g].to, Links)
      /\ world.entry[g].to \subseteq Reach(world.entry[g].to, Links)
      /\ Reach(world.entry[g].to, Links) \subseteq Addr
  BY <1>2, ReachIs, LinksAre
<1>4. Reach({b}, Links) \subseteq Reach(world.entry[g].to, Links)
  BY <1>2, <1>3, ReachIs, LinksAre
<1> QED  BY <1>4, RefusedIs DEF LeadsToSender

\* Past an address that is reached and is not a refused group.
LEMMA ReachedIs ==
    ASSUME world \in World
    PROVE  /\ ToSet(world.rcpts) \subseteq Reached /\ Reached \subseteq Addr
           /\ \A a \in Reached \ Refused : Below(a) \subseteq Reached
<1> DEFINE to == [a \in Addr |-> IF a \in Refused THEN {} ELSE Below(a)]
<1>1. \A a \in Addr : to[a] \subseteq Addr
  BY LinksAre
<1>2. Reached = Reach(ToSet(world.rcpts), to)
  BY DEF Reached
<1> HIDE DEF to
<1>3. /\ ToSet(world.rcpts) \subseteq Reached /\ Reached \subseteq Addr
      /\ \A a \in Reached : to[a] \subseteq Reached
  BY <1>1, <1>2, ReachIs, LinksAre
<1> QED  BY <1>3 DEF to

---------------------------------------------------------------------------
(* The list and its links.                                                 *)

Kids(n, a) == ToSet(n[a].children)

\* Every link of an address has its way back, and is one the directory has; an
\* address that is not in the list leads nowhere.
Linked(l, n) ==
    /\ \A a \in Addr : Kids(n, a) # {} => a \in ToSet(l)
    /\ \A a \in Addr : \A p \in ToSet(n[a].parents) :
         IF p = None THEN a \in ToSet(world.rcpts) ELSE a \in Kids(n, p)
    /\ \A a \in Addr : Kids(n, a) \subseteq ToSet(l) /\ Kids(n, a) \subseteq Below(a)

\* Nothing is in the list but what the links lead to from the recipients.
Grown(l, n) ==
    \A T \in SUBSET Addr :
       ToSet(world.rcpts) \subseteq T /\ (\A a \in T : Kids(n, a) \subseteq T)
         => ToSet(l) \subseteq T

\* A refused group that was expanded is known as a members-only group.
IsGuarded(n, m, a) == a \in ToSet(m) /\ "MEMONLY" \in n[a].flags
Guarded(n, m) == \A a \in Refused : Kids(n, a) # {} => IsGuarded(n, m, a)

\* What is flagged as the sender leads to it.
SendersFound(n) ==
    \A a \in Addr : "EMAIL_SENDER" \in n[a].flags => LeadsToSender(a)

Graph(l, n, m) == Linked(l, n) /\ Grown(l, n) /\ Guarded(n, m) /\ SendersFound(n)

\* The walks have not begun.
Fresh(l, n) ==
    /\ \A a \in Addr : a \notin ToSet(l) => n[a] = NewAddr
    /\ \A a \in Addr : n[a].flags \intersect {"SUPRESSED", "ROOT_PATH"} = {}

\* The elements of a sequence.
LEMMA ToSetIs ==
    ASSUME NEW Q, NEW s \in Seq(Q)
    PROVE  ToSet(s) = {s[i] : i \in 1..Len(s)}
<1>1. DOMAIN s = 1..Len(s)
  OBVIOUS
<1> QED  BY <1>1, Zenon DEF ToSet

\* An element in front of a sequence.
LEMMA InFront ==
    ASSUME NEW Q, NEW s \in Seq(Q), NEW e \in Q
    PROVE  LET t == <<e>> \o s
           IN  /\ t \in Seq(Q) /\ Len(t) = Len(s) + 1
               /\ \A i \in 1..Len(t) : t[i] = IF i = 1 THEN e ELSE s[i - 1]
<1> DEFINE h == <<e>>
<1>1. h \in Seq(Q) /\ Len(h) = 1 /\ h[1] = e
  OBVIOUS
<1> HIDE DEF h
<1>2. Len(s) \in Nat
  OBVIOUS
<1>3. /\ h \o s \in Seq(Q) /\ Len(h \o s) = Len(h) + Len(s)
      /\ \A i \in 1..(Len(h) + Len(s)) :
           (h \o s)[i] = IF i <= Len(h) THEN h[i] ELSE s[i - Len(h)]
  BY <1>1, ConcatProperties
<1> DEFINE t == h \o s
<1>4. t \in Seq(Q) /\ Len(t) = Len(s) + 1
  BY <1>1, <1>2, <1>3
<1>5. \A i \in 1..Len(t) : t[i] = IF i = 1 THEN e ELSE s[i - 1]
  BY <1>1, <1>2, <1>3, <1>4
<1> QED  BY <1>4, <1>5 DEF h

\* exp_addr_link adds one address to a list of links.
LEMMA LinkIs ==
    ASSUME NEW Q, NEW links \in Seq(Q), NEW a \in Q
    PROVE  /\ exp_addr_link(links, a) \in Seq(Q)
           /\ ToSet(exp_addr_link(links, a)) = ToSet(links) \union {a}
<1>1. CASE Contains(links, a)
  <2>1. exp_addr_link(links, a) = links
    BY <1>1 DEF exp_addr_link
  <2>2. a \in ToSet(links)
    BY <1>1 DEF Contains, ToSet
  <2> QED  BY <2>1, <2>2
<1>2. CASE ~Contains(links, a)
  <2> DEFINE t == <<a>> \o links
  <2>1. exp_addr_link(links, a) = t
    BY <1>2 DEF exp_addr_link
  <2>2. t \in Seq(Q) /\ Len(t) = Len(links) + 1
        /\ \A i \in 1..Len(t) : t[i] = IF i = 1 THEN a ELSE links[i - 1]
    BY InFront
  <2> HIDE DEF t
  <2>3. ToSet(t) = {t[i] : i \in 1..Len(t)} /\ ToSet(links) = {links[i] : i \in 1..Len(links)}
    BY <2>2, ToSetIs
  <2>4. ToSet(t) \subseteq ToSet(links) \union {a}
    BY <2>2, <2>3
  <2>5. a \in ToSet(t)
    BY <2>2, <2>3
  <2>6. ASSUME NEW i \in 1..Len(links) PROVE links[i] \in ToSet(t)
    <3>1. i + 1 \in 1..Len(t) /\ t[i + 1] = links[i]
      BY <2>2
    <3> QED  BY <3>1, <2>3
  <2>7. ToSet(links) \subseteq ToSet(t)
    BY <2>3, <2>6
  <2> QED  BY <2>1, <2>2, <2>4, <2>5, <2>7
<1> QED  BY <1>1, <1>2

\* Wherever add_address inserts an address, the list gains it and keeps the rest.
LEMMA InsertIs ==
    ASSUME NEW l \in Seq(Addr), NEW a \in Addr, NEW cursor,
           cursor = None \/ cursor \in ToSet(l)
    PROVE  /\ Insert(l, a, cursor) \in Seq(Addr)
           /\ ToSet(Insert(l, a, cursor)) = ToSet(l) \union {a}
<1>1. CASE kind(a) \notin Local
  <2>1. Insert(l, a, cursor) = Append(l, a)
    BY <1>1 DEF Insert
  <2> DEFINE t == Append(l, a)
  <2>2. /\ t \in Seq(Addr) /\ Len(t) = Len(l) + 1
        /\ \A i \in 1..Len(t) : t[i] = IF i = Len(t) THEN a ELSE l[i]
    OBVIOUS
  <2> HIDE DEF t
  <2>3. ToSet(t) = {t[i] : i \in 1..Len(t)} /\ ToSet(l) = {l[i] : i \in 1..Len(l)}
    BY <2>2, ToSetIs
  <2>4. ToSet(t) \subseteq ToSet(l) \union {a}
    BY <2>2, <2>3
  <2>5. a \in ToSet(t)
    <3>1. Len(t) \in 1..Len(t) /\ t[Len(t)] = a
      BY <2>2
    <3> QED  BY <3>1, <2>3
  <2>6. ASSUME NEW i \in 1..Len(l) PROVE l[i] \in ToSet(t)
    <3>1. i \in 1..Len(t) /\ t[i] = l[i]
      BY <2>2
    <3> QED  BY <3>1, <2>3
  <2> QED  BY <2>1, <2>2, <2>3, <2>4, <2>5, <2>6 DEF t
<1>2. CASE kind(a) \in Local /\ cursor = None
  <2>1. Insert(l, a, cursor) = <<a>> \o l
    BY <1>2 DEF Insert
  <2> DEFINE t == <<a>> \o l
  <2>2. t \in Seq(Addr) /\ Len(t) = Len(l) + 1
        /\ \A i \in 1..Len(t) : t[i] = IF i = 1 THEN a ELSE l[i - 1]
    BY InFront
  <2> HIDE DEF t
  <2>3. ToSet(t) = {t[i] : i \in 1..Len(t)} /\ ToSet(l) = {l[i] : i \in 1..Len(l)}
    BY <2>2, ToSetIs
  <2>4. ToSet(t) \subseteq ToSet(l) \union {a} /\ a \in ToSet(t)
    BY <2>2, <2>3
  <2>5. ASSUME NEW i \in 1..Len(l) PROVE l[i] \in ToSet(t)
    <3>1. i + 1 \in 1..Len(t) /\ t[i + 1] = l[i]
      BY <2>2
    <3> QED  BY <3>1, <2>3
  <2> QED  BY <2>1, <2>2, <2>3, <2>4, <2>5 DEF t
<1>3. CASE kind(a) \in Local /\ cursor # None
  <2> DEFINE i == CHOOSE k \in DOMAIN l : l[k] = cursor
  <2>1. i \in 1..Len(l)
    BY <1>3 DEF ToSet
  <2>2. Insert(l, a, cursor) = InsertAt(l, i + 1, a)
    BY <1>3 DEF Insert
  <2> HIDE DEF i
  <2> DEFINE t == InsertAt(l, i + 1, a)
  <2>3. i + 1 \in 1..(Len(l) + 1)
    BY <2>1
  <2>4. t \in Seq(Addr) /\ Inserted(t, l, i + 1, a)
    BY <2>3, InsertAtIs
  <2> HIDE DEF t
  <2>5. ToSet(t) = {t[k] : k \in 1..Len(t)} /\ ToSet(l) = {l[k] : k \in 1..Len(l)}
    BY <2>4, ToSetIs
  <2>6. /\ Len(t) = Len(l) + 1 /\ t[i + 1] = a
        /\ \A k \in 1..(Len(l) + 1) : k < i + 1 => t[k] = l[k]
        /\ \A k \in 1..(Len(l) + 1) : k > i + 1 => t[k] = l[k - 1]
    BY <2>4 DEF Inserted
  <2>7. ToSet(t) \subseteq ToSet(l) \union {a} /\ a \in ToSet(t)
    BY <2>1, <2>5, <2>6
  <2>8. ASSUME NEW k \in 1..Len(l) PROVE l[k] \in ToSet(t)
    <3>1. CASE k < i + 1
      BY <3>1, <2>5, <2>6
    <3>2. CASE k >= i + 1
      <4>1. k + 1 \in 1..Len(t) /\ t[k + 1] = l[k]
        BY <3>2, <2>1, <2>6
      <4> QED  BY <4>1, <2>5
    <3> QED  BY <2>1, <3>1, <3>2
  <2> QED  BY <2>2, <2>4, <2>5, <2>7, <2>8 DEF t
<1> QED  BY <1>1, <1>2, <1>3

Graphs == [list : Seq(Addr), node : [Addr -> ExpAddr]]

\* An address whose members may be added: it is in the list, and if it is a
\* refused group, it is known as such.  The root has the recipients.
MayAdd(x, m, cursor) ==
    cursor # None =>
      cursor \in ToSet(x.list) /\ (cursor \in Refused => IsGuarded(x.node, m, cursor))

MembersOf(cursor) == IF cursor = None THEN ToSet(world.rcpts) ELSE Below(cursor)

Adds(x, m, cursor) ==
    /\ x \in Graphs /\ Graph(x.list, x.node, m) /\ Fresh(x.list, x.node)
    /\ MayAdd(x, m, cursor)

\* y is the graph x with a linked below cursor.
Added(y, x, a, cursor) ==
    LET old == IF a \in ToSet(x.list) THEN x.node[a] ELSE NewAddr
    IN  /\ y \in Graphs
        /\ ToSet(y.list) = ToSet(x.list) \union {a}
        /\ ToSet(y.node[a].parents) = ToSet(old.parents) \union {cursor}
        /\ cursor # a => y.node[a].children = old.children
        /\ y.node[a].flags = IF a \in ToSet(x.list) THEN x.node[a].flags
                             ELSE IF a \in world.sender /\ ~world.entry[a].dn
                             THEN {"EMAIL_SENDER"} ELSE {}
        /\ cursor # None => Kids(y.node, cursor) = Kids(x.node, cursor) \union {a}
        /\ cursor # None /\ cursor # a =>
             /\ y.node[cursor].parents = x.node[cursor].parents
             /\ y.node[cursor].flags = x.node[cursor].flags
        /\ \A b \in Addr : b # a /\ b # cursor => y.node[b] = x.node[b]

\* add_address: one more address in the list, one more link each way.
LEMMA AddIs ==
    ASSUME NEW x \in Graphs, NEW a \in Addr, NEW cursor \in Addr \union {None},
           cursor = None \/ cursor \in ToSet(x.list), None \notin Addr
    PROVE  Added(add_address(x, a, cursor), x, a, cursor)
<1> DEFINE new == ~Contains(x.list, a)
           f == IF a \in world.sender /\ ~world.entry[a].dn THEN {"EMAIL_SENDER"} ELSE {}
           e == IF cursor = None THEN None ELSE x.node[cursor].errors
           na == IF new THEN [NewAddr EXCEPT !.errors = e, !.flags = f] ELSE x.node[a]
           pa == [na EXCEPT !.parents = exp_addr_link(@, cursor)]
           up == [x.node EXCEPT ![a] = pa]
           y == add_address(x, a, cursor)
<1>1. x.list \in Seq(Addr) /\ x.node \in [Addr -> ExpAddr]
  BY DEF Graphs
<1>2. new <=> a \notin ToSet(x.list)
  BY <1>1 DEF Contains, ToSet
<1>3. e \in Addr \union {None} /\ f \in SUBSET Flags
  BY <1>1 DEF ExpAddr, Flags
<1>4. na \in ExpAddr
  <2>1. NewAddr \in ExpAddr
    BY DEF NewAddr, ExpAddr
  <2> QED  BY <2>1, <1>1, <1>3 DEF ExpAddr
<1>5. /\ pa \in ExpAddr /\ ToSet(pa.parents) = ToSet(na.parents) \union {cursor}
      /\ pa.children = na.children /\ pa.flags = na.flags
  <2>1. na.parents \in Seq(Addr \union {None})
    BY <1>4 DEF ExpAddr
  <2>2. /\ exp_addr_link(na.parents, cursor) \in Seq(Addr \union {None})
        /\ ToSet(exp_addr_link(na.parents, cursor)) = ToSet(na.parents) \union {cursor}
    BY <2>1, LinkIs
  <2> QED  BY <2>2, <1>4 DEF ExpAddr
<1>6. /\ y = [list |-> y.list, node |-> y.node]
      /\ y.list = IF new THEN Insert(x.list, a, cursor) ELSE x.list
      /\ y.node = IF cursor = None THEN up
                  ELSE [up EXCEPT ![cursor].children = exp_addr_link(@, a)]
  <2> DEFINE n == IF ~new THEN x.node ELSE [x.node EXCEPT ![a] = na]
  <2>1. n \in [Addr -> ExpAddr] /\ n[a] = na /\ \A b \in Addr : b # a => n[b] = x.node[b]
    BY <1>1, <1>4
  <2>2. [n EXCEPT ![a].parents = exp_addr_link(@, cursor)] = up
    <3> HIDE DEF na, n
    <3>1. [n EXCEPT ![a].parents = exp_addr_link(@, cursor)] = [n EXCEPT ![a] = pa]
      BY <2>1
    <3> HIDE DEF pa
    <3> QED  BY <2>1, <3>1, <1>1
  <2>3. y = [list |-> IF new THEN Insert(x.list, a, cursor) ELSE x.list,
             node |-> IF cursor = None THEN [n EXCEPT ![a].parents = exp_addr_link(@, cursor)]
                      ELSE [[n EXCEPT ![a].parents = exp_addr_link(@, cursor)]
                               EXCEPT ![cursor].children = exp_addr_link(@, a)]]
    BY DEF add_address
  <2> HIDE DEF y, up, n
  <2> QED  BY <2>2, <2>3
<1>7. up \in [Addr -> ExpAddr] /\ up[a] = pa /\ \A b \in Addr : b # a => up[b] = x.node[b]
  BY <1>1, <1>5
<1>8. a \notin ToSet(x.list) => /\ na.parents = NewAddr.parents
                                /\ na.children = NewAddr.children /\ na.flags = f
  BY <1>2 DEF NewAddr
<1>9. a \in ToSet(x.list) => na = x.node[a]
  BY <1>2
<1>10. y.list \in Seq(Addr) /\ ToSet(y.list) = ToSet(x.list) \union {a}
  <2>1. CASE new
    <3> HIDE DEF y, Added
    <3> QED  BY <2>1, <1>1, <1>6, InsertIs
  <2>2. CASE ~new
    <3> HIDE DEF y, new
    <3> QED  BY <2>2, <1>1, <1>2, <1>6
  <2> QED  BY <2>1, <2>2
<1>11. CASE cursor = None
  <2> HIDE DEF y, up, pa, na
  <2>1. y.node = up
    BY <1>6, <1>11
  <2>2. y \in Graphs
    BY <2>1, <1>6, <1>7, <1>10 DEF Graphs
  <2> QED  BY <2>1, <2>2, <1>5, <1>7, <1>8, <1>9, <1>10, <1>11 DEF y, Added
<1>12. CASE cursor # None
  <2> DEFINE link == exp_addr_link(up[cursor].children, a)
  <2>1. cursor \in Addr /\ cursor \in ToSet(x.list)
    BY <1>12
  <2>2. link \in Seq(Addr) /\ ToSet(link) = ToSet(up[cursor].children) \union {a}
    <3>1. up[cursor].children \in Seq(Addr)
      BY <1>7, <2>1 DEF ExpAddr
    <3> HIDE DEF up
    <3> QED  BY <3>1, LinkIs
  <2>3. ToSet(up[cursor].children) = Kids(x.node, cursor)
    <3>1. up[cursor].children = x.node[cursor].children
      <4>1. CASE cursor = a
        BY <4>1, <1>2, <1>5, <1>7, <1>9, <2>1
      <4>2. CASE cursor # a
        BY <4>2, <1>7, <2>1
      <4> QED  BY <4>1, <4>2
    <3> QED  BY <3>1 DEF Kids
  <2>4. y.node = [up EXCEPT ![cursor].children = link]
    BY <1>6, <1>12
  <2> HIDE DEF y, up, pa, na, link
  <2>6. /\ y.node \in [Addr -> ExpAddr] /\ y.node[cursor].children = link
        /\ y.node[cursor].parents = up[cursor].parents
        /\ y.node[cursor].flags = up[cursor].flags
        /\ \A b \in Addr : b # cursor => y.node[b] = up[b]
    <3>1. up[cursor] \in ExpAddr
      BY <2>1, <1>7
    <3>2. [up[cursor] EXCEPT !.children = link] \in ExpAddr
      BY <3>1, <2>2 DEF ExpAddr
    <3>3. y.node = [up EXCEPT ![cursor] = [up[cursor] EXCEPT !.children = link]]
      BY <2>1, <2>4, <1>7
    <3> QED  BY <3>1, <3>2, <3>3, <2>1, <1>7 DEF ExpAddr
  <2>7. y \in Graphs
    BY <1>6, <2>6, <1>10 DEF Graphs
  <2>8. Kids(y.node, cursor) = Kids(x.node, cursor) \union {a}
    BY <2>2, <2>3, <2>6 DEF Kids
  <2>9. /\ y.node[a].parents = pa.parents /\ y.node[a].flags = pa.flags
        /\ cursor # a => y.node[a].children = pa.children
    <3>1. CASE cursor = a
      BY <3>1, <2>6, <1>7
    <3>2. CASE cursor # a
      BY <3>2, <2>6, <1>7
    <3> QED  BY <3>1, <3>2
  <2> QED  BY <2>1, <2>6, <2>7, <2>8, <2>9, <1>5, <1>7, <1>8, <1>9, <1>10, <1>12 DEF y, Added
<1> QED  BY <1>11, <1>12

\* Adding a member keeps the graph what it is.
LEMMA AddKeeps ==
    ASSUME world \in World, None \notin Addr, NEW m, NEW x,
           NEW cursor \in Addr \union {None}, Adds(x, m, cursor),
           NEW a \in MembersOf(cursor)
    PROVE  Adds(add_address(x, a, cursor), m, cursor)
<1> DEFINE y == add_address(x, a, cursor)
           isNew == a \notin ToSet(x.list)
<1>1. /\ x \in Graphs /\ Linked(x.list, x.node) /\ Grown(x.list, x.node)
      /\ Guarded(x.node, m) /\ SendersFound(x.node) /\ Fresh(x.list, x.node)
      /\ cursor = None \/ cursor \in ToSet(x.list)
      /\ cursor # None /\ cursor \in Refused => IsGuarded(x.node, m, cursor)
  BY DEF Adds, Graph, MayAdd
<1>2. a \in Addr
  BY LinksAre DEF MembersOf
<1> DEFINE old == IF a \in ToSet(x.list) THEN x.node[a] ELSE NewAddr
<1>3. /\ y \in Graphs
      /\ ToSet(y.list) = ToSet(x.list) \union {a}
      /\ ToSet(y.node[a].parents) = ToSet(old.parents) \union {cursor}
      /\ cursor # a => y.node[a].children = old.children
      /\ y.node[a].flags = IF a \in ToSet(x.list) THEN x.node[a].flags
                           ELSE IF a \in world.sender /\ ~world.entry[a].dn
                           THEN {"EMAIL_SENDER"} ELSE {}
      /\ cursor # None => Kids(y.node, cursor) = Kids(x.node, cursor) \union {a}
      /\ cursor # None /\ cursor # a =>
           /\ y.node[cursor].parents = x.node[cursor].parents
           /\ y.node[cursor].flags = x.node[cursor].flags
      /\ \A b \in Addr : b # a /\ b # cursor => y.node[b] = x.node[b]
  <2>1. Added(y, x, a, cursor)
    BY <1>1, <1>2, AddIs
  <2> HIDE DEF y
  <2> QED  BY <2>1 DEF Added
<1> HIDE DEF y
<1>4. old = x.node[a]
  BY <1>1, <1>2 DEF Fresh
<1>5. ToSet(<<>>) = {}
  BY DEF ToSet
\* Nobody's links but those of the two change, and none goes away.
<1>6. \A b \in Addr : Kids(y.node, b) =
        IF b = cursor THEN Kids(x.node, b) \union {a} ELSE Kids(x.node, b)
  <2> SUFFICES ASSUME NEW b \in Addr
               PROVE  Kids(y.node, b) = IF b = cursor THEN Kids(x.node, b) \union {a}
                                        ELSE Kids(x.node, b)
    OBVIOUS
  <2>1. CASE b = cursor
    BY <2>1, <1>3
  <2>2. CASE b # cursor /\ b = a
    BY <2>2, <1>3, <1>4 DEF Kids
  <2>3. CASE b # cursor /\ b # a
    BY <2>3, <1>3 DEF Kids
  <2> QED  BY <2>1, <2>2, <2>3
<1>7. \A b \in Addr : ToSet(y.node[b].parents) =
        IF b = a THEN ToSet(x.node[b].parents) \union {cursor} ELSE ToSet(x.node[b].parents)
  <2> SUFFICES ASSUME NEW b \in Addr
               PROVE  ToSet(y.node[b].parents) =
                        IF b = a THEN ToSet(x.node[b].parents) \union {cursor}
                        ELSE ToSet(x.node[b].parents)
    OBVIOUS
  <2>1. CASE b = a
    BY <2>1, <1>3, <1>4
  <2>2. CASE b # a /\ b = cursor
    BY <2>2, <1>3
  <2>3. CASE b # a /\ b # cursor
    BY <2>3, <1>3
  <2> QED  BY <2>1, <2>2, <2>3
<1>8. \A b \in Addr : b \in ToSet(x.list) => y.node[b].flags = x.node[b].flags
  <2> SUFFICES ASSUME NEW b \in Addr, b \in ToSet(x.list)
               PROVE  y.node[b].flags = x.node[b].flags
    OBVIOUS
  <2>1. CASE b = a
    BY <2>1, <1>3
  <2>2. CASE b # a /\ b = cursor
    BY <2>2, <1>3
  <2>3. CASE b # a /\ b # cursor
    BY <2>3, <1>3
  <2> QED  BY <2>1, <2>2, <2>3
<1>9. Linked(y.list, y.node)
  <2>1. \A b \in Addr : Kids(y.node, b) # {} => b \in ToSet(y.list)
    BY <1>1, <1>3, <1>6 DEF Linked
  <2>2. ASSUME NEW b \in Addr, NEW p \in ToSet(y.node[b].parents)
        PROVE  IF p = None THEN b \in ToSet(world.rcpts) ELSE b \in Kids(y.node, p)
    <3>1. CASE p \in ToSet(x.node[b].parents)
      <4>1. p # None => p \in Addr
        <5>1. x.node[b].parents \in Seq(Addr \union {None})
          BY <1>1 DEF Graphs, ExpAddr
        <5> QED  BY <5>1, <3>1 DEF ToSet
      <4>2. IF p = None THEN b \in ToSet(world.rcpts) ELSE b \in Kids(x.node, p)
        BY <3>1, <1>1 DEF Linked
      <4> QED  BY <4>1, <4>2, <1>6
    <3>2. CASE p \notin ToSet(x.node[b].parents)
      <4>1. b = a /\ p = cursor
        BY <3>2, <2>2, <1>7
      <4> QED  BY <4>1, <1>6 DEF MembersOf
    <3> QED  BY <3>1, <3>2
  <2>3. \A b \in Addr : Kids(y.node, b) \subseteq ToSet(y.list)
                     /\ Kids(y.node, b) \subseteq Below(b)
    <3>1. \A b \in Addr : Kids(x.node, b) \subseteq ToSet(x.list)
                       /\ Kids(x.node, b) \subseteq Below(b)
      BY <1>1 DEF Linked
    <3>2. \A b \in Addr : b = cursor => a \in Below(b)
      BY DEF MembersOf
    <3> QED  BY <3>1, <3>2, <1>3, <1>6
  <2> QED  BY <2>1, <2>2, <2>3 DEF Linked
<1>10. Grown(y.list, y.node)
  <2> SUFFICES ASSUME NEW T \in SUBSET Addr, ToSet(world.rcpts) \subseteq T,
                      \A b \in T : Kids(y.node, b) \subseteq T
               PROVE  ToSet(y.list) \subseteq T
    BY DEF Grown
  <2>1. \A b \in T : Kids(x.node, b) \subseteq T
    BY <1>6
  <2>2. ToSet(x.list) \subseteq T
    BY <2>1, <1>1 DEF Grown
  <2>3. a \in T
    <3>1. CASE cursor = None
      BY <3>1 DEF MembersOf
    <3>2. CASE cursor # None
      BY <3>2, <2>2, <1>1, <1>6
    <3> QED  BY <3>1, <3>2
  <2> QED  BY <2>2, <2>3, <1>3
<1>11. Guarded(y.node, m)
  <2> SUFFICES ASSUME NEW b \in Refused, Kids(y.node, b) # {}
               PROVE  IsGuarded(y.node, m, b)
    BY DEF Guarded
  <2>1. b \in Addr
    BY RefusedIs, ReachIs, LinksAre DEF Everyone
  <2>2. IsGuarded(x.node, m, b)
    <3>1. CASE b = cursor
      BY <3>1, <2>1, <1>1
    <3>2. CASE b # cursor
      BY <3>2, <2>1, <1>1, <1>6 DEF Guarded
    <3> QED  BY <3>1, <3>2
  <2>3. b \in ToSet(x.list)
    <3>1. "MEMONLY" \notin NewAddr.flags
      BY DEF NewAddr
    <3> QED  BY <3>1, <2>1, <2>2, <1>1 DEF Fresh, IsGuarded
  <2> QED  BY <2>1, <2>2, <2>3, <1>8 DEF IsGuarded
<1>12. \A b \in Addr : b \notin ToSet(x.list) =>
          y.node[b].flags = {} \/ (y.node[b].flags = {"EMAIL_SENDER"} /\ IsSender(b))
  <2> SUFFICES ASSUME NEW b \in Addr, b \notin ToSet(x.list)
               PROVE  \/ y.node[b].flags = {}
                      \/ y.node[b].flags = {"EMAIL_SENDER"} /\ IsSender(b)
    OBVIOUS
  <2>1. CASE b = a
    BY <2>1, <1>3 DEF IsSender
  <2>2. CASE b # a
    <3>1. y.node[b] = NewAddr
      BY <2>2, <1>1, <1>3 DEF Fresh
    <3> QED  BY <3>1 DEF NewAddr
  <2> QED  BY <2>1, <2>2
<1>13. SendersFound(y.node)
  <2> SUFFICES ASSUME NEW b \in Addr, "EMAIL_SENDER" \in y.node[b].flags
               PROVE  LeadsToSender(b)
    BY DEF SendersFound
  <2>1. CASE b \in ToSet(x.list)
    BY <2>1, <1>1, <1>8 DEF SendersFound
  <2>2. CASE b \notin ToSet(x.list)
    BY <2>2, <1>12, LeadsToItself
  <2> QED  BY <2>1, <2>2
<1>14. Fresh(y.list, y.node)
  <2>0. \A b \in Addr : b \notin ToSet(y.list) => y.node[b] = NewAddr
    BY <1>1, <1>3 DEF Fresh
  <2>1. ASSUME NEW b \in Addr
        PROVE  y.node[b].flags \intersect {"SUPRESSED", "ROOT_PATH"} = {}
    <3>1. CASE b \in ToSet(x.list)
      BY <3>1, <1>1, <1>8 DEF Fresh
    <3>2. CASE b \notin ToSet(x.list)
      BY <3>2, <1>12
    <3> QED  BY <3>1, <3>2
  <2> QED  BY <2>0, <2>1 DEF Fresh
<1>15. MayAdd(y, m, cursor)
  BY <1>1, <1>3, <1>8 DEF MayAdd, IsGuarded
<1> QED  BY <1>3, <1>9, <1>10, <1>11, <1>13, <1>14, <1>15 DEF Adds, Graph, y

\* All of the members, in whatever order.
LEMMA AllAdded ==
    ASSUME world \in World, None \notin Addr, NEW m, NEW n,
           NEW cursor \in Addr \union {None}, Adds([list |-> list, node |-> n], m, cursor),
           NEW order, Len(order) \in Nat,
           \A i \in 1..Len(order) : order[i] \in MembersOf(cursor)
    PROVE  Adds(AddAll(n, cursor, order), m, cursor)
<1> DEFINE S == [list |-> list, node |-> n]
           N == Len(order)
           after[i \in 0..N] == IF i = 0 THEN S ELSE add_address(after[i - 1], order[i], cursor)
           Is(f) == f = [i \in 0..N |-> IF i = 0 THEN S
                                        ELSE add_address(f[i - 1], order[i], cursor)]
           Kept == {x \in Graphs : Adds(x, m, cursor)}
           J == [i \in 0..N |-> Kept]
           Turn == [nx \in (1..N) \X Kept |-> add_address(nx[2], order[nx[1]], cursor)]
<1>1. AddAll(n, cursor, order) = after[N]
  BY DEF AddAll
<1>2. (\E f : Is(f)) => Is(after)
  OBVIOUS
<1>3. N \in Nat /\ \A i \in 1..N : order[i] \in MembersOf(cursor)
  OBVIOUS
<1>4. ASSUME NEW i \in 1..N, NEW x \in Kept
      PROVE  Turn[<<i, x>>] = add_address(x, order[i], cursor) /\ Turn[<<i, x>>] \in Kept
  <2>1. Turn[<<i, x>>] = add_address(x, order[i], cursor)
    OBVIOUS
  <2>2. Adds(add_address(x, order[i], cursor), m, cursor)
    BY <1>3, AddKeeps
  <2> HIDE DEF Turn
  <2> QED  BY <2>1, <2>2 DEF Adds
<1>5. S \in Kept
  BY DEF Adds
<1> HIDE DEF Turn, Kept, S, N
<1>6. Leads(N, J, Turn, S)
  BY <1>3, <1>4, <1>5 DEF Leads
<1>7. PICK f : Looped(f, N, J, Turn, S)
  BY <1>6, LoopRuns
<1>8. Is(f)
  <2>1. ASSUME NEW i \in 0..N
        PROVE  f[i] = IF i = 0 THEN S ELSE add_address(f[i - 1], order[i], cursor)
    <3>1. f[i] = IF i = 0 THEN S ELSE Turn[<<i, f[i - 1]>>]
      BY <1>7 DEF Looped
    <3>2. i # 0 => i \in 1..N /\ i - 1 \in 0..N
      BY <1>3
    <3>3. i # 0 => f[i - 1] \in Kept
      BY <1>7, <3>2 DEF Looped
    <3> QED  BY <3>1, <3>2, <3>3, <1>4
  <2>2. f = [i \in 0..N |-> f[i]]
    BY <1>7 DEF Looped
  <2> QED  BY <2>1, <2>2, Zenon
<1>9. Is(after)
  BY <1>2, <1>8
<1> HIDE DEF after
<1>10. after[0] \in J[0]
  BY <1>3, <1>5, <1>9
<1>11. \A i \in 1..N : after[i - 1] \in J[i - 1] => after[i] \in J[i]
  <2> SUFFICES ASSUME NEW i \in 1..N, after[i - 1] \in J[i - 1]
               PROVE  after[i] \in J[i]
    OBVIOUS
  <2>1. i \in 0..N /\ i - 1 \in 0..N /\ i # 0
    BY <1>3
  <2>2. after[i] = add_address(after[i - 1], order[i], cursor)
    BY <2>1, <1>9
  <2> QED  BY <2>1, <2>2, <1>4
<1>12. after[N] \in J[N]
  BY <1>3, <1>10, <1>11, LoopEnds
<1> QED  BY <1>1, <1>3, <1>12 DEF Kept

---------------------------------------------------------------------------
(* The walks.                                                              *)

\* A walk from f to g adds flags, and only those of S.
Flagged(f, g, S) == \A a \in Addr : f[a] \subseteq g[a] /\ g[a] \subseteq f[a] \union S

SendersKnown(f) == \A a \in Addr : "EMAIL_SENDER" \in f[a] => LeadsToSender(a)

\* What sender_is_child makes of w, for the addresses el.
SenderWalked(el, w, r) ==
    SendersKnown(w.flags) =>
      /\ Flagged(w.flags, r.flags, {"EMAIL_SENDER", "NO_EMAIL_SENDER"})
      /\ SendersKnown(r.flags)
      /\ r.ret => \E b \in ToSet(el) : LeadsToSender(b)

\* y is w with the flag f set for a.
Marked(y, w, a, f) ==
    /\ y \in Walks /\ y.ret = w.ret /\ y.seen = w.seen
    /\ \A b \in Addr : y.flags[b] = IF b = a THEN w.flags[b] \union {f} ELSE w.flags[b]

\* Setting a flag.
LEMMA MarkIs ==
    ASSUME NEW w \in Walks, NEW a \in Addr, NEW f \in Flags
    PROVE  Marked(Mark(w, a, f), w, a, f)
<1>1. w.flags \in [Addr -> SUBSET Flags]
  BY DEF Walks
<1>2. [w.flags EXCEPT ![a] = @ \union {f}] \in [Addr -> SUBSET Flags]
  BY <1>1
<1>3. Mark(w, a, f) = [w EXCEPT !.flags = [w.flags EXCEPT ![a] = @ \union {f}]]
  BY DEF Mark, Walks
<1> QED  BY <1>1, <1>2, <1>3 DEF Walks, Marked

\* What a walk returns leaves the flags alone.
LEMMA ReturnIs ==
    ASSUME NEW w \in Walks, NEW b \in BOOLEAN, NEW a \in Addr
    PROVE  /\ Return(w, b) \in Walks /\ Return(w, b).ret = b
           /\ Return(w, b).flags = w.flags
           /\ See(w, a) \in Walks /\ See(w, a).flags = w.flags
           /\ \A f : Has(w, a, f) <=> f \in w.flags[a]
BY DEF Return, See, Has, Walks

\* Flags that were added in two steps.
LEMMA FlaggedTwice ==
    ASSUME NEW f, NEW g, NEW h, NEW S, Flagged(f, g, S), Flagged(g, h, S)
    PROVE  Flagged(f, h, S)
BY DEF Flagged

\* One call of sender_is_child, if the calls it makes are right.
LEMMA SenderTurnIs ==
    ASSUME world \in World, node \in [Addr -> ExpAddr], Linked(list, node),
           NEW walk \in [Seq(Addr) \X Walks -> Walks],
           \A x \in Seq(Addr) \X Walks : SenderWalked(x[1], x[2], walk[x]),
           NEW el \in Seq(Addr), el # <<>>, NEW w \in Walks
    PROVE  /\ SenderTurn(walk, el, w) \in Walks
           /\ SenderWalked(el, w, SenderTurn(walk, el, w))
<1> DEFINE S == {"EMAIL_SENDER", "NO_EMAIL_SENDER"}
           e == Head(el)
           v == See(w, e)
           d == walk[<<node[e].children, v>>]
           yes == Mark(d, e, "EMAIL_SENDER")
           no == Mark(d, e, "NO_EMAIL_SENDER")
           t == SenderTurn(walk, el, w)
<1>1. /\ e \in Addr /\ e \in ToSet(el) /\ Tail(el) \in Seq(Addr)
      /\ ToSet(Tail(el)) \subseteq ToSet(el)
  <2>1. e = el[1] /\ Len(el) \in Nat /\ 1 \in 1..Len(el) /\ Tail(el) \in Seq(Addr)
    OBVIOUS
  <2>2. \A i \in 1..Len(Tail(el)) : Tail(el)[i] = el[i + 1] /\ i + 1 \in 1..Len(el)
    OBVIOUS
  <2>3. DOMAIN el = 1..Len(el) /\ DOMAIN Tail(el) = 1..Len(Tail(el))
    BY <2>1
  <2> HIDE DEF e
  <2>4. ToSet(Tail(el)) \subseteq ToSet(el)
    BY <2>2, <2>3 DEF ToSet
  <2> QED  BY <2>1, <2>3, <2>4 DEF ToSet
<1>2. v \in Walks /\ v.flags = w.flags /\ \A f : Has(w, e, f) <=> f \in w.flags[e]
  BY <1>1, ReturnIs
<1>3. ToSet(node[e].children) \subseteq Below(e) /\ node[e].children \in Seq(Addr)
  BY <1>1 DEF Linked, Kids, ExpAddr
<1>4. d \in Walks /\ SenderWalked(node[e].children, v, d)
  BY <1>2, <1>3
<1>5. ASSUME NEW u \in Walks
      PROVE  walk[<<Tail(el), u>>] \in Walks /\ SenderWalked(Tail(el), u, walk[<<Tail(el), u>>])
  BY <1>1
<1>6. /\ yes \in Walks /\ yes.ret = d.ret
      /\ \A b \in Addr : yes.flags[b] =
           IF b = e THEN d.flags[b] \union {"EMAIL_SENDER"} ELSE d.flags[b]
      /\ no \in Walks /\ no.ret = d.ret
      /\ \A b \in Addr : no.flags[b] =
           IF b = e THEN d.flags[b] \union {"NO_EMAIL_SENDER"} ELSE d.flags[b]
  <2>1. "EMAIL_SENDER" \in Flags /\ "NO_EMAIL_SENDER" \in Flags
    BY DEF Flags
  <2> HIDE DEF d, e
  <2>2. Marked(yes, d, e, "EMAIL_SENDER") /\ Marked(no, d, e, "NO_EMAIL_SENDER")
    BY <2>1, <1>1, <1>4, MarkIs
  <2> HIDE DEF yes, no
  <2> QED  BY <2>2 DEF Marked
<1>7. t = CASE e \in w.seen -> walk[<<Tail(el), w>>]
            [] e \notin w.seen /\ Has(w, e, "EMAIL_SENDER") -> Return(v, TRUE)
            [] e \notin w.seen /\ ~Has(w, e, "EMAIL_SENDER")
               /\ Has(w, e, "NO_EMAIL_SENDER") -> walk[<<Tail(el), v>>]
            [] OTHER -> IF d.ret THEN yes ELSE walk[<<Tail(el), no>>]
  BY DEF SenderTurn
<1> SUFFICES t \in Walks /\ SenderWalked(el, w, t)
  OBVIOUS
<1> HIDE DEF t, yes, no, d, v, e
\* Going on with the rest of the list, from flags that are sound.
<1>8. ASSUME NEW u \in Walks, t = walk[<<Tail(el), u>>],
             SendersKnown(w.flags) => SendersKnown(u.flags) /\ Flagged(w.flags, u.flags, S)
      PROVE  t \in Walks /\ SenderWalked(el, w, t)
  <2>1. t \in Walks /\ SenderWalked(Tail(el), u, t)
    BY <1>5, <1>8
  <2> SUFFICES ASSUME SendersKnown(w.flags)
               PROVE  /\ Flagged(w.flags, t.flags, S) /\ SendersKnown(t.flags)
                      /\ t.ret => \E b \in ToSet(el) : LeadsToSender(b)
    BY <2>1 DEF SenderWalked
  <2>2. /\ Flagged(u.flags, t.flags, S) /\ SendersKnown(t.flags)
        /\ t.ret => \E b \in ToSet(Tail(el)) : LeadsToSender(b)
    BY <1>8, <2>1 DEF SenderWalked
  <2>3. Flagged(w.flags, t.flags, S)
    BY <1>8, <2>2, FlaggedTwice
  <2> QED  BY <2>2, <2>3, <1>1
<1>9. Flagged(w.flags, w.flags, S)
  BY DEF Flagged
<1>10. CASE e \in w.seen
  <2>1. t = walk[<<Tail(el), w>>]
    BY <1>7, <1>10
  <2> QED  BY <2>1, <1>8, <1>9
<1>11. CASE e \notin w.seen /\ Has(w, e, "EMAIL_SENDER")
  <2>1. t = Return(v, TRUE)
    BY <1>7, <1>11
  <2>2. t \in Walks /\ t.ret = TRUE /\ t.flags = w.flags
    BY <2>1, <1>1, <1>2, ReturnIs
  <2>3. SendersKnown(w.flags) => LeadsToSender(e)
    BY <1>1, <1>2, <1>11 DEF SendersKnown
  <2> QED  BY <2>2, <2>3, <1>1, <1>9 DEF SenderWalked
<1>12. CASE e \notin w.seen /\ ~Has(w, e, "EMAIL_SENDER") /\ Has(w, e, "NO_EMAIL_SENDER")
  <2>1. t = walk[<<Tail(el), v>>]
    BY <1>7, <1>12
  <2> QED  BY <2>1, <1>2, <1>8, <1>9
<1>13. CASE e \notin w.seen /\ ~Has(w, e, "EMAIL_SENDER") /\ ~Has(w, e, "NO_EMAIL_SENDER")
  <2>1. t = IF d.ret THEN yes ELSE walk[<<Tail(el), no>>]
    BY <1>7, <1>13
  <2>2. SendersKnown(w.flags) =>
          /\ Flagged(w.flags, d.flags, S) /\ SendersKnown(d.flags)
          /\ d.ret => \E b \in ToSet(node[e].children) : LeadsToSender(b)
    BY <1>2, <1>4 DEF SenderWalked
  <2>3. CASE d.ret
    <3>1. t = yes
      BY <2>1, <2>3
    <3> SUFFICES ASSUME SendersKnown(w.flags)
                 PROVE  /\ Flagged(w.flags, t.flags, S) /\ SendersKnown(t.flags)
                        /\ LeadsToSender(e)
      BY <3>1, <1>1, <1>6 DEF SenderWalked
    <3>2. LeadsToSender(e)
      BY <2>2, <2>3, <1>1, <1>3, LeadsUp
    <3>3. Flagged(d.flags, yes.flags, S)
      BY <1>6 DEF Flagged
    <3>4. SendersKnown(yes.flags)
      BY <1>6, <2>2, <3>2 DEF SendersKnown
    <3> QED  BY <3>1, <3>2, <3>3, <3>4, <2>2, FlaggedTwice
  <2>4. CASE ~d.ret
    <3>1. t = walk[<<Tail(el), no>>]
      BY <2>1, <2>4
    <3>2. Flagged(d.flags, no.flags, S)
      BY <1>6 DEF Flagged
    <3>3. SendersKnown(d.flags) => SendersKnown(no.flags)
      BY <1>6 DEF SendersKnown
    <3>4. SendersKnown(w.flags) => SendersKnown(no.flags) /\ Flagged(w.flags, no.flags, S)
      BY <2>2, <3>2, <3>3, FlaggedTwice
    <3> QED  BY <3>1, <3>4, <1>6, <1>8
  <2> QED  BY <2>3, <2>4
<1> QED  BY <1>10, <1>11, <1>12, <1>13

\* The bound on the steps of a walk is a number.
LEMMA EnoughIsNat == WorldsAssumption => Enough \in Nat
<1>1. IsFiniteSet(Addr) => Cardinality(Addr) \in Nat
  BY FS_CardinalityType
<1>2. ASSUME NEW n \in Nat PROVE (n + 1) * (n + 2) \in Nat
  OBVIOUS
<1> QED  BY <1>1, <1>2 DEF WorldsAssumption, Enough

\* A walk that begins with the flags as they are.
LEMMA WalkIs ==
    ASSUME node \in [Addr -> ExpAddr]
    PROVE  /\ FlagsOf \in [Addr -> SUBSET Flags] /\ Walk(FlagsOf) \in Walks
           /\ \A a \in Addr : FlagsOf[a] = node[a].flags
           /\ Walk(FlagsOf).flags = FlagsOf /\ Walk(FlagsOf).ret = TRUE
<1>1. \A a \in Addr : node[a].flags \in SUBSET Flags
  BY DEF ExpAddr
<1> QED  BY <1>1 DEF FlagsOf, Walk, Walks

\* What sender_is_child finds is there.
LEMMA SenderWalkIs ==
    ASSUME world \in World, node \in [Addr -> ExpAddr], Linked(list, node),
           SendersFound(node), NEW a \in Addr
    PROVE  /\ sender_is_child(a) \in Walks
           /\ Flagged(FlagsOf, sender_is_child(a).flags, {"EMAIL_SENDER", "NO_EMAIL_SENDER"})
           /\ SendersKnown(sender_is_child(a).flags)
           /\ sender_is_child(a).ret => \E b \in Kids(node, a) : LeadsToSender(b)
<1> DEFINE N == Enough
           D == Seq(Addr) \X Walks
           S == [x \in D |-> Return(x[2], FALSE)]
           Next0(h) == [x \in D |-> IF x[1] = <<>> THEN Return(x[2], FALSE)
                                    ELSE SenderTurn(h, x[1], x[2])]
           walk[n \in 0..N] ==
             [x \in Seq(Addr) \X Walks |->
                IF n = 0 \/ x[1] = <<>> THEN Return(x[2], FALSE)
                ELSE SenderTurn(walk[n - 1], x[1], x[2])]
           Is(f) == f = [n \in 0..N |->
                           [x \in Seq(Addr) \X Walks |->
                              IF n = 0 \/ x[1] = <<>> THEN Return(x[2], FALSE)
                              ELSE SenderTurn(f[n - 1], x[1], x[2])]]
           Good == {h \in [D -> Walks] : \A x \in D : SenderWalked(x[1], x[2], h[x])}
           J == [n \in 0..N |-> Good]
           Turn == [nh \in (1..N) \X Good |-> Next0(nh[2])]
           start == <<node[a].children, Walk(FlagsOf)>>
<1>1. sender_is_child(a) = walk[N][start]
  BY DEF sender_is_child
<1>2. (\E f : Is(f)) => Is(walk)
  OBVIOUS
<1>3. N \in Nat
  BY EnoughIsNat, WorldsAssumption
<1>4. \A x \in D : /\ Return(x[2], FALSE) \in Walks
                   /\ SenderWalked(x[1], x[2], Return(x[2], FALSE))
  <2> SUFFICES ASSUME NEW x \in D
               PROVE  /\ Return(x[2], FALSE) \in Walks
                      /\ SenderWalked(x[1], x[2], Return(x[2], FALSE))
    OBVIOUS
  <2>1. /\ Return(x[2], FALSE) \in Walks /\ Return(x[2], FALSE).ret = FALSE
        /\ Return(x[2], FALSE).flags = x[2].flags
    BY DEF Return, Walks
  <2> QED  BY <2>1 DEF SenderWalked, Flagged
<1>5. S \in Good
  BY <1>4
<1>6. ASSUME NEW h \in Good PROVE Next0(h) \in Good
  <2>1. h \in [D -> Walks] /\ \A x \in D : SenderWalked(x[1], x[2], h[x])
    OBVIOUS
  <2>2. ASSUME NEW x \in D
        PROVE  LET r == IF x[1] = <<>> THEN Return(x[2], FALSE)
                        ELSE SenderTurn(h, x[1], x[2])
               IN  r \in Walks /\ SenderWalked(x[1], x[2], r)
    <3>1. CASE x[1] = <<>>
      BY <3>1, <1>4
    <3>2. CASE x[1] # <<>>
      <4>1. x[1] \in Seq(Addr) /\ x[2] \in Walks
        OBVIOUS
      <4>2. /\ SenderTurn(h, x[1], x[2]) \in Walks
            /\ SenderWalked(x[1], x[2], SenderTurn(h, x[1], x[2]))
        BY <4>1, <3>2, <2>1, SenderTurnIs
      <4> QED  BY <3>2, <4>2
    <3> QED  BY <3>1, <3>2
  <2> QED  BY <2>2
<1>7. \A n \in 1..N : \A h \in Good : Turn[<<n, h>>] = Next0(h)
  OBVIOUS
<1> HIDE DEF Turn, Good, N
<1>8. Leads(N, J, Turn, S)
  <2> HIDE DEF S, Next0
  <2> QED  BY <1>3, <1>5, <1>6, <1>7 DEF Leads
<1>9. PICK f : Looped(f, N, J, Turn, S)
  BY <1>8, LoopRuns
<1>10. Is(f)
  <2>1. ASSUME NEW n \in 0..N
        PROVE  f[n] = [x \in Seq(Addr) \X Walks |->
                         IF n = 0 \/ x[1] = <<>> THEN Return(x[2], FALSE)
                         ELSE SenderTurn(f[n - 1], x[1], x[2])]
    <3>1. f[n] = IF n = 0 THEN S ELSE Turn[<<n, f[n - 1]>>]
      BY <1>9 DEF Looped
    <3>2. n # 0 => n \in 1..N /\ n - 1 \in 0..N
      BY <1>3
    <3>3. n # 0 => f[n - 1] \in Good
      BY <1>9, <3>2 DEF Looped
    <3>4. n # 0 => f[n] = Next0(f[n - 1])
      <4> HIDE DEF Next0
      <4> QED  BY <3>1, <3>2, <3>3, <1>7
    <3>5. CASE n = 0
      BY <3>5, <3>1
    <3>6. CASE n # 0
      BY <3>6, <3>4
    <3> QED  BY <3>5, <3>6
  <2>2. f = [n \in 0..N |-> f[n]]
    BY <1>9 DEF Looped
  <2> QED  BY <2>1, <2>2, Zenon
<1>11. Is(walk)
  BY <1>2, <1>10
<1> HIDE DEF walk
<1>12. walk[0] \in J[0]
  <2>1. 0 \in 0..N
    BY <1>3
  <2>2. walk[0] = S
    BY <2>1, <1>11
  <2> HIDE DEF S
  <2> QED  BY <2>1, <2>2, <1>5
<1>13. \A n \in 1..N : walk[n - 1] \in J[n - 1] => walk[n] \in J[n]
  <2> SUFFICES ASSUME NEW n \in 1..N, walk[n - 1] \in J[n - 1]
               PROVE  walk[n] \in J[n]
    OBVIOUS
  <2>1. n \in 0..N /\ n - 1 \in 0..N /\ n # 0
    BY <1>3
  <2>2. walk[n] = Next0(walk[n - 1])
    BY <2>1, <1>11
  <2> HIDE DEF Next0
  <2> QED  BY <2>1, <2>2, <1>6
<1>14. walk[N] \in J[N]
  <2> HIDE DEF J
  <2> QED  BY <1>3, <1>12, <1>13, LoopEnds
<1>15. walk[N] \in [D -> Walks] /\ \A x \in D : SenderWalked(x[1], x[2], walk[N][x])
  BY <1>3, <1>14 DEF Good
<1>16. start \in D
  BY WalkIs DEF ExpAddr
<1>17. walk[N][start] \in Walks /\ SenderWalked(node[a].children, Walk(FlagsOf), walk[N][start])
  <2>1. start[1] = node[a].children /\ start[2] = Walk(FlagsOf)
    OBVIOUS
  <2> HIDE DEF start, D
  <2>2. SenderWalked(start[1], start[2], walk[N][start]) /\ walk[N][start] \in Walks
    BY <1>15, <1>16
  <2> QED  BY <2>1, <2>2
<1>18. SendersKnown(Walk(FlagsOf).flags)
  BY WalkIs DEF SendersKnown, SendersFound
<1> QED  BY <1>1, <1>17, <1>18, WalkIs DEF SenderWalked, Kids, N

\* Addresses that are flagged as having a path are reached.
PathsKnown(f) == \A a \in Addr : "ROOT_PATH" \in f[a] => a \in Reached

SameGuards(f) == \A a \in Addr : "MEMONLY" \in f[a] <=> "MEMONLY" \in node[a].flags

\* What is reached, and does not hold up the message.
LetsBy(p) == p \in Addr /\ p \in Reached /\ "MEMONLY" \notin node[p].flags

\* What unblocked_path_to_root makes of w, for the parents el.
PathWalked(el, w, r) ==
    PathsKnown(w.flags) /\ SameGuards(w.flags) =>
      /\ Flagged(w.flags, r.flags, {"ROOT_PATH", "NO_ROOT_PATH"})
      /\ PathsKnown(r.flags)
      /\ r.ret => None \in ToSet(el) \/ \E p \in ToSet(el) : LetsBy(p)

\* Below an address that lets the message by, and at a recipient, it arrives.
LEMMA Arrives ==
    ASSUME world \in World, None \notin Addr, Linked(list, node), Guarded(node, memonly),
           NEW e \in Addr,
           None \in ToSet(node[e].parents) \/ \E p \in ToSet(node[e].parents) : LetsBy(p)
    PROVE  e \in Reached
<1>1. CASE None \in ToSet(node[e].parents)
  BY <1>1, ReachedIs DEF Linked
<1>2. CASE \E p \in ToSet(node[e].parents) : LetsBy(p)
  <2>1. PICK p \in ToSet(node[e].parents) : LetsBy(p)
    BY <1>2
  <2>2. p \in Addr /\ p # None /\ p \in Reached
    BY <2>1 DEF LetsBy
  <2>3. e \in Kids(node, p) /\ Kids(node, p) \subseteq Below(p)
    BY <2>2 DEF Linked
  <2>4. p \notin Refused
    BY <2>1, <2>3 DEF Guarded, IsGuarded, LetsBy
  <2> QED  BY <2>2, <2>3, <2>4, ReachedIs
<1> QED  BY <1>1, <1>2

\* One call of unblocked_path_to_root, if the calls it makes are right.
LEMMA PathTurnIs ==
    ASSUME world \in World, None \notin Addr, node \in [Addr -> ExpAddr],
           Linked(list, node), Guarded(node, memonly),
           NEW walk \in [Seq(Addr \union {None}) \X Walks -> Walks],
           \A x \in Seq(Addr \union {None}) \X Walks : PathWalked(x[1], x[2], walk[x]),
           NEW el \in Seq(Addr \union {None}), el # <<>>, NEW w \in Walks
    PROVE  /\ PathTurn(walk, el, w) \in Walks
           /\ PathWalked(el, w, PathTurn(walk, el, w))
<1> DEFINE S == {"ROOT_PATH", "NO_ROOT_PATH"}
           e == Head(el)
           v == See(w, e)
           up == walk[<<node[e].parents, v>>]
           flag == IF up.ret THEN "ROOT_PATH" ELSE "NO_ROOT_PATH"
           mark == Mark(up, e, flag)
           d == CASE e \in w.seen -> Return(w, FALSE)
                  [] e \notin w.seen /\ (Has(w, e, "MEMONLY") \/ Has(w, e, "NO_ROOT_PATH"))
                     -> Return(v, FALSE)
                  [] e \notin w.seen /\ ~Has(w, e, "MEMONLY") /\ ~Has(w, e, "NO_ROOT_PATH")
                     /\ Has(w, e, "ROOT_PATH") -> Return(v, TRUE)
                  [] OTHER -> mark
           t == PathTurn(walk, el, w)
<1>1. /\ e \in Addr \union {None} /\ e \in ToSet(el) /\ Tail(el) \in Seq(Addr \union {None})
      /\ ToSet(Tail(el)) \subseteq ToSet(el)
  <2>1. e = el[1] /\ Len(el) \in Nat /\ 1 \in 1..Len(el) /\ Tail(el) \in Seq(Addr \union {None})
    OBVIOUS
  <2>2. \A i \in 1..Len(Tail(el)) : Tail(el)[i] = el[i + 1] /\ i + 1 \in 1..Len(el)
    OBVIOUS
  <2>3. DOMAIN el = 1..Len(el) /\ DOMAIN Tail(el) = 1..Len(Tail(el))
    BY <2>1
  <2> HIDE DEF e
  <2>4. ToSet(Tail(el)) \subseteq ToSet(el)
    BY <2>2, <2>3 DEF ToSet
  <2> QED  BY <2>1, <2>3, <2>4 DEF ToSet
<1>2. t = IF e = None THEN Return(w, TRUE)
          ELSE IF d.ret THEN d ELSE walk[<<Tail(el), d>>]
  BY DEF PathTurn
<1> SUFFICES t \in Walks /\ PathWalked(el, w, t)
  OBVIOUS
<1>3. Flagged(w.flags, w.flags, S)
  BY DEF Flagged
<1>4. CASE e = None
  <2> HIDE DEF t, d, e
  <2>1. t = Return(w, TRUE)
    BY <1>2, <1>4
  <2>2. t \in Walks /\ t.flags = w.flags
    BY <2>1 DEF Return, Walks
  <2> QED  BY <2>2, <1>1, <1>3, <1>4 DEF PathWalked
<1>5. CASE e # None
  <2>1. e \in Addr
    BY <1>1, <1>5
  <2>2. /\ v \in Walks /\ v.flags = w.flags /\ \A f : Has(w, e, f) <=> f \in w.flags[e]
        /\ Return(w, FALSE) \in Walks /\ Return(w, FALSE).flags = w.flags
        /\ Return(w, FALSE).ret = FALSE
    BY <2>1, ReturnIs
  <2>3. /\ Return(v, FALSE) \in Walks /\ Return(v, FALSE).flags = w.flags
        /\ Return(v, FALSE).ret = FALSE
        /\ Return(v, TRUE) \in Walks /\ Return(v, TRUE).flags = w.flags
        /\ Return(v, TRUE).ret = TRUE
    <3> HIDE DEF v
    <3> QED  BY <2>2, <2>1, ReturnIs
  <2>4. up \in Walks /\ PathWalked(node[e].parents, v, up)
    <3>1. node[e].parents \in Seq(Addr \union {None})
      BY <2>1 DEF ExpAddr
    <3> QED  BY <3>1, <2>2
  <2>5. Marked(mark, up, e, flag)
    <3>1. flag \in Flags
      BY DEF Flags
    <3> HIDE DEF up, e, flag
    <3> QED  BY <3>1, <2>1, <2>4, MarkIs
  <2> HIDE DEF t, mark, up, v, e
  \* What the address itself contributes.
  <2>6. d \in Walks /\ (PathsKnown(w.flags) /\ SameGuards(w.flags) =>
          /\ Flagged(w.flags, d.flags, S) /\ PathsKnown(d.flags)
          /\ d.ret => LetsBy(e))
    <3>1. CASE e \in w.seen
      <4>1. d = Return(w, FALSE)
        BY <3>1
      <4> HIDE DEF d
      <4> QED  BY <4>1, <2>2, <1>3
    <3>2. CASE e \notin w.seen /\ (Has(w, e, "MEMONLY") \/ Has(w, e, "NO_ROOT_PATH"))
      <4>1. d = Return(v, FALSE)
        BY <3>2
      <4> HIDE DEF d
      <4> QED  BY <4>1, <2>3, <1>3
    <3>3. CASE e \notin w.seen /\ ~Has(w, e, "MEMONLY") /\ ~Has(w, e, "NO_ROOT_PATH")
               /\ Has(w, e, "ROOT_PATH")
      <4>1. d = Return(v, TRUE)
        BY <3>3
      <4> HIDE DEF d
      <4>2. PathsKnown(w.flags) /\ SameGuards(w.flags) => LetsBy(e)
        BY <3>3, <2>1, <2>2 DEF PathsKnown, SameGuards, LetsBy
      <4> QED  BY <4>1, <4>2, <2>3, <1>3
    <3>4. CASE e \notin w.seen /\ ~Has(w, e, "MEMONLY") /\ ~Has(w, e, "NO_ROOT_PATH")
               /\ ~Has(w, e, "ROOT_PATH")
      <4>1. d = mark
        BY <3>4
      <4> HIDE DEF d
      <4>2. mark \in Walks /\ mark.ret = up.ret
            /\ \A b \in Addr : mark.flags[b] =
                 IF b = e THEN up.flags[b] \union {flag} ELSE up.flags[b]
        <5> HIDE DEF flag
        <5> QED  BY <2>5 DEF Marked
      <4> SUFFICES ASSUME PathsKnown(w.flags), SameGuards(w.flags)
                   PROVE  /\ Flagged(w.flags, mark.flags, S) /\ PathsKnown(mark.flags)
                          /\ up.ret => LetsBy(e)
        BY <4>1, <4>2
      <4>3. /\ Flagged(w.flags, up.flags, S) /\ PathsKnown(up.flags)
            /\ up.ret => \/ None \in ToSet(node[e].parents)
                         \/ \E p \in ToSet(node[e].parents) : LetsBy(p)
        BY <2>2, <2>4 DEF PathWalked
      <4>4. up.ret => e \in Reached
        BY <4>3, <2>1, Arrives
      <4>5. Flagged(up.flags, mark.flags, S)
        BY <4>2 DEF Flagged
      <4>6. Flagged(w.flags, mark.flags, S)
        BY <4>3, <4>5, FlaggedTwice
      <4>7. PathsKnown(mark.flags)
        <5>1. CASE up.ret
          BY <5>1, <4>2, <4>3, <4>4 DEF PathsKnown
        <5>2. CASE ~up.ret
          <6>1. flag = "NO_ROOT_PATH" /\ "NO_ROOT_PATH" # "ROOT_PATH"
            BY <5>2
          <6> HIDE DEF flag
          <6>2. \A b \in Addr : "ROOT_PATH" \in mark.flags[b] => "ROOT_PATH" \in up.flags[b]
            BY <6>1, <4>2
          <6> QED  BY <6>2, <4>3 DEF PathsKnown
        <5> QED  BY <5>1, <5>2
      <4>8. "MEMONLY" \notin node[e].flags
        BY <3>4, <2>1, <2>2 DEF SameGuards
      <4> QED  BY <4>4, <4>6, <4>7, <4>8, <2>1 DEF LetsBy
    <3> QED  BY <3>1, <3>2, <3>3, <3>4
  <2> HIDE DEF d
  <2>7. CASE d.ret
    <3>1. t = d
      BY <1>2, <1>5, <2>7
    <3> QED  BY <3>1, <2>6, <2>7, <1>1 DEF PathWalked
  <2>8. CASE ~d.ret
    <3>1. t = walk[<<Tail(el), d>>]
      BY <1>2, <1>5, <2>8
    <3>2. t \in Walks /\ PathWalked(Tail(el), d, t)
      BY <3>1, <1>1, <2>6
    <3> SUFFICES ASSUME PathsKnown(w.flags), SameGuards(w.flags)
                 PROVE  /\ Flagged(w.flags, t.flags, S) /\ PathsKnown(t.flags)
                        /\ t.ret => \/ None \in ToSet(el)
                                    \/ \E p \in ToSet(el) : LetsBy(p)
      BY <3>2 DEF PathWalked
    <3>3. Flagged(w.flags, d.flags, S) /\ PathsKnown(d.flags)
      BY <2>6
    <3>4. SameGuards(d.flags)
      BY <3>3 DEF SameGuards, Flagged
    <3>5. /\ Flagged(d.flags, t.flags, S) /\ PathsKnown(t.flags)
          /\ t.ret => \/ None \in ToSet(Tail(el))
                      \/ \E p \in ToSet(Tail(el)) : LetsBy(p)
      BY <3>2, <3>3, <3>4 DEF PathWalked
    <3>6. Flagged(w.flags, t.flags, S)
      BY <3>3, <3>5, FlaggedTwice
    <3> QED  BY <3>5, <3>6, <1>1
  <2> QED  BY <2>7, <2>8
<1> QED  BY <1>4, <1>5

\* Where unblocked_path_to_root finds a path, there is one.
LEMMA PathWalkIs ==
    ASSUME world \in World, None \notin Addr, node \in [Addr -> ExpAddr],
           Linked(list, node), Guarded(node, memonly), PathsKnown(FlagsOf),
           NEW a \in Addr
    PROVE  LET r == unblocked_path_to_root(a)
           IN  /\ r \in Walks
               /\ Flagged(FlagsOf, r.flags, {"ROOT_PATH", "NO_ROOT_PATH"})
               /\ PathsKnown(r.flags) /\ (r.ret => a \in Reached)
<1> DEFINE N == Enough
           D == Seq(Addr \union {None}) \X Walks
           S == [x \in D |-> Return(x[2], FALSE)]
           Next0(h) == [x \in D |-> IF x[1] = <<>> THEN Return(x[2], FALSE)
                                    ELSE PathTurn(h, x[1], x[2])]
           walk[n \in 0..N] ==
             [x \in Seq(Addr \union {None}) \X Walks |->
                IF n = 0 \/ x[1] = <<>> THEN Return(x[2], FALSE)
                ELSE PathTurn(walk[n - 1], x[1], x[2])]
           Is(f) == f = [n \in 0..N |->
                           [x \in Seq(Addr \union {None}) \X Walks |->
                              IF n = 0 \/ x[1] = <<>> THEN Return(x[2], FALSE)
                              ELSE PathTurn(f[n - 1], x[1], x[2])]]
           Good == {h \in [D -> Walks] : \A x \in D : PathWalked(x[1], x[2], h[x])}
           J == [n \in 0..N |-> Good]
           Turn == [nh \in (1..N) \X Good |-> Next0(nh[2])]
           start == << <<a>>, Walk(FlagsOf)>>
<1>1. unblocked_path_to_root(a) = walk[N][start]
  BY DEF unblocked_path_to_root
<1>2. (\E f : Is(f)) => Is(walk)
  OBVIOUS
<1>3. N \in Nat
  BY EnoughIsNat, WorldsAssumption
<1>4. \A x \in D : /\ Return(x[2], FALSE) \in Walks
                   /\ PathWalked(x[1], x[2], Return(x[2], FALSE))
  <2> SUFFICES ASSUME NEW x \in D
               PROVE  /\ Return(x[2], FALSE) \in Walks
                      /\ PathWalked(x[1], x[2], Return(x[2], FALSE))
    OBVIOUS
  <2>1. /\ Return(x[2], FALSE) \in Walks /\ Return(x[2], FALSE).ret = FALSE
        /\ Return(x[2], FALSE).flags = x[2].flags
    BY DEF Return, Walks
  <2> QED  BY <2>1 DEF PathWalked, Flagged
<1>5. S \in Good
  BY <1>4
<1>6. ASSUME NEW h \in Good PROVE Next0(h) \in Good
  <2>1. h \in [D -> Walks] /\ \A x \in D : PathWalked(x[1], x[2], h[x])
    OBVIOUS
  <2>2. ASSUME NEW x \in D
        PROVE  LET r == IF x[1] = <<>> THEN Return(x[2], FALSE)
                        ELSE PathTurn(h, x[1], x[2])
               IN  r \in Walks /\ PathWalked(x[1], x[2], r)
    <3>1. CASE x[1] = <<>>
      BY <3>1, <1>4
    <3>2. CASE x[1] # <<>>
      <4>1. x[1] \in Seq(Addr \union {None}) /\ x[2] \in Walks
        OBVIOUS
      <4>2. /\ PathTurn(h, x[1], x[2]) \in Walks
            /\ PathWalked(x[1], x[2], PathTurn(h, x[1], x[2]))
        BY <4>1, <3>2, <2>1, PathTurnIs
      <4> QED  BY <3>2, <4>2
    <3> QED  BY <3>1, <3>2
  <2> QED  BY <2>2
<1>7. \A n \in 1..N : \A h \in Good : Turn[<<n, h>>] = Next0(h)
  OBVIOUS
<1> HIDE DEF Turn, Good, N
<1>8. Leads(N, J, Turn, S)
  <2> HIDE DEF S, Next0
  <2> QED  BY <1>3, <1>5, <1>6, <1>7 DEF Leads
<1>9. PICK f : Looped(f, N, J, Turn, S)
  BY <1>8, LoopRuns
<1>10. Is(f)
  <2>1. ASSUME NEW n \in 0..N
        PROVE  f[n] = [x \in Seq(Addr \union {None}) \X Walks |->
                         IF n = 0 \/ x[1] = <<>> THEN Return(x[2], FALSE)
                         ELSE PathTurn(f[n - 1], x[1], x[2])]
    <3>1. f[n] = IF n = 0 THEN S ELSE Turn[<<n, f[n - 1]>>]
      BY <1>9 DEF Looped
    <3>2. n # 0 => n \in 1..N /\ n - 1 \in 0..N
      BY <1>3
    <3>3. n # 0 => f[n - 1] \in Good
      BY <1>9, <3>2 DEF Looped
    <3>4. n # 0 => f[n] = Next0(f[n - 1])
      <4> HIDE DEF Next0
      <4> QED  BY <3>1, <3>2, <3>3, <1>7
    <3>5. CASE n = 0
      BY <3>5, <3>1
    <3>6. CASE n # 0
      BY <3>6, <3>4
    <3> QED  BY <3>5, <3>6
  <2>2. f = [n \in 0..N |-> f[n]]
    BY <1>9 DEF Looped
  <2> QED  BY <2>1, <2>2, Zenon
<1>11. Is(walk)
  BY <1>2, <1>10
<1> HIDE DEF walk
<1>12. walk[0] \in J[0]
  <2>1. 0 \in 0..N
    BY <1>3
  <2>2. walk[0] = S
    BY <2>1, <1>11
  <2> HIDE DEF S
  <2> QED  BY <2>1, <2>2, <1>5
<1>13. \A n \in 1..N : walk[n - 1] \in J[n - 1] => walk[n] \in J[n]
  <2> SUFFICES ASSUME NEW n \in 1..N, walk[n - 1] \in J[n - 1]
               PROVE  walk[n] \in J[n]
    OBVIOUS
  <2>1. n \in 0..N /\ n - 1 \in 0..N /\ n # 0
    BY <1>3
  <2>2. walk[n] = Next0(walk[n - 1])
    <3>1. walk[n] = [x \in Seq(Addr \union {None}) \X Walks |->
                       IF n = 0 \/ x[1] = <<>> THEN Return(x[2], FALSE)
                       ELSE PathTurn(walk[n - 1], x[1], x[2])]
      BY <2>1, <1>11, Zenon
    <3> QED  BY <3>1, <2>1
  <2> HIDE DEF Next0
  <2> QED  BY <2>1, <2>2, <1>6
<1>14. walk[N] \in J[N]
  <2> HIDE DEF J
  <2> QED  BY <1>3, <1>12, <1>13, LoopEnds
<1>15. walk[N] \in [D -> Walks] /\ \A x \in D : PathWalked(x[1], x[2], walk[N][x])
  BY <1>3, <1>14 DEF Good
<1>16. start \in D
  <2>1. a \in Addr \union {None}
    OBVIOUS
  <2>2. <<a>> \in Seq(Addr \union {None})
    BY <2>1
  <2> QED  BY <2>2, WalkIs
<1>17. walk[N][start] \in Walks /\ PathWalked(<<a>>, Walk(FlagsOf), walk[N][start])
  <2>1. start[1] = <<a>> /\ start[2] = Walk(FlagsOf)
    OBVIOUS
  <2> HIDE DEF start, D
  <2>2. PathWalked(start[1], start[2], walk[N][start]) /\ walk[N][start] \in Walks
    BY <1>15, <1>16
  <2> QED  BY <2>1, <2>2
<1>18. PathsKnown(Walk(FlagsOf).flags) /\ SameGuards(Walk(FlagsOf).flags)
  BY WalkIs DEF SameGuards
<1>19. ToSet(<<a>>) = {a}
  BY DEF ToSet
<1>20. /\ Flagged(FlagsOf, walk[N][start].flags, {"ROOT_PATH", "NO_ROOT_PATH"})
       /\ PathsKnown(walk[N][start].flags)
       /\ walk[N][start].ret => None \in ToSet(<<a>>) \/ \E p \in ToSet(<<a>>) : LetsBy(p)
  <2> HIDE DEF start
  <2> QED  BY <1>17, <1>18, WalkIs DEF PathWalked
<1> HIDE DEF start
<1> QED  BY <1>1, <1>17, <1>19, <1>20 DEF LetsBy


---------------------------------------------------------------------------
(* No leak.                                                                *)

\* What is below an address is suppressed.
Shut(n, a) == \A b \in Kids(n, a) : "SUPRESSED" \in n[b].flags
Downwards(n) == \A a \in Addr : "SUPRESSED" \in n[a].flags => Shut(n, a)

NoPaths(n) == \A a \in Addr : "ROOT_PATH" \notin n[a].flags

\* The groups the first loop has been at are shut, if they refused the message.
Suppressing ==
    /\ NoPaths(node) /\ Downwards(node)
    /\ \A i \in 1..Len(memonly) : i < at /\ memonly[i] \in Refused => Shut(node, memonly[i])

\* The first loop is over: the second finds all of them shut.
Suppressed ==
    /\ \A a \in Refused : Shut(node, a)
    /\ Downwards(node) /\ PathsKnown(FlagsOf)

LeakType ==
    /\ world \in World
    /\ list \in Seq(Addr) /\ at \in Nat
    /\ node \in [Addr -> ExpAddr]
    /\ memonly \in Seq(Addr)

LeakInv ==
    /\ LeakType
    /\ Graph(list, node, memonly)
    /\ {x[2] : x \in written} \subseteq Reached
    /\ pc \in {"start", "expand", "ldap"} => Fresh(list, node)
    /\ pc \in {"expand", "ldap", "members", "write"} => at >= 1
    /\ pc = "ldap" => at <= Len(list)
    /\ pc = "members" => Suppressing
    /\ pc \in {"write", "done"} => Suppressed

\* The message and the directory stay what they are, and with them all that is
\* defined by them.
LEMMA SameWorld ==
    ASSUME UNCHANGED world
    PROVE  /\ Refused' = Refused /\ Reached' = Reached
           /\ \A a : Below(a)' = Below(a)
           /\ \A a : LeadsToSender(a)' = LeadsToSender(a)
<1>1. \A a : Below(a)' = Below(a)
  BY DEF Below, kind, GroupLoops
<1>2. Links' = Links
  BY <1>1 DEF Links
<1>3. \A a : IsSender(a)' = IsSender(a)
  BY DEF IsSender, kind
<1>4. \A a : LeadsToSender(a)' = LeadsToSender(a)
  BY <1>2, <1>3 DEF LeadsToSender
<1>5. Refused' = Refused
  BY <1>1, <1>2, <1>3 DEF Refused, kind, GroupLoops
<1>6. Reached' = Reached
  BY <1>1, <1>5 DEF Reached
<1> QED  BY <1>1, <1>4, <1>5, <1>6

\* A graph of the next state is one when its message is looked at there.
LEMMA GraphKept ==
    ASSUME UNCHANGED world, Graph(list', node', memonly')
    PROVE  Graph(list, node, memonly)'
<1>1. /\ Linked(list', node') /\ Grown(list', node')
      /\ Guarded(node', memonly') /\ SendersFound(node')
  BY DEF Graph
<1>2. Linked(list, node)'
  <2>1. \A a : (Below(a))' = Below(a)
    BY SameWorld
  <2> QED  BY <1>1, <2>1 DEF Linked, Kids
<1>3. Grown(list, node)'
  BY <1>1 DEF Grown, Kids
<1>4. Guarded(node, memonly)'
  BY <1>1, SameWorld DEF Guarded, IsGuarded, Kids
<1>5. SendersFound(node)'
  BY <1>1, SameWorld DEF SendersFound
<1> QED  BY <1>2, <1>3, <1>4, <1>5 DEF Graph

\* The addresses change, and none of their links.
SameLinks(k, n) ==
    /\ k \in [Addr -> ExpAddr]
    /\ \A a \in Addr : k[a].parents = n[a].parents /\ k[a].children = n[a].children

\* A graph stays one when flags are set that take no refused group's guard away.
LEMMA Relabelled ==
    ASSUME NEW l, NEW n, NEW m, NEW k, NEW o, Graph(l, n, m), SameLinks(k, n),
           \A a \in Refused : IsGuarded(n, m, a) => IsGuarded(k, o, a),
           SendersFound(k)
    PROVE  Graph(l, k, o)
<1>1. \A a \in Addr : Kids(k, a) = Kids(n, a) /\ k[a].parents = n[a].parents
  BY DEF SameLinks, Kids
<1>2. Linked(l, n) /\ Grown(l, n) /\ Guarded(n, m)
  BY DEF Graph
<1>3. Linked(l, k)
  <2>1. \A a \in Addr : Kids(k, a) # {} => a \in ToSet(l)
    BY <1>1, <1>2 DEF Linked
  <2>2. \A a \in Addr : \A p \in ToSet(k[a].parents) : p # None => p \in Addr
    <3> SUFFICES ASSUME NEW a \in Addr, NEW p \in ToSet(k[a].parents), p # None
                 PROVE  p \in Addr
      OBVIOUS
    <3>1. k[a].parents \in Seq(Addr \union {None})
      BY DEF SameLinks, ExpAddr
    <3> QED  BY <3>1 DEF ToSet
  <2>3. \A a \in Addr : \A p \in ToSet(k[a].parents) :
          IF p = None THEN a \in ToSet(world.rcpts) ELSE a \in Kids(k, p)
    BY <1>1, <1>2, <2>2 DEF Linked
  <2>4. \A a \in Addr : Kids(k, a) \subseteq ToSet(l) /\ Kids(k, a) \subseteq Below(a)
    BY <1>1, <1>2 DEF Linked
  <2> QED  BY <2>1, <2>3, <2>4 DEF Linked
<1>4. Grown(l, k)
  BY <1>1, <1>2 DEF Grown
<1>5. Guarded(k, o)
  <2>1. \A a \in Refused : a \in Addr
    BY DEF Refused, Reach
  <2> QED  BY <2>1, <1>1, <1>2 DEF Guarded
<1> QED  BY <1>3, <1>4, <1>5 DEF Graph

\* What the list holds is reached if the recipients are and the links keep to it.
LEMMA ListIs ==
    ASSUME world \in World, list \in Seq(Addr), Graph(list, node, memonly)
    PROVE  ToSet(list) \subseteq Everyone /\ ToSet(list) \subseteq Addr
<1>1. /\ ToSet(world.rcpts) \subseteq Everyone /\ Everyone \subseteq Addr
      /\ \A a \in Everyone : Links[a] \subseteq Everyone
  BY ReachIs, LinksAre DEF Everyone
<1>2. \A a \in Everyone : Kids(node, a) \subseteq Everyone
  BY <1>1, LinksAre DEF Graph, Linked
<1>3. Everyone \in SUBSET Addr
  BY <1>1
<1>4. ToSet(list) \subseteq Everyone
  BY <1>1, <1>2, <1>3 DEF Graph, Grown
<1> QED  BY <1>1, <1>4

\* The members of an address are added to the list.
LEMMA MembersAdded ==
    ASSUME WorldsAssumption, world \in World, list \in Seq(Addr),
           NEW n \in [Addr -> ExpAddr], NEW m, NEW a \in Addr, a \in ToSet(list),
           Graph(list, n, m), Fresh(list, n), a \in Refused => IsGuarded(n, m, a),
           NEW members \in SUBSET Below(a), AddMembers(n, a, members)
    PROVE  /\ list' \in Seq(Addr) /\ node' \in [Addr -> ExpAddr]
           /\ Graph(list', node', m) /\ Fresh(list', node')
<1>1. PICK order \in SetToSeqs(members) :
        list' = AddAll(n, a, order).list /\ node' = AddAll(n, a, order).node
  BY DEF AddMembers
<1>2. None \notin Addr /\ a # None /\ IsFiniteSet(members)
  <2>1. Below(a) \subseteq Addr
    BY LinksAre
  <2> QED  BY <2>1, FS_Subset DEF WorldsAssumption
<1> DEFINE x == [list |-> list, node |-> n]
<1>3. Adds(x, m, a)
  <2>1. x.list = list /\ x.node = n /\ x \in Graphs
    BY DEF Graphs
  <2> HIDE DEF x
  <2> QED  BY <2>1 DEF Adds, MayAdd
<1>4. members \subseteq MembersOf(a)
  BY <1>2 DEF MembersOf
<1>5. Len(order) \in Nat /\ \A i \in 1..Len(order) : order[i] \in MembersOf(a)
  <2>1. Len(order) \in Nat /\ order \in [1..Len(order) -> members]
    BY <1>2, OrderIs
  <2> QED  BY <2>1, <1>4
<1> DEFINE y == AddAll(n, a, order)
<1>6. Adds(y, m, a)
  BY <1>2, <1>3, <1>5, AllAdded
<1> HIDE DEF y
<1>7. y \in Graphs /\ Graph(y.list, y.node, m) /\ Fresh(y.list, y.node)
  BY <1>6 DEF Adds
<1> QED  BY <1>1, <1>7 DEF Graphs, y

\* Before the expansion starts.
LEMMA LeakInit == ASSUME WorldsAssumption, Init PROVE LeakInv
<1>1. world \in World /\ list = <<>> /\ node = [a \in Addr |-> NewAddr] /\ memonly = <<>>
      /\ written = {} /\ pc = "start" /\ at = 0
  BY DEF Init, WorldsAssumption
<1>2. NewAddr \in ExpAddr /\ NewAddr.children = <<>> /\ NewAddr.parents = <<>>
      /\ NewAddr.flags = {}
  BY DEF NewAddr, ExpAddr
<1>3. ToSet(<<>>) = {}
  BY DEF ToSet
<1>4. Graph(list, node, memonly) /\ Fresh(list, node)
  <2>1. \A a \in Addr : node[a] = NewAddr /\ Kids(node, a) = {}
                        /\ ToSet(node[a].parents) = {} /\ node[a].flags = {}
    BY <1>1, <1>2, <1>3 DEF Kids
  <2>2. Linked(list, node)
    BY <2>1 DEF Linked
  <2>3. Grown(list, node)
    BY <1>1, <1>3 DEF Grown
  <2>4. \A a \in Refused : a \in Addr
    BY DEF Refused, Reach
  <2>5. Guarded(node, memonly) /\ SendersFound(node) /\ Fresh(list, node)
    BY <2>1, <2>4 DEF Guarded, SendersFound, Fresh
  <2> QED  BY <2>2, <2>3, <2>5 DEF Graph
<1> QED  BY <1>1, <1>2, <1>4 DEF LeakInv, LeakType

\* Begun again, the expansion has forgotten all it did.
LEMMA LeakAgain == ASSUME WorldsAssumption, LeakInv, Again PROVE LeakInv'
<1>1. world \in World /\ UNCHANGED world /\ list' = <<>> /\ memonly' = <<>>
      /\ node' = [a \in Addr |-> NewAddr] /\ written' = {} /\ pc' = "start" /\ at' = 0
  BY DEF Again, LeakInv, LeakType
<1>2. NewAddr \in ExpAddr /\ NewAddr.children = <<>> /\ NewAddr.parents = <<>>
      /\ NewAddr.flags = {}
  BY DEF NewAddr, ExpAddr
<1>3. ToSet(<<>>) = {}
  BY DEF ToSet
<1>4. Graph(list', node', memonly') /\ Fresh(list', node')
  <2>1. \A a \in Addr : node'[a] = NewAddr /\ Kids(node', a) = {}
                        /\ ToSet(node'[a].parents) = {} /\ node'[a].flags = {}
    BY <1>1, <1>2, <1>3 DEF Kids
  <2>2. Linked(list', node')
    BY <2>1 DEF Linked
  <2>3. Grown(list', node')
    BY <1>1, <1>3 DEF Grown
  <2>4. \A a \in Refused : a \in Addr
    BY DEF Refused, Reach
  <2>5. Guarded(node', memonly') /\ SendersFound(node') /\ Fresh(list', node')
    BY <2>1, <2>4 DEF Guarded, SendersFound, Fresh
  <2> QED  BY <2>2, <2>3, <2>5 DEF Graph
<1>5. Graph(list, node, memonly)'
  BY <1>1, <1>4, GraphKept
<1> QED  BY <1>1, <1>2, <1>4, <1>5 DEF LeakInv, LeakType, Fresh

\* What the steps of the expansion have to show.
Expanded ==
    /\ UNCHANGED <<world, written>>
    /\ list' \in Seq(Addr) /\ node' \in [Addr -> ExpAddr] /\ memonly' \in Seq(Addr)
    /\ Graph(list', node', memonly') /\ Fresh(list', node')

\* Any step of the expansion loop that grows the graph as Expanded says.
LEMMA LeakExpanded ==
    ASSUME LeakInv, Expanded, at' \in Nat, at' >= 1,
           pc' \in {"expand", "ldap", "failed", "aborted"},
           pc' = "ldap" => at' <= Len(list')
    PROVE  LeakInv'
<1>1. UNCHANGED <<world, written>>
  BY DEF Expanded
<1>2. Graph(list, node, memonly)'
  BY <1>1, GraphKept DEF Expanded
<1>3. {x[2] : x \in written'} \subseteq Reached'
  BY <1>1, SameWorld DEF LeakInv
<1>4. Fresh(list, node)'
  BY DEF Expanded, Fresh
<1>5. LeakType'
  BY <1>1 DEF LeakType, LeakInv, Expanded
<1> QED  BY <1>2, <1>3, <1>4, <1>5 DEF LeakInv

\* The recipients of the envelope are added.
LEMMA LeakStart == ASSUME WorldsAssumption, LeakInv, Start PROVE LeakInv'
<1>1. /\ world \in World /\ list \in Seq(Addr) /\ node \in [Addr -> ExpAddr]
      /\ memonly \in Seq(Addr) /\ Graph(list, node, memonly) /\ Fresh(list, node)
  BY DEF LeakInv, LeakType, Start
<1> DEFINE x == [list |-> list, node |-> node]
           y == AddAll(node, None, world.rcpts)
<1>2. Adds(x, memonly, None)
  <2>1. x.list = list /\ x.node = node /\ x \in Graphs
    BY <1>1 DEF Graphs
  <2> HIDE DEF x
  <2> QED  BY <2>1, <1>1 DEF Adds, MayAdd
<1>3. Len(world.rcpts) \in Nat /\ \A i \in 1..Len(world.rcpts) : world.rcpts[i] \in MembersOf(None)
  <2>1. world.rcpts \in Seq(Addr)
    BY <1>1 DEF World
  <2> QED  BY <2>1 DEF MembersOf, ToSet
<1>4. Adds(y, memonly, None)
  BY <1>1, <1>2, <1>3, AllAdded DEF WorldsAssumption
<1>5. list' = y.list /\ node' = y.node /\ at' = 1 /\ pc' = "expand"
      /\ UNCHANGED <<world, memonly, written>>
  BY DEF Start
<1> HIDE DEF y
<1>6. Expanded
  BY <1>1, <1>4, <1>5 DEF Adds, Graphs, Expanded
<1> QED  BY <1>5, <1>6, LeakExpanded

\* The cursor is at an address of the list.
AtCursor ==
    /\ LeakType /\ Graph(list, node, memonly) /\ Fresh(list, node)
    /\ at \in 1..Len(list) /\ Cursor \in Addr /\ Cursor \in ToSet(list)

\* The loop is at an address of the list.
LEMMA CursorIs ==
    ASSUME LeakInv, at <= Len(list), pc \in {"expand", "ldap"}
    PROVE  AtCursor
<1>1. list \in Seq(Addr) /\ at \in 1..Len(list)
  BY DEF LeakInv, LeakType
<1>2. Cursor \in Addr /\ Cursor \in ToSet(list)
  BY <1>1 DEF Cursor, ToSet
<1> QED  BY <1>1, <1>2 DEF AtCursor, LeakInv

\* The address at the cursor changes, its links apart.
LEMMA CursorChanged ==
    ASSUME AtCursor, NEW r \in ExpAddr,
           r.parents = node[Cursor].parents, r.children = node[Cursor].children,
           node[Cursor].flags \subseteq r.flags,
           r.flags \intersect {"SUPRESSED", "ROOT_PATH"} = {},
           "EMAIL_SENDER" \in r.flags =>
             "EMAIL_SENDER" \in node[Cursor].flags \/ LeadsToSender(Cursor),
           NEW m, ToSet(memonly) \subseteq ToSet(m)
    PROVE  LET n == [node EXCEPT ![Cursor] = r]
           IN  n \in [Addr -> ExpAddr] /\ Graph(list, n, m) /\ Fresh(list, n)
<1> DEFINE c == Cursor
           n == [node EXCEPT ![c] = r]
<1>1. c \in Addr /\ c \in ToSet(list) /\ node \in [Addr -> ExpAddr]
      /\ Graph(list, node, memonly) /\ Fresh(list, node)
  BY DEF AtCursor, LeakType
<1> HIDE DEF c
<1>2. n \in [Addr -> ExpAddr] /\ n[c] = r /\ \A a \in Addr : a # c => n[a] = node[a]
  BY <1>1
<1>3. r.parents = node[c].parents /\ r.children = node[c].children
      /\ node[c].flags \subseteq r.flags
      /\ ("EMAIL_SENDER" \in r.flags => "EMAIL_SENDER" \in node[c].flags \/ LeadsToSender(c))
  BY DEF c
<1> SUFFICES n \in [Addr -> ExpAddr] /\ Graph(list, n, m) /\ Fresh(list, n)
  BY DEF c
<1> HIDE DEF n
<1>4. SameLinks(n, node)
  <2>1. ASSUME NEW a \in Addr
        PROVE  n[a].parents = node[a].parents /\ n[a].children = node[a].children
    <3>1. CASE a = c
      BY <3>1, <1>2, <1>3
    <3>2. CASE a # c
      BY <3>2, <1>2
    <3> QED  BY <3>1, <3>2
  <2> QED  BY <2>1, <1>2 DEF SameLinks
<1>5. \A a \in Addr : a \notin ToSet(list) => n[a] = node[a]
  BY <1>1, <1>2
<1>6. \A a \in Addr : node[a].flags \subseteq n[a].flags
  BY <1>2, <1>3
<1>7. \A a \in Refused : IsGuarded(node, memonly, a) => IsGuarded(n, m, a)
  <2>1. \A a \in Refused : a \in Addr
    BY DEF Refused, Reach
  <2> QED  BY <2>1, <1>6 DEF IsGuarded
<1>8. SendersFound(n)
  <2>1. SendersFound(node)
    BY <1>1 DEF Graph
  <2> QED  BY <2>1, <1>1, <1>2, <1>3 DEF SendersFound
<1>9. Graph(list, n, m)
  BY <1>1, <1>4, <1>7, <1>8, Relabelled
<1>10. Fresh(list, n)
  BY <1>1, <1>2, <1>5 DEF Fresh
<1> QED  BY <1>2, <1>9, <1>10

\* The step to the next address.
LEMMA LeakNext ==
    ASSUME LeakInv, AtCursor, Expanded, Next1
    PROVE  LeakInv'
<1>1. at' \in Nat /\ at' >= 1 /\ pc' = "expand"
  BY DEF Next1, AtCursor
<1> QED  BY <1>1, LeakExpanded

\* A step that changes nothing of the graph.
LEMMA StaysIs ==
    ASSUME AtCursor, UNCHANGED <<world, written, list, node, memonly>>
    PROVE  Expanded
BY DEF AtCursor, LeakType, Expanded

\* The address is a recipient.
LEMMA FinalIs ==
    ASSUME AtCursor, UNCHANGED <<world, written>>, Final
    PROVE  Expanded
<1> DEFINE r == [node[Cursor] EXCEPT !.terminal = TRUE]
<1>1. /\ node \in [Addr -> ExpAddr] /\ Cursor \in Addr /\ Fresh(list, node)
      /\ list \in Seq(Addr) /\ memonly \in Seq(Addr)
  BY DEF AtCursor, LeakType
<1>2. /\ r \in ExpAddr /\ r.parents = node[Cursor].parents
      /\ r.children = node[Cursor].children /\ r.flags = node[Cursor].flags
  BY <1>1 DEF ExpAddr
<1>3. node' = [node EXCEPT ![Cursor] = r] /\ UNCHANGED <<list, memonly>>
  BY DEF Final
<1> HIDE DEF r
<1>4. r.flags \intersect {"SUPRESSED", "ROOT_PATH"} = {}
  BY <1>1, <1>2 DEF Fresh
<1>5. /\ [node EXCEPT ![Cursor] = r] \in [Addr -> ExpAddr]
      /\ Graph(list, [node EXCEPT ![Cursor] = r], memonly)
      /\ Fresh(list, [node EXCEPT ![Cursor] = r])
  BY <1>2, <1>4, CursorChanged
<1> QED  BY <1>1, <1>3, <1>5 DEF Expanded

\* The members of a group are added, of a refused one behind its guard.
LEMMA AddsMembers ==
    ASSUME WorldsAssumption, AtCursor, UNCHANGED <<world, written>>,
           NEW n \in [Addr -> ExpAddr], memonly' \in Seq(Addr),
           Graph(list, n, memonly'), Fresh(list, n),
           Cursor \in Refused => IsGuarded(n, memonly', Cursor),
           NEW members \in SUBSET Below(Cursor), AddMembers(n, Cursor, members)
    PROVE  Expanded
<1>1. world \in World /\ list \in Seq(Addr) /\ Cursor \in Addr /\ Cursor \in ToSet(list)
  BY DEF AtCursor, LeakType
<1>2. /\ list' \in Seq(Addr) /\ node' \in [Addr -> ExpAddr]
      /\ Graph(list', node', memonly') /\ Fresh(list', node')
  BY <1>1, MembersAdded
<1> QED  BY <1>2 DEF Expanded

\* The address itself changes first.
LEMMA ChangesAndAdds ==
    ASSUME WorldsAssumption, AtCursor, UNCHANGED <<world, written>>, NEW r \in ExpAddr,
           r.parents = node[Cursor].parents, r.children = node[Cursor].children,
           node[Cursor].flags \subseteq r.flags,
           r.flags \intersect {"SUPRESSED", "ROOT_PATH"} = {},
           "EMAIL_SENDER" \in r.flags =>
             "EMAIL_SENDER" \in node[Cursor].flags \/ LeadsToSender(Cursor),
           memonly' \in Seq(Addr), ToSet(memonly) \subseteq ToSet(memonly'),
           Cursor \in Refused => "MEMONLY" \in r.flags /\ Cursor \in ToSet(memonly'),
           NEW members \in SUBSET Below(Cursor),
           AddMembers([node EXCEPT ![Cursor] = r], Cursor, members)
    PROVE  Expanded
<1> DEFINE n == [node EXCEPT ![Cursor] = r]
<1>1. n \in [Addr -> ExpAddr] /\ Graph(list, n, memonly') /\ Fresh(list, n)
  BY CursorChanged
<1>2. n[Cursor] = r
  BY DEF AtCursor, LeakType
<1> HIDE DEF n
<1>3. Cursor \in Refused => IsGuarded(n, memonly', Cursor)
  BY <1>2 DEF IsGuarded
<1> QED  BY <1>1, <1>3, AddsMembers DEF n

\* Only groups are refused.
LEMMA NoGroup ==
    ASSUME world \in World, NEW a, kind(a) # "group"
    PROVE  a \notin Refused
BY RefusedIs

\* address_expand, as far as it goes without LDAP.
LEMMA LeakAddressExpand ==
    ASSUME WorldsAssumption, LeakInv, address_expand
    PROVE  LeakInv'
<1>1. pc = "expand" /\ at <= Len(list) /\ UNCHANGED <<world, written>>
  BY DEF address_expand
<1>2. AtCursor
  BY <1>1, CursorIs
<1>3. CASE Final
  <2>1. Next1
    BY <1>3 DEF Final
  <2> QED  BY <2>1, <1>1, <1>2, <1>3, FinalIs, LeakNext
<1>4. CASE alias_expand
  <2>1. /\ kind(Cursor) = "alias" /\ Next1 /\ UNCHANGED memonly
        /\ AddMembers(node, Cursor, world.entry[Cursor].to)
    BY <1>4 DEF alias_expand
  <2>2. world.entry[Cursor].to = Below(Cursor)
    BY <2>1 DEF Below
  <2>3. Cursor \notin Refused
    BY <2>1, <1>2, NoGroup DEF AtCursor, LeakType
  <2>4. Expanded
    <3>1. /\ node \in [Addr -> ExpAddr] /\ Graph(list, node, memonly') /\ Fresh(list, node)
          /\ memonly' \in Seq(Addr)
      BY <2>1, <1>2 DEF AtCursor, LeakType
    <3> QED  BY <3>1, <2>1, <2>2, <2>3, <1>1, <1>2, AddsMembers
  <2> QED  BY <2>1, <2>4, <1>2, LeakNext
<1>5. CASE pc' = "ldap" /\ UNCHANGED <<list, at, node, memonly>>
  <2>1. Expanded
    BY <1>1, <1>2, <1>5, StaysIs
  <2>2. at' \in Nat /\ at' >= 1 /\ at' <= Len(list')
    BY <1>2, <1>5 DEF AtCursor
  <2> QED  BY <2>1, <2>2, <1>5, LeakExpanded
<1> QED  BY <1>3, <1>4, <1>5 DEF address_expand, password_expand

\* A step of a search.
LEMMA LeakLookup ==
    ASSUME LeakInv, Lookup
    PROVE  LeakInv'
<1>1. pc = "ldap" /\ UNCHANGED <<world, list, at, node, memonly, written, pc>>
  BY DEF Lookup
<1>2. AtCursor
  BY <1>1, CursorIs DEF LeakInv
<1>3. at' \in Nat /\ at' >= 1 /\ at' <= Len(list') /\ pc' = "ldap"
  BY <1>1, <1>2 DEF AtCursor
<1> QED  BY <1>1, <1>2, <1>3, StaysIs, LeakExpanded

\* A search that found a person.
LEMMA LeakPerson ==
    ASSUME WorldsAssumption, LeakInv, AtCursor, UNCHANGED <<world, written>>, Person
    PROVE  LeakInv'
<1>1. CASE Next1 /\ UNCHANGED <<list, node, memonly>>
  BY <1>1, StaysIs, LeakNext
<1> DEFINE c == Cursor
           f == IF c \in world.sender THEN node[c].flags \union {"EMAIL_SENDER"}
                ELSE node[c].flags
           r == [node[c] EXCEPT !.flags = f]
<1>2. CASE /\ kind(c) = "person" /\ Next1 /\ UNCHANGED memonly
           /\ AddMembers([node EXCEPT ![c].flags =
                           IF c \in world.sender THEN @ \union {"EMAIL_SENDER"} ELSE @],
                         c, world.entry[c].to)
  <2>1. /\ world \in World /\ node \in [Addr -> ExpAddr] /\ c \in Addr /\ Fresh(list, node)
        /\ memonly \in Seq(Addr)
    BY DEF AtCursor, LeakType
  <2>2. c \notin Refused
    BY <2>1, <1>2, NoGroup
  <2>3. world.entry[c].to = Below(c)
    BY <1>2 DEF Below
  <2>4. c \in world.sender => LeadsToSender(c)
    BY <2>1, <1>2, LeadsToItself DEF IsSender
  <2>5. f \in SUBSET Flags
    BY <2>1 DEF ExpAddr, Flags
  <2>6. /\ r \in ExpAddr /\ r.parents = node[c].parents /\ r.children = node[c].children
        /\ r.flags = f
    BY <2>1, <2>5 DEF ExpAddr
  <2>7. [node EXCEPT ![c].flags =
           IF c \in world.sender THEN @ \union {"EMAIL_SENDER"} ELSE @]
        = [node EXCEPT ![c] = r]
    BY <2>1
  <2>8. AddMembers([node EXCEPT ![c] = r], c, world.entry[c].to)
    BY <2>7, <1>2
  <2>9. /\ node[c].flags \subseteq f
        /\ f \intersect {"SUPRESSED", "ROOT_PATH"} = {}
        /\ "EMAIL_SENDER" \in f => "EMAIL_SENDER" \in node[c].flags \/ LeadsToSender(c)
    BY <2>1, <2>4 DEF Fresh
  <2> HIDE DEF r, f
  <2>10. memonly' \in Seq(Addr) /\ ToSet(memonly) \subseteq ToSet(memonly')
    BY <2>1, <1>2
  <2>11. Expanded
    BY <2>2, <2>3, <2>6, <2>8, <2>9, <2>10, ChangesAndAdds
  <2> QED  BY <2>11, <1>2, LeakNext
<1> QED  BY <1>1, <1>2 DEF Person, Refuse

\* What simta_ldap_expand_group sets before it adds anyone.
LEMMA ForGroupIs ==
    ASSUME AtCursor
    PROVE  LET r == [node[Cursor] EXCEPT !.errors = IF world.null THEN @ ELSE Cursor,
                                         !.isgroup = TRUE]
           IN  /\ r \in ExpAddr /\ ForGroup(Cursor) = [node EXCEPT ![Cursor] = r]
               /\ r.parents = node[Cursor].parents /\ r.children = node[Cursor].children
               /\ r.flags = node[Cursor].flags
               /\ r.flags \intersect {"SUPRESSED", "ROOT_PATH"} = {}
<1> DEFINE c == Cursor
           e == IF world.null THEN node[c].errors ELSE c
           r == [node[c] EXCEPT !.errors = e, !.isgroup = TRUE]
<1>1. c \in Addr /\ node \in [Addr -> ExpAddr] /\ Fresh(list, node)
  BY DEF AtCursor, LeakType
<1>2. ForGroup(c) = [node EXCEPT ![c] = r]
  BY <1>1 DEF ForGroup
<1>3. e \in Addr \union {None}
  BY <1>1 DEF ExpAddr
<1> HIDE DEF e
<1>4. /\ r \in ExpAddr /\ r.parents = node[c].parents /\ r.children = node[c].children
      /\ r.flags = node[c].flags
  BY <1>1, <1>3 DEF ExpAddr
<1>5. r.flags \intersect {"SUPRESSED", "ROOT_PATH"} = {}
  BY <1>1, <1>4 DEF Fresh
<1>6. r = [node[c] EXCEPT !.errors = IF world.null THEN @ ELSE c, !.isgroup = TRUE]
  BY DEF e
<1> HIDE DEF r
<1> QED  BY <1>2, <1>4, <1>5, <1>6

\* The members of a group are asked for, and its envelopes made.
LEMMA LeakEnvelopes ==
    ASSUME WorldsAssumption, AtCursor, UNCHANGED <<world, written>>,
           kind(Cursor) = "group", ~GroupLoops(world.entry[Cursor]),
           GroupEnvelopes(Cursor, world.entry[Cursor])
    PROVE  Expanded
<1> DEFINE c == Cursor
           g == world.entry[c]
           permitted == g.memonly /\ g.permits
           asked == g.moderator # "none" /\ ~permitted
           refusable == Refusable(g)
           moderated == asked /\ g.moderator = "others"
           members == refusable \/ (~moderated /\ ~(asked /\ g.moderator = "bad"))
           q == [node[c] EXCEPT !.errors = IF world.null THEN @ ELSE c, !.isgroup = TRUE]
           f == q.flags \union (IF refusable THEN {"MEMONLY"} ELSE {})
                  \union (IF refusable /\ g.private THEN {"PRIVATE"} ELSE {})
           gf == g.gmailfwd = "good"
           r == [q EXCEPT !.gmailfwd = gf, !.moderated = moderated, !.flags = f]
           to == IF members THEN g.to ELSE {}
<1>1. /\ world \in World /\ c \in Addr /\ node \in [Addr -> ExpAddr]
      /\ memonly \in Seq(Addr)
  BY DEF AtCursor, LeakType
<1>2. /\ q \in ExpAddr /\ ForGroup(c) = [node EXCEPT ![c] = q]
      /\ q.parents = node[c].parents /\ q.children = node[c].children
      /\ q.flags = node[c].flags /\ q.flags \intersect {"SUPRESSED", "ROOT_PATH"} = {}
  BY ForGroupIs
<1>3. /\ memonly' = IF refusable THEN exp_addr_link(memonly, c) ELSE memonly
      /\ AddMembers([ForGroup(c) EXCEPT ![c].gmailfwd = gf,
                       ![c].moderated = moderated,
                       ![c].flags = @ \union (IF refusable THEN {"MEMONLY"} ELSE {})
                         \union (IF refusable /\ g.private THEN {"PRIVATE"} ELSE {})],
                    c, to)
  BY DEF GroupEnvelopes
<1>4. c \in Refused => refusable
  BY <1>1, RefusedIs
<1>5. to \in SUBSET Below(c)
  <2>1. asked <=> g.moderator # "none" /\ ~(g.memonly /\ g.permits)
    OBVIOUS
  <2>2. g.moderator \in {"none", "others", "sender", "bad"}
    BY <1>1 DEF World, Entry
  <2>3. members => refusable \/ ~asked \/ g.moderator = "sender"
    BY <2>2
  <2>4. members => Below(c) = g.to
    BY <2>3 DEF Below
  <2> QED  BY <2>4
<1>6. f \in SUBSET Flags /\ moderated \in BOOLEAN /\ gf \in BOOLEAN
  <2>1. q.flags \in SUBSET Flags
    BY <1>2 DEF ExpAddr
  <2> QED  BY <2>1 DEF Flags
<1>7. /\ q.flags \subseteq f /\ (refusable => "MEMONLY" \in f)
      /\ f \intersect {"SUPRESSED", "ROOT_PATH"} = {}
      /\ "EMAIL_SENDER" \in f => "EMAIL_SENDER" \in q.flags
  BY <1>2
<1> HIDE DEF f, moderated, refusable, to, gf
<1>8. /\ r \in ExpAddr /\ r.parents = q.parents /\ r.children = q.children
      /\ r.flags = f
  <2> HIDE DEF q
  <2> QED  BY <1>2, <1>6 DEF ExpAddr
<1>9. AddMembers([node EXCEPT ![c] = r], c, to)
  <2>1. [ForGroup(c) EXCEPT ![c].gmailfwd = gf,
           ![c].moderated = moderated,
           ![c].flags = @ \union (IF refusable THEN {"MEMONLY"} ELSE {})
             \union (IF refusable /\ g.private THEN {"PRIVATE"} ELSE {})]
        = [node EXCEPT ![c] = r]
    <3> HIDE DEF q
    <3> QED  BY <1>1, <1>2 DEF f
  <2> QED  BY <2>1, <1>3
<1>10. /\ memonly' \in Seq(Addr) /\ ToSet(memonly) \subseteq ToSet(memonly')
       /\ refusable => c \in ToSet(memonly')
  BY <1>1, <1>3, LinkIs
<1> HIDE DEF r, q
<1>11. /\ r.parents = node[Cursor].parents /\ r.children = node[Cursor].children
       /\ node[Cursor].flags \subseteq r.flags
       /\ r.flags \intersect {"SUPRESSED", "ROOT_PATH"} = {}
       /\ "EMAIL_SENDER" \in r.flags => "EMAIL_SENDER" \in node[Cursor].flags
       /\ Cursor \in Refused => "MEMONLY" \in r.flags /\ Cursor \in ToSet(memonly')
  BY <1>2, <1>4, <1>7, <1>8, <1>10
<1> QED  BY <1>5, <1>8, <1>9, <1>10, <1>11, ChangesAndAdds

\* A search that found a group.
LEMMA LeakGroup ==
    ASSUME WorldsAssumption, LeakInv, AtCursor, UNCHANGED <<world, written>>,
           simta_ldap_expand_group
    PROVE  LeakInv'
<1> DEFINE c == Cursor
           g == world.entry[c]
           r == [node[c] EXCEPT !.errors = IF world.null THEN @ ELSE c, !.isgroup = TRUE]
<1>1. /\ world \in World /\ c \in Addr /\ memonly \in Seq(Addr) /\ list \in Seq(Addr)
  BY DEF AtCursor, LeakType
<1>2. /\ r \in ExpAddr /\ ForGroup(c) = [node EXCEPT ![c] = r]
      /\ r.parents = node[c].parents /\ r.children = node[c].children
      /\ r.flags = node[c].flags /\ r.flags \intersect {"SUPRESSED", "ROOT_PATH"} = {}
  BY ForGroupIs
<1> HIDE DEF r
<1>3. CASE kind(c) = "owner" /\ AddMembers(ForGroup(c), c, g.to) /\ Next1 /\ UNCHANGED memonly
  <2>1. g.to \in SUBSET Below(c)
    BY <1>3 DEF Below
  <2>2. c \notin Refused
    BY <1>1, <1>3, NoGroup
  <2>3. AddMembers([node EXCEPT ![c] = r], c, g.to)
    BY <1>2, <1>3
  <2>4. memonly' \in Seq(Addr) /\ ToSet(memonly) \subseteq ToSet(memonly')
    BY <1>1, <1>3
  <2>5. Expanded
    BY <2>1, <2>2, <2>3, <2>4, <1>2, ChangesAndAdds
  <2> QED  BY <2>5, <1>3, LeakNext
<1>4. CASE node' = ForGroup(c) /\ Next1 /\ UNCHANGED <<list, memonly>>
  <2>1. LET n == [node EXCEPT ![c] = r]
        IN  n \in [Addr -> ExpAddr] /\ Graph(list, n, memonly) /\ Fresh(list, n)
    BY <1>2, CursorChanged
  <2>2. Expanded
    BY <2>1, <1>1, <1>2, <1>4 DEF Expanded
  <2> QED  BY <2>2, <1>4, LeakNext
<1>5. CASE kind(c) = "group" /\ ~GroupLoops(g) /\ GroupEnvelopes(c, g) /\ Next1
  BY <1>5, LeakEnvelopes, LeakNext
<1>6. CASE pc' = "aborted" /\ UNCHANGED <<list, at, node, memonly>>
  <2>1. at' \in Nat /\ at' >= 1
    BY <1>6 DEF AtCursor
  <2> QED  BY <2>1, <1>6, StaysIs, LeakExpanded
<1> QED  BY <1>3, <1>4, <1>5, <1>6 DEF simta_ldap_expand_group

\* A search that has ended.
LEMMA LeakLooked ==
    ASSUME WorldsAssumption, LeakInv, Looked
    PROVE  LeakInv'
<1>1. pc = "ldap" /\ UNCHANGED <<world, written>>
  BY DEF Looked
<1>2. AtCursor
  BY <1>1, CursorIs DEF LeakInv
<1>3. CASE Final
  <2>1. Next1
    BY <1>3 DEF Final
  <2> QED  BY <2>1, <1>1, <1>2, <1>3, FinalIs, LeakNext
<1>4. CASE Next1 /\ UNCHANGED <<list, node, memonly>>
  BY <1>1, <1>2, <1>4, StaysIs, LeakNext
<1>5. CASE Person
  BY <1>1, <1>2, <1>5, LeakPerson
<1>6. CASE simta_ldap_expand_group
  BY <1>1, <1>2, <1>6, LeakGroup
<1>7. CASE SysError
  <2>1. pc' = "failed" /\ UNCHANGED <<list, at, node, memonly>>
    BY <1>7 DEF SysError
  <2>2. at' \in Nat /\ at' >= 1
    BY <2>1, <1>2 DEF AtCursor
  <2> QED  BY <2>1, <2>2, <1>1, <1>2, StaysIs, LeakExpanded
<1> QED  BY <1>3, <1>4, <1>5, <1>6, <1>7 DEF Looked, NotFound, Refuse

\* What the steps of the two loops over the finished list have to show.
LEMMA LeakWalked ==
    ASSUME LeakInv, UNCHANGED <<world, list, memonly>>, node' \in [Addr -> ExpAddr],
           Graph(list, node', memonly), at' \in Nat,
           {x[2] : x \in written'} \subseteq Reached,
           pc' \in {"members", "write", "done", "failed", "aborted"},
           pc' \in {"members", "write"} => at' >= 1,
           pc' = "members" => Suppressing', pc' \in {"write", "done"} => Suppressed'
    PROVE  LeakInv'
<1>1. Graph(list, node, memonly)'
  BY GraphKept
<1>2. {x[2] : x \in written'} \subseteq Reached'
  BY SameWorld
<1>3. LeakType'
  BY DEF LeakInv, LeakType
<1> QED  BY <1>1, <1>2, <1>3 DEF LeakInv

\* The whole list is expanded; no flag of a walk is set yet.
LEMMA LeakListDone == ASSUME LeakInv, ListDone PROVE LeakInv'
<1>1. /\ pc = "expand" /\ pc' = "members" /\ at' = 1
      /\ UNCHANGED <<world, list, node, memonly, written>>
  BY DEF ListDone
<1>2. Fresh(list, node) /\ LeakType
  BY <1>1 DEF LeakInv
<1>3. Suppressing'
  <2>1. NoPaths(node) /\ \A a \in Addr : "SUPRESSED" \notin node[a].flags
    BY <1>2 DEF Fresh, NoPaths
  <2>2. NoPaths(node') /\ Downwards(node')
    BY <2>1, <1>1 DEF NoPaths, Downwards
  <2>3. \A i \in 1..Len(memonly') : ~(i < at')
    BY <1>1
  <2> QED  BY <2>2, <2>3 DEF Suppressing, NoPaths, Downwards, Shut, Kids
<1> QED  BY <1>1, <1>3, LeakWalked DEF LeakInv, LeakType

\* The addresses get other flags.
LEMMA FlagsSet ==
    ASSUME node \in [Addr -> ExpAddr], NEW flags \in [Addr -> SUBSET Flags]
    PROVE  /\ SameLinks(SetFlags(flags), node)
           /\ \A a \in Addr : SetFlags(flags)[a].flags = flags[a]
<1>1. \A a \in Addr : LET r == [node[a] EXCEPT !.flags = flags[a]]
                      IN  /\ SetFlags(flags)[a] = r /\ r \in ExpAddr
                          /\ r.flags = flags[a] /\ r.parents = node[a].parents
                          /\ r.children = node[a].children
  BY DEF SetFlags, ExpAddr
<1>2. SetFlags(flags) \in [Addr -> ExpAddr]
  BY <1>1 DEF SetFlags
<1> QED  BY <1>1, <1>2 DEF SameLinks

SenderFlags == {"EMAIL_SENDER", "NO_EMAIL_SENDER"}

\* k has what the graph has, but for the flags of the walk for the sender, and the
\* flags S that are added to some of the addresses.
Searched(k, S) ==
    /\ SameLinks(k, node)
    /\ \A a \in Addr : \A f \in Flags \ (SenderFlags \union S) :
         f \in k[a].flags <=> f \in node[a].flags
    /\ \A a \in Addr : "SUPRESSED" \in node[a].flags => "SUPRESSED" \in k[a].flags
    /\ SendersFound(k)
    /\ \A a \in Refused : "MEMONLY" \in node[a].flags => "MEMONLY" \in k[a].flags

\* The search for the sender opens no refused group.
LEMMA SearchedIs ==
    ASSUME LeakInv, NEW k, NEW S, Searched(k, S), "ROOT_PATH" \notin S
    PROVE  /\ k \in [Addr -> ExpAddr] /\ Graph(list, k, memonly)
           /\ \A a \in Addr : Kids(k, a) = Kids(node, a)
           /\ NoPaths(node) => NoPaths(k)
           /\ \A a \in Addr : Shut(node, a) => Shut(k, a)
<1>1. k \in [Addr -> ExpAddr] /\ \A a \in Addr : Kids(k, a) = Kids(node, a)
  BY DEF Searched, SameLinks, Kids
<1>2. \A a \in Refused : IsGuarded(node, memonly, a) => IsGuarded(k, memonly, a)
  BY DEF Searched, IsGuarded
<1>3. Graph(list, k, memonly)
  BY <1>2, Relabelled DEF Searched, LeakInv
<1>4. NoPaths(node) => NoPaths(k)
  BY DEF NoPaths, Searched, Flags, SenderFlags
<1>5. \A a \in Addr : Kids(node, a) \subseteq Addr
  <2>1. \A a \in Addr : Kids(node, a) \subseteq Below(a) /\ Below(a) \subseteq Addr
    BY LinksAre DEF LeakInv, LeakType, Graph, Linked
  <2> QED  BY <2>1
<1>6. \A a \in Addr : Shut(node, a) => Shut(k, a)
  BY <1>1, <1>5 DEF Shut, Searched
<1> QED  BY <1>1, <1>3, <1>4, <1>6

\* A members-only group that is opened is not one that refused the message.
LEMMA OpenIs ==
    ASSUME LeakInv, NEW flags \in [Addr -> SUBSET Flags],
           Flagged(FlagsOf, flags, SenderFlags), SendersKnown(flags),
           NEW a \in Addr, a \notin Refused
    PROVE  /\ Searched(Open(flags, a), {"MEMONLY"})
           /\ \A b \in Addr : "SUPRESSED" \in Open(flags, a)[b].flags
                                 <=> "SUPRESSED" \in node[b].flags
<1> DEFINE fs == [flags EXCEPT ![a] = @ \ {"MEMONLY"}]
           s == SetFlags(fs)
           k == Open(flags, a)
<1>1. node \in [Addr -> ExpAddr] /\ fs \in [Addr -> SUBSET Flags]
      /\ \A b \in Addr : FlagsOf[b] = node[b].flags
  BY WalkIs DEF LeakInv, LeakType
<1>2. \A b \in Addr : fs[b] = IF b = a THEN flags[b] \ {"MEMONLY"} ELSE flags[b]
  OBVIOUS
<1> HIDE DEF fs
<1>3. SameLinks(s, node) /\ \A b \in Addr : s[b].flags = fs[b]
  BY <1>1, FlagsSet
<1>4. k = [s EXCEPT ![a].moderated = FALSE]
  BY DEF Open, fs
<1> HIDE DEF s, k
<1>5. SameLinks(k, node) /\ \A b \in Addr : k[b].flags = fs[b]
  <2>1. s \in [Addr -> ExpAddr]
    BY <1>3 DEF SameLinks
  <2>2. [s[a] EXCEPT !.moderated = FALSE] \in ExpAddr
    BY <2>1 DEF ExpAddr
  <2>3. k = [s EXCEPT ![a] = [s[a] EXCEPT !.moderated = FALSE]]
    BY <2>1, <1>4
  <2>4. /\ k \in [Addr -> ExpAddr]
        /\ \A b \in Addr : /\ k[b].flags = s[b].flags /\ k[b].parents = s[b].parents
                           /\ k[b].children = s[b].children
    BY <2>1, <2>2, <2>3 DEF ExpAddr
  <2> QED  BY <2>4, <1>3 DEF SameLinks
<1>6. \A b \in Addr : /\ node[b].flags \subseteq flags[b]
                      /\ flags[b] \subseteq node[b].flags \union SenderFlags
  BY <1>1 DEF Flagged
<1>7. \A b \in Addr : \A f \in Flags \ (SenderFlags \union {"MEMONLY"}) :
        f \in k[b].flags <=> f \in node[b].flags
  BY <1>2, <1>5, <1>6
<1>8. \A b \in Addr : "SUPRESSED" \in k[b].flags <=> "SUPRESSED" \in node[b].flags
  BY <1>7 DEF Flags, SenderFlags
<1>9. SendersFound(k)
  BY <1>2, <1>5 DEF SendersFound, SendersKnown
<1>10. \A b \in Refused : "MEMONLY" \in node[b].flags => "MEMONLY" \in k[b].flags
  <2>1. \A b \in Refused : b \in Addr
    BY DEF Refused, Reach
  <2> QED  BY <2>1, <1>2, <1>5, <1>6
<1> QED  BY <1>5, <1>7, <1>8, <1>9, <1>10 DEF Searched, k

\* What supress_addrs comes to: all of the members, and all below them that is not
\* below an address that is suppressed already.
LEMMA BelowIs ==
    ASSUME LeakInv, NEW a \in Addr
    PROVE  /\ supress_addrs(a) \subseteq Addr /\ Kids(node, a) \subseteq supress_addrs(a)
           /\ \A e \in supress_addrs(a) :
                "SUPRESSED" \notin node[e].flags => Kids(node, e) \subseteq supress_addrs(a)
<1> DEFINE to == [e \in Addr |-> IF "SUPRESSED" \in node[e].flags THEN {}
                                 ELSE ToSet(node[e].children)]
<1>1. \A e \in Addr : Kids(node, e) \subseteq Addr
  <2>1. \A e \in Addr : Kids(node, e) \subseteq Below(e) /\ Below(e) \subseteq Addr
    BY LinksAre DEF LeakInv, LeakType, Graph, Linked
  <2> QED  BY <2>1
<1>2. \A e \in Addr : to[e] = IF "SUPRESSED" \in node[e].flags THEN {} ELSE Kids(node, e)
  BY DEF Kids
<1>3. supress_addrs(a) = Reach(Kids(node, a), to)
  BY DEF supress_addrs, Kids
<1> HIDE DEF to
<1>4. \A e \in Addr : to[e] \subseteq Addr
  BY <1>1, <1>2
<1>5. Kids(node, a) \in SUBSET Addr
  BY <1>1
<1>6. /\ supress_addrs(a) \subseteq Addr /\ Kids(node, a) \subseteq supress_addrs(a)
      /\ \A e \in supress_addrs(a) : to[e] \subseteq supress_addrs(a)
  BY <1>3, <1>4, <1>5, ReachIs
<1> QED  BY <1>2, <1>6

\* A members-only group is judged: permitted, or its members suppressed.
LEMMA LeakMembersOnly ==
    ASSUME WorldsAssumption, LeakInv, MembersOnly
    PROVE  LeakInv'
<1> DEFINE a == memonly[at]
           permitted == world.entry[a].ok # None /\ Permitted(a)
           c == sender_is_child(a)
           below == supress_addrs(a)
<1>1. /\ pc = "members" /\ at <= Len(memonly) /\ at \in Nat /\ at >= 1
      /\ UNCHANGED <<world, list, memonly, written>>
      /\ LeakType /\ Graph(list, node, memonly) /\ Suppressing
  BY DEF MembersOnly, LeakInv, LeakType
<1>2. /\ a \in Addr /\ world \in World /\ node \in [Addr -> ExpAddr]
      /\ list \in Seq(Addr) /\ memonly \in Seq(Addr)
  BY <1>1 DEF LeakType
<1>3. /\ c \in Walks /\ Flagged(FlagsOf, c.flags, SenderFlags) /\ SendersKnown(c.flags)
      /\ c.ret => \E b \in Kids(node, a) : LeadsToSender(b)
  BY <1>1, <1>2, SenderWalkIs DEF Graph, SenderFlags
<1>4. FlagsOf \in [Addr -> SUBSET Flags] /\ \A b \in Addr : FlagsOf[b] = node[b].flags
  BY <1>2, WalkIs
<1>5. \/ pc' = "aborted" /\ UNCHANGED <<node, at>>
      \/ permitted /\ node' = Open(FlagsOf, a) /\ at' = at + 1 /\ UNCHANGED pc
      \/ c.ret /\ node' = Open(c.flags, a) /\ at' = at + 1 /\ UNCHANGED pc
      \/ /\ node' = SetFlags([b \in Addr |->
                      c.flags[b] \union (IF b \in below THEN {"SUPRESSED"} ELSE {})
                                 \union (IF b = a THEN {"SUPRESSOR"} ELSE {})])
         /\ at' = at + 1 /\ UNCHANGED pc
  BY DEF MembersOnly
<1> HIDE DEF c, below, permitted
<1>6. CASE pc' = "aborted" /\ UNCHANGED <<node, at>>
  BY <1>1, <1>2, <1>6, LeakWalked DEF LeakInv
\* The other cases.
<1>7. ASSUME NEW S, Searched(node', S), "ROOT_PATH" \notin S, at' = at + 1, UNCHANGED pc,
             Downwards(node'), a \in Refused => Shut(node', a)
      PROVE  LeakInv'
  <2>1. /\ node' \in [Addr -> ExpAddr] /\ Graph(list, node', memonly) /\ NoPaths(node')
        /\ \A b \in Addr : Shut(node, b) => Shut(node', b)
    BY <1>1, <1>7, SearchedIs DEF Suppressing
  <2>2. ASSUME NEW i \in 1..Len(memonly), i < at + 1, memonly[i] \in Refused
        PROVE  Shut(node', memonly[i])
    <3>1. CASE i < at
      BY <3>1, <2>1, <2>2, <1>1, <1>2 DEF Suppressing
    <3>2. CASE i = at
      BY <3>2, <2>2, <1>7
    <3> QED  BY <3>1, <3>2, <2>2, <1>1
  <2>3. Suppressing'
    <3>1. \A i \in 1..Len(memonly') : i < at' /\ memonly'[i] \in Refused'
            => Shut(node', memonly'[i])
      BY <1>1, <1>7, <2>2, SameWorld
    <3> QED  BY <3>1, <2>1, <1>7 DEF Suppressing, NoPaths, Downwards, Shut, Kids
  <2>4. at' \in Nat /\ at' >= 1 /\ pc' = "members"
    BY <1>1, <1>7
  <2>5. {x[2] : x \in written'} \subseteq Reached
    BY <1>1 DEF LeakInv
  <2> QED  BY <1>1, <2>1, <2>3, <2>4, <2>5, LeakWalked
<1>8. ASSUME NEW flags \in [Addr -> SUBSET Flags], Flagged(FlagsOf, flags, SenderFlags),
             SendersKnown(flags), a \notin Refused, node' = Open(flags, a),
             at' = at + 1, UNCHANGED pc
      PROVE  LeakInv'
  <2>1. /\ Searched(node', {"MEMONLY"})
        /\ \A b \in Addr : "SUPRESSED" \in node'[b].flags <=> "SUPRESSED" \in node[b].flags
    BY <1>2, <1>8, OpenIs
  <2>2. \A b \in Addr : Shut(node, b) => Shut(node', b)
    BY <2>1, SearchedIs
  <2>3. Downwards(node')
    BY <2>1, <2>2, <1>1 DEF Downwards, Suppressing
  <2> QED  BY <2>1, <2>3, <1>7, <1>8
<1>9. CASE permitted /\ node' = Open(FlagsOf, a) /\ at' = at + 1 /\ UNCHANGED pc
  <2>1. /\ world.entry[a].ok # None
        /\ Contains(node[a].parents, world.entry[a].ok)
    BY <1>9 DEF permitted, Permitted
  <2>2. world.entry[a].ok \in Addr
    BY <1>2, <2>1 DEF World, Entry
  <2>3. world.entry[a].ok \in ToSet(node[a].parents)
    BY <2>1 DEF Contains, ToSet
  <2>4. a \in Kids(node, world.entry[a].ok)
    BY <2>1, <2>3, <1>1, <1>2 DEF Graph, Linked
  <2>5. a \in Below(world.entry[a].ok) /\ world.entry[a].ok \in ToSet(list)
    BY <2>2, <2>4, <1>1 DEF Graph, Linked
  <2>6. a \notin Refused
    BY <2>5, <1>1, <1>2, ListIs, RefusedIs
  <2>7. Flagged(FlagsOf, FlagsOf, SenderFlags) /\ SendersKnown(FlagsOf)
    BY <1>1, <1>4 DEF Flagged, SendersKnown, Graph, SendersFound
  <2> QED  BY <2>6, <2>7, <1>4, <1>8, <1>9
<1>10. CASE c.ret /\ node' = Open(c.flags, a) /\ at' = at + 1 /\ UNCHANGED pc
  <2>1. PICK b \in Kids(node, a) : LeadsToSender(b)
    BY <1>3, <1>10
  <2>2. b \in Below(a)
    BY <1>1, <1>2 DEF Graph, Linked
  <2>3. a \notin Refused
    BY <2>1, <2>2, <1>2, RefusedHasNoSender
  <2> QED  BY <2>3, <1>3, <1>8, <1>10 DEF Walks
<1>11. CASE /\ node' = SetFlags([b \in Addr |->
                         c.flags[b] \union (IF b \in below THEN {"SUPRESSED"} ELSE {})
                                    \union (IF b = a THEN {"SUPRESSOR"} ELSE {})])
            /\ at' = at + 1 /\ UNCHANGED pc
  <2> DEFINE S == {"SUPRESSED", "SUPRESSOR"}
             fs == [b \in Addr |->
                      c.flags[b] \union (IF b \in below THEN {"SUPRESSED"} ELSE {})
                                 \union (IF b = a THEN {"SUPRESSOR"} ELSE {})]
  <2>1. fs \in [Addr -> SUBSET Flags]
    BY <1>3 DEF Walks, Flags
  <2>2. \A b \in Addr : /\ node[b].flags \subseteq fs[b]
                        /\ fs[b] \subseteq node[b].flags \union SenderFlags \union S
    BY <1>3, <1>4 DEF Flagged
  <2>3. \A b \in Addr : "EMAIL_SENDER" \in fs[b] => LeadsToSender(b)
    BY <1>3 DEF SendersKnown
  <2>4. \A b \in Addr : "SUPRESSED" \in fs[b] <=> b \in below \/ "SUPRESSED" \in node[b].flags
    BY <1>3, <1>4 DEF Flagged, SenderFlags
  <2> HIDE DEF fs
  <2>5. SameLinks(node', node) /\ \A b \in Addr : node'[b].flags = fs[b]
    BY <1>2, <1>11, <2>1, FlagsSet DEF fs
  <2>6. Searched(node', S)
    <3>1. \A b \in Addr : \A f \in Flags \ (SenderFlags \union S) :
            f \in node'[b].flags <=> f \in node[b].flags
      BY <2>2, <2>5
    <3>2. SendersFound(node')
      BY <2>3, <2>5 DEF SendersFound
    <3>3. \A b \in Refused : b \in Addr
      BY DEF Refused, Reach
    <3>4. \A b \in Addr : node[b].flags \subseteq node'[b].flags
      BY <2>2, <2>5
    <3> QED  BY <2>5, <3>1, <3>2, <3>3, <3>4 DEF Searched
  <2>7. /\ below \subseteq Addr /\ Kids(node, a) \subseteq below
        /\ \A e \in below : "SUPRESSED" \notin node[e].flags => Kids(node, e) \subseteq below
    BY <1>2, BelowIs DEF below
  <2>8. /\ \A b \in Addr : Kids(node', b) = Kids(node, b)
        /\ \A b \in Addr : Shut(node, b) => Shut(node', b)
    BY <2>6, SearchedIs
  <2>9. \A b \in below : "SUPRESSED" \in node'[b].flags
    BY <2>4, <2>5, <2>7
  <2>10. Shut(node', a)
    BY <2>7, <2>8, <2>9, <1>2 DEF Shut
  <2>11. Downwards(node')
    <3> SUFFICES ASSUME NEW b \in Addr, "SUPRESSED" \in node'[b].flags
                 PROVE  Shut(node', b)
      BY DEF Downwards
    <3>1. CASE "SUPRESSED" \in node[b].flags
      BY <3>1, <2>8, <1>1 DEF Suppressing, Downwards
    <3>2. CASE "SUPRESSED" \notin node[b].flags
      <4>1. Kids(node', b) \subseteq below
        BY <3>2, <2>4, <2>5, <2>7, <2>8
      <4> QED  BY <4>1, <2>9 DEF Shut
    <3> QED  BY <3>1, <3>2
  <2> QED  BY <2>6, <2>10, <2>11, <1>7, <1>11
<1> QED  BY <1>5, <1>6, <1>9, <1>10, <1>11

\* Every members-only group is judged.
LEMMA LeakMembersDone == ASSUME LeakInv, MembersDone PROVE LeakInv'
<1>1. /\ pc = "members" /\ at > Len(memonly) /\ pc' = "write" /\ at' = 1
      /\ UNCHANGED <<world, list, node, memonly, written>>
      /\ LeakType /\ Graph(list, node, memonly) /\ Suppressing
  BY DEF MembersDone, LeakInv
<1>2. \A a \in Refused : Shut(node, a)
  <2> SUFFICES ASSUME NEW a \in Refused, Kids(node, a) # {}
               PROVE  Shut(node, a)
    BY DEF Shut
  <2>1. a \in ToSet(memonly) /\ memonly \in Seq(Addr) /\ at \in Nat
    BY <1>1 DEF Graph, Guarded, IsGuarded, LeakType
  <2>2. PICK i \in 1..Len(memonly) : memonly[i] = a
    BY <2>1 DEF ToSet
  <2>3. i < at
    BY <2>1, <1>1
  <2> QED  BY <2>2, <2>3, <1>1 DEF Suppressing
<1>3. PathsKnown(FlagsOf)
  BY <1>1, WalkIs DEF PathsKnown, Suppressing, NoPaths, LeakType
<1>4. Suppressed'
  <2>1. \A a \in Refused' : Shut(node', a)
    BY <1>1, <1>2, SameWorld
  <2>2. Downwards(node')
    BY <1>1 DEF Suppressing
  <2>3. FlagsOf' = FlagsOf
    BY <1>1 DEF FlagsOf
  <2>4. PathsKnown(FlagsOf)'
    BY <2>3, <1>1, <1>3, SameWorld DEF PathsKnown
  <2> QED  BY <2>1, <2>2, <2>4 DEF Suppressed, Downwards, Shut, Kids
<1> QED  BY <1>1, <1>4, LeakWalked DEF LeakInv, LeakType

\* The walk up the parents leaves what was decided alone.
LEMMA LeakWrite ==
    ASSUME WorldsAssumption, LeakInv, Write
    PROVE  LeakInv'
<1> DEFINE a == Cursor
           w == IF "SUPRESSED" \in node[a].flags
                THEN unblocked_path_to_root(a) ELSE Walk(FlagsOf)
           S == {"ROOT_PATH", "NO_ROOT_PATH"}
<1>1. /\ pc = "write" /\ at <= Len(list) /\ at \in Nat /\ at >= 1 /\ at' = at + 1
      /\ UNCHANGED <<world, list, memonly>> /\ node' = SetFlags(w.flags)
      /\ LeakType /\ Graph(list, node, memonly) /\ Suppressed
      /\ pc' \in {"write", "failed"}
  BY DEF Write, LeakInv, LeakType
<1>2. \/ written' = written
      \/ w.ret /\ \E x : x[2] = a /\ written' = written \union {x}
  <2>1. ~w.ret => written' = written \union {}
    BY DEF Write
  <2>2. w.ret => \/ written' = written \union {}
                 \/ written' = written \union {<<"gmailfwd", a>>}
                 \/ written' = written \union {<<"moderated", a>>}
                 \/ written' = written \union {<<"dead", a>>}
                 \/ written' = written \union {<<"host", a>>}
    BY DEF Write
  <2> HIDE DEF w, a
  <2> QED  BY <2>1, <2>2
<1>3. /\ world \in World /\ node \in [Addr -> ExpAddr] /\ list \in Seq(Addr)
      /\ memonly \in Seq(Addr) /\ a \in Addr /\ a \in ToSet(list)
  BY <1>1 DEF LeakType, Cursor, ToSet
<1>4. /\ w \in Walks /\ Flagged(FlagsOf, w.flags, S) /\ PathsKnown(w.flags)
      /\ "SUPRESSED" \in node[a].flags /\ w.ret => a \in Reached
  <2>1. CASE "SUPRESSED" \in node[a].flags
    <3>1. w = unblocked_path_to_root(a)
      BY <2>1
    <3> HIDE DEF w
    <3> QED  BY <3>1, <2>1, <1>1, <1>3, PathWalkIs DEF WorldsAssumption, Graph, Suppressed
  <2>2. CASE "SUPRESSED" \notin node[a].flags
    <3>1. w = Walk(FlagsOf)
      BY <2>2
    <3>2. PathsKnown(w.flags)
      BY <3>1, <1>1, <1>3, WalkIs DEF Suppressed
    <3> HIDE DEF w
    <3> QED  BY <3>1, <3>2, <2>2, <1>3, WalkIs DEF Flagged
  <2> QED  BY <2>1, <2>2
<1> HIDE DEF w
\* Whatever is not suppressed is reached.
<1>5. "SUPRESSED" \notin node[a].flags => a \in Reached
  <2> DEFINE T == Reached \union {b \in Addr : "SUPRESSED" \in node[b].flags}
  <2>1. /\ ToSet(world.rcpts) \subseteq Reached /\ Reached \subseteq Addr
        /\ \A b \in Reached \ Refused : Below(b) \subseteq Reached
    BY <1>3, ReachedIs
  <2>2. \A b \in Addr : Kids(node, b) \subseteq Below(b) /\ Kids(node, b) \subseteq Addr
    BY <1>1, <1>3, LinksAre DEF Graph, Linked
  <2>3. ASSUME NEW b \in T PROVE Kids(node, b) \subseteq T
    <3>1. b \in Addr
      BY <2>1
    <3>2. CASE Shut(node, b)
      BY <3>1, <3>2, <2>2 DEF Shut
    <3>3. CASE ~Shut(node, b)
      <4>1. b \in Reached /\ b \notin Refused
        BY <3>1, <3>3, <1>1 DEF Suppressed, Downwards
      <4> QED  BY <4>1, <3>1, <2>1, <2>2
    <3> QED  BY <3>2, <3>3
  <2>4. T \in SUBSET Addr /\ ToSet(world.rcpts) \subseteq T
    BY <2>1
  <2> HIDE DEF T
  <2>5. ToSet(list) \subseteq T
    BY <2>3, <2>4, <1>1 DEF Graph, Grown
  <2> QED  BY <2>5, <1>3 DEF T
<1>6. {x[2] : x \in written'} \subseteq Reached
  <2>1. {x[2] : x \in written} \subseteq Reached
    BY DEF LeakInv
  <2>2. w.ret => a \in Reached
    BY <1>4, <1>5
  <2> HIDE DEF a
  <2> QED  BY <2>1, <2>2, <1>2
<1>7. /\ FlagsOf \in [Addr -> SUBSET Flags] /\ w.flags \in [Addr -> SUBSET Flags]
      /\ \A b \in Addr : FlagsOf[b] = node[b].flags
  BY <1>3, <1>4, WalkIs DEF Walks
<1>8. SameLinks(node', node) /\ \A b \in Addr : node'[b].flags = w.flags[b]
  BY <1>1, <1>3, <1>7, FlagsSet
<1>9. \A b \in Addr : \A f \in Flags \ S : f \in node'[b].flags <=> f \in node[b].flags
  BY <1>4, <1>7, <1>8 DEF Flagged
<1>10. \A b \in Addr :
         /\ "SUPRESSED" \in node'[b].flags <=> "SUPRESSED" \in node[b].flags
         /\ "MEMONLY" \in node'[b].flags <=> "MEMONLY" \in node[b].flags
         /\ "EMAIL_SENDER" \in node'[b].flags <=> "EMAIL_SENDER" \in node[b].flags
  BY <1>9 DEF Flags
<1>11. node' \in [Addr -> ExpAddr] /\ Graph(list, node', memonly)
  <2>1. \A b \in Refused : IsGuarded(node, memonly, b) => IsGuarded(node', memonly, b)
    <3>1. \A b \in Refused : b \in Addr
      BY DEF Refused, Reach
    <3> QED  BY <3>1, <1>10 DEF IsGuarded
  <2>2. SendersFound(node')
    BY <1>1, <1>10 DEF Graph, SendersFound
  <2> QED  BY <2>1, <2>2, <1>1, <1>8, Relabelled DEF SameLinks
<1>12. \A b \in Addr : Shut(node', b) <=> Shut(node, b)
  <2>1. \A b \in Addr : Kids(node', b) = Kids(node, b)
    BY <1>8 DEF SameLinks, Kids
  <2>2. \A b \in Addr : Kids(node, b) \subseteq Addr
    <3>1. \A b \in Addr : Kids(node, b) \subseteq Below(b) /\ Below(b) \subseteq Addr
      BY <1>1, <1>3, LinksAre DEF Graph, Linked
    <3> QED  BY <3>1
  <2> QED  BY <2>1, <2>2, <1>10 DEF Shut
<1>13. Suppressed'
  <2>1. \A b \in Refused : b \in Addr
    BY DEF Refused, Reach
  <2>2. \A b \in Refused' : Shut(node', b)
    BY <2>1, <1>1, <1>12, SameWorld DEF Suppressed
  <2>3. Downwards(node')
    BY <1>1, <1>10, <1>12 DEF Suppressed, Downwards
  <2>4. \A b \in Addr : "ROOT_PATH" \in node'[b].flags => b \in Reached
    BY <1>4, <1>8 DEF PathsKnown
  <2>5. PathsKnown(FlagsOf)'
    <3>1. \A b \in Addr : FlagsOf'[b] = node'[b].flags
      BY DEF FlagsOf
    <3> QED  BY <3>1, <2>4, <1>1, SameWorld DEF PathsKnown
  <2> QED  BY <2>2, <2>3, <2>5 DEF Suppressed, Downwards, Shut, Kids
<1>14. at' \in Nat /\ at' >= 1
  BY <1>1
<1> QED  BY <1>1, <1>6, <1>11, <1>13, <1>14, LeakWalked

\* The last envelope is written.
LEMMA LeakDone == ASSUME LeakInv, Done PROVE LeakInv'
<1>1. /\ pc = "write" /\ pc' = "done" /\ UNCHANGED <<world, list, at, node, memonly, written>>
  BY DEF Done
<1>2. Suppressed'
  <2>1. Suppressed
    BY <1>1 DEF LeakInv
  <2>2. \A b \in Refused' : Shut(node', b)
    BY <2>1, <1>1, SameWorld DEF Suppressed
  <2>3. Downwards(node')
    BY <2>1, <1>1 DEF Suppressed
  <2>4. FlagsOf' = FlagsOf
    BY <1>1 DEF FlagsOf
  <2>5. PathsKnown(FlagsOf)'
    BY <2>1, <2>4, <1>1, SameWorld DEF PathsKnown, Suppressed
  <2> QED  BY <2>2, <2>3, <2>5 DEF Suppressed, Downwards, Shut, Kids
<1> QED  BY <1>1, <1>2, LeakWalked DEF LeakInv, LeakType

\* No step lets the message past a group that refused it.
LEMMA LeakStep == ASSUME WorldsAssumption, LeakInv, [Next]_vars PROVE LeakInv'
<1>1. CASE Start
  BY <1>1, LeakStart
<1>2. CASE address_expand
  BY <1>2, LeakAddressExpand
<1>3. CASE Lookup
  BY <1>3, LeakLookup
<1>4. CASE Looked
  BY <1>4, LeakLooked
<1>5. CASE ListDone
  BY <1>5, LeakListDone
<1>6. CASE MembersOnly
  BY <1>6, LeakMembersOnly
<1>7. CASE MembersDone
  BY <1>7, LeakMembersDone
<1>8. CASE Write
  BY <1>8, LeakWrite
<1>9. CASE Done
  BY <1>9, LeakDone
<1>10. CASE Again
  BY <1>10, LeakAgain
<1>11. CASE UNCHANGED vars
  <2>1. UNCHANGED <<world, list, node, memonly, at, written, pc>>
    BY <1>11 DEF vars
  <2>2. LeakType' /\ Graph(list, node, memonly)'
    BY <2>1, GraphKept DEF LeakInv, LeakType
  <2>3. Fresh(list, node) => Fresh(list, node)'
    BY <2>1 DEF Fresh
  <2>4. Suppressing => Suppressing'
    BY <2>1, SameWorld DEF Suppressing, NoPaths, Downwards, Shut, Kids
  <2>5. Suppressed => Suppressed'
    <3>1. FlagsOf' = FlagsOf
      BY <2>1 DEF FlagsOf
    <3> QED  BY <2>1, <3>1, SameWorld DEF Suppressed, PathsKnown, Downwards, Shut, Kids
  <2> QED  BY <2>1, <2>2, <2>3, <2>4, <2>5, SameWorld DEF LeakInv
<1> QED  BY <1>1, <1>2, <1>3, <1>4, <1>5, <1>6, <1>7, <1>8, <1>9, <1>10, <1>11 DEF Next

\* What the groups that refused the message suppress stays suppressed, and what
\* the second walk takes for a path to a recipient is one.
THEOREM WalksAreSound == Spec => []LeakInv
<1>1. Init => LeakInv
  BY LeakInit, WorldsAssumption
<1>2. LeakInv /\ [Next]_vars => LeakInv'
  BY LeakStep, WorldsAssumption
<1> QED  BY <1>1, <1>2, PTL DEF Spec

\* Whatever groups there are, in each other in whatever way, and in whatever order
\* their members are listed, the message is delivered to nobody it does not reach
\* without going through a members-only group that refused it (expand.c:
\* supress_addrs, sender_is_child, unblocked_path_to_root).
THEOREM GroupsKeepIt == Spec => []NoLeak
<1>1. LeakInv => NoLeak
  BY DEF LeakInv, NoLeak
<1> QED  BY <1>1, WalksAreSound, PTL

---------------------------------------------------------------------------
(* Unknown is real, and the types.                                         *)

\* What the lookup in progress may say of the address it is for.
Heard(a) ==
    /\ ask.dn = world.entry[a].dn
    /\ ask.st = "absent" => ask.dn
    /\ ask.st \in {"absent", "LDAP_NOT_FOUND"} =>
         ask.blind \/ (ask.dn /\ ask.late) \/ kind(a) \notin InLdap

AskOK ==
    /\ DirTypeOK
    /\ ask.st \in {"init", "search"} => ask.retrycnt <= MaxRetries
    /\ ask.st # "off" => ask.lds \in 1..NSearch

LookupInv == AskOK /\ (pc = "ldap" => ask.st # "off" /\ Heard(Cursor))

\* With no search under way.
LEMMA NoAskOK ==
    ASSUME DirectoryAssumption, conn' \in Conns, faults' \in 0..MaxFaults, ask' = NoAsk
    PROVE  AskOK'
<1>1. ask' \in [st : {"off", "init", "search"} \union Answers, dn : BOOLEAN,
                lds : 0..NSearch, retrycnt : 0..MaxRetries + 1, late : BOOLEAN,
                blind : BOOLEAN]
  BY DEF NoAsk, DirectoryAssumption
<1>2. ask'.st = "off"
  BY DEF NoAsk
<1> QED  BY <1>1, <1>2 DEF AskOK, DirTypeOK

\* Before the first search.
LEMMA LookupInit == ASSUME WorldsAssumption, DirectoryAssumption, Init PROVE LookupInv
<1>1. conn = "none" /\ faults = world.faults /\ ask = NoAsk /\ pc = "start"
  BY DEF Init, DirInit
<1>2. faults \in 0..MaxFaults
  BY <1>1 DEF Init, WorldsAssumption, World
<1>3. ask \in [st : {"off", "init", "search"} \union Answers, dn : BOOLEAN,
               lds : 0..NSearch, retrycnt : 0..MaxRetries + 1, late : BOOLEAN,
               blind : BOOLEAN]
  BY <1>1 DEF NoAsk, DirectoryAssumption
<1>4. ask.st = "off"
  BY <1>1 DEF NoAsk
<1> QED  BY <1>1, <1>2, <1>3, <1>4 DEF LookupInv, AskOK, DirTypeOK, Conns

\* A lookup begins.
LEMMA LookupBegins ==
    ASSUME DirectoryAssumption, AskOK, NEW dn \in BOOLEAN, simta_ldap_expand(dn)
    PROVE  AskOK' /\ ask'.st \in {"init", "search"} /\ ask'.dn = dn
<1> DEFINE s == IF conn = "none" THEN "init" ELSE "search"
<1>1. ask' = [st |-> s, dn |-> dn, lds |-> 1, retrycnt |-> 0, late |-> FALSE, blind |-> FALSE]
      /\ UNCHANGED <<conn, faults>>
  BY DEF simta_ldap_expand, NoAsk
<1>2. s \in {"init", "search"}
  OBVIOUS
<1> HIDE DEF s
<1> QED  BY <1>1, <1>2 DEF AskOK, DirTypeOK, DirectoryAssumption

\* Each of its steps keeps to what the searches find.
LEMMA LookupGoesOn ==
    ASSUME DirectoryAssumption, AskOK, NEW a, Heard(a), ask.st # "off", UNCHANGED world,
           DirStep(Found(a), kind(a) = "illegal")
    PROVE  AskOK' /\ ask'.st # "off" /\ Heard(a)'
<1> DEFINE Rec == [st : {"off", "init", "search"} \union Answers, dn : BOOLEAN,
                   lds : 0..NSearch, retrycnt : 0..MaxRetries + 1, late : BOOLEAN,
                   blind : BOOLEAN]
           e == world.entry[a]
<1>1. /\ ask \in Rec /\ conn \in Conns /\ faults \in 0..MaxFaults
      /\ ask.st \in {"init", "search"} => ask.retrycnt <= MaxRetries
      /\ ask.lds \in 1..NSearch /\ ask.dn = world.entry[a].dn
  BY DEF AskOK, DirTypeOK, Heard
<1>2. kind(a)' = kind(a) /\ (kind(a) = "illegal" => kind(a) \notin InLdap)
  BY DEF kind, InLdap
<1>3. NSearch \in Nat /\ MaxRetries \in Nat /\ MaxFaults \in Nat
  BY DEF DirectoryAssumption
\* It is enough that the answer is one of those it may give.
<1>4. ASSUME ask' \in Rec, ask'.st # "off", conn' \in Conns, faults' \in 0..MaxFaults,
             ask'.st \in {"init", "search"} => ask'.retrycnt <= MaxRetries,
             ask'.lds \in 1..NSearch, ask'.dn = ask.dn, ask'.st = "absent" => ask'.dn,
             ask'.st \in {"absent", "LDAP_NOT_FOUND"} =>
               ask'.blind \/ (ask'.dn /\ ask'.late) \/ kind(a) \notin InLdap
      PROVE  AskOK' /\ ask'.st # "off" /\ Heard(a)'
  <2>1. AskOK'
    BY <1>4 DEF AskOK, DirTypeOK
  <2>2. Heard(a)'
    BY <1>1, <1>2, <1>4 DEF Heard
  <2> QED  BY <2>1, <2>2, <1>4
<1>5. Fault => faults' \in 0..MaxFaults
  BY <1>1, <1>3 DEF Fault
<1>6. ASSUME NEW s \in {"search"} \union Answers, ask' = [ask EXCEPT !.st = s],
             conn' \in Conns, faults' \in 0..MaxFaults, s # "absent",
             s = "LDAP_NOT_FOUND" => kind(a) \notin InLdap,
             s = "search" => ask.st \in {"init", "search"}
      PROVE  AskOK' /\ ask'.st # "off" /\ Heard(a)'
  <2>1. ask' \in Rec /\ ask'.st = s /\ ask'.dn = ask.dn /\ ask'.lds = ask.lds
        /\ ask'.retrycnt = ask.retrycnt
    BY <1>1, <1>6
  <2>2. s # "off" /\ s # "init"
    BY DEF Answers
  <2> HIDE DEF Rec
  <2> QED  BY <2>1, <2>2, <1>1, <1>4, <1>6
<1>7. CASE kind(a) = "illegal" /\ BadFilter
  BY <1>1, <1>2, <1>6, <1>7 DEF BadFilter, Ends, Answers
<1>8. CASE simta_ldap_init
  BY <1>1, <1>5, <1>6, <1>8 DEF simta_ldap_init, Ends, Answers, Conns
<1>9. CASE InitWithoutTls
  <2>1. ask' = ask /\ conn' = conn /\ faults' \in 0..MaxFaults
    BY <1>5, <1>9 DEF InitWithoutTls
  <2>2. Heard(a) /\ ask.st # "off"
    OBVIOUS
  <2> HIDE DEF Rec
  <2> QED  BY <2>1, <2>2, <1>1, <1>4 DEF Heard
<1>10. CASE CloseIdle
  <2>1. ask' = ask /\ conn' \in Conns /\ faults' \in 0..MaxFaults
    BY <1>5, <1>10 DEF CloseIdle, Conns
  <2>2. Heard(a) /\ ask.st # "off"
    OBVIOUS
  <2> HIDE DEF Rec
  <2> QED  BY <2>1, <2>2, <1>1, <1>4 DEF Heard
<1>11. CASE Answered(Found(a)[ask.lds])
  <2> DEFINE found == Found(a)[ask.lds]
             more == ~ask.dn /\ ask.lds < NSearch
  <2>1. /\ found \in 0..2
        /\ found = 0 => kind(a) \notin InLdap \/ more
    BY <1>1 DEF Found
  <2>2. ask.st = "search" /\ conn \in {"bound", "unbound"} /\ UNCHANGED <<conn, faults>>
    BY <1>11 DEF Answered
  <2> HIDE DEF found
  <2>3. PICK match \in (IF conn = "bound" THEN {found} ELSE {found, 0}) :
          ask' = [ask EXCEPT
            !.blind = @ \/ conn = "unbound",
            !.st = CASE match = 1 -> "entry"
                     [] match > 1 -> IF ask.dn THEN "entry" ELSE "ambiguous"
                     [] match = 0 /\ ask.dn -> "absent"
                     [] match = 0 /\ ~ask.dn /\ ask.lds < NSearch -> "search"
                     [] OTHER -> "LDAP_NOT_FOUND",
            !.lds = IF match = 0 /\ ~ask.dn /\ ask.lds < NSearch THEN @ + 1 ELSE @]
    BY <1>11 DEF Answered, found
  <2> DEFINE s == CASE match = 1 -> "entry"
                    [] match > 1 -> IF ask.dn THEN "entry" ELSE "ambiguous"
                    [] match = 0 /\ ask.dn -> "absent"
                    [] match = 0 /\ ~ask.dn /\ ask.lds < NSearch -> "search"
                    [] OTHER -> "LDAP_NOT_FOUND"
             n == IF match = 0 /\ ~ask.dn /\ ask.lds < NSearch THEN ask.lds + 1 ELSE ask.lds
             bl == ask.blind \/ conn = "unbound"
  <2>4. match \in 0..2 /\ (match = 0 => found = 0 \/ conn = "unbound")
    BY <2>1, <2>2, <2>3
  <2>5. \/ match = 1 /\ s = "entry"
        \/ match > 1 /\ s \in {"entry", "ambiguous"}
        \/ match = 0 /\ ask.dn /\ s = "absent"
        \/ match = 0 /\ more /\ s = "search"
        \/ match = 0 /\ ~ask.dn /\ ~more /\ s = "LDAP_NOT_FOUND"
    BY <2>4
  <2>6. n \in 1..NSearch /\ bl \in BOOLEAN /\ (conn = "unbound" => bl)
    BY <1>1, <1>3
  <2>7. ask' = [ask EXCEPT !.blind = bl, !.st = s, !.lds = n]
    BY <2>3
  <2> HIDE DEF s, n, bl
  <2>8. s \in {"entry", "ambiguous", "absent", "search", "LDAP_NOT_FOUND"}
    BY <2>5
  <2>9. /\ ask' \in Rec /\ ask'.st = s /\ ask'.lds = n /\ ask'.blind = bl /\ ask'.dn = ask.dn
        /\ ask'.retrycnt = ask.retrycnt
    <3>1. s \in {"off", "init", "search"} \union Answers /\ n \in 0..NSearch
          /\ bl \in BOOLEAN
      BY <2>6, <2>8, <1>3 DEF Answers
    <3> HIDE DEF more
    <3> QED  BY <3>1, <1>1, <2>7
  <2>10. s = "absent" => ask.dn
    BY <2>5
  <2>11. s \in {"absent", "LDAP_NOT_FOUND"} => bl \/ kind(a) \notin InLdap
    BY <2>1, <2>4, <2>5, <2>6
  <2>12. s # "off"
    BY <2>8
  <2>13. ask'.retrycnt <= MaxRetries /\ conn' \in Conns /\ faults' \in 0..MaxFaults
    BY <1>1, <2>2, <2>9
  <2> HIDE DEF Rec
  <2> QED  BY <2>6, <2>9, <2>10, <2>11, <2>12, <2>13, <1>4
<1>12. CASE TimesOut
  <2> DEFINE s == IF ask.dn THEN "absent" ELSE "LDAP_SYSERROR"
  <2>1. ask' = [ask EXCEPT !.late = TRUE, !.st = s] /\ conn' = conn /\ faults' \in 0..MaxFaults
    BY <1>5, <1>12 DEF TimesOut
  <2>2. s \in {"absent", "LDAP_SYSERROR"} /\ (s = "absent" => ask.dn)
    OBVIOUS
  <2> HIDE DEF s
  <2>3. /\ ask' \in Rec /\ ask'.st = s /\ ask'.lds = ask.lds /\ ask'.dn = ask.dn
        /\ ask'.late = TRUE
    BY <1>1, <2>1, <2>2 DEF Answers
  <2> HIDE DEF Rec
  <2> QED  BY <2>1, <2>2, <2>3, <1>1, <1>4
<1>13. CASE SearchFails
  BY <1>1, <1>5, <1>6, <1>13 DEF SearchFails, Ends, Answers
<1>14. CASE simta_ldap_retry
  <2> DEFINE s == IF ask.retrycnt + 1 > MaxRetries THEN "LDAP_SYSERROR" ELSE "init"
  <2>1. /\ ask.st = "search" /\ ask' = [ask EXCEPT !.retrycnt = @ + 1, !.st = s]
        /\ conn' \in Conns /\ faults' = faults
    BY <1>1, <1>14 DEF simta_ldap_retry, Conns
  <2>2. /\ s \in {"init", "LDAP_SYSERROR"}
        /\ s = "init" => ask.retrycnt + 1 <= MaxRetries
        /\ ask.retrycnt + 1 \in 0..MaxRetries + 1
    BY <1>1, <1>3, <2>1
  <2> HIDE DEF s
  <2>3. /\ ask' \in Rec /\ ask'.st = s /\ ask'.lds = ask.lds /\ ask'.dn = ask.dn
        /\ ask'.retrycnt = ask.retrycnt + 1
    BY <1>1, <2>1, <2>2 DEF Answers
  <2> HIDE DEF Rec
  <2> QED  BY <2>1, <2>2, <2>3, <1>1, <1>4
<1>15. CASE DnServerDown
  BY <1>1, <1>6, <1>15 DEF DnServerDown, Ends, Answers
<1> QED  BY <1>7, <1>8, <1>9, <1>10, <1>11, <1>12, <1>13, <1>14, <1>15 DEF DirStep

\* The steps that ask nothing.
LEMMA LookupIdle ==
    ASSUME LookupInv, UNCHANGED dirVars, pc' # "ldap"
    PROVE  LookupInv'
BY DEF LookupInv, AskOK, DirTypeOK, dirVars

\* No step leaves a search in a state that was not asked for.
LEMMA LookupStep ==
    ASSUME WorldsAssumption, DirectoryAssumption, LeakInv, LookupInv, [Next]_vars
    PROVE  LookupInv'
<1>1. CASE address_expand
  <2>1. CASE UNCHANGED dirVars /\ Next1
    BY <2>1, LookupIdle DEF Next1
  <2>2. CASE /\ simta_ldap_expand(world.entry[Cursor].dn)
             /\ pc' = "ldap" /\ UNCHANGED <<list, at, node, memonly, bounced>>
    <3>1. AtCursor /\ UNCHANGED world
      BY <1>1, CursorIs DEF address_expand
    <3>2. world.entry[Cursor].dn \in BOOLEAN
      BY <3>1 DEF AtCursor, LeakType, World, Entry
    <3>3. AskOK' /\ ask'.st \in {"init", "search"} /\ ask'.dn = world.entry[Cursor].dn
      BY <2>2, <3>2, LookupBegins DEF LookupInv
    <3>4. Cursor' = Cursor
      BY <2>2 DEF Cursor
    <3>5. Heard(Cursor)' /\ ask'.st # "off"
      BY <3>1, <3>3, <3>4 DEF Heard
    <3> QED  BY <3>3, <3>5 DEF LookupInv
  <2> QED  BY <1>1, <2>1, <2>2
       DEF address_expand, alias_expand, password_expand, Final
<1>2. CASE Lookup
  <2>1. /\ pc = "ldap" /\ UNCHANGED <<world, list, at>>
        /\ DirStep(Found(Cursor), kind(Cursor) = "illegal")
    BY <1>2 DEF Lookup
  <2>2. AskOK' /\ ask'.st # "off" /\ Heard(Cursor)'
    <3> DEFINE c == Cursor
    <3>1. c' = c
      BY <2>1 DEF Cursor
    <3>2. AskOK' /\ ask'.st # "off" /\ \A a : a = c => Heard(a)'
      <4> HIDE DEF c
      <4>1. ASSUME NEW a, a = c PROVE AskOK' /\ ask'.st # "off" /\ Heard(a)'
        BY <4>1, <2>1, LookupGoesOn DEF LookupInv, c
      <4>2. c = c
        OBVIOUS
      <4> QED  BY <4>1, <4>2
    <3> QED  BY <3>1, <3>2 DEF Heard, kind
  <2> QED  BY <2>2 DEF LookupInv
<1>3. CASE Looked
  <2>1. pc' # "ldap" /\ ask' = NoAsk /\ UNCHANGED <<conn, faults>>
    BY <1>3 DEF Looked, NotFound, Final, Refuse, Person, simta_ldap_expand_group,
                SysError, Next1
  <2> QED  BY <2>1, NoAskOK DEF LookupInv, AskOK, DirTypeOK
<1>4. CASE Start \/ ListDone \/ MembersOnly \/ MembersDone \/ Write \/ Done \/ Again
  <2>1. UNCHANGED dirVars /\ pc' # "ldap"
    BY <1>4 DEF Start, ListDone, MembersOnly, MembersDone, Write, Done, Again
  <2> QED  BY <2>1, LookupIdle
<1>5. CASE UNCHANGED vars
  <2>1. UNCHANGED <<world, list, at, pc, ask, conn, faults>> /\ Cursor' = Cursor
    BY <1>5 DEF vars, dirVars, Cursor
  <2> QED  BY <2>1 DEF LookupInv, AskOK, DirTypeOK, Heard, kind
<1> QED  BY <1>1, <1>2, <1>3, <1>4, <1>5 DEF Next

\* A lookup retries at most MAXRETRIES times, asks the searches there are, and
\* says that an address is not there only if that is so, or was not to be known.
THEOREM LookupsAreSound == Spec => []LookupInv
<1>1. Init => LookupInv
  BY LookupInit, WorldsAssumption, DirectoryAssumption
<1>2. LeakInv /\ LookupInv /\ [Next]_vars => LookupInv'
  BY LookupStep, WorldsAssumption, DirectoryAssumption
<1> QED  BY <1>1, <1>2, WalksAreSound, PTL DEF Spec

\* An address is bounced as unknown only if a bound handle got a full answer
\* without it from every search; the exceptions are a member's dn whose search
\* timed out and a handle an earlier failure left unbound (simta_ldap_name_search,
\* simta_ldap_dn_expand).
THEOREM UnknownAreUnknown == Spec => UnknownIsReal
<1> DEFINE P == \A b \in bounced' \ bounced :
                  b.why \in Unknown =>
                    \/ kind(b.addr) \notin InLdap
                    \/ ask.dn /\ ask.late
                    \/ ask.blind
<1>1. LookupInv /\ [Next]_vars => [P]_vars
  <2> SUFFICES ASSUME LookupInv, Next, NEW b \in bounced' \ bounced, b.why \in Unknown
               PROVE  \/ kind(b.addr) \notin InLdap
                      \/ ask.dn /\ ask.late
                      \/ ask.blind
    OBVIOUS
  <2>1. \A e, w, a : Bounce(e, w, a).why = w /\ Bounce(e, w, a).addr = a
    BY DEF Bounce
  <2>2. b.why = "not found" \/ b.why = "absent"
    BY DEF Unknown
  <2>3. CASE Looked
    <3>1. pc = "ldap" /\ Heard(Cursor)
      BY <2>3 DEF Looked, LookupInv
    <3>2. ASSUME NEW w, Refuse(w) PROVE b.why = w /\ b.addr = Cursor
      <4>1. b = Bounce(node[Cursor].errors, w, Cursor)
        BY <3>2 DEF Refuse
      <4> QED  BY <4>1, <2>1
    <3>3. CASE Refuse("not found") /\ ask.st = "LDAP_NOT_FOUND"
      <4>1. b.addr = Cursor
        BY <3>2, <3>3
      <4> QED  BY <4>1, <3>1, <3>3 DEF Heard
    <3>4. CASE Refuse("absent") /\ ask.st = "absent"
      <4>1. b.addr = Cursor
        BY <3>2, <3>4
      <4> QED  BY <4>1, <3>1, <3>4 DEF Heard
    <3>5. ~Refuse("ambiguous") /\ ~Refuse("no email") /\ ~Refuse("neither")
      <4>1. ASSUME Refuse("ambiguous") PROVE b.why = "ambiguous"
        BY <4>1, <3>2
      <4>2. ASSUME Refuse("no email") PROVE b.why = "no email"
        BY <4>2, <3>2
      <4>3. ASSUME Refuse("neither") PROVE b.why = "neither"
        BY <4>3, <3>2
      <4>4. b.why \notin {"ambiguous", "no email", "neither"}
        BY <2>2
      <4> QED  BY <4>1, <4>2, <4>3, <4>4
    <3>6. CASE UNCHANGED bounced
      BY <3>6
    <3>7. CASE simta_ldap_expand_group
      <4>1. \A e, a : /\ Bounce(e, "no owner", a).why \notin Unknown
                     /\ Bounce(e, "loop", a).why \notin Unknown
                     /\ Bounce(e, "bad moderator", a).why \notin Unknown
        <5>1. "no owner" \notin Unknown /\ "loop" \notin Unknown
              /\ "bad moderator" \notin Unknown
          BY DEF Unknown
        <5> QED  BY <5>1 DEF Bounce
      <4>2. \/ UNCHANGED bounced
            \/ \E e, a : \/ bounced' = bounced \union {Bounce(e, "no owner", a)}
                        \/ bounced' = bounced \union {Bounce(e, "loop", a)}
                        \/ bounced' = bounced \union {Bounce(e, "bad moderator", a)}
        <5>1. CASE \E g : GroupEnvelopes(Cursor, g)
          BY <5>1, Zenon DEF GroupEnvelopes
        <5>2. CASE ~\E g : GroupEnvelopes(Cursor, g)
          BY <5>2, <3>7, Zenon DEF simta_ldap_expand_group
        <5> QED  BY <5>1, <5>2
      <4> QED  BY <4>1, <4>2
    <3> QED  BY <2>3, <3>3, <3>4, <3>5, <3>6, <3>7
         DEF Looked, NotFound, Final, Person, SysError
  <2>4. CASE Write
    <3>1. \A r \in Refusals(Cursor) : r.why = "members only"
      <4> SUFFICES ASSUME NEW r \in Refusals(Cursor)
                   PROVE  r.why = "members only"
        OBVIOUS
      <4>1. PICK p : r = Bounce(IF p = None THEN None ELSE node[p].errors,
                                "members only", Cursor)
        BY DEF Refusals
      <4> QED  BY <4>1, <2>1
    <3>2. bounced' = bounced \/ bounced' = bounced \union Refusals(Cursor)
      BY <2>4, Zenon DEF Write
    <3> QED  BY <3>1, <3>2, <2>2
  <2>5. CASE address_expand
    BY <2>5 DEF address_expand, Final, alias_expand, password_expand
  <2>6. CASE Lookup \/ Start \/ ListDone \/ MembersOnly \/ MembersDone \/ Done \/ Again
    BY <2>6 DEF Lookup, Start, ListDone, MembersOnly, MembersDone, Done, Again
  <2> QED  BY <2>3, <2>4, <2>5, <2>6 DEF Next
<1>2. [][P]_vars => UnknownIsReal
  BY PTL DEF UnknownIsReal
<1> QED  BY <1>1, <1>2, LookupsAreSound, PTL DEF Spec

\* A reader is somebody's error envelope, and the address is one.
Bounces == [env : Addr \union {None}, why : Reasons, addr : Addr]

Reports ==
    /\ written \subseteq {"gmailfwd", "moderated", "dead", "host"} \X Addr
    /\ bounced \subseteq Bounces
    /\ pc \in {"start", "expand", "ldap", "members", "write", "done", "failed", "aborted"}
    /\ tries \in 1..MaxTries

\* No step sends errors to nobody.
LEMMA ReportsStep ==
    ASSUME WorldsAssumption, LeakInv, LeakInv', Reports, [Next]_vars
    PROVE  Reports'
<1>1. /\ node \in [Addr -> ExpAddr] /\ node' \in [Addr -> ExpAddr]
      /\ \A a \in Addr : node[a].errors \in Addr \union {None}
                      /\ node'[a].errors \in Addr \union {None}
  <2>1. node \in [Addr -> ExpAddr] /\ node' \in [Addr -> ExpAddr]
    BY DEF LeakInv, LeakType
  <2> QED  BY <2>1 DEF ExpAddr
<1>2. MaxTries \in Nat
  BY DEF WorldsAssumption
<1>3. CASE address_expand
  <2>1. UNCHANGED <<written, bounced, tries>> /\ pc' \in {"expand", "ldap"}
    BY <1>3 DEF address_expand, alias_expand, password_expand, Final, Next1
  <2> QED  BY <2>1 DEF Reports
<1>4. CASE Looked
  <2>1. AtCursor /\ UNCHANGED <<written, tries>>
    BY <1>4, CursorIs DEF Looked, LeakInv
  <2>2. Cursor \in Addr
    BY <2>1 DEF AtCursor
  <2>3. pc' \in {"expand", "failed", "aborted"}
    BY <1>4 DEF Looked, NotFound, Final, Refuse, Person, simta_ldap_expand_group,
                SysError, Next1
  <2>4. CASE \/ Refuse("not found") \/ Refuse("absent") \/ Refuse("ambiguous")
             \/ Refuse("no email") \/ Refuse("neither")
    <3> DEFINE e == node[Cursor].errors
    <3>1. e \in Addr \union {None}
      BY <2>2, <1>1
    <3>2. /\ Bounce(e, "not found", Cursor) \in Bounces
          /\ Bounce(e, "absent", Cursor) \in Bounces
          /\ Bounce(e, "ambiguous", Cursor) \in Bounces
          /\ Bounce(e, "no email", Cursor) \in Bounces
          /\ Bounce(e, "neither", Cursor) \in Bounces
      <4> HIDE DEF e
      <4> QED  BY <3>1, <2>2 DEF Bounce, Bounces, Reasons
    <3>3. bounced' \subseteq Bounces
      BY <2>4, <3>2 DEF Refuse, Reports
    <3> QED  BY <3>3, <2>1, <2>3 DEF Reports
  <2>5. CASE simta_ldap_expand_group
    <3>1. bounced' \subseteq Bounces
      <4> DEFINE e == node'[Cursor].errors
      <4>1. /\ Bounce(e, "no owner", Cursor) \in Bounces
            /\ Bounce(e, "loop", Cursor) \in Bounces
        <5>1. e \in Addr \union {None}
          BY <2>2, <1>1
        <5> HIDE DEF e
        <5> QED  BY <5>1, <2>2 DEF Bounce, Bounces, Reasons
      <4>2. CASE \E g : GroupEnvelopes(Cursor, g)
        <5> DEFINE r == [node[Cursor] EXCEPT !.errors = IF world.null THEN @ ELSE Cursor,
                                             !.isgroup = TRUE]
        <5>0. PICK g : GroupEnvelopes(Cursor, g)
          BY <4>2
        <5> DEFINE permitted == g.memonly /\ g.permits
                   asked == g.moderator # "none" /\ ~permitted
                   refusable == Refusable(g)
                   moderated == asked /\ g.moderator = "others"
                   n == [ForGroup(Cursor) EXCEPT
                     ![Cursor].gmailfwd = g.gmailfwd = "good",
                     ![Cursor].moderated = moderated,
                     ![Cursor].flags = @ \union (IF refusable THEN {"MEMONLY"} ELSE {})
                       \union (IF refusable /\ g.private THEN {"PRIVATE"} ELSE {})]
        <5>1. bounced' = IF asked /\ g.moderator = "bad"
                         THEN bounced \union {Bounce(n[Cursor].errors, "bad moderator", Cursor)}
                         ELSE bounced
          BY <5>0 DEF GroupEnvelopes
        <5>2. r \in ExpAddr /\ ForGroup(Cursor) = [node EXCEPT ![Cursor] = r]
          BY <2>1, ForGroupIs
        <5> HIDE DEF r, asked, refusable, moderated
        <5>3. n[Cursor].errors = r.errors
          BY <5>2, <2>2, <1>1 DEF ExpAddr
        <5> HIDE DEF n
        <5>4. Bounce(n[Cursor].errors, "bad moderator", Cursor) \in Bounces
          <6>1. n[Cursor].errors \in Addr \union {None}
            BY <5>2, <5>3 DEF ExpAddr
          <6> QED  BY <6>1, <2>2 DEF Bounce, Bounces, Reasons
        <5> QED  BY <5>1, <5>4 DEF Reports
      <4>3. CASE ~\E g : GroupEnvelopes(Cursor, g)
        <5>1. \/ UNCHANGED bounced
              \/ bounced' = bounced \union {Bounce(e, "no owner", Cursor)}
              \/ bounced' = bounced \union {Bounce(e, "loop", Cursor)}
          BY <4>3, <2>5, Zenon DEF simta_ldap_expand_group
        <5> HIDE DEF e
        <5> QED  BY <5>1, <4>1 DEF Reports
      <4> QED  BY <4>2, <4>3
    <3> QED  BY <3>1, <2>1, <2>3 DEF Reports
  <2>6. CASE UNCHANGED bounced
    BY <2>1, <2>3, <2>6 DEF Reports
  <2> QED  BY <1>4, <2>4, <2>5, <2>6 DEF Looked, NotFound, Final, Person, SysError
<1>5. CASE Write
  <2>1. /\ pc = "write" /\ at <= Len(list) /\ UNCHANGED tries /\ pc' \in {"write", "failed"}
    BY <1>5 DEF Write
  <2>2. Cursor \in Addr
    BY <2>1 DEF LeakInv, LeakType, Cursor
  <2>3. written' = written \/ \E f \in {"gmailfwd", "moderated", "dead", "host"} :
                                written' = written \union {<<f, Cursor>>}
    BY <1>5 DEF Write
  <2>4. bounced' = bounced \/ bounced' = bounced \union Refusals(Cursor)
    BY <1>5, Zenon DEF Write
  <2>5. Refusals(Cursor) \subseteq Bounces
    <3> SUFFICES ASSUME NEW p \in ToSet(node[Cursor].parents)
                 PROVE  Bounce(IF p = None THEN None ELSE node[p].errors,
                               "members only", Cursor) \in Bounces
      BY DEF Refusals
    <3> DEFINE e == IF p = None THEN None ELSE node[p].errors
    <3>1. node[Cursor].parents \in Seq(Addr \union {None})
      BY <2>2, <1>1 DEF ExpAddr
    <3>2. p \in Addr \union {None}
      BY <3>1 DEF ToSet
    <3>3. e \in Addr \union {None}
      BY <3>2, <1>1
    <3> HIDE DEF e
    <3>4. Bounce(e, "members only", Cursor) \in Bounces
      BY <3>3, <2>2 DEF Bounce, Bounces, Reasons
    <3> QED  BY <3>4 DEF e
  <2> QED  BY <2>1, <2>2, <2>3, <2>4, <2>5 DEF Reports
<1>6. CASE Start \/ Lookup \/ ListDone \/ MembersOnly \/ MembersDone \/ Done
  <2>1. UNCHANGED <<written, bounced, tries>>
        /\ pc' \in {"expand", "ldap", "members", "write", "done", "aborted"}
    BY <1>6 DEF Start, Lookup, ListDone, MembersOnly, MembersDone, Done
  <2> QED  BY <2>1 DEF Reports
<1>7. CASE Again
  BY <1>7, <1>2 DEF Again, Reports
<1>8. CASE UNCHANGED vars
  BY <1>8 DEF vars, Reports
<1> QED  BY <1>3, <1>4, <1>5, <1>6, <1>7, <1>8 DEF Next

\* Every variable keeps to its values: the lists hold addresses, an error envelope
\* is that of an address or the sender's, the retries stay within MAXRETRIES.
THEOREM TypesHold == Spec => []TypeOK
<1>1. Init => Reports
  BY WorldsAssumption DEF Init, Reports, WorldsAssumption
<1>2. LeakInv /\ LeakInv' /\ Reports /\ [Next]_vars => Reports'
  BY ReportsStep, WorldsAssumption
<1>3. LeakInv /\ LookupInv /\ Reports => TypeOK
  BY DEF LeakInv, LeakType, LookupInv, AskOK, Reports, Bounces, TypeOK
<1> QED  BY <1>1, <1>2, <1>3, WalksAreSound, LookupsAreSound, PTL DEF Spec
=============================================================================
