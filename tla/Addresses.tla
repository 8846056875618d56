----------------------------- MODULE Addresses -----------------------------
(* The expansion of the recipients of one message into the addresses it is
   delivered to: address.c, the first half of expand() in expand.c, and the
   directory entries of simta_ldap.c.  The list of addresses grows while a
   cursor runs through it; an address that is already in the list is only
   linked again, so the links form a graph that may have cycles.  Members-only
   groups are decided when the list is complete, by walks over that graph
   that remember what they found in flags of the addresses; an address under
   a refused group is then written only if a walk up its parents finds a
   recipient of the message without passing such a group.

   The writing of the files, and what a crash leaves, is module Expansion. *)
EXTENDS Directory, Sequences, SequencesExt, FiniteSets

CONSTANTS
    Addr,       \* the addresses and dns that occur
    None,       \* NULL: no parent, the sender's error envelope
    Worlds,     \* the messages and directories that are considered
    MaxTries    \* runs over the message by the same process

VARIABLES
    world,      \* the message and the tables its addresses are looked up in
    list,       \* exp_addr_head
    at,         \* exp_addr_cursor, then the index of the loops after it
    node,       \* the struct exp_addr of each address in the list
    memonly,    \* exp_memonly
    written,    \* the recipients of the envelopes
    bounced,    \* the texts in the error envelopes
    pc,
    tries

vars == <<world, list, at, node, memonly, written, bounced, pc, tries, dirVars>>

(* What a lookup of an address yields. *)
Kinds ==
    {"remote",      \* not a local domain: final
     "account",     \* in the password file, no .forward: final
     "alias",       \* in the alias db, or an account with a .forward
     "group",       \* an LDAP group, sent to its members
     "owner",       \* its -owner, -errors or -request address
     "person",      \* an LDAP person with forwarding addresses
     "noemail",     \* one without
     "other",       \* neither a group nor a person
     "ambiguous",   \* several entries
     "unknown",     \* in no table
     "illegal",     \* a name LDAP does not allow
     "postmaster",  \* postmaster@, in no table
     "bare"}        \* postmaster without a domain, in the password file

Local == Kinds \ {"remote"}
InLdap == {"group", "owner", "person", "noemail", "other", "ambiguous"}

Entry ==
    [kind : Kinds, dn : BOOLEAN,          \* ADDRESS_TYPE_LDAP
     to : SUBSET Addr,                    \* what it expands to
     memonly : BOOLEAN, private : BOOLEAN,
     permits : BOOLEAN,                   \* permitted_sender names the sender
     ok : Addr \union {None},             \* permittedgroup, one at most
     moderator : {"none", "others", "sender", "bad"},
     gmailfwd : {"none", "good", "bad"},  \* groupmailforwardingattr
     quiet : BOOLEAN]                     \* suppressNoEmailError

World ==
    [rcpts : Seq(Addr),
     sender : SUBSET Addr,       \* the addresses and people that are the sender
     null : BOOLEAN,             \* a bounce: no sender
     deep : BOOLEAN,             \* at simta_exp_level_max
     faults : 0..MaxFaults,
     entry : [Addr -> Entry]]

ASSUME WorldsAssumption ==
    /\ Worlds \subseteq World /\ MaxTries \in Nat \ {0}
    /\ IsFiniteSet(Addr) /\ None \notin Addr

Flags == {"EMAIL_SENDER", "NO_EMAIL_SENDER", "MEMONLY", "PRIVATE", "SUPRESSOR",
          "SUPRESSED", "ROOT_PATH", "NO_ROOT_PATH"}

ExpAddr ==
    [parents : Seq(Addr \union {None}), children : Seq(Addr), flags : SUBSET Flags,
     errors : Addr \union {None}, isgroup : BOOLEAN, terminal : BOOLEAN,
     moderated : BOOLEAN, gmailfwd : BOOLEAN]

NewAddr ==
    [parents |-> <<>>, children |-> <<>>, flags |-> {}, errors |-> None,
     isgroup |-> FALSE, terminal |-> FALSE, moderated |-> FALSE,
     gmailfwd |-> FALSE]

\* What an error envelope says of an address.
Reasons == {"not found", "absent", "ambiguous", "no email", "neither", "loop",
            "no owner", "bad moderator", "members only"}

TypeOK ==
    /\ world \in World
    /\ list \in Seq(Addr) /\ at \in Nat
    /\ node \in [Addr -> ExpAddr]
    /\ memonly \in Seq(Addr)
    /\ written \subseteq {"gmailfwd", "moderated", "dead", "host"} \X Addr
    /\ bounced \subseteq [env : Addr \union {None}, why : Reasons, addr : Addr]
    /\ pc \in {"start", "expand", "ldap", "members", "write", "done", "failed",
              "aborted"}
    /\ tries \in 1..MaxTries
    /\ DirTypeOK

kind(a) == world.entry[a].kind

-----------------------------------------------------------------------------
(* The list and its links. *)

exp_addr_link(links, a) == IF Contains(links, a) THEN links ELSE <<a>> \o links

\* Where a new address goes: one that LDAP may expand right behind the
\* cursor, or at the head while the recipients are added, any other last.
Insert(l, a, cursor) ==
    IF kind(a) \notin Local THEN Append(l, a)
    ELSE IF cursor = None THEN <<a>> \o l
    ELSE LET i == CHOOSE k \in DOMAIN l : l[k] = cursor
         IN  InsertAt(l, i + 1, a)

\* Mutant: an address that is in the list is left as it is.
add_address_once(x, a, cursor) ==
    IF Contains(x.list, a) THEN x
    ELSE [list |-> Insert(x.list, a, cursor),
          node |-> LET n == [x.node EXCEPT ![a] =
                       [NewAddr EXCEPT !.parents = <<cursor>>,
                          !.errors = IF cursor = None THEN None
                                     ELSE x.node[cursor].errors,
                          !.flags = IF a \in world.sender /\ ~world.entry[a].dn
                                    THEN {"EMAIL_SENDER"} ELSE {}]]
                   IN  IF cursor = None THEN n
                       ELSE [n EXCEPT ![cursor].children = exp_addr_link(@, a)]]

\* add_address: x is the pair of list and nodes.
add_address(x, a, cursor) ==
    LET new == ~Contains(x.list, a)
        n == IF ~new THEN x.node
             ELSE [x.node EXCEPT ![a] =
                    [NewAddr EXCEPT
                      !.errors = IF cursor = None THEN None
                                 ELSE x.node[cursor].errors,
                      !.flags = IF a \in world.sender /\ ~world.entry[a].dn
                                THEN {"EMAIL_SENDER"} ELSE {}]]
        up == [n EXCEPT ![a].parents = exp_addr_link(@, cursor)]
    IN  [list |-> IF new THEN Insert(x.list, a, cursor) ELSE x.list,
         node |-> IF cursor = None THEN up
                  ELSE [up EXCEPT ![cursor].children = exp_addr_link(@, a)]]

\* All of them, in the order in which the table gives them.
AddAll(n, cursor, order) ==
    LET after[i \in 0..Len(order)] ==
            IF i = 0 THEN [list |-> list, node |-> n]
            ELSE add_address(after[i - 1], order[i], cursor)
    IN  after[Len(order)]

AddMembers(n, a, members) ==
    \E order \in SetToSeqs(members) :
       LET x == AddAll(n, a, order)
       IN  list' = x.list /\ node' = x.node

Bounce(env, why, a) == [env |-> env, why |-> why, addr |-> a]

-----------------------------------------------------------------------------
Init ==
    /\ world \in Worlds
    /\ list = <<>> /\ at = 0
    /\ node = [a \in Addr |-> NewAddr]
    /\ memonly = <<>>
    /\ written = {} /\ bounced = {}
    /\ pc = "start" /\ tries = 1
    /\ DirInit(world.faults)

\* Add all of the original recipients to the expansion list.
Start ==
    /\ pc = "start"
    /\ LET x == AddAll(node, None, world.rcpts)
       IN  list' = x.list /\ node' = x.node
    /\ at' = 1
    /\ pc' = "expand"
    /\ UNCHANGED <<world, memonly, written, bounced, tries, dirVars>>

Cursor == list[at]

\* The cursor moves on; the address is terminal if address_expand said so.
Next1 == at' = at + 1 /\ pc' = "expand"

Final ==
    /\ node' = [node EXCEPT ![Cursor].terminal = TRUE]
    /\ Next1
    /\ UNCHANGED <<list, memonly, bounced>>

\* In the alias db, or an account with a .forward: its addresses are added.
alias_expand ==
    /\ kind(Cursor) = "alias"
    /\ AddMembers(node, Cursor, world.entry[Cursor].to)
    /\ Next1
    /\ UNCHANGED <<memonly, bounced>>

\* In the password file without one, with or without a domain: final.
password_expand == kind(Cursor) \in {"account", "bare"} /\ Final

\* address_expand, as far as no directory is asked: another host's address
\* is final, then the tables; names in none of them go on to the directory.
address_expand ==
    /\ pc = "expand" /\ at <= Len(list)
    /\ \/ kind(Cursor) = "remote" /\ Final /\ UNCHANGED dirVars
       \/ (alias_expand \/ password_expand) /\ UNCHANGED dirVars
       \/ /\ kind(Cursor) \notin {"remote", "account", "bare", "alias"}
          /\ simta_ldap_expand(world.entry[Cursor].dn)
          /\ pc' = "ldap"
          /\ UNCHANGED <<list, at, node, memonly, bounced>>
    /\ UNCHANGED <<world, written, tries>>

\* How many entries each search finds; a name is found by the last URI only,
\* so that all of them are asked.
Found(a) ==
    [i \in 1..NSearch |->
       IF kind(a) \notin InLdap \/ (i < NSearch /\ ~world.entry[a].dn) THEN 0
       ELSE IF kind(a) = "ambiguous" THEN 2 ELSE 1]

Lookup ==
    /\ pc = "ldap"
    /\ DirStep(Found(Cursor), kind(Cursor) = "illegal")
    /\ UNCHANGED <<world, list, at, node, memonly, written, bounced, pc, tries>>

\* The error envelope of the address, of which the reader is the sender or
\* the owner of the group it was expanded from.
Refuse(why) ==
    /\ bounced' = bounced \union {Bounce(node[Cursor].errors, why, Cursor)}
    /\ Next1
    /\ UNCHANGED <<list, node, memonly>>

\* Nothing more to look the address up in: postmaster goes to the dead queue.
NotFound ==
    /\ ask.st = "LDAP_NOT_FOUND"
    /\ IF kind(Cursor) = "postmaster" THEN Final ELSE Refuse("not found")

\* The moderator or forwarding loop: neither members nor an envelope.
GroupLoops(g) ==
    /\ world.deep
    /\ g.gmailfwd # "none" \/ (g.moderator # "none" /\ ~(g.memonly /\ g.permits))

\* A group whose members without an address are not reported uses e.
Quiet(e) ==
    \E b \in Addr :
       /\ node[b].isgroup /\ kind(b) = "group" /\ node[b].errors = e
       /\ world.entry[b].quiet /\ ~GroupLoops(world.entry[b])

\* simta_ldap_process_entry, a person: forward, and note that it is the
\* sender; without an address, bounce, unless the group keeps quiet.
Person ==
    /\ ask.st = "entry"
    /\ \/ /\ kind(Cursor) = "person"
          /\ AddMembers([node EXCEPT ![Cursor].flags =
                           IF Cursor \in world.sender
                           THEN @ \union {"EMAIL_SENDER"} ELSE @],
                        Cursor, world.entry[Cursor].to)
          /\ Next1
          /\ UNCHANGED <<memonly, bounced>>
       \/ /\ kind(Cursor) = "noemail"
          /\ IF world.entry[Cursor].dn /\ Quiet(node[Cursor].errors)
             THEN Next1 /\ UNCHANGED <<list, node, memonly, bounced>>
             ELSE Refuse("no email")
       \/ kind(Cursor) = "other" /\ Refuse("neither")

-----------------------------------------------------------------------------
(* simta_ldap_expand_group.  g is the entry; errors go to the group from here
   on.  r of the code is the recipient list of the last envelope it made: a
   forwarding envelope leaves it set, and unless a moderator list replaces
   it, that looks like a match of the sender with a moderator. *)

ForGroup(a) ==
    [node EXCEPT ![a].errors = IF world.null THEN @ ELSE a, ![a].isgroup = TRUE]

Refusable(g) ==
    LET asked == g.moderator # "none" /\ ~(g.memonly /\ g.permits)
        r == IF asked THEN g.moderator = "sender" ELSE g.gmailfwd = "good"
    IN  ~r /\ g.memonly /\ ~g.permits

GroupEnvelopes(a, g) ==
    LET permitted == g.memonly /\ g.permits
        asked == g.moderator # "none" /\ ~permitted
        refusable == Refusable(g)
        moderated == asked /\ g.moderator = "others"
        members == refusable \/ (~moderated /\ ~(asked /\ g.moderator = "bad"))
        n == [ForGroup(a) EXCEPT
               ![a].gmailfwd = g.gmailfwd = "good",
               ![a].moderated = moderated,
               ![a].flags = @ \union (IF refusable THEN {"MEMONLY"} ELSE {})
                   \union (IF refusable /\ g.private THEN {"PRIVATE"} ELSE {})]
    IN  /\ memonly' = IF refusable THEN exp_addr_link(memonly, a) ELSE memonly
        /\ bounced' = IF asked /\ g.moderator = "bad"
                      THEN bounced \union {Bounce(n[a].errors, "bad moderator", a)}
                      ELSE bounced
        /\ AddMembers(n, a, IF members THEN g.to ELSE {})

simta_ldap_expand_group ==
    LET a == Cursor
        g == world.entry[a]
    IN  /\ ask.st = "entry"
        /\ \/ /\ kind(a) = "owner"
              /\ AddMembers(ForGroup(a), a, g.to)
              /\ bounced' = IF g.to # {} THEN bounced
                            ELSE bounced \union {Bounce(node'[a].errors, "no owner", a)}
              /\ Next1
              /\ UNCHANGED memonly
           \/ /\ kind(a) = "group" /\ GroupLoops(g)
              /\ node' = ForGroup(a)
              /\ bounced' = bounced \union {Bounce(node'[a].errors, "loop", a)}
              /\ Next1
              /\ UNCHANGED <<list, memonly>>
           \/ /\ kind(a) = "group" /\ ~GroupLoops(g) /\ g.gmailfwd # "bad"
              /\ GroupEnvelopes(a, g)
              /\ Next1
           \/ \* the envelope without recipients was freed, and is then linked
              /\ kind(a) = "group" /\ ~GroupLoops(g) /\ g.gmailfwd = "bad"
              /\ pc' = "aborted"
              /\ UNCHANGED <<list, at, node, memonly, bounced>>

\* ADDRESS_SYSERROR: the expansion is given up.
SysError ==
    /\ ask.st = "LDAP_SYSERROR"
    /\ pc' = "failed"
    /\ UNCHANGED <<list, at, node, memonly, bounced>>

Looked ==
    /\ pc = "ldap"
    /\ \/ NotFound
       \/ ask.st = "ambiguous" /\ Refuse("ambiguous")
       \/ ask.st = "absent" /\ Refuse("absent")
       \/ Person
       \/ simta_ldap_expand_group
       \/ SysError
    /\ ask' = NoAsk
    /\ UNCHANGED <<world, written, tries, conn, faults>>

-----------------------------------------------------------------------------
(* The walks over the finished graph.  They leave the links alone: w.flags is
   what they have made of the flags, w.seen what the walk in progress has seen
   (a colour of the addresses), w.ret its result.  A walk is a recursive
   function of the turns and calls it may still take; it calls itself once at
   most for an address, so that Enough of them are never used up. *)

Walks == [flags : [Addr -> SUBSET Flags], seen : SUBSET Addr, ret : BOOLEAN]

Enough == (Cardinality(Addr) + 1) * (Cardinality(Addr) + 2)

See(w, a) == [w EXCEPT !.seen = @ \union {a}]
Mark(w, a, f) == [w EXCEPT !.flags[a] = @ \union {f}]
Has(w, a, f) == f \in w.flags[a]
Return(w, b) == [w EXCEPT !.ret = b]

FlagsOf == [a \in Addr |-> node[a].flags]
Walk(flags) == [flags |-> flags, seen |-> {}, ret |-> TRUE]
SetFlags(flags) == [a \in Addr |-> [node[a] EXCEPT !.flags = flags[a]]]

\* sender_is_child: the loop over the list el of links, of which walk is the
\* rest and the calls for the children.
SenderTurn(walk, el, w) ==
    LET e == Head(el)
        v == See(w, e)
        d == walk[<<node[e].children, v>>]
    IN  CASE e \in w.seen -> walk[<<Tail(el), w>>]
          [] e \notin w.seen /\ Has(w, e, "EMAIL_SENDER") -> Return(v, TRUE)
          [] e \notin w.seen /\ ~Has(w, e, "EMAIL_SENDER")
             /\ Has(w, e, "NO_EMAIL_SENDER") -> walk[<<Tail(el), v>>]
          [] OTHER -> IF d.ret THEN Mark(d, e, "EMAIL_SENDER")
                      ELSE walk[<<Tail(el), Mark(d, e, "NO_EMAIL_SENDER")>>]

sender_is_child(a) ==
    LET walk[n \in 0..Enough] ==
            [x \in Seq(Addr) \X Walks |->
               IF n = 0 \/ x[1] = <<>> THEN Return(x[2], FALSE)
               ELSE SenderTurn(walk[n - 1], x[1], x[2])]
    IN  walk[Enough][<<node[a].children, Walk(FlagsOf)>>]

\* What paths lead to from the addresses in S, S included, if to[a] is where one
\* step leads from a.
Reach(S, to) ==
    LET Closed == {T \in SUBSET Addr : S \subseteq T /\ \A a \in T : to[a] \subseteq T}
    IN  {a \in Addr : \A T \in Closed : a \in T}

\* supress_addrs: what the walk from the children of a comes to; it does not go
\* on from addresses that are suppressed already.
supress_addrs(a) ==
    Reach(ToSet(node[a].children),
          [e \in Addr |-> IF "SUPRESSED" \in node[e].flags THEN {}
                          ELSE ToSet(node[e].children)])

\* Mutant: a refused group on the way does not block it.
PathTurnPastMemonly(walk, el, w) ==
    LET e == Head(el)
        v == See(w, e)
        up == walk[<<node[e].parents, v>>]
        d == CASE e \in w.seen -> Return(w, FALSE)
               [] e \notin w.seen /\ Has(w, e, "NO_ROOT_PATH") -> Return(v, FALSE)
               [] e \notin w.seen /\ ~Has(w, e, "NO_ROOT_PATH") /\ Has(w, e, "ROOT_PATH")
                  -> Return(v, TRUE)
               [] OTHER -> Mark(up, e, IF up.ret THEN "ROOT_PATH" ELSE "NO_ROOT_PATH")
    IN  IF e = None THEN Return(w, TRUE)
        ELSE IF d.ret THEN d ELSE walk[<<Tail(el), d>>]

\* unblocked_path_to_root: the loop over the list el of parents of an address.
\* NULL among them is the root.
PathTurn(walk, el, w) ==
    LET e == Head(el)
        v == See(w, e)
        up == walk[<<node[e].parents, v>>]
        d == CASE e \in w.seen -> Return(w, FALSE)
               [] e \notin w.seen /\ (Has(w, e, "MEMONLY") \/ Has(w, e, "NO_ROOT_PATH"))
                  -> Return(v, FALSE)
               [] e \notin w.seen /\ ~Has(w, e, "MEMONLY") /\ ~Has(w, e, "NO_ROOT_PATH")
                  /\ Has(w, e, "ROOT_PATH") -> Return(v, TRUE)
               [] OTHER -> Mark(up, e, IF up.ret THEN "ROOT_PATH" ELSE "NO_ROOT_PATH")
    IN  IF e = None THEN Return(w, TRUE)
        ELSE IF d.ret THEN d ELSE walk[<<Tail(el), d>>]

unblocked_path_to_root(a) ==
    LET walk[n \in 0..Enough] ==
            [x \in Seq(Addr \union {None}) \X Walks |->
               IF n = 0 \/ x[1] = <<>> THEN Return(x[2], FALSE)
               ELSE PathTurn(walk[n - 1], x[1], x[2])]
    IN  walk[Enough][<< <<a>>, Walk(FlagsOf)>>]

\* parent_permitted: the group was reached through its permitted group.  The
\* comparison reads the dn of every parent that comes before the match, and
\* only groups have one.
Permitted(a) == Contains(node[a].parents, world.entry[a].ok)

ReadsNull(a) ==
    /\ world.entry[a].ok # None
    /\ \E i \in DOMAIN node[a].parents :
         /\ node[a].parents[i] # None
         /\ ~node[node[a].parents[i]].isgroup
         /\ \A j \in 1..i : node[a].parents[j] # world.entry[a].ok

ListDone ==
    /\ pc = "expand" /\ at > Len(list)
    /\ at' = 1
    /\ pc' = "members"
    /\ UNCHANGED <<world, list, node, memonly, written, bounced, tries, dirVars>>

\* A members-only group is open if its permitted group led to it or the
\* sender is below it; otherwise what is below it is suppressed.
Open(flags, a) ==
    [SetFlags([flags EXCEPT ![a] = @ \ {"MEMONLY"}]) EXCEPT ![a].moderated = FALSE]

MembersOnly ==
    /\ pc = "members" /\ at <= Len(memonly)
    /\ LET a == memonly[at]
           permitted == world.entry[a].ok # None /\ Permitted(a)
           c == sender_is_child(a)
           below == supress_addrs(a)
       IN  \/ /\ ReadsNull(a)
              /\ pc' = "aborted" /\ UNCHANGED <<node, at>>
           \/ /\ ~ReadsNull(a) /\ permitted
              /\ node' = Open(FlagsOf, a) /\ at' = at + 1 /\ UNCHANGED pc
           \/ /\ ~ReadsNull(a) /\ ~permitted /\ c.ret
              /\ node' = Open(c.flags, a) /\ at' = at + 1 /\ UNCHANGED pc
           \/ \* the assertion: nothing that leads to the sender is below it
              /\ ~ReadsNull(a) /\ ~permitted /\ ~c.ret
              /\ \E b \in below : Has(c, b, "EMAIL_SENDER")
              /\ pc' = "aborted" /\ UNCHANGED <<node, at>>
           \/ /\ ~ReadsNull(a) /\ ~permitted /\ ~c.ret
              /\ ~\E b \in below : Has(c, b, "EMAIL_SENDER")
              /\ node' = SetFlags([b \in Addr |->
                           c.flags[b] \union (IF b \in below THEN {"SUPRESSED"} ELSE {})
                                      \union (IF b = a THEN {"SUPRESSOR"} ELSE {})])
              /\ at' = at + 1 /\ UNCHANGED pc
    /\ UNCHANGED <<world, list, memonly, written, bounced, tries, dirVars>>

MembersDone ==
    /\ pc = "members" /\ at > Len(memonly)
    /\ at' = 1
    /\ pc' = "write"
    /\ UNCHANGED <<world, list, node, memonly, written, bounced, tries, dirVars>>

-----------------------------------------------------------------------------
\* Who is told that a members-only group refused the message: the sender, for
\* a recipient of it, and the owners of the groups the group is in, unless it
\* is private.
Refusals(a) ==
    {Bounce(IF p = None THEN None ELSE node[p].errors, "members only", a) :
       p \in {q \in ToSet(node[a].parents) :
                q = None \/ "PRIVATE" \notin node[a].flags}}

\* One round of the loop that puts the addresses into envelopes.
Write ==
    /\ pc = "write" /\ at <= Len(list)
    /\ LET a == Cursor
           w == IF "SUPRESSED" \in node[a].flags
                THEN unblocked_path_to_root(a) ELSE Walk(FlagsOf)
       IN  /\ node' = SetFlags(w.flags)
           /\ written' = written \union
                (IF ~w.ret THEN {}
                 ELSE IF node[a].gmailfwd THEN {<<"gmailfwd", a>>}
                 ELSE IF node[a].moderated THEN {<<"moderated", a>>}
                 ELSE IF "SUPRESSOR" \in node[a].flags \/ ~node[a].terminal THEN {}
                 ELSE IF kind(a) = "postmaster" THEN {<<"dead", a>>}
                 ELSE IF kind(a) = "bare" THEN {}
                 ELSE {<<"host", a>>})
           /\ bounced' = IF w.ret /\ ~node[a].gmailfwd /\ ~node[a].moderated
                              /\ "SUPRESSOR" \in node[a].flags
                         THEN bounced \union Refusals(a) ELSE bounced
           /\ IF w.ret /\ kind(a) = "bare" /\ node[a].terminal
              THEN pc' = "failed" ELSE UNCHANGED pc
    /\ at' = at + 1
    /\ UNCHANGED <<world, list, memonly, tries, dirVars>>

Done ==
    /\ pc = "write" /\ at > Len(list)
    /\ pc' = "done"
    /\ UNCHANGED <<world, list, at, node, memonly, written, bounced, tries, dirVars>>

\* The process goes on with other mail and comes back to the message, with
\* the directory handle it has.
Again ==
    /\ pc = "failed" /\ tries < MaxTries
    /\ tries' = tries + 1
    /\ pc' = "start"
    /\ list' = <<>> /\ at' = 0
    /\ node' = [a \in Addr |-> NewAddr]
    /\ memonly' = <<>>
    /\ written' = {} /\ bounced' = {}
    /\ UNCHANGED <<world, dirVars>>

Next ==
    \/ Start
    \/ address_expand
    \/ Lookup
    \/ Looked
    \/ ListDone
    \/ MembersOnly
    \/ MembersDone
    \/ Write
    \/ Done
    \/ Again

Spec == Init /\ [][Next]_vars

-----------------------------------------------------------------------------
(* What the message should be delivered to, from the directory alone. *)

\* The addresses an address stands for, none for a group that is moderated
\* and open to nobody else.
Below(a) ==
    LET g == world.entry[a]
        asked == g.moderator # "none" /\ ~(g.memonly /\ g.permits)
    IN  IF kind(a) \in {"alias", "owner", "person"} THEN g.to
        ELSE IF kind(a) = "group" /\ ~GroupLoops(g)
                /\ (Refusable(g) \/ ~asked \/ g.moderator = "sender")
        THEN g.to ELSE {}

Links == [a \in Addr |-> Below(a)]

Cyclic == LET to == Links IN \E a \in Addr : a \in Reach(to[a], to)

IsSender(a) == a \in world.sender /\ (~world.entry[a].dn \/ kind(a) = "person")

\* Members-only groups that do not let the message through.
Refused ==
    LET to == Links
        all == Reach(ToSet(world.rcpts), to)
    IN  {g \in all :
           /\ kind(g) = "group" /\ ~GroupLoops(world.entry[g])
           /\ Refusable(world.entry[g])
           /\ ~(world.entry[g].ok \in all /\ g \in Below(world.entry[g].ok))
           /\ ~\E a \in Reach(world.entry[g].to, to) : IsSender(a)}

\* What the message reaches without going through a group that refused it.
Reached ==
    LET refused == Refused
    IN  Reach(ToSet(world.rcpts),
              [a \in Addr |-> IF a \in refused THEN {} ELSE Below(a)])

\* No leak (expand.c: supress_addrs, unblocked_path_to_root): whatever the
\* groups contain, each other in a cycle too, in whatever order the directory
\* lists members, and whatever the walks have cached in the flags, a message
\* goes only to addresses, moderators and forwarders it reaches without going
\* through a members-only group that refused it.
NoLeak == pc = "done" => {x[2] : x \in written} \subseteq Reached

\* What ends the process instead of the expansion: a cycle of groups, a
\* forwarding attribute without an address, a group with a permitted group
\* that is reached from an address without a dn.
Harmless ==
    /\ ~Cyclic
    /\ \A a \in Addr : world.entry[a].gmailfwd # "bad"
    /\ \A a, b \in Addr :
         world.entry[b].ok # None /\ b \in Below(a) => kind(a) \in {"group", "owner"}

\* An address was bounced as unknown that is not.
Unknown == {"not found", "absent"}
Hidden == \E b \in bounced : b.why \in Unknown /\ kind(b.addr) \in InLdap

\* None missed (expand.c: the walks and the loop that writes the envelopes): if
\* no group contains itself, no assertion fails, and every mailbox that is
\* reached without going through a refused group gets the message, and so do
\* the moderators of every group it reaches, unless the group is members-only
\* and below another refused one.  What the directory hid from the lookups is
\* not reached.
NoneMissed ==
    pc \in {"aborted", "done"} /\ Harmless =>
      /\ pc = "done"
      /\ ~Hidden =>
           LET refused == Refused
               shut == Reach(UNION {Below(g) : g \in refused}, Links)
           IN  \A a \in Reached :
             /\ kind(a) \in {"remote", "account"} => <<"host", a>> \in written
             /\ kind(a) = "postmaster" => <<"dead", a>> \in written
             /\ /\ kind(a) = "group" /\ ~GroupLoops(world.entry[a])
                /\ world.entry[a].moderator = "others"
                /\ world.entry[a].gmailfwd = "none"
                /\ (a \in refused \/ ~world.entry[a].memonly)
                /\ a \notin shut
                => <<"moderated", a>> \in written

\* Unknown is real (simta_ldap_name_search, simta_ldap_dn_expand): an address is
\* bounced as unknown only if a bound handle got a full answer without it from
\* every search; a server that is down, slow or fails defers the message.  The
\* exceptions are a member's dn whose search times out, and a lookup over a
\* handle that an earlier failure left unbound.
UnknownIsReal ==
    [][\A b \in bounced' \ bounced :
         b.why \in Unknown =>
           \/ kind(b.addr) \notin InLdap
           \/ ask.dn /\ ask.late
           \/ ask.blind]_vars
=============================================================================
