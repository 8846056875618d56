---------------------------- MODULE MCAddresses ----------------------------
EXTENDS Addresses

CONSTANTS g1, g2, g3, g4, mbox, sndr    \* groups, a mailbox elsewhere, the sender

Plain ==
    [kind |-> "remote", dn |-> FALSE, to |-> {}, memonly |-> FALSE,
     private |-> FALSE, permits |-> FALSE, ok |-> None, moderator |-> "none",
     gmailfwd |-> "none", quiet |-> FALSE]

Group(to) == [Plain EXCEPT !.kind = "group", !.to = to]
Dn(e) == [e EXCEPT !.dn = TRUE]
Guard(e) == [e EXCEPT !.memonly = TRUE]

Message(rcpts, entries) ==
    [rcpts |-> rcpts, sender |-> {sndr}, null |-> FALSE, deep |-> FALSE,
     faults |-> 0,
     entry |-> [a \in Addr |-> IF a \in DOMAIN entries THEN entries[a] ELSE Plain]]

OneOrTwo(S) == {x \in SUBSET S : Cardinality(x) \in 1..2}

\* Three groups in each other, in every way with one or two members each, and
\* which of them are members-only.
Nested ==
    {Message(rcpts,
       [a \in {g1, g2, g3} |->
          LET g == CASE a = g1 -> Group(x) [] a = g2 -> Group(y) [] a = g3 -> Dn(Group(z))
          IN  IF a \in guarded THEN Guard(g) ELSE g]) :
       rcpts \in {<<g1>>, <<g1, g2>>},
       x \in OneOrTwo({g2, g3, mbox}), y \in OneOrTwo({g1, g3, mbox, sndr}),
       z \in OneOrTwo({g2, mbox, sndr}),
       guarded \in {{g1, g2}, {g1, g3}, {g2, g3}}}

\* Four groups with a cycle among two of them.
Cycles ==
    {Message(<<g1, g2>>,
       [a \in {g1, g2, g3, g4} |->
          LET g == CASE a = g1 -> Group({g3}) [] a = g2 -> Group({g4})
                     [] a = g3 -> Group({g4} \union x) [] a = g4 -> Group({g3, mbox})
          IN  IF a \in guarded THEN Guard(g) ELSE g]) :
       x \in {{}, {sndr}, {mbox}}, guarded \in {{g1, g2}, {g1}, {g2}}}

\* A group in a group or an alias, with every combination of attributes.
Attributes ==
    {[Message(rcpts, (g1 :> [outer EXCEPT !.to = {g2, mbox}]) @@
                     (g2 :> [Group({below}) EXCEPT !.memonly = mo, !.private = mo,
                        !.permits = pe, !.ok = ok, !.moderator = md,
                        !.gmailfwd = fw]))
        EXCEPT !.deep = deep, !.null = nul,
               !.sender = IF nul THEN {} ELSE {sndr}] :
       rcpts \in {<<g1>>, <<g2>>, <<g1, g2>>},
       outer \in {Guard(Group({})), Group({}), [Plain EXCEPT !.kind = "alias"]},
       below \in {sndr, g3}, mo \in BOOLEAN, pe \in BOOLEAN, ok \in {None, g1},
       md \in {"none", "others", "sender", "bad"},
       fw \in {"none", "good", "bad"}, deep \in BOOLEAN, nul \in {FALSE}}

\* A recipient of each kind, in or beside a group, with a server that fails.
Asked ==
    {[Message(<<g1, g2>>,
       (g1 :> [Group({g3, g4}) EXCEPT !.quiet = quiet]) @@
       (g2 :> [Plain EXCEPT !.kind = k2, !.to = to]) @@
       (g3 :> [Dn(Plain) EXCEPT !.kind = k3]) @@
       (g4 :> [Plain EXCEPT !.kind = k4]))
      EXCEPT !.faults = MaxFaults, !.null = nul,
             !.sender = IF nul THEN {} ELSE {sndr, g3}] :
       quiet \in BOOLEAN, nul \in BOOLEAN, to \in {{}, {mbox}},
       k2 \in {"owner", "postmaster", "unknown", "illegal", "ambiguous", "bare"},
       k3 \in {"person", "noemail", "other", "unknown"}, k4 \in {"account"}}

MCWorlds == Nested \union Cycles \union Attributes \union Asked
=============================================================================
