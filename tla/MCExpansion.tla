---------------------------- MODULE MCExpansion ----------------------------
EXTENDS Expansion

CONSTANTS r, a, b, c, d    \* message ids

\* The tree with these edges, <<parent, kind, id>>.
Build(edges, punt, faultBound) ==
    [parent |-> [m \in Id |->
        IF \E x \in edges : x[3] = m
        THEN (CHOOSE x \in edges : x[3] = m)[1] ELSE None],
     kind |-> [m \in Id |->
        IF m = r THEN "root"
        ELSE IF \E x \in edges : x[3] = m
        THEN (CHOOSE x \in edges : x[3] = m)[2] ELSE None],
     punt |-> punt, faults |-> faultBound]

\* A host, and bounces that are messages to two hosts or to one.
Bounced ==
    {Build({<<r, "host", d>>, <<r, "error", a>>, <<a, "host", b>>,
            <<a, "host", c>>}, TRUE, 1),
     Build({<<r, "host", a>>, <<r, "error", b>>, <<r, "error", c>>,
            <<c, "host", d>>}, FALSE, 1)}

\* Two hosts and a bounce, one group with a host beside it, a chain of groups.
Trees ==
    Bounced \union
    {Build({<<r, "host", a>>, <<r, "host", b>>, <<r, "error", c>>,
            <<c, "host", d>>}, punt, 1) : punt \in BOOLEAN}
    \union
    {Build({<<r, kind, a>>, <<r, "host", b>>, <<a, "host", c>>,
            <<a, "host", d>>}, FALSE, 0) : kind \in {"moderated", "forward"}}
    \union
    {Build({<<r, "moderated", a>>, <<a, "moderated", b>>, <<b, "host", c>>},
           TRUE, 0)}

\* Two groups of one message, each forwarded to a host of its own.
TwoGroups ==
    {Build({<<r, "forward", a>>, <<r, "moderated", b>>, <<a, "host", c>>,
            <<b, "host", d>>}, FALSE, 0)}
=============================================================================
