----------------------------- MODULE MCDelivery -----------------------------
(* Answers of the resolver for Delivery. *)
EXTENDS Delivery

Entry(pref, own, glue, addrs) ==
    [type |-> "MX", pref |-> pref, own |-> own, glue |-> glue, addrs |-> addrs]

Cname == [type |-> "CNAME", pref |-> 0, own |-> FALSE, glue |-> FALSE, addrs |-> None]

(* two MX hosts, the first with two addresses; ourselves in between; a lookup
   that fails; an MX that leads nowhere; only a CNAME; no host at all *)
MCDns ==
    {[mx |-> <<Entry(10, FALSE, FALSE, <<"a", Loopback, "b">>), Entry(20, FALSE, TRUE, <<"c">>)>>,
      a |-> <<"a", "b">>],
     [mx |-> <<Entry(10, FALSE, TRUE, <<"a">>), Entry(20, TRUE, FALSE, << >>),
               Entry(30, FALSE, TRUE, <<"b">>)>>, a |-> << >>],
     [mx |-> <<Cname, Entry(10, FALSE, FALSE, None), Entry(10, FALSE, FALSE, <<"b">>)>>,
      a |-> None],
     [mx |-> <<Cname>>, a |-> <<"a", Loopback>>],
     [mx |-> << >>, a |-> None], [mx |-> << >>, a |-> << >>], [mx |-> None, a |-> <<"a">>]}
=============================================================================
