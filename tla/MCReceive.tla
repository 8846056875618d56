---------------------------- MODULE MCReceive ----------------------------
(* Instances of Receive: configurations that between them use every mode, with
   and without authentication, TLS, a content filter and a jail host. *)
EXTENDS Receive

MCConf(default, punish, sasl, tlson, filter, jail) ==
    [default |-> default, punish |-> punish, sasl |-> sasl, tls |-> tlson,
     size |-> filter, filter |-> filter, jail |-> jail, accepted |-> jail]

MCConfs ==
    {MCConf("NORMAL", "TARPIT", TRUE, TRUE, TRUE, TRUE),
     MCConf("NORMAL", "TEMPFAIL", FALSE, TRUE, TRUE, FALSE),
     MCConf("NORMAL", "OFF", FALSE, FALSE, FALSE, FALSE),
     MCConf("GLOBAL_RELAY", "TEMPFAIL", FALSE, FALSE, FALSE, TRUE),
     MCConf("TARPIT", "TEMPFAIL", FALSE, FALSE, TRUE, FALSE),
     MCConf("TEMPFAIL", "TEMPFAIL", FALSE, TRUE, FALSE, FALSE),
     MCConf("REFUSE", "TEMPFAIL", FALSE, FALSE, FALSE, FALSE)}

MCFilterResults ==
    {{}, {"REJECT"}, {"DELETE"}, {"BOUNCE"}, {"JAIL"}, {"JAIL", "REJECT"},
     {"TEMPFAIL", "DISCONNECT"}, {"TARPIT"}}
=============================================================================
