---------------------------- MODULE MCHostQueue ----------------------------
(* Instances of HostQueue: two hosts, and mail that is not expanded yet. *)
EXTENDS HostQueue

MCHostOf == [m \in Msg |-> CASE m = "m1" -> "h1" [] m = "m2" -> "h2" [] OTHER -> Unexpanded]

(* no QUEUE_WAIT *)
MCQueueWait == [q \in {} |-> 0]

MCCommands ==
    {[type |-> "queue", host |-> "h1"], [type |-> "debug"],
     [type |-> "sender", mids |-> Msg \ {"m3"}]}
    \union {[type |-> "message", mid |-> m] : m \in Msg \ {"m1"}}
=============================================================================
