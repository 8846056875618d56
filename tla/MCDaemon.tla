------------------------------ MODULE MCDaemon ------------------------------
(* Instances of HostQueue and Daemon: mail for hosts and mail to be expanded. *)
EXTENDS Daemon

MCHostOf == [m \in Msg |-> CASE m = "m1" -> "h1" [] m = "m2" -> "h2" [] OTHER -> Unexpanded]

(* h1 has waits of its own *)
MCQueueWait == [q \in {"h1"} |-> [min |-> 1, max |-> 1]]

MCCommands ==
    {[type |-> "message", mid |-> "m1"], [type |-> "debug"]}
=============================================================================
