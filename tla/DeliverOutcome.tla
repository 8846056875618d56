--------------------------- MODULE DeliverOutcome ---------------------------
(***************************************************************************)
(* What an attempt reports to _q_deliver: the promise of the delivery      *)
(* agents (module Delivery) on which the queue runner relies (module       *)
(* QueueDeliver).                                                          *)
(***************************************************************************)

(* An outcome of deliver_local, deliver_remote, or of the host's status:   *)
(*   delivered   d_delivered                                               *)
(*   bounce      ENV_FLAG_BOUNCE                                           *)
(*   accepted    rcpts with status R_ACCEPTED, counted in d_n_rcpt_accepted*)
(*   counted     rcpts counted in d_n_rcpt_failed                          *)
(*   failed      rcpts whose status is R_FAILED when the attempt returns   *)
(*   marked      rcpts of a delivered message with status R_ACCEPTED then; *)
(*               of no interest when all are accepted, nothing is rewritten*)
(* accepted is the counter: {} stands for any value when d_delivered is 0. *)
Outcome(R) ==
    {o \in [delivered : BOOLEAN, bounce : BOOLEAN, accepted : SUBSET R,
            counted : SUBSET R, failed : SUBSET R, marked : SUBSET R] :
        /\ o.accepted \cap o.counted = {}
        /\ o.delivered => ~o.bounce
        /\ ~o.delivered => o.accepted = {}}

\* A queue of its own host: the statuses say what the counters say.
HostOutcome(R) ==
    {o \in Outcome(R) : o.failed = o.counted /\ o.marked = o.accepted}

\* The punt host takes every recipient or the attempt stops at the one it
\* refuses, and deliver_remote clears flags and statuses but not the counters.
\* d_delivered outlives a connection that broke inside the acceptance (~heard):
\* the counters are then those of a later attempt, which may have stopped.
PuntOutcome(R, heard) ==
    {o \in Outcome(R) :
        /\ ~o.bounce /\ o.failed = {} /\ o.marked = {}
        /\ heard /\ o.delivered => o.accepted = R
        /\ \A r, s \in o.counted : r = s}
=============================================================================
