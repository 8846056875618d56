---------------------------- MODULE QueueRunner ----------------------------
(***************************************************************************)
(* Queue runners with one unexpanded message (queue.c q_runner, the        *)
(* "EXPAND ONE MESSAGE" loop).                                             *)
(*                                                                         *)
(* An unexpanded message waits in local (simsendmail put it there), in     *)
(* slow, or in fast in the hands of the receiver that accepted it.  Its    *)
(* envelope is never locked: a runner takes it by moving it to fast, and   *)
(* what keeps two runners apart is that link(2) refuses an existing name.  *)
(* A message that cannot be expanded is moved to slow, or bounced once it  *)
(* is old.                                                                 *)
(*                                                                         *)
(* expand() is one step here: it succeeds and the envelopes it wrote speak *)
(* for the message from then on, or it fails and has unwound them.         *)
(***************************************************************************)
EXTENDS Spool

CONSTANTS
    LocalRunner,    \* processes launched on the local queue (PROCESS_Q_LOCAL)
    SlowRunner,     \* processes launched on the slow queue (PROCESS_Q_SLOW)
    Receiver,       \* receivers running the mail they accepted
    Launched,       \* which of them may be there together
    DiskErrors      \* may bounces fail to be written?

ASSUME RolesAssumption ==
    /\ LocalRunner \subseteq Proc /\ SlowRunner \subseteq Proc
    /\ Receiver \subseteq Proc
    /\ LocalRunner \cap SlowRunner = {}
    /\ Receiver \cap (LocalRunner \union SlowRunner) = {}
    /\ \A on \in Launched : on \subseteq Proc /\ on \cap SlowRunner # {}
    /\ DiskErrors \in BOOLEAN

VARIABLES
    expansions, \* how often expand() succeeded on the message (2 for more)
    bounces,    \* how often the message was bounced for its age (2 for more)
    old,        \* is the D file older than simta_bounce_seconds?
    up          \* does the daemon launch runners? It stops after an exit
                \* with an error, which is what q_runner makes of fast files

runnerVars == <<expansions, bounces, old, up>>
vars == <<spoolVars, runnerVars>>

Label == MoveLabel \union
    {"off", "idle", "stat", "take", "readE", "expand", "unlinkE", "unlinkD",
     "bounce", "unlinkOldE", "unlinkOldD", "cleanup", "free"}

TypeOK ==
    /\ SpoolTypeOK(Label)
    /\ expansions \in 0..2 /\ bounces \in 0..2
    /\ old \in BOOLEAN /\ up \in BOOLEAN

\* The new message: in a queue directory somebody reads, or with the receiver q.
Init ==
    \E i \in Inode, d \in Dir, on \in Launched : \E q \in on :
        /\ d = "fast" => q \in Receiver
        /\ d = "local" => LocalRunner \cap on # {}
        /\ Efile = [e \in Dir |-> IF e = d THEN i ELSE None]
        /\ Dfile = [e \in Dir |-> e = d]
        /\ Tfile = [e \in Dir |-> None]
        /\ text = [j \in Inode |-> IF j = i THEN Rcpt ELSE {}]
        /\ lock = [j \in Inode |-> None]
        /\ pc = [p \in Proc |->
                    IF p \notin on THEN "off"
                    ELSE IF d = "fast" /\ p = q THEN "expand" ELSE "idle"]
        /\ dir = [p \in Proc |-> d]
        /\ rcpt = [p \in Proc |-> IF d = "fast" /\ p = q THEN Rcpt ELSE {}]
        /\ fd = [p \in Proc |-> None]
        /\ fastFiles = [p \in Proc |-> IF d = "fast" /\ p = q THEN 1 ELSE 0]
        /\ move = [p \in Proc |->
                    [to |-> "slow", done |-> "free", failed |-> "free"]]
        /\ expansions = 0 /\ bounces = 0
        /\ old = FALSE /\ up = TRUE

---------------------------------------------------------------------------

\* q_read_dir: the runner reads its own directory.
ReadQueueInfo(p) ==
    /\ pc[p] = "idle" /\ up
    /\ \E d \in {"local", "slow"} :
        /\ d = "local" => p \in LocalRunner
        /\ d = "slow" => p \in SlowRunner
        /\ Readable(d)
        /\ dir' = [dir EXCEPT ![p] = d]
    /\ rcpt' = [rcpt EXCEPT ![p] = {}]
    /\ fastFiles' = [fastFiles EXCEPT ![p] = 0]
    /\ Goto(p, "stat")
    /\ UNCHANGED <<disk, fd, move, runnerVars>>

\* queue_time_order drops an envelope that is no longer there.
TimeOrder(p) ==
    /\ pc[p] = "stat"
    /\ \/ Efile[dir[p]] # None /\ Goto(p, "take")
       \/ Efile[dir[p]] = None /\ Goto(p, "idle")
    /\ UNCHANGED <<disk, dir, rcpt, fd, fastFiles, move, runnerVars>>

\* Mutant: the result of env_move is ignored.
TakeAnyway(p) ==
    /\ pc[p] = "take"
    /\ EnvMove(p, "fast", "readE", "readE")
    /\ UNCHANGED <<disk, dir, rcpt, fd, fastFiles, runnerVars>>

\* Pop the message off the unexpanded queue and move it to fast.
Take(p) ==
    /\ pc[p] = "take"
    /\ EnvMove(p, "fast", "readE", "cleanup")
    /\ UNCHANGED <<disk, dir, rcpt, fd, fastFiles, runnerVars>>

\* env_read with READ_DELIVER_INFO and without a lock.
ReadEfile(p) ==
    /\ pc[p] = "readE"
    /\ IF Readable(dir[p])
       THEN /\ rcpt' = [rcpt EXCEPT ![p] = text[Efile[dir[p]]]]
            /\ Goto(p, "expand")
       ELSE Goto(p, "cleanup") /\ UNCHANGED rcpt
    /\ UNCHANGED <<disk, dir, fd, fastFiles, move, runnerVars>>

\* expand() == 0: the expanded envelopes are written, their D files links to the
\* one of the original; the original goes next.
Expand(p) ==
    /\ pc[p] = "expand"
    /\ Dfile[dir[p]]
    /\ expansions' = IF expansions < 2 THEN expansions + 1 ELSE 2
    /\ Goto(p, "unlinkE")
    /\ UNCHANGED <<disk, dir, rcpt, fd, fastFiles, move, bounces, old, up>>

\* Mutant: no runner looks at the age of the message.
NeverOld(p) ==
    /\ pc[p] = "expand"
    /\ Goto(p, "cleanup")
    /\ UNCHANGED <<disk, dir, rcpt, fd, fastFiles, move, runnerVars>>

\* expand() != 0: only a slow runner looks at the age of the message.
ExpandFails(p) ==
    /\ pc[p] = "expand"
    /\ Goto(p, IF p \in SlowRunner /\ Dfile[dir[p]] /\ old
               THEN "bounce" ELSE "cleanup")
    /\ UNCHANGED <<disk, dir, rcpt, fd, fastFiles, move, runnerVars>>

\* env_unlink of the expanded original; its result is only logged.
UnlinkEfile(p) ==
    /\ pc[p] = "unlinkE"
    /\ IF Efile[dir[p]] # None
       THEN /\ Efile' = [Efile EXCEPT ![dir[p]] = None]
            /\ Count(p, dir[p], -1)
            /\ Goto(p, "unlinkD")
       ELSE Goto(p, "free") /\ UNCHANGED <<Efile, fastFiles>>
    /\ UNCHANGED <<Dfile, Tfile, text, lock, dir, rcpt, fd, move, runnerVars>>

UnlinkDfile(p) ==
    /\ pc[p] = "unlinkD"
    /\ Dfile' = [Dfile EXCEPT ![dir[p]] = FALSE]
    /\ Goto(p, "free")
    /\ UNCHANGED <<Efile, Tfile, text, lock, dir, rcpt, fd, fastFiles, move,
                   runnerVars>>

\* bounce_snet of the whole message.
BounceWritten(p) ==
    /\ pc[p] = "bounce"
    /\ Goto(p, "unlinkOldE")
    /\ UNCHANGED <<disk, dir, rcpt, fd, fastFiles, move, runnerVars>>

BounceFails(p) ==
    /\ pc[p] = "bounce" /\ DiskErrors
    /\ Goto(p, "cleanup")
    /\ UNCHANGED <<disk, dir, rcpt, fd, fastFiles, move, runnerVars>>

\* env_unlink of the bounced original makes the bounce final; without it the
\* bounce is unwound.
UnlinkOldEfile(p) ==
    /\ pc[p] = "unlinkOldE"
    /\ IF Efile[dir[p]] # None
       THEN /\ Efile' = [Efile EXCEPT ![dir[p]] = None]
            /\ Count(p, dir[p], -1)
            /\ bounces' = IF bounces < 2 THEN bounces + 1 ELSE 2
            /\ Goto(p, "unlinkOldD")
       ELSE Goto(p, "cleanup") /\ UNCHANGED <<Efile, fastFiles, bounces>>
    /\ UNCHANGED <<Dfile, Tfile, text, lock, dir, rcpt, fd, move,
                   expansions, old, up>>

\* A bounced message still runs into the clean-up of the loop.
UnlinkOldDfile(p) ==
    /\ pc[p] = "unlinkOldD"
    /\ Dfile' = [Dfile EXCEPT ![dir[p]] = FALSE]
    /\ Goto(p, "cleanup")
    /\ UNCHANGED <<Efile, Tfile, text, lock, dir, rcpt, fd, fastFiles, move,
                   runnerVars>>

\* Mutant: the message stays where it is.
ForgetMessage(p) ==
    /\ pc[p] = "cleanup"
    /\ Goto(p, "free")
    /\ UNCHANGED <<disk, dir, rcpt, fd, fastFiles, move, runnerVars>>

\* unexpanded_clean_up: back to slow, whether or not the move to fast worked.
CleanUp(p) ==
    /\ pc[p] = "cleanup"
    /\ EnvMove(p, "slow", "free", "free")
    /\ UNCHANGED <<disk, dir, rcpt, fd, fastFiles, runnerVars>>

\* The end of the run: fast files left over are an error, and the daemon shuts
\* down on it.
Exit(p) ==
    /\ pc[p] = "free"
    /\ rcpt' = [rcpt EXCEPT ![p] = {}]
    /\ up' = (up /\ fastFiles[p] = 0)
    /\ Goto(p, "idle")
    /\ UNCHANGED <<disk, dir, fd, fastFiles, move, expansions, bounces, old>>

GetOld ==
    /\ ~old /\ old' = TRUE
    /\ UNCHANGED <<spoolVars, expansions, bounces, up>>

RunnerMove(p) == MoveStep(p) /\ UNCHANGED runnerVars

RunnerStep(p) ==
    \/ ReadQueueInfo(p) \/ TimeOrder(p) \/ Take(p) \/ ReadEfile(p)
    \/ Expand(p) \/ ExpandFails(p) \/ UnlinkEfile(p) \/ UnlinkDfile(p)
    \/ BounceWritten(p) \/ BounceFails(p)
    \/ UnlinkOldEfile(p) \/ UnlinkOldDfile(p)
    \/ CleanUp(p) \/ Exit(p) \/ RunnerMove(p)

Quiet == \A p \in Proc : pc[p] \in {"off", "idle"}

\* The message is gone, or the daemon has shut down.
Terminating ==
    /\ Quiet
    /\ ~up \/ (~Readable("local") /\ ~Readable("slow"))
    /\ UNCHANGED vars

Next == GetOld \/ Terminating \/ \E p \in Proc : RunnerStep(p)

\* The disk does not refuse bounces for ever.
Fairness ==
    /\ WF_vars(GetOld)
    /\ \A p \in Proc : WF_vars(RunnerStep(p)) /\ SF_vars(BounceWritten(p))

Spec == Init /\ [][Next]_vars
FairSpec == Spec /\ Fairness

---------------------------------------------------------------------------
(* Properties.                                                             *)

\* The message is never off the disk before it was expanded or bounced: env_move
\* links the new names first, and what a loser of the race unwinds or cleans up
\* is not the winner's.
NoLoss ==
    expansions + bounces = 0 => \E d \in Dir : Dfile[d] /\ Readable(d)

\* An envelope in the queues has its D file, however the moves overlap.
NoLoneEfile == \A d \in Dir : Efile[d] # None => Dfile[d]

OneLocal == \A p, q \in LocalRunner : "off" \in {pc[p], pc[q]} \/ p = q

\* With one local runner at a time the moves are enough to expand, or bounce, a
\* message only once.  (With two they are not: a runner that finds the message
\* in fast puts the one it saw in local into slow.)
HandledOnce == OneLocal => expansions + bounces < 2

\* With one local runner at a time no run ends with a file in fast, so none of
\* them stops the daemon, and no message waits in a directory nobody reads.
NothingStranded ==
    OneLocal => up /\ (Quiet => Efile["fast"] = None)

\* The message is expanded or bounced in the end, or the daemon shuts down.
Settles == <>[](~up \/ expansions + bounces > 0)
=============================================================================
