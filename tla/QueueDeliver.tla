---------------------------- MODULE QueueDeliver ----------------------------
(***************************************************************************)
(* Queue runners delivering one expanded message (queue.c _q_deliver over  *)
(* envelope.c).                                                            *)
(*                                                                         *)
(* Any number of runners may hold the message in their in-memory queues:   *)
(* the daemon forks another runner for a host queue while the previous one *)
(* still works, and `simta -q' runs beside the daemon.  A runner           *)
(*   - locks the envelope with lockf before it reads the recipients, but   *)
(*     only when it has not read them before: a message it created itself, *)
(*     or one it keeps for the punt host, is delivered without a lock;     *)
(*   - truncates a finished envelope before it unlinks it, so that a       *)
(*     runner waiting at the old inode reads no recipients;                *)
(*   - replaces the envelope by a rename when some recipients remain.      *)
(*                                                                         *)
(* The delivery itself (deliver_local, deliver_remote) is one step with    *)
(* every outcome it can report; module Delivery opens it.  What is fixed   *)
(* here is what _q_deliver makes of the outcome.                           *)
(***************************************************************************)
EXTENDS Spool, DeliverOutcome

CONSTANTS
    Punt,        \* is there a punt queue, and may the host's mail go there?
    DiskErrors,  \* may bounces and t files fail to be written?
    LostAnswers, \* may a host's word that it took the message not get through?
    MaxCrashes   \* bound: how many runners may be killed

ASSUME FlagsAssumption ==
    /\ Punt \in BOOLEAN /\ DiskErrors \in BOOLEAN /\ LostAnswers \in BOOLEAN
    /\ MaxCrashes \in Nat

VARIABLES
    hostq,      \* hostq[p]: the queue p delivers from, "host" or "punt"
    plan,       \* plan[p]: what p will do with the outcome of its attempt
    held,       \* held[p]: recipients listed in the bounce p may yet unwind
    reported,   \* recipients listed in a bounce that stays
    copies,     \* copies[r]: attempts that handed r's copy over (2 for more)
    unheard,    \* recipients some host took whose answer was lost or cut short
    old,        \* is the D file older than simta_bounce_seconds?
    young,      \* runners whose e_age says ENV_AGE_NOT_OLD by now
    crashes     \* runners killed so far

deliverVars ==
    <<hostq, plan, held, reported, copies, unheard, old, young, crashes>>
vars == <<spoolVars, deliverVars>>

Plan == [kind : {"none", "delete", "rewrite", "requeue"},
         report : SUBSET Rcpt, remove : SUBSET Rcpt]
NoPlan == [kind |-> "none", report |-> {}, remove |-> {}]

Delivered == {r \in Rcpt : copies[r] > 0}
\* Recipients that still depend on the files in the spool.
Undone == Rcpt \ (Delivered \union reported)

Label == MoveLabel \union
    {"idle", "stat", "openE", "lockE", "readE", "openD", "attempt", "bounce",
     "truncate", "unlinkE", "unlinkD", "createT", "writeT", "renameT",
     "requeue", "keep", "free", "punted"}

TypeOK ==
    /\ SpoolTypeOK(Label)
    /\ hostq \in [Proc -> {"host", "punt"}]
    /\ plan \in [Proc -> Plan]
    /\ held \in [Proc -> SUBSET Rcpt]
    /\ reported \in SUBSET Rcpt
    /\ copies \in [Rcpt -> 0..2]
    /\ unheard \in SUBSET Rcpt
    /\ old \in BOOLEAN
    /\ young \in SUBSET Proc
    /\ crashes \in 0..MaxCrashes

\* The message waits in slow, or was just written to fast and queued in memory
\* by its creator, which knows the recipients and holds no lock.
InitAt(i, d, creator) ==
    /\ Efile = [e \in Dir |-> IF e = d THEN i ELSE None]
    /\ Dfile = [e \in Dir |-> e = d]
    /\ Tfile = [e \in Dir |-> None]
    /\ text = [j \in Inode |-> IF j = i THEN Rcpt ELSE {}]
    /\ lock = [j \in Inode |-> None]
    /\ pc = [p \in Proc |->
                IF d = "fast" /\ p = creator THEN "openD" ELSE "idle"]
    /\ dir = [p \in Proc |-> d]
    /\ rcpt = [p \in Proc |->
                IF d = "fast" /\ p = creator THEN Rcpt ELSE {}]
    /\ fd = [p \in Proc |-> None]
    /\ fastFiles = [p \in Proc |->
                IF d = "fast" /\ p = creator THEN 1 ELSE 0]
    /\ move = [p \in Proc |->
                [to |-> "slow", done |-> "free", failed |-> "free"]]
    /\ hostq = [p \in Proc |-> "host"]
    /\ plan = [p \in Proc |-> NoPlan]
    /\ held = [p \in Proc |-> {}]
    /\ reported = {}
    /\ copies = [r \in Rcpt |-> 0]
    /\ unheard = {}
    /\ old = FALSE
    /\ young = {}
    /\ crashes = 0

Init == \E i \in Inode, d \in {"slow", "fast"}, creator \in Proc :
            InitAt(i, d, creator)

---------------------------------------------------------------------------
(* From the directory to the recipients.                                   *)

\* q_read_dir with READ_QUEUE_INFO: the recipients are not read, and a message
\* somebody has locked is passed over.
ReadQueueInfo(p) ==
    /\ pc[p] = "idle"
    /\ Readable("slow")
    /\ lock[Efile["slow"]] \in {None, p}
    /\ dir' = [dir EXCEPT ![p] = "slow"]
    /\ rcpt' = [rcpt EXCEPT ![p] = {}]
    /\ fastFiles' = [fastFiles EXCEPT ![p] = 0]
    /\ hostq' = [hostq EXCEPT ![p] = "host"]
    /\ Goto(p, "stat")
    /\ UNCHANGED <<disk, fd, move, plan, held, reported, copies, unheard, old,
                   young, crashes>>

\* queue_time_order, in the process that will run the queue: drop what is gone.
TimeOrder(p) ==
    /\ pc[p] = "stat"
    /\ \/ Efile[dir[p]] # None /\ Goto(p, "openE")
       \/ Efile[dir[p]] = None /\ Goto(p, "idle")
    /\ UNCHANGED <<disk, dir, rcpt, fd, fastFiles, move, deliverVars>>

\* env_read with READ_DELIVER_INFO: open, lock, read.
OpenEfile(p) ==
    /\ pc[p] = "openE"
    /\ \/ /\ Efile[dir[p]] # None
          /\ fd' = [fd EXCEPT ![p] = Efile[dir[p]]]
          /\ Goto(p, "lockE")
       \/ /\ Efile[dir[p]] = None
          /\ Goto(p, "idle")
          /\ UNCHANGED fd
    /\ UNCHANGED <<disk, dir, rcpt, fastFiles, move, deliverVars>>

\* Mutant: the lock is tested (F_TEST) and not taken.
TestLock(p) ==
    /\ pc[p] = "lockE"
    /\ lock[fd[p]] = None
    /\ Goto(p, "readE")
    /\ UNCHANGED <<disk, dir, rcpt, fd, fastFiles, move, deliverVars>>

LockEfile(p) ==
    /\ pc[p] = "lockE"
    /\ \/ /\ lock[fd[p]] = None
          /\ lock' = [lock EXCEPT ![fd[p]] = p]
          /\ Goto(p, "readE")
          /\ UNCHANGED fd
       \/ /\ lock[fd[p]] # None
          /\ fd' = [fd EXCEPT ![p] = None]
          /\ Goto(p, "idle")
          /\ UNCHANGED lock
    /\ UNCHANGED <<Efile, Dfile, Tfile, text, dir, rcpt, fastFiles, move,
                   deliverVars>>

ReadEfile(p) ==
    /\ pc[p] = "readE"
    /\ \/ /\ text[fd[p]] # {}
          /\ rcpt' = [rcpt EXCEPT ![p] = text[fd[p]]]
          /\ Goto(p, "openD")
          /\ UNCHANGED <<lock, fd>>
       \/ /\ text[fd[p]] = {}
          /\ CloseLock(p)
          /\ Goto(p, "idle")
          /\ UNCHANGED rcpt
    /\ UNCHANGED <<Efile, Dfile, Tfile, text, dir, fastFiles, move, deliverVars>>

OpenDfile(p) ==
    /\ pc[p] = "openD"
    /\ \/ Dfile[dir[p]] /\ Goto(p, "attempt")
       \/ ~Dfile[dir[p]] /\ Goto(p, "requeue")
    /\ plan' = [plan EXCEPT ![p] = NoPlan]
    /\ UNCHANGED <<disk, dir, rcpt, fd, fastFiles, move,
                   hostq, held, reported, copies, unheard, old, young, crashes>>

---------------------------------------------------------------------------
(* The attempt, and what _q_deliver decides from it.                       *)

\* The recipients n_rcpt_remove counts.
Counted(R, o) ==
    IF o.delivered THEN o.accepted \union o.counted
    ELSE IF o.bounce THEN R ELSE o.counted

\* env_is_old: once the envelope was found young, it stays young in memory.
Aged(p) == old /\ p \notin young

\* Mutant: age never ends the retries.
NeverTooOld(R, o, aged) == o.bounce

\* The whole message bounces: the attempt said so, or it is too old to keep.
BounceAll(R, o, aged) == o.bounce \/ (Counted(R, o) # R /\ aged)

\* Mutant: the bounce of an old message names only the recipients that failed.
ReportFailedOnly(R, o, aged) ==
    [kind |-> IF BounceAll(R, o, aged) \/ Counted(R, o) = R THEN "delete"
              ELSE IF Counted(R, o) # {} THEN "rewrite" ELSE "requeue",
     report |-> o.failed,
     remove |-> o.marked \union o.failed]

\* Mutant: a partly delivered message keeps its envelope.
NeverRewrite(R, o, aged) ==
    [kind |-> IF BounceAll(R, o, aged) \/ Counted(R, o) = R THEN "delete"
              ELSE "requeue",
     report |-> IF BounceAll(R, o, aged) THEN R ELSE o.failed,
     remove |-> {}]

Decide(R, o, aged) ==
    [kind |-> IF BounceAll(R, o, aged) \/ Counted(R, o) = R THEN "delete"
              ELSE IF Counted(R, o) # {} THEN "rewrite" ELSE "requeue",
     report |-> IF BounceAll(R, o, aged) THEN R ELSE o.failed,
     remove |-> o.marked \union o.failed]

\* Mutant: an unlocked message loses its D file first.
UnlinkDFirst(p, kind) ==
    CASE kind = "delete" -> IF fd[p] # None THEN "truncate" ELSE "unlinkD"
      [] kind = "rewrite" -> "createT"
      [] OTHER -> "requeue"

\* Where a plan starts once its bounce, if any, is written.
FirstStep(p, kind) ==
    CASE kind = "delete" -> IF fd[p] # None THEN "truncate" ELSE "unlinkE"
      [] kind = "rewrite" -> "createT"
      [] OTHER -> "requeue"

\* A host took the message for the recipients in took, and said so or not.
HandOver(took, heard) ==
    /\ copies' = [r \in Rcpt |->
         IF r \in took /\ copies[r] < 2 THEN copies[r] + 1 ELSE copies[r]]
    /\ unheard' = IF heard THEN unheard ELSE unheard \union took

\* Where the answer came, the message was taken as the outcome says.
Attempt(p) ==
    /\ pc[p] = "attempt"
    /\ \E heard \in BOOLEAN, took \in SUBSET rcpt[p] :
       \E o \in IF hostq[p] = "punt" THEN PuntOutcome(rcpt[p], heard)
                ELSE HostOutcome(rcpt[p]) :
        /\ IF heard THEN took = o.accepted
           ELSE /\ LostAnswers /\ o.accepted \subseteq took
                /\ hostq[p] = "punt" => took = rcpt[p]
        /\ HandOver(took, heard)
        /\ plan' = [plan EXCEPT ![p] = Decide(rcpt[p], o, Aged(p))]
        /\ Goto(p, IF BounceAll(rcpt[p], o, Aged(p)) \/ o.counted # {}
                   THEN "bounce"
                   ELSE FirstStep(p, Decide(rcpt[p], o, Aged(p)).kind))
    /\ UNCHANGED <<disk, dir, rcpt, fd, fastFiles, move,
                   hostq, held, reported, old, young, crashes>>

\* The transaction with the punt host broke down: the message goes back to the
\* punt queue and the queue is left, whatever d_delivered says: the reply may
\* have broken off behind the line that accepted the message.
PuntDown(p) ==
    /\ pc[p] = "attempt" /\ hostq[p] = "punt"
    /\ \/ UNCHANGED <<copies, unheard>>
       \/ LostAnswers /\ HandOver(rcpt[p], FALSE)
    /\ Goto(p, "punted")
    /\ UNCHANGED <<disk, dir, rcpt, fd, fastFiles, move,
                   hostq, plan, held, reported, old, young, crashes>>

\* Mutant: a bounce that could not be written does not stop the deletion.
GoOnWithoutBounce(p) ==
    /\ pc[p] = "bounce"
    /\ \/ held' = [held EXCEPT ![p] = plan[p].report]
       \/ DiskErrors /\ UNCHANGED held
    /\ Goto(p, FirstStep(p, plan[p].kind))
    /\ UNCHANGED <<disk, dir, rcpt, fd, fastFiles, move,
                   hostq, plan, reported, copies, unheard, old, young, crashes>>

\* bounce_snet: a message of its own, which message_cleanup may unwind.
WriteBounce(p) ==
    /\ pc[p] = "bounce"
    /\ \/ /\ held' = [held EXCEPT ![p] = plan[p].report]
          /\ Goto(p, FirstStep(p, plan[p].kind))
       \/ /\ DiskErrors
          /\ Goto(p, "requeue")
          /\ UNCHANGED held
    /\ UNCHANGED <<disk, dir, rcpt, fd, fastFiles, move,
                   hostq, plan, reported, copies, unheard, old, young, crashes>>

\* The bounce is queued: nothing unwinds it any more.
CommitBounce(p) ==
    /\ reported' = reported \union held[p]
    /\ held' = [held EXCEPT ![p] = {}]

---------------------------------------------------------------------------
(* env_truncate_and_unlink.                                                *)

\* Under the lock; from here the message counts as deleted whatever unlink says.
Truncate(p) ==
    /\ pc[p] = "truncate"
    /\ text' = [text EXCEPT ![fd[p]] = {}]
    /\ CommitBounce(p)
    /\ Goto(p, "unlinkE")
    /\ UNCHANGED <<Efile, Dfile, Tfile, lock, dir, rcpt, fd, fastFiles, move,
                   hostq, plan, copies, unheard, old, young, crashes>>

\* env_unlink: without the lock its failure keeps the message and its bounce
\* is unwound; with it the failure is ignored.
UnlinkEfile(p) ==
    /\ pc[p] = "unlinkE"
    /\ \/ /\ Efile[dir[p]] # None
          /\ Efile' = [Efile EXCEPT ![dir[p]] = None]
          /\ Count(p, dir[p], -1)
          /\ CommitBounce(p)
          /\ Goto(p, "unlinkD")
       \/ /\ Efile[dir[p]] = None
          /\ Goto(p, IF fd[p] # None THEN "free" ELSE "requeue")
          /\ UNCHANGED <<Efile, fastFiles, held, reported>>
    /\ UNCHANGED <<Dfile, Tfile, text, lock, dir, rcpt, fd, move,
                   hostq, plan, copies, unheard, old, young, crashes>>

UnlinkDfile(p) ==
    /\ pc[p] = "unlinkD"
    /\ Dfile' = [Dfile EXCEPT ![dir[p]] = FALSE]
    /\ Goto(p, "free")
    /\ UNCHANGED <<Efile, Tfile, text, lock, dir, rcpt, fd, fastFiles, move,
                   deliverVars>>

---------------------------------------------------------------------------
(* Rewriting the envelope: env_outfile = env_tfile, then env_efile.        *)

\* The finished recipients leave memory first, whatever becomes of the t file,
\* which O_EXCL creates: a t file already there fails the call.
CreateTfile(p) ==
    /\ pc[p] = "createT"
    /\ rcpt' = [rcpt EXCEPT ![p] = @ \ plan[p].remove]
    /\ \/ /\ Tfile[dir[p]] = None
          /\ \E i \in Inode :
                /\ Fresh(i)
                /\ Tfile' = [Tfile EXCEPT ![dir[p]] = i]
                /\ text' = [text EXCEPT ![i] = {}]
          /\ Goto(p, "writeT")
       \/ /\ Tfile[dir[p]] # None \/ DiskErrors
          /\ Goto(p, "requeue")
          /\ UNCHANGED <<Tfile, text>>
    /\ UNCHANGED <<Efile, Dfile, lock, dir, fd, fastFiles, move, deliverVars>>

WriteTfile(p) ==
    /\ pc[p] = "writeT"
    /\ text' = [text EXCEPT ![Tfile[dir[p]]] = rcpt[p]]
    /\ Goto(p, "renameT")
    /\ UNCHANGED <<Efile, Dfile, Tfile, lock, dir, rcpt, fd, fastFiles, move,
                   deliverVars>>

\* Mutant: the envelope that was overwritten is not taken off the count.
CountTwice(p) ==
    /\ pc[p] = "renameT"
    /\ Efile' = [Efile EXCEPT ![dir[p]] = Tfile[dir[p]]]
    /\ Tfile' = [Tfile EXCEPT ![dir[p]] = None]
    /\ Count(p, dir[p], 1)
    /\ CommitBounce(p)
    /\ Goto(p, "requeue")
    /\ UNCHANGED <<Dfile, text, lock, dir, rcpt, fd, move,
                   hostq, plan, copies, unheard, old, young, crashes>>

\* Mutant: it is taken off the count though the new one was not put on it.
UncountOnce(p) ==
    /\ pc[p] = "renameT"
    /\ Efile' = [Efile EXCEPT ![dir[p]] = Tfile[dir[p]]]
    /\ Tfile' = [Tfile EXCEPT ![dir[p]] = None]
    /\ Count(p, dir[p], -1)
    /\ CommitBounce(p)
    /\ Goto(p, "requeue")
    /\ UNCHANGED <<Dfile, text, lock, dir, rcpt, fd, move,
                   hostq, plan, copies, unheard, old, young, crashes>>

\* Mutant: the envelope is linked over the old one and keeps its t name.
LinkTfile(p) ==
    /\ pc[p] = "renameT"
    /\ Efile' = [Efile EXCEPT ![dir[p]] = Tfile[dir[p]]]
    /\ CommitBounce(p)
    /\ Goto(p, "requeue")
    /\ UNCHANGED <<Dfile, Tfile, text, lock, dir, rcpt, fd, fastFiles, move,
                   hostq, plan, copies, unheard, old, young, crashes>>

\* The new inode carries no lock.  The envelope counted in simta_fast_files by
\* env_efile is taken off again by _q_deliver, as it replaced one.
RenameTfile(p) ==
    /\ pc[p] = "renameT"
    /\ Efile' = [Efile EXCEPT ![dir[p]] = Tfile[dir[p]]]
    /\ Tfile' = [Tfile EXCEPT ![dir[p]] = None]
    /\ CommitBounce(p)
    /\ Goto(p, "requeue")
    /\ UNCHANGED <<Dfile, text, lock, dir, rcpt, fd, fastFiles, move,
                   hostq, plan, copies, unheard, old, young, crashes>>

---------------------------------------------------------------------------
(* message_cleanup.                                                        *)

\* Unwind a bounce that was not queued; keep the message for the punt host, or
\* put it in slow and forget it.
MessageCleanup(p) ==
    /\ pc[p] = "requeue"
    /\ held' = [held EXCEPT ![p] = {}]
    /\ \/ /\ Punt /\ hostq[p] = "host"
          /\ hostq' = [hostq EXCEPT ![p] = "punt"]
          /\ young' = IF plan[p].kind \in {"rewrite", "requeue"}
                      THEN young \union {p} ELSE young
          /\ Goto(p, "keep")
          /\ UNCHANGED move
       \/ /\ ~Punt \/ hostq[p] = "punt"
          /\ EnvMove(p, "slow", "free", "free")
          /\ UNCHANGED <<hostq, young>>
    /\ UNCHANGED <<disk, dir, rcpt, fd, fastFiles, plan, reported, copies,
                   unheard, old,
                   crashes>>

\* The lock goes with the queue entry, also when the message is kept.
Close(p) ==
    /\ pc[p] \in {"keep", "free"}
    /\ CloseLock(p)
    /\ rcpt' = IF pc[p] = "free" THEN [rcpt EXCEPT ![p] = {}] ELSE rcpt
    /\ young' = IF pc[p] = "free" THEN young \ {p} ELSE young
    /\ plan' = [plan EXCEPT ![p] = NoPlan]
    /\ Goto(p, IF pc[p] = "keep" THEN "openD" ELSE "idle")
    /\ UNCHANGED <<Efile, Dfile, Tfile, text, dir, fastFiles, move,
                   hostq, held, reported, copies, unheard, old, crashes>>

\* q_runner makes another pass over the punt queue for every message it expands.
PuntAgain(p) ==
    /\ pc[p] = "punted"
    /\ Goto(p, "openD")
    /\ UNCHANGED <<disk, dir, rcpt, fd, fastFiles, move, deliverVars>>

\* At the end of its run it puts what is left there into slow.
PuntLeftOver(p) ==
    /\ pc[p] = "punted"
    /\ EnvMove(p, "slow", "free", "free")
    /\ UNCHANGED <<disk, dir, rcpt, fd, fastFiles, deliverVars>>

---------------------------------------------------------------------------
(* The environment.                                                        *)

\* The kernel closes a killed runner's descriptors; its files stay, and so
\* does a bounce it had written.
Crash(p) ==
    /\ pc[p] # "idle" /\ crashes < MaxCrashes
    /\ crashes' = crashes + 1
    /\ CloseLock(p)
    /\ CommitBounce(p)
    /\ rcpt' = [rcpt EXCEPT ![p] = {}]
    /\ fastFiles' = [fastFiles EXCEPT ![p] = 0]
    /\ plan' = [plan EXCEPT ![p] = NoPlan]
    /\ young' = young \ {p}
    /\ Goto(p, "idle")
    /\ UNCHANGED <<Efile, Dfile, Tfile, text, dir, move, hostq, copies, unheard,
                   old>>

\* env_is_old, by the modification time of the D file.
GetOld ==
    /\ ~old /\ old' = TRUE
    /\ UNCHANGED <<spoolVars, hostq, plan, held, reported, copies, unheard,
                   young, crashes>>

RunnerMove(p) == MoveStep(p) /\ UNCHANGED deliverVars

RunnerStep(p) ==
    \/ ReadQueueInfo(p) \/ TimeOrder(p)
    \/ OpenEfile(p) \/ LockEfile(p) \/ ReadEfile(p) \/ OpenDfile(p)
    \/ Attempt(p) \/ PuntDown(p) \/ WriteBounce(p)
    \/ Truncate(p) \/ UnlinkEfile(p) \/ UnlinkDfile(p)
    \/ CreateTfile(p) \/ WriteTfile(p) \/ RenameTfile(p)
    \/ MessageCleanup(p) \/ Close(p) \/ PuntAgain(p) \/ PuntLeftOver(p)
    \/ RunnerMove(p)

\* The message has left the spool for good and no runner remembers it.
Terminating ==
    /\ \A p \in Proc : pc[p] = "idle"
    /\ ~Readable("slow")
    /\ UNCHANGED vars

Next ==
    \/ \E p \in Proc : RunnerStep(p) \/ Crash(p)
    \/ GetOld
    \/ Terminating

\* Runners keep being launched and the kernel answers; time passes; a run, with
\* its finitely many messages to expand, ends.
Fairness ==
    /\ WF_vars(GetOld)
    /\ \A p \in Proc : WF_vars(RunnerStep(p)) /\ SF_vars(PuntLeftOver(p))

Spec == Init /\ [][Next]_vars
FairSpec == Spec /\ Fairness
=============================================================================
