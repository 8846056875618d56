------------------------- MODULE QueueDeliverProps -------------------------
(***************************************************************************)
(* What the runners of module QueueDeliver owe the message, and the        *)
(* inductive invariant behind it.                                          *)
(***************************************************************************)
EXTENDS QueueDeliver

Settled == Delivered \union reported

\* The recipients listed in an envelope that has its text beside it.
Kept == {r \in Rcpt : \E d \in Dir :
            Dfile[d] /\ Efile[d] # None /\ r \in text[Efile[d]]}

---------------------------------------------------------------------------
(* Safety.                                                                 *)

\* Whatever is killed or fails, a recipient that was neither delivered to nor
\* reported is still listed in an envelope on disk.  This is what the order of
\* bounce, truncation and unlink in _q_deliver, and of the links in env_move,
\* are for.
NoLoss == Rcpt \ Settled \subseteq Kept

\* No recipient gets the message twice, unless a host took it and its answer was
\* lost or cut short: who reads the recipients has the lock, and a runner that
\* gets the lock of a finished envelope finds it empty, and its D file gone
\* (env_read, env_truncate_and_unlink, _q_deliver).
NoDouble == \A r \in Rcpt : copies[r] > 1 => r \in unheard

\* One runner alone delivers once, through rewrites and the punt queue, unless
\* it is killed or the host's answer got lost; what a host took whose answer did
\* not come whole is offered again (_q_deliver, the return for HOST_PUNT_DOWN).
OnceUnlessKilled == crashes = 0 => NoDouble

\* Where every answer comes, the recipient of a message gets one verdict and it
\* is final: the message is handed over once, or its failure reported, never
\* both, whichever runners look at the message meanwhile (the lock, the
\* truncation under it and the order of bounce and deletion in _q_deliver).  Not
\* so with several recipients: the bounce of an old message lists them all.
Promise == INSTANCE MailPromise WITH
    delivered <- copies,
    told <- reported,
    kept <- Kept
OneVerdict == Promise!Spec

\* simta.8, "Efiles should never exist alone": an envelope in the queues has
\* its D file.
NoLoneEfile == \A d \in Dir : Efile[d] # None => Dfile[d]

\* A runner that ends has accounted for every envelope it had in fast; the
\* exit status SIMTA_EXIT_ERROR of q_runner would stop the daemon.
CleanExit == \A p \in Proc : pc[p] = "idle" => fastFiles[p] = 0

---------------------------------------------------------------------------
(* Liveness.                                                               *)

\* Runners that keep being launched get every recipient delivered or reported
\* and leave nothing to read: no lock is left behind, and age ends the retries.
Settles == <>[](Settled = Rcpt /\ \A d \in Dir : ~Readable(d))

\* Also by way of the punt host, and when its answers get lost, a message leaves
\* the spool, as long as no runner is killed with it in fast.
LeavesSpool == <>[](\A d \in Dir : Efile[d] = None)

---------------------------------------------------------------------------
(* The inductive invariant.                                                *)

\* The runner that has the message in fast: the one that wrote it there.
InFast(p) == pc[p] # "idle" /\ dir[p] = "fast"

\* Its steps while the names in fast are all there is.
Undisturbed(p) ==
    InFast(p) /\ pc[p] \notin {"moveUnlinkE", "moveUnlinkD", "unlinkD", "free"}

\* fast belongs to one runner, which holds no lock.  Until its move has linked
\* the message into slow no other runner knows of it, so no step of the move is
\* ever unwound.
Ownership ==
    /\ \A p, q \in Proc : InFast(p) /\ InFast(q) => p = q
    /\ \A p \in Proc :
        /\ dir[p] \in {"slow", "fast"}
        /\ move[p] = [to |-> "slow", done |-> "free", failed |-> "free"]
        /\ pc[p] \notin {"moveUndoE", "moveUndoD"}
        /\ pc[p] \in {"moveLinkD", "moveLinkE", "moveUnlinkE", "moveUnlinkD"}
             => dir[p] = "fast"
        /\ InFast(p) => pc[p] \notin {"stat", "openE", "lockE", "readE"}
        /\ Undisturbed(p) =>
            /\ Efile["slow"] = None
            /\ \A q \in Proc : q # p => pc[q] = "idle"
        /\ Undisturbed(p) \/ (InFast(p) /\ pc[p] = "moveUnlinkE") =>
            Efile["fast"] # None /\ Dfile["fast"] /\ fastFiles[p] > 0

Writing(p) == pc[p] \in {"writeT", "renameT"}

\* A t file that is being written is there and has one writer, and a lock is
\* taken on an open envelope.
OneWriter ==
    \A p \in Proc :
        /\ Writing(p) =>
            /\ Tfile[dir[p]] # None
            /\ \A q \in Proc : Writing(q) /\ dir[q] = dir[p] => q = p
        /\ pc[p] \in {"lockE", "readE"} => fd[p] # None

\* A t file has an inode of its own.
TfilesApart ==
    \A d \in Dir : Tfile[d] # None =>
        /\ \A e \in Dir : Tfile[d] # Efile[e]
        /\ \A e \in Dir : d # e => Tfile[d] # Tfile[e]
        /\ \A p \in Proc : fd[p] # Tfile[d]

\* Every place a runner may read the recipients from, and every list it may
\* write back, has all the undone ones.
NothingForgotten ==
    /\ \A d \in Dir : Efile[d] # None => Undone \subseteq text[Efile[d]]
    /\ \A p \in Proc :
        /\ fd[p] # None => Undone \subseteq text[fd[p]]
        /\ pc[p] \in {"openD", "attempt", "bounce", "createT"} =>
            Undone \subseteq rcpt[p]
        /\ Writing(p) => Undone \subseteq rcpt[p] \union held[p]
        /\ pc[p] = "renameT" =>
            Undone \subseteq text[Tfile[dir[p]]] \union held[p]

\* What a runner is about to drop is in the bounce it is about to commit.
NothingUnreported ==
    \A p \in Proc :
        /\ pc[p] = "bounce" /\ plan[p].kind = "delete" =>
            Undone \subseteq plan[p].report
        /\ pc[p] = "bounce" /\ plan[p].kind = "rewrite" =>
            Undone \intersect plan[p].remove \subseteq plan[p].report
        /\ pc[p] \in {"truncate", "unlinkE"} => Undone \subseteq held[p]
        /\ pc[p] = "unlinkD" => Undone = {}
        /\ pc[p] = "createT" =>
            Undone \intersect plan[p].remove \subseteq held[p]

\* The message is in a directory; while it moves, already in slow.
SomewhereWhole ==
    Undone # {} =>
        /\ \E d \in Dir : Efile[d] # None /\ Dfile[d]
        /\ \A p \in Proc : pc[p] \in {"moveUnlinkE", "moveUnlinkD"} =>
            Efile["slow"] # None /\ Dfile["slow"]
        /\ \A p \in Proc : pc[p] = "moveLinkE" => Dfile["slow"]

\* Without a punt queue no message is kept for it.
NoPunting ==
    \A p \in Proc : hostq[p] = "host" /\ pc[p] \notin {"keep", "punted"}

\* Holds whatever the constants are.
BaseInv == TypeOK /\ Ownership /\ OneWriter

\* Holds without a punt queue.
PromiseInv ==
    /\ BaseInv
    /\ TfilesApart /\ NothingForgotten /\ NothingUnreported
    /\ SomewhereWhole /\ NoPunting
=============================================================================
