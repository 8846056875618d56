----------------------------- MODULE Expansion -----------------------------
(***************************************************************************)
(* A message, its expansion (expand.c from "Create one expanded envelope   *)
(* for every host" on), the run of the queue around it (queue.c q_runner), *)
(* and what a restart makes of the files when the process dies.            *)
(*                                                                         *)
(* Expanding a message writes an envelope per host, one per group whose    *)
(* mail goes to a moderator or is forwarded, and one per sender who is     *)
(* told of errors, and then deletes the message.  Envelopes for hosts are  *)
(* delivered; the others are messages to expand in their turn.             *)
(*                                                                         *)
(* Which addresses come out is the choice of a tree: address_expand, LDAP  *)
(* and the policies are not modelled.  An expansion tried again writes the *)
(* same envelopes; the code takes fresh ids for them, the model the old    *)
(* ones, which an unwound expansion has left free.                         *)
(***************************************************************************)
EXTENDS QueueCleanup

CONSTANTS
    Tree,       \* the trees: [parent, kind, punt, faults]
    Root,       \* the message that was accepted
    MaxCrashes  \* how many processes may die

\* A moderated or forwarded group, a bounce, a host.
Kind == {"root", "moderated", "forward", "error", "host"}

ASSUME TreeAssumption ==
    /\ Root \in Id /\ MaxCrashes \in Nat
    /\ \A t \in Tree :
        /\ t.parent \in [Id -> Id \union {None}]
        /\ t.kind \in [Id -> Kind \union {None}]
        /\ t.punt \in BOOLEAN   \* is there a punt host?
        /\ t.faults \in Nat     \* how many calls of an expansion may fail
        /\ \A m \in Id : t.kind[m] = "root" <=> m = Root
        /\ \A m \in Id : t.parent[m] = None <=> t.kind[m] \in {"root", None}

VARIABLES
    role,       \* what the runner was started for: "local", "slow", "receive"
    cur,        \* the message popped off the unexpanded queue
    out,        \* the envelope expand() is writing
    written,    \* those it wrote (ENV_FLAG_EFILE)
    unwind,     \* those it still has to unlink
    unexpanded, \* simta_unexpanded_q
    hostq,      \* the host queues
    puntq,      \* simta_punt_q
    settled,    \* host envelopes that were delivered or bounced
    old,        \* is the mail older than simta_bounce_seconds?
    faults,     \* calls of an expansion that failed
    crashes     \* processes that died

runnerVars == <<role, cur, out, written, unwind, unexpanded, hostq, puntq>>
worldVars == <<settled, old, faults, crashes>>
vars == <<tree, spool, up, pc, call, cleanerVars, runnerVars, worldVars>>

RunnerLabel == {"deliver", "punt", "next", "expand", "write", "createT",
                "renameT", "unlinkOut", "unwind", "failed", "leftOver"}

TypeOK ==
    /\ tree \in Tree
    /\ CleanupTypeOK({"idle"} \union CleanerLabel \union CallLabel
                     \union RunnerLabel)
    /\ role \in {"local", "slow", "receive"}
    /\ cur \in Id \union {None} /\ out \in Id \union {None}
    /\ written \subseteq Id /\ unwind \subseteq written
    /\ Range(unexpanded) \subseteq {m \in Id : tree.kind[m] # "host"}
    /\ hostq \subseteq {m \in Id : tree.kind[m] = "host"}
    /\ puntq \subseteq {m \in Id : tree.kind[m] = "host"}
    /\ settled \subseteq {m \in Id : tree.kind[m] = "host"}
    /\ old \in BOOLEAN /\ faults \in Nat /\ crashes \in 0..MaxCrashes

Host == {m \in Id : tree.kind[m] = "host"}
Child(m) == {x \in Id : tree.parent[x] = m}
OfKind(S, kinds) == {x \in S : tree.kind[x] \in kinds}

\* The memory of a process that has not started, or that ended.
NoRunner ==
    /\ role' = "local" /\ cur' = None /\ out' = None /\ written' = {} /\ unwind' = {}
    /\ unexpanded' = <<>> /\ hostq' = {} /\ puntq' = {}

\* The message is in local, or in fast with the receiver that accepted it.
Init ==
    /\ tree \in Tree
    /\ \E d \in {"local", "fast"} :
        /\ Efile = [e \in Dir |-> IF e = d THEN {Root} ELSE {}]
        /\ role = IF d = "fast" THEN "receive" ELSE "local"
    /\ Dfile = Efile
    /\ Tfile = [d \in Dir |-> {}]
    /\ up = TRUE
    /\ pc = IF role = "receive" THEN "deliver" ELSE "idle"
    /\ unexpanded = IF role = "receive" THEN <<Root>> ELSE <<>>
    /\ call = NoCall
    /\ clean = FALSE /\ scanned = "slow" /\ trash = {} /\ list = {}
    /\ doomed = {} /\ slowList = {} /\ collided = FALSE
    /\ cur = None /\ out = None /\ written = {} /\ unwind = {}
    /\ hostq = {} /\ puntq = {}
    /\ settled = {} /\ old = FALSE /\ faults = 0 /\ crashes = 0

---------------------------------------------------------------------------
(* The run: q_runner.                                                      *)

\* q_read_dir: the local runner reads all of local; one on slow gets some hosts
\* of it, the unexpanded mail, or both (simta -q).
Launch(d) ==
    /\ pc = "idle" /\ up
    /\ role' = d
    /\ \E hosts \in SUBSET (Whole(d) \intersect Host),
          others \in {{}, Whole(d) \ Host} :
        /\ hosts \union others # {}
        /\ d = "local" => hosts \union others = Whole(d)
        /\ hostq' = hosts
        /\ unexpanded' \in SetToSeqs(others)
    /\ pc' = "deliver"
    /\ UNCHANGED <<spool, up, call, cur, out, written, unwind, puntq>>

\* The directory of a message in a queue of the runner.
Where(m) == IF m \in Efile["fast"] THEN "fast" ELSE role

\* Every host queue is worked on before the next message is expanded.  An attempt
\* settles the envelope or keeps it; an old one is bounced.
Deliver ==
    /\ pc = "deliver"
    /\ \/ /\ hostq = {} /\ pc' = "punt"
          /\ UNCHANGED <<call, hostq, puntq, settled>>
       \/ \E h \in hostq :
            /\ hostq' = hostq \ {h}
            /\ \/ /\ settled' = settled \union {h}
                  /\ Call(h, Where(h), None, "deliver")
                  /\ UNCHANGED puntq
               \/ /\ ~old /\ tree.punt
                  /\ puntq' = puntq \union {h}
                  /\ UNCHANGED <<pc, call, settled>>
               \/ /\ ~old /\ ~tree.punt
                  /\ Call(h, Where(h), "slow", "deliver")
                  /\ UNCHANGED <<puntq, settled>>
    /\ UNCHANGED <<spool, up, role, cur, out, written, unwind, unexpanded>>

\* The punt host takes an envelope or not; what it does not take stays queued.
PuntDeliver ==
    /\ pc = "punt"
    /\ \/ /\ pc' = "next" /\ UNCHANGED <<call, puntq, settled>>
       \/ \E h \in puntq :
            /\ puntq' = puntq \ {h}
            /\ settled' = settled \union {h}
            /\ Call(h, Where(h), None, "punt")
    /\ UNCHANGED <<spool, up, role, cur, out, written, unwind, unexpanded,
                   hostq>>

\* Pop a message off the unexpanded queue.
NextUnexpanded ==
    /\ pc = "next"
    /\ IF unexpanded = <<>>
       THEN pc' = "leftOver" /\ UNCHANGED <<call, cur, unexpanded>>
       ELSE /\ cur' = Head(unexpanded)
            /\ unexpanded' = Tail(unexpanded)
            /\ Call(Head(unexpanded), Where(Head(unexpanded)), "fast", "expand")
    /\ UNCHANGED <<spool, up, role, out, written, unwind, hostq, puntq, settled>>

\* expand() != 0: an old message is bounced by a slow runner, which is final once
\* its E file is unlinked; any other goes to slow.
ExpandFailed ==
    /\ pc = "failed"
    /\ IF role = "slow" /\ old
       THEN /\ settled' = settled \union {h \in Host : cur \in Line(h)}
            /\ Efile' = [Efile EXCEPT !["fast"] = @ \ {cur}]
            /\ call' = [id |-> cur, from |-> "fast", to |-> None, ret |-> "next"]
            /\ pc' = "unlinkD"
       ELSE /\ Call(cur, "fast", "slow", "next")
            /\ UNCHANGED <<Efile, settled>>
    /\ UNCHANGED <<Dfile, Tfile, up, runnerVars>>

\* "move any unpuntable message to the slow queue", and the exit status: files
\* left in fast are an error, on which the daemon shuts down.
LeftOver ==
    /\ pc = "leftOver"
    /\ IF puntq # {}
       THEN \E h \in puntq :
                /\ puntq' = puntq \ {h}
                /\ Call(h, Where(h), "slow", "leftOver")
                /\ UNCHANGED <<up, role, cur, out, written, unwind, unexpanded,
                               hostq>>
       ELSE /\ pc' = "idle"
            /\ up' = (Efile["fast"] = {})
            /\ NoRunner
            /\ UNCHANGED call
    /\ UNCHANGED <<spool, settled>>

---------------------------------------------------------------------------
(* The expansion: expand().                                                *)

\* A bounce that an earlier expansion left behind, when its process died, stands
\* for the one of this expansion as well, for as long as it is under way.
ToWrite ==
    {k \in Child(cur) \ written :
        tree.kind[k] = "error" =>
            \A d \in Dir : \A x \in Efile[d] : k \notin Line(x)}

\* Moderated and forwarded groups come first, then the hosts, then the errors.
Writable ==
    LET groups == OfKind(ToWrite, {"moderated", "forward"})
        hosts == OfKind(ToWrite, {"host"})
    IN IF groups # {} THEN groups
       ELSE IF hosts # {} THEN hosts ELSE ToWrite

\* Mutant: the original is deleted first, and its expansion may then fail.
DeleteFirst ==
    /\ pc = "expand"
    /\ written' = {}
    /\ Call(cur, "fast", None, "write")
    /\ UNCHANGED <<spool, up, role, cur, out, unwind, unexpanded, hostq, puntq,
                   settled>>

Expand ==
    /\ pc = "expand"
    /\ written' = {}
    /\ pc' = "write"
    /\ UNCHANGED <<spool, up, call, role, cur, out, unwind, unexpanded, hostq,
                   puntq, settled>>

\* The next envelope gets its D file: a link to the original's, or, for a bounce,
\* a file of its own (bounce_dfile_out).
WriteDfile ==
    /\ pc = "write"
    /\ \E k \in Writable :
        /\ \A d \in Dir : k \notin Efile[d] \union Dfile[d] \union Tfile[d]
        /\ Dfile' = [Dfile EXCEPT !["fast"] = @ \union {k}]
        /\ out' = k
    /\ pc' = "createT"
    /\ UNCHANGED <<Efile, Tfile, up, call, role, cur, written, unwind,
                   unexpanded, hostq, puntq, settled>>

\* env_outfile: env_tfile, which may fail, and env_efile.
CreateT ==
    /\ pc = "createT"
    /\ Tfile' = [Tfile EXCEPT !["fast"] = @ \union {out}]
    /\ pc' = "renameT"
    /\ UNCHANGED <<Efile, Dfile, up, call, runnerVars, settled>>

\* The envelope is there, and queue_envelope puts it into the queue of its host
\* or, without one, at the end of the unexpanded queue.
RenameT ==
    /\ pc = "renameT"
    /\ Tfile' = [Tfile EXCEPT !["fast"] = @ \ {out}]
    /\ Efile' = [Efile EXCEPT !["fast"] = @ \union {out}]
    /\ written' = written \union {out}
    /\ IF out \in Host
       THEN hostq' = hostq \union {out} /\ UNCHANGED unexpanded
       ELSE unexpanded' = Append(unexpanded, out) /\ UNCHANGED hostq
    /\ pc' = "write"
    /\ UNCHANGED <<Dfile, up, call, role, cur, out, unwind, puntq, settled>>

\* Everything is written: the original goes, and the result of that is ignored.
DeleteOriginal ==
    /\ pc = "write" /\ ToWrite = {}
    /\ Call(cur, "fast", None, "deliver")
    /\ cur' = None /\ out' = None /\ written' = {}
    /\ UNCHANGED <<spool, up, role, unwind, unexpanded, hostq, puntq, settled>>

\* What each failure unwinds.  Envelopes for moderators are never unlinked, and
\* a failure before the errors are written leaves the forwarded ones, too.
\* cleanup_envelope_list frees an envelope and then reads its e_next: it goes on
\* with the list or stops after the first bounce.
Unwound(kind) ==
    LET hosts == OfKind(written, {"host"})
        forwards == OfKind(written, {"forward"})
        errors == OfKind(written, {"error"})
        First(S) == {S} \union {{x} : x \in S}
    IN CASE kind \in {"moderated", "forward"} -> {{}}
         [] kind = "host" -> {hosts}
         [] OTHER -> {hosts \union f \union e : f \in First(forwards),
                                                e \in First(errors)}

FailAt(kind, l) ==
    /\ faults < tree.faults
    /\ faults' = faults + 1
    /\ unwind' \in Unwound(kind)
    /\ pc' = l

\* env_outfile fails: the D file that was linked for it is unlinked.
OutfileFails ==
    /\ pc = "createT"
    /\ FailAt(tree.kind[out], "unlinkOut")
    /\ UNCHANGED <<spool, up, call, role, cur, out, written, unexpanded, hostq,
                   puntq, settled>>

UnlinkOut ==
    /\ pc = "unlinkOut"
    /\ Dfile' = [Dfile EXCEPT !["fast"] = @ \ {out}]
    /\ pc' = "unwind"
    /\ UNCHANGED <<Efile, Tfile, up, call, runnerVars, settled>>

\* link, bounce_dfile_out or utime fails: there is no D file to remove.
WriteFails ==
    /\ pc = "write"
    /\ \/ \E k \in Writable : FailAt(tree.kind[k], "unwind")
       \/ ToWrite = {} /\ FailAt("error", "unwind")
    /\ UNCHANGED <<spool, up, call, role, cur, out, written, unexpanded, hostq,
                   puntq, settled>>

\* queue_remove_envelope, for the unexpanded queue.
Dequeue(queue, m) ==
    IF Contains(queue, m)
    THEN RemoveAt(queue, CHOOSE i \in DOMAIN queue : queue[i] = m) ELSE queue

\* Mutant: what was written of the expansion stays.
UnwindNothing ==
    /\ pc = "unwind"
    /\ unwind' = {} /\ pc' = "failed"
    /\ UNCHANGED <<spool, up, call, role, cur, out, written, unexpanded, hostq,
                   puntq, settled>>

\* cleanup5 and cleanup4: queue_remove_envelope and env_unlink.
Unwind ==
    /\ pc = "unwind"
    /\ \/ /\ unwind = {} /\ pc' = "failed"
          /\ UNCHANGED <<call, unwind, unexpanded, hostq>>
       \/ \E k \in unwind :
            /\ unwind' = unwind \ {k}
            /\ hostq' = hostq \ {k}
            /\ unexpanded' = Dequeue(unexpanded, k)
            /\ Call(k, "fast", None, "unwind")
    /\ UNCHANGED <<spool, up, role, cur, out, written, puntq, settled>>

---------------------------------------------------------------------------
(* The system.                                                             *)

Crash ==
    /\ pc # "idle" /\ crashes < MaxCrashes
    /\ crashes' = crashes + 1
    /\ pc' = "idle" /\ up' = FALSE
    /\ NoRunner
    /\ call' = NoCall
    /\ NoCleaner(FALSE)
    /\ UNCHANGED <<spool, settled, old, faults>>

GetOld ==
    /\ ~old /\ old' = TRUE
    /\ UNCHANGED <<spool, up, pc, call, cleanerVars, runnerVars, settled, faults,
                   crashes>>

\* Nothing is left to do.
Done ==
    /\ pc = "idle" /\ up /\ Whole("local") = {} /\ Whole("slow") = {}
    /\ UNCHANGED <<spool, up, pc, call, cleanerVars, runnerVars, worldVars>>

Run ==
    /\ \/ /\ \/ Launch("local") \/ Launch("slow")
          /\ UNCHANGED settled
       \/ Deliver \/ PuntDeliver \/ NextUnexpanded \/ ExpandFailed \/ LeftOver
       \/ Expand \/ WriteDfile \/ CreateT \/ RenameT \/ DeleteOriginal
       \/ UnlinkOut \/ Unwind
    /\ UNCHANGED <<cleanerVars, faults>>

Fail == (OutfileFails \/ WriteFails) /\ UNCHANGED cleanerVars

CallStep == EnvelopeCall /\ UNCHANGED <<up, cleanerVars, runnerVars, settled, faults>>

CleanUp == CleanerStep /\ UNCHANGED <<runnerVars, settled, faults>>

StartUp(c) == Start(c) /\ UNCHANGED <<runnerVars, settled, faults>>

Work == Run \/ Fail \/ CallStep \/ CleanUp

Next ==
    /\ \/ Work /\ UNCHANGED <<old, crashes>>
       \/ (\E c \in BOOLEAN : StartUp(c)) /\ UNCHANGED <<old, crashes>>
       \/ Crash \/ GetOld \/ Done
    /\ UNCHANGED tree

Fairness ==
    /\ WF_vars(GetOld /\ UNCHANGED tree)
    /\ WF_vars(Work /\ UNCHANGED <<tree, old, crashes>>)
    /\ \A c \in BOOLEAN :
        SF_vars(StartUp(c) /\ UNCHANGED <<tree, old, crashes>>)

Spec == Init /\ [][Next]_vars
FairSpec == Spec /\ Fairness

---------------------------------------------------------------------------
(* Properties.                                                             *)

\* Whatever is expanded, fails, is unwound, dies and is cleaned up: an envelope
\* that was not settled is on the disk, or something it is expanded from is.
NoLoss ==
    \A h \in Host \ settled : \E m \in Line(h), d \in Dir : m \in Whole(d)

\* While the daemon rests, a message is either waiting or expanded, and in one
\* place: a start leaves no original beside what was expanded from it.  (Bounces
\* are not covered: an expansion that is tried again tells the sender again.)
OneHolder ==
    pc = "idle" /\ up =>
        \A h \in Host :
            LET holders == {f \in Line(h) \X Dir : f[1] \in Efile[f[2]]}
            IN (\A m \in Line(h) : tree.kind[m] # "error") =>
                    Cardinality(holders) <= 1

\* No envelope is delivered while the message it came from can be expanded again.
DeliveredOnceExpanded ==
    \A h \in settled, d \in Dir :
        \/ Line(h) \intersect Efile[d] \subseteq {h}
        \/ \E m \in Line(h) : tree.kind[m] = "error"
        \/ pc \in CallLabel /\ call.id \in Line(h)

\* The assertions of q_expansion_cleanup hold.
AssertsHold == pc # "abort"

\* In the end every envelope is delivered or bounced.
Settles == <>[](Host \subseteq settled)
===========================================================================
