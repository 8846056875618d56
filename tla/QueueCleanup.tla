--------------------------- MODULE QueueCleanup ---------------------------
(***************************************************************************)
(* The start-up check of the spool and simta -C (q_cleanup.c), over a      *)
(* message and everything that was expanded from it.                       *)
(*                                                                         *)
(* A process that died left names behind: D files without an E file, t     *)
(* files, a message in two directories, an original beside its half        *)
(* written expansion.  A plain start refuses to run; `simta -C` cleans     *)
(* up.  All it knows of an expansion is that its D files are links to one  *)
(* inode and that an envelope is one level deeper than what it was         *)
(* expanded from.                                                          *)
(*                                                                         *)
(* The kernel and the envelope library are here too: one process at a      *)
(* time works on the spool, each step is one system call, and the process  *)
(* may die between any two.  Start-up leaves no message in two             *)
(* directories, so no call here meets a name that is taken; Spool has the  *)
(* ways in which calls fail when processes compete.                        *)
(***************************************************************************)
EXTENDS Integers, FiniteSets, Sequences, SequencesExt

CONSTANTS
    Id,         \* message ids, each also the name of its envelope
    None        \* no id, no directory

Dir == {"local", "fast", "slow"}

ASSUME NoneAssumption == None \notin Id \union Dir
ASSUME IdAssumption == IsFiniteSet(Id)

VARIABLES
    tree,       \* what expands to what; see Expansion
    Efile,      \* Efile[d]: the ids with a d/E<id>
    Dfile,      \* Dfile[d]: the ids with a d/D<id>
    Tfile,      \* Tfile[d]: the ids with a d/t<id>
    up,         \* is the daemon running?
    pc,         \* the next call of the process at work, "idle" if none
    call,       \* the arguments of env_move and env_unlink, and their return
    clean,      \* simta_filesystem_cleanup: is this simta -C?
    scanned,    \* the directory read last
    trash,      \* f_list: stranded files to unlink, as <<table, id>>
    list,       \* the messages found in scanned and not dealt with yet
    doomed,     \* those among them with ENV_FLAG_DELETE
    slowList,   \* the messages of slow
    collided    \* was a message found in slow and elsewhere?

spool == <<Efile, Dfile, Tfile>>
cleanerVars == <<clean, scanned, trash, list, doomed, slowList, collided>>

CleanerLabel == {"scan", "trash", "mark", "delete", "toSlow", "abort"}
CallLabel == {"linkD", "linkE", "unlinkE", "unlinkD"}

CleanupTypeOK(Label) ==
    /\ Efile \in [Dir -> SUBSET Id]
    /\ Dfile \in [Dir -> SUBSET Id]
    /\ Tfile \in [Dir -> SUBSET Id]
    /\ up \in BOOLEAN
    /\ pc \in Label
    /\ call \in [id : Id \union {None}, from : Dir, to : Dir \union {None},
                 ret : Label]
    /\ clean \in BOOLEAN
    /\ scanned \in Dir
    /\ trash \subseteq {"D", "t"} \X Id
    /\ list \subseteq Id /\ doomed \subseteq list /\ slowList \subseteq Id
    /\ collided \in BOOLEAN

---------------------------------------------------------------------------
(* The tree.  tree.parent[m] is what m is expanded from; a bounce has a D  *)
(* file of its own, every other envelope a link to its parent's.           *)

\* e_n_exp_level.
Level(m) ==
    LET level[x \in Id] ==
            IF tree.parent[x] = None THEN 0 ELSE 1 + level[tree.parent[x]]
    IN level[m]

\* e_dinode, named after the message it was made for.
Dinode(m) ==
    LET dinode[x \in Id] ==
            IF tree.parent[x] = None \/ tree.kind[x] = "error" THEN x
            ELSE dinode[tree.parent[x]]
    IN dinode[m]

\* Everything m goes back to, m included.
Line(m) ==
    LET line[x \in Id] ==
            {x} \union (IF tree.parent[x] = None THEN {}
                        ELSE line[tree.parent[x]])
    IN line[m]

\* st_nlink of the D file of m.
Nlink(m) ==
    Cardinality({f \in Dir \X Id :
                    f[2] \in Dfile[f[1]] /\ Dinode(f[2]) = Dinode(m)})

\* The messages with both files in d.
Whole(d) == Efile[d] \intersect Dfile[d]

---------------------------------------------------------------------------
(* env_move and env_unlink: link both names, unlink E, unlink D.           *)

NoCall == [id |-> None, from |-> "fast", to |-> None, ret |-> "idle"]

Call(m, from, to, ret) ==
    IF from = to
    THEN pc' = ret /\ UNCHANGED call
    ELSE /\ call' = [id |-> m, from |-> from, to |-> to, ret |-> ret]
         /\ pc' = IF to = None THEN "unlinkE" ELSE "linkD"

LinkD ==
    /\ pc = "linkD" /\ call.id \notin Dfile[call.to]
    /\ Dfile' = [Dfile EXCEPT ![call.to] = @ \union {call.id}]
    /\ pc' = "linkE"
    /\ UNCHANGED <<Efile, Tfile, call>>

LinkE ==
    /\ pc = "linkE" /\ call.id \notin Efile[call.to]
    /\ Efile' = [Efile EXCEPT ![call.to] = @ \union {call.id}]
    /\ pc' = "unlinkE"
    /\ UNCHANGED <<Dfile, Tfile, call>>

UnlinkE ==
    /\ pc = "unlinkE" /\ call.id \in Efile[call.from]
    /\ Efile' = [Efile EXCEPT ![call.from] = @ \ {call.id}]
    /\ pc' = "unlinkD"
    /\ UNCHANGED <<Dfile, Tfile, call>>

UnlinkD ==
    /\ pc = "unlinkD"
    /\ Dfile' = [Dfile EXCEPT ![call.from] = @ \ {call.id}]
    /\ pc' = call.ret
    /\ call' = NoCall
    /\ UNCHANGED <<Efile, Tfile>>

EnvelopeCall == LinkD \/ LinkE \/ UnlinkE \/ UnlinkD

---------------------------------------------------------------------------
(* q_cleanup.                                                              *)

\* The memory of a process that starts, or that ended.
NoCleaner(c) ==
    /\ clean' = c /\ scanned' = "slow" /\ trash' = {} /\ list' = {}
    /\ doomed' = {} /\ slowList' = {} /\ collided' = FALSE

\* simta -C cleans and exits; simta goes on as the daemon.
Finish(ok) ==
    /\ pc' = "idle"
    /\ up' = (ok /\ ~clean)
    /\ NoCleaner(FALSE)

\* simta, or simta -C.
Start(c) ==
    /\ pc = "idle" /\ ~up
    /\ NoCleaner(c)
    /\ pc' = "scan"
    /\ UNCHANGED <<spool, call, up>>

\* What is left of messages that were never complete.
Stranded(d) ==
    ({"D"} \X (Dfile[d] \ Efile[d])) \union ({"t"} \X Tfile[d])

\* Mutant: stranded files are bad, simta -C or not.
StrandedIsBad(d) ==
    \/ Efile[d] \ Dfile[d] # {}
    \/ d # "local" /\ Stranded(d) # {}

\* Files q_dir_startup does not go on with.  fast must be empty unless this is
\* simta -C; in local somebody may be writing a message right now.
BadFilesystem(d) ==
    IF d = "fast" /\ ~clean
    THEN Efile[d] \union Dfile[d] \union Tfile[d] # {}
    ELSE \/ Efile[d] \ Dfile[d] # {}
         \/ ~clean /\ d # "local" /\ Stranded(d) # {}

\* q_dir_startup: read a directory.
Scan ==
    /\ pc = "scan"
    /\ IF BadFilesystem(scanned)
       THEN Finish(FALSE)
       ELSE /\ trash' = IF clean /\ scanned # "local" THEN Stranded(scanned)
                        ELSE {}
            /\ list' = Whole(scanned)
            /\ pc' = "trash"
            /\ UNCHANGED <<up, clean, scanned, doomed, slowList, collided>>
    /\ UNCHANGED <<spool, call>>

UnlinkTrash ==
    /\ pc = "trash"
    /\ \E f \in trash :
        /\ trash' = trash \ {f}
        /\ Dfile' = [Dfile EXCEPT ![scanned] =
                        IF f[1] = "D" THEN @ \ {f[2]} ELSE @]
        /\ Tfile' = [Tfile EXCEPT ![scanned] =
                        IF f[1] = "t" THEN @ \ {f[2]} ELSE @]
    /\ UNCHANGED <<Efile, up, pc, call, clean, scanned, list, doomed,
                   slowList, collided>>

\* The end of q_dir_startup, and what q_cleanup does with the list.
Scanned ==
    /\ pc = "trash" /\ trash = {}
    /\ IF scanned = "slow"
       THEN slowList' = list /\ list' = {} /\ scanned' = "fast" /\ pc' = "scan"
       ELSE /\ pc' = IF scanned = "fast" THEN "mark" ELSE "toSlow"
            /\ UNCHANGED <<slowList, list, scanned>>
    /\ UNCHANGED <<spool, up, call, clean, trash, doomed, collided>>

\* Mutant: no envelope is taken for a copy.
JudgeNothing(acc, m) == acc

\* Mutant: an original must come before what was expanded from it.
JudgeInOrder(acc, m) ==
    LET i == Dinode(m)
    IN IF Nlink(m) <= 1 THEN acc
       ELSE IF acc.unexpanded[i] = None
       THEN [acc EXCEPT !.unexpanded[i] = m]
       ELSE [acc EXCEPT !.ok = @ /\ Level(m) - 1 = Level(acc.unexpanded[i]),
                        !.doomed = @ \union {m}]

\* One envelope of the loop in q_expansion_cleanup.  For each D inode, acc holds
\* i_expanded_list, i_unexpanded, and over all of them the envelopes to delete
\* and whether every assertion held.
Judge(acc, m) ==
    LET i == Dinode(m)
        unexpanded == acc.unexpanded[i]
        expanded == acc.expanded[i]
        level == CHOOSE n \in {Level(x) : x \in expanded} : TRUE
    IN IF ~acc.ok \/ Nlink(m) <= 1 THEN acc
       ELSE CASE unexpanded # None ->
                [acc EXCEPT !.ok = Level(m) - 1 = Level(unexpanded),
                            !.doomed = @ \union {m}]
         [] unexpanded = None /\ expanded = {} ->
                [acc EXCEPT !.expanded[i] = {m}]
         [] unexpanded = None /\ expanded # {} /\ level = Level(m) ->
                [acc EXCEPT !.expanded[i] = @ \union {m}]
         [] unexpanded = None /\ expanded # {} /\ level = Level(m) + 1 ->
                [acc EXCEPT !.unexpanded[i] = m,
                            !.doomed = @ \union expanded]
         [] OTHER ->
                [acc EXCEPT !.ok = /\ Cardinality(expanded) = 1
                                   /\ level = Level(m) - 1,
                            !.unexpanded[i] = CHOOSE x \in expanded : TRUE,
                            !.expanded[i] = {m},
                            !.doomed = @ \union {m}]

\* The whole loop.
Judgement(order) ==
    LET start == [expanded |-> [i \in Id |-> {}],
                  unexpanded |-> [i \in Id |-> None],
                  doomed |-> {}, ok |-> TRUE]
        judged[n \in 0..Len(order)] ==
            IF n = 0 THEN start ELSE Judge(judged[n - 1], order[n])
    IN judged[Len(order)]

\* q_expansion_cleanup, first half.  The list is in the order of the ids, which
\* are hexadecimal numbers without leading zeros: any order may come.
MarkExpansions ==
    /\ pc = "mark"
    /\ \E order \in IF clean THEN SetToSeqs(list) ELSE {<<>>} :
        LET end == Judgement(order)
        IN IF end.ok
           THEN pc' = "delete" /\ doomed' = end.doomed
           ELSE pc' = "abort" /\ UNCHANGED doomed
    /\ UNCHANGED <<spool, up, call, clean, scanned, trash, list, slowList,
                   collided>>

\* q_expansion_cleanup, second half.
DeleteDoomed ==
    /\ pc = "delete"
    /\ IF doomed = {} THEN pc' = "toSlow" /\ UNCHANGED <<call, doomed, list>>
       ELSE \E m \in doomed :
                /\ Call(m, scanned, None, "delete")
                /\ doomed' = doomed \ {m}
                /\ list' = list \ {m}
    /\ UNCHANGED <<spool, up, clean, scanned, trash, slowList, collided>>

\* q_move_to_slow: a message that is in slow already is a collision.
ToSlow ==
    /\ pc = "toSlow"
    /\ \E m \in list :
        /\ list' = list \ {m}
        /\ \/ /\ m \notin slowList
              /\ Call(m, scanned, "slow", "toSlow")
              /\ slowList' = slowList \union {m}
              /\ UNCHANGED collided
           \/ /\ m \in slowList /\ clean
              /\ Call(m, scanned, None, "toSlow")
              /\ UNCHANGED <<slowList, collided>>
           \/ /\ m \in slowList /\ ~clean
              /\ collided' = TRUE
              /\ UNCHANGED <<pc, call, slowList>>
    /\ UNCHANGED <<spool, up, clean, scanned, trash, doomed>>

\* After fast comes local, after local the end.
MovedToSlow ==
    /\ pc = "toSlow" /\ list = {}
    /\ IF scanned = "fast" /\ ~collided
       THEN /\ scanned' = "local" /\ pc' = "scan"
            /\ UNCHANGED <<up, clean, trash, list, doomed, slowList, collided>>
       ELSE Finish(~collided)
    /\ UNCHANGED <<spool, call>>

\* A failed assert is SIGABRT: the process is dead, with all its memory.
Abort ==
    /\ pc = "abort"
    /\ Finish(FALSE)
    /\ UNCHANGED <<spool, call>>

CleanerStep ==
    \/ Scan \/ UnlinkTrash \/ Scanned \/ MarkExpansions
    \/ DeleteDoomed \/ ToSlow \/ MovedToSlow \/ Abort
===========================================================================
