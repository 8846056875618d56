------------------------- MODULE QueueDeliverProofs -------------------------
(***************************************************************************)
(* The runners of module QueueDeliver lose nobody, for any number of       *)
(* runners, recipients, inodes and crashes, whatever bounces and t files   *)
(* fail to be written, as long as no punt queue is configured.  Types and  *)
(* the ownership of fast need no such condition.                           *)
(*                                                                         *)
(* The invariant says what a recipient that is still undone depends on: it *)
(* is in every envelope a runner could read, in the memory of every runner *)
(* that may write an envelope (NothingForgotten), in the bounce of a       *)
(* runner that drops it (NothingUnreported), and one directory holds both  *)
(* files of the message (SomewhereWhole).                                  *)
(*                                                                         *)
(* The second half is about what is done only once, up to the promise of   *)
(* module MailPromise.                                                     *)
(***************************************************************************)
EXTENDS QueueDeliverProps, TLAPS

---------------------------------------------------------------------------
(* Facts about what _q_deliver decides.                                    *)

\* A decision is one, whatever the outcome.
LEMMA DecideType ==
    ASSUME NEW R \in SUBSET Rcpt, NEW o \in Outcome(R), NEW aged \in BOOLEAN
    PROVE  Decide(R, o, aged) \in Plan
BY DEF Decide, Outcome, Plan

\* Both kinds of host report one of the outcomes.
LEMMA OutcomeType ==
    ASSUME NEW R, NEW q, NEW heard,
           NEW o \in (IF q = "punt" THEN PuntOutcome(R, heard) ELSE HostOutcome(R))
    PROVE  o \in Outcome(R)
BY DEF PuntOutcome, HostOutcome

\* A recipient that is dropped was delivered to, or is in the bounce; without a
\* bounce every one that is dropped was delivered to.
LEMMA DecideKeepsPromise ==
    ASSUME NEW R \in SUBSET Rcpt, NEW o \in HostOutcome(R),
           NEW aged \in BOOLEAN, NEW U \in SUBSET R
    PROVE  LET D == Decide(R, o, aged)
               Left == U \ o.accepted
               bounced == BounceAll(R, o, aged) \/ o.counted # {}
           IN /\ D.kind = "delete" => Left \subseteq D.report
              /\ D.kind = "rewrite" => Left \intersect D.remove \subseteq D.report
              /\ ~bounced /\ D.kind = "delete" => Left = {}
              /\ ~bounced /\ D.kind = "rewrite" => Left \intersect D.remove = {}
<1>1. /\ o.accepted \in SUBSET R /\ o.counted \in SUBSET R
      /\ o.failed = o.counted /\ o.marked = o.accepted
      /\ o.delivered \in BOOLEAN /\ o.bounce \in BOOLEAN
      /\ ~o.delivered => o.accepted = {}
  BY DEF HostOutcome, Outcome
<1>2. ASSUME BounceAll(R, o, aged)
      PROVE  Decide(R, o, aged).kind = "delete" /\ Decide(R, o, aged).report = R
  BY <1>2 DEF Decide
<1>3. ASSUME ~BounceAll(R, o, aged)
      PROVE  /\ ~o.bounce
             /\ Counted(R, o) \subseteq o.accepted \union o.counted
             /\ Decide(R, o, aged).report = o.counted
             /\ Decide(R, o, aged).remove = o.accepted \union o.counted
             /\ Decide(R, o, aged).kind = "delete" => Counted(R, o) = R
  BY <1>1, <1>3 DEF Decide, BounceAll, Counted
<1> QED  BY <1>1, <1>2, <1>3

\* Wherever a plan starts is a label outside env_move.
LEMMA FirstStepType ==
    ASSUME NEW p, NEW kind
    PROVE  FirstStep(p, kind) \in
             {"truncate", "unlinkE", "createT", "requeue"} \cap Label
BY DEF FirstStep, Label

---------------------------------------------------------------------------
(* Type correctness and what it rests on: fast belongs to one runner, and a *)
(* t file to its writer.                                                    *)

\* The next label is one.
LEMMA GotoType ==
    ASSUME pc \in [Proc -> Label], NEW p, NEW l \in Label, Goto(p, l)
    PROVE  pc' \in [Proc -> Label]
BY DEF Goto

\* A count stays a number as long as it is above zero when one is taken off.
LEMMA CountType ==
    ASSUME fastFiles \in [Proc -> Nat], NEW p \in Proc, NEW d, NEW n \in {-1, 1},
           d = "fast" /\ n = -1 => fastFiles[p] > 0, Count(p, d, n)
    PROVE  fastFiles' \in [Proc -> Nat]
<1>1. CASE d # "fast"
  BY <1>1 DEF Count
<1>2. CASE d = "fast"
  <2>1. fastFiles' = [fastFiles EXCEPT ![p] = fastFiles[p] + n]
    BY <1>2 DEF Count
  <2>2. fastFiles[p] \in Nat
    OBVIOUS
  <2>3. fastFiles[p] + n \in Nat
    BY <1>2, <2>2
  <2> HIDE <1>2
  <2> QED  BY <2>1, <2>3
<1> QED  BY <1>1, <1>2

\* Recipients some host is known to have taken the message for.
Served == Delivered \ unheard

\* What handing the message over does to the account of who has it.
LEMMA HandOverStep ==
    ASSUME TypeOK, NEW took \in SUBSET Rcpt, NEW heard \in BOOLEAN,
           HandOver(took, heard)
    PROVE  /\ copies' \in [Rcpt -> 0..2] /\ unheard' \in SUBSET Rcpt
           /\ Delivered' = Delivered \union took
           /\ unheard \subseteq unheard'
           /\ Served' \subseteq Served \union took
           /\ ~heard => Served' \subseteq Served
           /\ took \cap Served = {} /\ NoDouble => NoDouble'
<1>1. \A r \in Rcpt : /\ copies[r] \in 0..2
                      /\ copies'[r] = IF r \in took /\ copies[r] < 2
                                      THEN copies[r] + 1 ELSE copies[r]
  BY DEF HandOver, TypeOK
<1>2. copies' \in [Rcpt -> 0..2] /\ unheard' \in SUBSET Rcpt
  BY DEF HandOver, TypeOK
<1>3. Delivered' = Delivered \union took
  <2>1. \A r \in Rcpt : copies'[r] > 0 <=> copies[r] > 0 \/ r \in took
    BY <1>1
  <2> QED  BY <2>1 DEF Delivered
<1>4. unheard \subseteq unheard' /\ (~heard => took \subseteq unheard')
  BY DEF HandOver
<1>5. ASSUME took \cap Served = {}, NoDouble PROVE NoDouble'
  <2>1. ASSUME NEW r \in Rcpt, copies'[r] > 1 PROVE r \in unheard
    <3>1. CASE copies[r] > 1
      BY <1>5, <3>1 DEF NoDouble
    <3>2. CASE ~(copies[r] > 1)
      <4>1. r \in took /\ copies[r] > 0
        BY <1>1, <2>1, <3>2
      <4> QED  BY <1>5, <4>1 DEF Served, Delivered
    <3> QED  BY <3>1, <3>2
  <2> QED  BY <1>4, <2>1 DEF NoDouble
<1> QED  BY <1>2, <1>3, <1>4, <1>5 DEF Served

\* An attempt is one of the outcomes, and where it leads.
LEMMA AttemptOutcome ==
    ASSUME NEW p \in Proc, Attempt(p)
    PROVE  \E heard \in BOOLEAN, took \in SUBSET rcpt[p] :
           \E o \in IF hostq[p] = "punt" THEN PuntOutcome(rcpt[p], heard)
                    ELSE HostOutcome(rcpt[p]) :
             /\ o.accepted \subseteq took
             /\ heard => took = o.accepted
             /\ ~heard => LostAnswers
             /\ HandOver(took, heard)
             /\ plan' = [plan EXCEPT ![p] = Decide(rcpt[p], o, Aged(p))]
             /\ Goto(p, IF BounceAll(rcpt[p], o, Aged(p)) \/ o.counted # {}
                        THEN "bounce"
                        ELSE FirstStep(p, Decide(rcpt[p], o, Aged(p)).kind))
BY DEF Attempt

\* Closing the lock descriptor leaves locks and descriptors in their types.
LEMMA CloseType ==
    ASSUME TypeOK, NEW p, CloseLock(p)
    PROVE  /\ lock' \in [Inode -> Proc \union {None}]
           /\ fd' \in [Proc -> Inode \union {None}]
BY DEF TypeOK, SpoolTypeOK, CloseLock

\* Every step keeps the types.  Only simta_fast_files needs more than the types
\* themselves: a runner that takes an envelope off the count owns it in fast.
LEMMA TypeStep ==
    ASSUME BaseInv, [Next]_vars
    PROVE  TypeOK'
<1> USE DEF BaseInv
<1>0. TypeOK
  OBVIOUS
<1>1. ASSUME NEW p \in Proc, ReadQueueInfo(p) PROVE TypeOK'
  BY <1>1 DEF ReadQueueInfo, Goto, TypeOK, SpoolTypeOK, disk, Label, Dir
<1>2. ASSUME NEW p \in Proc, TimeOrder(p) PROVE TypeOK'
  BY <1>2 DEF TimeOrder, Goto, TypeOK, SpoolTypeOK, disk, deliverVars, Label
<1>3. ASSUME NEW p \in Proc, OpenEfile(p) PROVE TypeOK'
  BY <1>3 DEF OpenEfile, Goto, TypeOK, SpoolTypeOK, disk, deliverVars, Label
<1>4. ASSUME NEW p \in Proc, LockEfile(p) PROVE TypeOK'
  <2>1. pc' \in [Proc -> Label]
    BY <1>4, GotoType DEF LockEfile, TypeOK, SpoolTypeOK, Label
  <2>2. lock' \in [Inode -> Proc \union {None}]
    BY <1>4 DEF LockEfile, TypeOK, SpoolTypeOK
  <2>3. fd' \in [Proc -> Inode \union {None}]
    BY <1>4 DEF LockEfile, TypeOK, SpoolTypeOK
  <2> QED
    BY <1>4, <2>1, <2>2, <2>3
       DEF LockEfile, TypeOK, SpoolTypeOK, deliverVars
<1>5. ASSUME NEW p \in Proc, ReadEfile(p) PROVE TypeOK'
  <2>1. pc' \in [Proc -> Label]
    BY <1>5, GotoType DEF ReadEfile, TypeOK, SpoolTypeOK, Label
  <2>2. fd[p] \in Inode
    BY <1>5 DEF ReadEfile, OneWriter, TypeOK, SpoolTypeOK
  <2>3. rcpt' \in [Proc -> SUBSET Rcpt]
    BY <1>5, <2>2 DEF ReadEfile, TypeOK, SpoolTypeOK
  <2>4. /\ lock' \in [Inode -> Proc \union {None}]
        /\ fd' \in [Proc -> Inode \union {None}]
    BY <1>5, CloseType DEF ReadEfile, TypeOK, SpoolTypeOK
  <2> QED
    BY <1>5, <2>1, <2>3, <2>4
       DEF ReadEfile, TypeOK, SpoolTypeOK, deliverVars
<1>6. ASSUME NEW p \in Proc, OpenDfile(p) PROVE TypeOK'
  BY <1>6 DEF OpenDfile, Goto, TypeOK, SpoolTypeOK, disk, Label, Plan, NoPlan
<1>7. ASSUME NEW p \in Proc, Attempt(p) PROVE TypeOK'
  <2>1. PICK heard \in BOOLEAN, took \in SUBSET rcpt[p] :
        \E o \in IF hostq[p] = "punt" THEN PuntOutcome(rcpt[p], heard)
                 ELSE HostOutcome(rcpt[p]) :
          /\ HandOver(took, heard)
          /\ plan' = [plan EXCEPT ![p] = Decide(rcpt[p], o, Aged(p))]
          /\ Goto(p, IF BounceAll(rcpt[p], o, Aged(p)) \/ o.counted # {}
                     THEN "bounce"
                     ELSE FirstStep(p, Decide(rcpt[p], o, Aged(p)).kind))
    BY <1>7, AttemptOutcome
  <2>a. PICK o \in IF hostq[p] = "punt" THEN PuntOutcome(rcpt[p], heard)
                   ELSE HostOutcome(rcpt[p]) :
          /\ plan' = [plan EXCEPT ![p] = Decide(rcpt[p], o, Aged(p))]
          /\ Goto(p, IF BounceAll(rcpt[p], o, Aged(p)) \/ o.counted # {}
                     THEN "bounce"
                     ELSE FirstStep(p, Decide(rcpt[p], o, Aged(p)).kind))
    BY <2>1
  <2>b. rcpt[p] \in SUBSET Rcpt
    BY DEF TypeOK, SpoolTypeOK
  <2>2. copies' \in [Rcpt -> 0..2] /\ unheard' \in SUBSET Rcpt
    <3>1. took \in SUBSET Rcpt /\ HandOver(took, heard)
      BY <2>1, <2>b
    <3> QED  BY <3>1, HandOverStep
  <2>3. plan' \in [Proc -> Plan]
    <3>1. o \in Outcome(rcpt[p])
      BY <2>a, OutcomeType
    <3>2. Aged(p) \in BOOLEAN
      BY DEF Aged, TypeOK
    <3> QED  BY <2>a, <2>b, <3>1, <3>2, DecideType DEF TypeOK
  <2>4. pc' \in [Proc -> Label]
    <3>1. "bounce" \in Label
      BY DEF Label
    <3> QED  BY <2>a, <3>1, FirstStepType, GotoType DEF TypeOK, SpoolTypeOK
  <2> QED
    BY <1>7, <2>2, <2>3, <2>4 DEF Attempt, TypeOK, SpoolTypeOK, disk
<1>8. ASSUME NEW p \in Proc, PuntDown(p) PROVE TypeOK'
  <2>1. copies' \in [Rcpt -> 0..2] /\ unheard' \in SUBSET Rcpt
    <3>1. CASE UNCHANGED <<copies, unheard>>
      BY <3>1 DEF TypeOK
    <3>2. CASE HandOver(rcpt[p], FALSE)
      <4>1. rcpt[p] \in SUBSET Rcpt /\ FALSE \in BOOLEAN
        BY DEF TypeOK, SpoolTypeOK
      <4> QED  BY <3>2, <4>1, HandOverStep
    <3> QED  BY <1>8, <3>1, <3>2 DEF PuntDown
  <2> QED
    BY <1>8, <2>1 DEF PuntDown, Goto, TypeOK, SpoolTypeOK, disk, Label
<1>9. ASSUME NEW p \in Proc, WriteBounce(p) PROVE TypeOK'
  <2>1. pc' \in [Proc -> Label]
    BY <1>9, FirstStepType, GotoType DEF WriteBounce, TypeOK, SpoolTypeOK, Label
  <2>2. held' \in [Proc -> SUBSET Rcpt]
    BY <1>9 DEF WriteBounce, TypeOK, Plan
  <2> QED
    BY <1>9, <2>1, <2>2 DEF WriteBounce, TypeOK, SpoolTypeOK, disk
<1>10. ASSUME NEW p \in Proc, Truncate(p) PROVE TypeOK'
  BY <1>10
     DEF Truncate, CommitBounce, Goto, TypeOK, SpoolTypeOK, Label
<1>11. ASSUME NEW p \in Proc, UnlinkEfile(p) PROVE TypeOK'
  <2>1. pc' \in [Proc -> Label]
    BY <1>11, GotoType DEF UnlinkEfile, TypeOK, SpoolTypeOK, Label
  <2>2. dir[p] = "fast" => fastFiles[p] > 0
    BY <1>11 DEF UnlinkEfile, Ownership, Undisturbed, InFast
  <2>3. fastFiles' \in [Proc -> Nat]
    <3>1. fastFiles \in [Proc -> Nat]
      BY DEF TypeOK, SpoolTypeOK
    <3>2. Count(p, dir[p], -1) \/ UNCHANGED fastFiles
      BY <1>11 DEF UnlinkEfile
    <3> QED  BY <2>2, <3>1, <3>2, CountType
  <2>4. Efile' \in [Dir -> Inode \union {None}]
    BY <1>11 DEF UnlinkEfile, TypeOK, SpoolTypeOK
  <2>5. held' \in [Proc -> SUBSET Rcpt] /\ reported' \in SUBSET Rcpt
    BY <1>11 DEF UnlinkEfile, CommitBounce, TypeOK
  <2> QED
    BY <1>11, <2>1, <2>3, <2>4, <2>5 DEF UnlinkEfile, TypeOK, SpoolTypeOK
<1>12. ASSUME NEW p \in Proc, UnlinkDfile(p) PROVE TypeOK'
  BY <1>12
     DEF UnlinkDfile, Goto, TypeOK, SpoolTypeOK, disk, deliverVars, Label
<1>13. ASSUME NEW p \in Proc, CreateTfile(p) PROVE TypeOK'
  <2>1. pc' \in [Proc -> Label]
    BY <1>13, GotoType DEF CreateTfile, TypeOK, SpoolTypeOK, Label
  <2>2. rcpt' \in [Proc -> SUBSET Rcpt]
    BY <1>13 DEF CreateTfile, TypeOK, SpoolTypeOK
  <2>3. /\ Tfile' \in [Dir -> Inode \union {None}]
        /\ text' \in [Inode -> SUBSET Rcpt]
    <3>1. CASE UNCHANGED <<Tfile, text>>
      BY <3>1 DEF TypeOK, SpoolTypeOK
    <3>2. ASSUME NEW i \in Inode,
                 Tfile' = [Tfile EXCEPT ![dir[p]] = i],
                 text' = [text EXCEPT ![i] = {}]
          PROVE  /\ Tfile' \in [Dir -> Inode \union {None}]
                 /\ text' \in [Inode -> SUBSET Rcpt]
      BY <3>2 DEF TypeOK, SpoolTypeOK
    <3> QED  BY <1>13, <3>1, <3>2 DEF CreateTfile
  <2> QED
    BY <1>13, <2>1, <2>2, <2>3
       DEF CreateTfile, TypeOK, SpoolTypeOK, deliverVars
<1>14. ASSUME NEW p \in Proc, WriteTfile(p) PROVE TypeOK'
  BY <1>14 DEF WriteTfile, Goto, TypeOK, SpoolTypeOK, deliverVars, Label
<1>15. ASSUME NEW p \in Proc, RenameTfile(p) PROVE TypeOK'
  BY <1>15
     DEF RenameTfile, CommitBounce, Goto, TypeOK, SpoolTypeOK, Label
<1>16. ASSUME NEW p \in Proc, MessageCleanup(p) PROVE TypeOK'
  <2>1. move' = move
    BY <1>16 DEF MessageCleanup, EnvMove, Ownership, TypeOK, SpoolTypeOK
  <2>2. pc' \in [Proc -> Label]
    BY <1>16, GotoType
       DEF MessageCleanup, EnvMove, TypeOK, SpoolTypeOK, Label, MoveLabel
  <2>3. hostq' \in [Proc -> {"host", "punt"}] /\ young' \in SUBSET Proc
    BY <1>16 DEF MessageCleanup, TypeOK
  <2>4. held' \in [Proc -> SUBSET Rcpt]
    BY <1>16 DEF MessageCleanup, TypeOK
  <2> QED
    BY <1>16, <2>1, <2>2, <2>3, <2>4
       DEF MessageCleanup, TypeOK, SpoolTypeOK, disk
<1>17. ASSUME NEW p \in Proc, Close(p) PROVE TypeOK'
  BY <1>17, CloseType
     DEF Close, Goto, TypeOK, SpoolTypeOK, Label, Plan, NoPlan
<1>18. ASSUME NEW p \in Proc, PuntAgain(p) PROVE TypeOK'
  BY <1>18 DEF PuntAgain, Goto, TypeOK, SpoolTypeOK, disk, deliverVars, Label
<1>19. ASSUME NEW p \in Proc, PuntLeftOver(p) PROVE TypeOK'
  <2>1. move' = move
    BY <1>19 DEF PuntLeftOver, EnvMove, Ownership, TypeOK, SpoolTypeOK
  <2>2. pc' \in [Proc -> Label]
    BY <1>19, GotoType
       DEF PuntLeftOver, EnvMove, TypeOK, SpoolTypeOK, Label, MoveLabel
  <2> QED
    BY <1>19, <2>1, <2>2
       DEF PuntLeftOver, TypeOK, SpoolTypeOK, disk, deliverVars
<1>20. ASSUME NEW p \in Proc, MoveStep(p), UNCHANGED deliverVars PROVE TypeOK'
  <2>1. move[p] = [to |-> "slow", done |-> "free", failed |-> "free"]
    BY DEF Ownership
  <2>2. CASE MoveLinkD(p)
    <3>1. pc' \in [Proc -> Label]
      BY <2>1, <2>2, GotoType
         DEF MoveLinkD, TypeOK, SpoolTypeOK, Label, MoveLabel
    <3>2. Dfile' \in [Dir -> BOOLEAN]
      BY <2>2 DEF MoveLinkD, TypeOK, SpoolTypeOK
    <3> QED
      BY <2>2, <3>1, <3>2, <1>20
         DEF MoveLinkD, TypeOK, SpoolTypeOK, deliverVars
  <2>3. CASE MoveLinkE(p)
    <3>1. pc' \in [Proc -> Label]
      BY <2>1, <2>3, GotoType
         DEF MoveLinkE, TypeOK, SpoolTypeOK, Label, MoveLabel
    <3>2. Efile' \in [Dir -> Inode \union {None}] /\ fastFiles' \in [Proc -> Nat]
      BY <2>1, <2>3 DEF MoveLinkE, Count, TypeOK, SpoolTypeOK, Dir
    <3> QED
      BY <2>3, <3>1, <3>2, <1>20
         DEF MoveLinkE, TypeOK, SpoolTypeOK, deliverVars
  <2>4. CASE MoveUnlinkE(p)
    <3>1. dir[p] = "fast" => fastFiles[p] > 0
      BY <2>4 DEF MoveUnlinkE, Ownership, Undisturbed, InFast
    <3>2. fastFiles' \in [Proc -> Nat]
      <4>1. fastFiles \in [Proc -> Nat]
        BY DEF TypeOK, SpoolTypeOK
      <4>2. Count(p, dir[p], -1) \/ UNCHANGED fastFiles
        BY <2>4 DEF MoveUnlinkE
      <4> QED  BY <3>1, <4>1, <4>2, CountType
    <3>3. pc' \in [Proc -> Label]
      BY <2>4, GotoType
         DEF MoveUnlinkE, TypeOK, SpoolTypeOK, Label, MoveLabel
    <3> QED
      BY <2>4, <3>2, <3>3, <1>20
         DEF MoveUnlinkE, TypeOK, SpoolTypeOK, deliverVars
  <2>5. CASE MoveUnlinkD(p)
    BY <2>1, <2>5, <1>20
       DEF MoveUnlinkD, Goto, TypeOK, SpoolTypeOK, deliverVars, Label, MoveLabel, Dir
  <2>6. ~MoveUndoE(p) /\ ~MoveUndoD(p)
    BY DEF MoveUndoE, MoveUndoD, Ownership
  <2> QED
    BY <1>20, <2>2, <2>3, <2>4, <2>5, <2>6 DEF MoveStep
<1>21. ASSUME NEW p \in Proc, Crash(p) PROVE TypeOK'
  <2>1. crashes' \in 0..MaxCrashes
    BY <1>21, FlagsAssumption DEF Crash, TypeOK
  <2>2. held' \in [Proc -> SUBSET Rcpt] /\ reported' \in SUBSET Rcpt
    BY <1>21 DEF Crash, CommitBounce, TypeOK
  <2> QED
    BY <1>21, <2>1, <2>2, CloseType
       DEF Crash, Goto, TypeOK, SpoolTypeOK, Label, Plan, NoPlan
<1>22. CASE GetOld
  BY <1>22 DEF GetOld, TypeOK, SpoolTypeOK, spoolVars, disk, memory
<1>23. CASE UNCHANGED vars
  BY <1>23
     DEF vars, TypeOK, SpoolTypeOK, spoolVars, disk, memory, deliverVars
<1> QED
  BY <1>1, <1>2, <1>3, <1>4, <1>5, <1>6, <1>7, <1>8, <1>9, <1>10, <1>11,
     <1>12, <1>13, <1>14, <1>15, <1>16, <1>17, <1>18, <1>19, <1>20, <1>21,
     <1>22, <1>23
     DEF Next, RunnerStep, RunnerMove, Terminating

\* A step that changes no directory and no count, and that neither enters nor
\* leaves the part of env_move after its links, keeps Ownership.
LEMMA QuietStep ==
    ASSUME TypeOK, Ownership, NEW p \in Proc, NEW l \in Label \ MoveLabel,
           pc[p] # "idle", Goto(p, l),
           dir[p] = "slow" \/ l \notin {"stat", "openE", "lockE", "readE"},
           pc[p] \notin {"moveUnlinkE", "moveUnlinkD", "unlinkD", "free"}
             \/ l \in {"free", "idle"},
           UNCHANGED <<Efile, Dfile, dir, fastFiles, move>>
    PROVE  Ownership'
<1> USE DEF Goto, InFast
<1>1. \A q \in Proc : pc'[q] = IF q = p THEN l ELSE pc[q]
  BY DEF TypeOK, SpoolTypeOK
<1>2. \A q \in Proc : InFast(q)' => InFast(q)
  BY <1>1
<1>3. \A q \in Proc : Undisturbed(q)' => Undisturbed(q)
  BY <1>1 DEF Undisturbed
<1>4. \A q, r \in Proc : InFast(q)' /\ InFast(r)' => q = r
  BY <1>2 DEF Ownership
<1>5. ASSUME NEW q \in Proc
      PROVE  /\ dir'[q] \in {"slow", "fast"}
             /\ move'[q] = [to |-> "slow", done |-> "free", failed |-> "free"]
             /\ pc'[q] \notin {"moveUndoE", "moveUndoD"}
             /\ pc'[q] \in {"moveLinkD", "moveLinkE", "moveUnlinkE", "moveUnlinkD"}
                  => dir'[q] = "fast"
             /\ InFast(q)' => pc'[q] \notin {"stat", "openE", "lockE", "readE"}
  BY <1>1, <1>2 DEF Ownership, MoveLabel
<1>6. ASSUME NEW q \in Proc, Undisturbed(q)'
      PROVE  /\ Efile'["slow"] = None
             /\ \A r \in Proc : r # q => pc'[r] = "idle"
  BY <1>1, <1>3, <1>6 DEF Ownership, Undisturbed
<1>7. ASSUME NEW q \in Proc,
             Undisturbed(q)' \/ (InFast(q)' /\ pc'[q] = "moveUnlinkE")
      PROVE  Efile'["fast"] # None /\ Dfile'["fast"] /\ fastFiles'[q] > 0
  BY <1>1, <1>2, <1>3, <1>7 DEF Ownership, MoveLabel
<1> QED
  BY <1>4, <1>5, <1>6, <1>7 DEF Ownership

\* Every step keeps fast to one runner, whose env_move never has to unwind.
LEMMA OwnershipStep ==
    ASSUME BaseInv, [Next]_vars
    PROVE  Ownership'
<1> USE DEF BaseInv
<1>0. TypeOK
  OBVIOUS
<1>1. ASSUME NEW p \in Proc, ReadQueueInfo(p) PROVE Ownership'
  BY <1>1
     DEF ReadQueueInfo, Readable, Goto, TypeOK, SpoolTypeOK, disk, Ownership,
         InFast, Undisturbed
<1>2. ASSUME NEW p \in Proc,
             \/ TimeOrder(p) \/ OpenEfile(p) \/ LockEfile(p) \/ ReadEfile(p)
      PROVE  Ownership'
  <2>1. dir[p] = "slow"
    BY <1>2
       DEF TimeOrder, OpenEfile, LockEfile, ReadEfile, Ownership, InFast
  <2>2. PICK l \in {"idle", "openE", "lockE", "readE", "openD"} : Goto(p, l)
    BY <1>2 DEF TimeOrder, OpenEfile, LockEfile, ReadEfile
  <2>3. /\ pc[p] \in {"stat", "openE", "lockE", "readE"}
        /\ UNCHANGED <<Efile, Dfile, dir, fastFiles, move>>
    BY <1>2 DEF TimeOrder, OpenEfile, LockEfile, ReadEfile, disk
  <2>4. l \in Label \ MoveLabel
    BY DEF Label, MoveLabel
  <2> QED
    BY <1>0, <2>1, <2>2, <2>3, <2>4, QuietStep
<1>3. ASSUME NEW p \in Proc,
             \/ OpenDfile(p) \/ Attempt(p) \/ PuntDown(p) \/ WriteBounce(p)
             \/ Truncate(p) \/ CreateTfile(p) \/ WriteTfile(p)
             \/ Close(p) \/ PuntAgain(p)
      PROVE  Ownership'
  <2> DEFINE Working == {"openD", "attempt", "bounce", "truncate", "createT",
                         "writeT", "keep", "punted"}
             Next1 == Working \union {"unlinkE", "requeue", "renameT"}
  <2>1. \/ pc[p] \in Working /\ \E l \in Next1 : Goto(p, l)
        \/ pc[p] = "free" /\ Goto(p, "idle")
    BY <1>3, FirstStepType
       DEF OpenDfile, Attempt, PuntDown, WriteBounce, Truncate,
           CreateTfile, WriteTfile, Close, PuntAgain
  <2>2. UNCHANGED <<Efile, Dfile, dir, fastFiles, move>>
    BY <1>3
       DEF OpenDfile, Attempt, PuntDown, WriteBounce, Truncate,
           CreateTfile, WriteTfile, Close, PuntAgain, disk
  <2>3. Next1 \union {"idle"} \subseteq Label \ MoveLabel
    BY DEF Label, MoveLabel
  <2>4. CASE pc[p] \in Working /\ \E l \in Next1 : Goto(p, l)
    BY <1>0, <2>2, <2>3, <2>4, QuietStep
  <2>5. CASE pc[p] = "free" /\ Goto(p, "idle")
    BY <1>0, <2>2, <2>3, <2>5, QuietStep
  <2> QED
    BY <2>1, <2>4, <2>5
<1>4. ASSUME NEW p \in Proc, UnlinkEfile(p) PROVE Ownership'
  <2>1. CASE Efile[dir[p]] # None
    <3> USE <1>4, <2>1 DEF UnlinkEfile, Goto, Count
    <3>1. pc' = [pc EXCEPT ![p] = "unlinkD"]
      OBVIOUS
    <3>2. Efile' = [Efile EXCEPT ![dir[p]] = None] /\ UNCHANGED <<Dfile, dir, move>>
      OBVIOUS
    <3>3. CASE dir[p] = "fast"
      <4>1. \A q \in Proc : q # p => pc[q] = "idle"
        BY <3>3 DEF Ownership, Undisturbed, InFast
      <4>2. \A q \in Proc : q # p => pc'[q] = "idle"
        BY <4>1, <3>1 DEF TypeOK, SpoolTypeOK
      <4>3. pc'[p] = "unlinkD"
        BY <3>1 DEF TypeOK, SpoolTypeOK
      <4> QED
        BY <3>2, <3>3, <4>2, <4>3 DEF Ownership, Undisturbed, InFast
    <3>4. CASE dir[p] = "slow"
      <4>1. \A q \in Proc : pc'[q] = IF q = p THEN "unlinkD" ELSE pc[q]
        BY <3>1 DEF TypeOK, SpoolTypeOK
      <4>2. Efile'["slow"] = None /\ Efile'["fast"] = Efile["fast"]
        BY <3>2, <3>4 DEF TypeOK, SpoolTypeOK, Dir
      <4>3. fastFiles' = fastFiles
        BY <3>4
      <4> QED
        BY <3>2, <3>4, <4>1, <4>2, <4>3 DEF Ownership, Undisturbed, InFast
    <3> QED
      BY <3>3, <3>4 DEF Ownership
  <2>2. CASE Efile[dir[p]] = None
    <3>1. PICK l \in {"free", "requeue"} : Goto(p, l)
      BY <1>4, <2>2 DEF UnlinkEfile
    <3>2. l \in Label \ MoveLabel
      BY DEF Label, MoveLabel
    <3>3. pc[p] = "unlinkE" /\ UNCHANGED <<Efile, Dfile, dir, fastFiles, move>>
      BY <1>4, <2>2 DEF UnlinkEfile
    <3> QED
      BY <1>0, <3>1, <3>2, <3>3, QuietStep
  <2> QED
    BY <2>1, <2>2
<1>5. ASSUME NEW p \in Proc, UnlinkDfile(p) PROVE Ownership'
  BY <1>5
     DEF UnlinkDfile, Goto, TypeOK, SpoolTypeOK, Ownership, InFast, Undisturbed
<1>6. ASSUME NEW p \in Proc, RenameTfile(p) PROVE Ownership'
  <2>1. Tfile[dir[p]] # None
    BY <1>6 DEF RenameTfile, OneWriter, Writing
  <2> QED
  BY <1>6, <2>1
     DEF RenameTfile, Goto, TypeOK, SpoolTypeOK, Ownership, InFast, Undisturbed, Dir
<1>7. ASSUME NEW p \in Proc, MessageCleanup(p) \/ PuntLeftOver(p)
      PROVE  Ownership'
  <2>1. /\ pc[p] \in {"requeue", "punted"}
        /\ UNCHANGED <<Efile, Dfile, dir, fastFiles>>
    BY <1>7 DEF MessageCleanup, PuntLeftOver, disk
  <2>2. CASE Goto(p, "keep") /\ UNCHANGED move
    <3>1. "keep" \in Label \ MoveLabel
      BY DEF Label, MoveLabel
    <3> QED
      BY <1>0, <2>1, <2>2, <3>1, QuietStep
  <2>3. CASE EnvMove(p, "slow", "free", "free")
    <3>1. move' = move
      BY <2>3 DEF EnvMove, Ownership, TypeOK, SpoolTypeOK
    <3>2. CASE dir[p] = "slow"
      <4>1. "free" \in Label \ MoveLabel
        BY DEF Label, MoveLabel
      <4> QED
        BY <1>0, <2>1, <2>3, <3>1, <3>2, <4>1, QuietStep DEF EnvMove
    <3>3. CASE dir[p] # "slow"
      <4>1. pc' = [pc EXCEPT ![p] = "moveLinkD"] /\ dir[p] = "fast"
        BY <2>3, <3>3 DEF EnvMove, Goto, Ownership
      <4> QED
        BY <2>1, <3>1, <4>1
           DEF TypeOK, SpoolTypeOK, Ownership, InFast, Undisturbed
    <3> QED
      BY <3>2, <3>3
  <2> QED
    BY <1>7, <2>2, <2>3 DEF MessageCleanup, PuntLeftOver
<1>8. ASSUME NEW p \in Proc, MoveStep(p), UNCHANGED deliverVars
      PROVE  Ownership'
  <2>1. /\ move[p] = [to |-> "slow", done |-> "free", failed |-> "free"]
        /\ pc[p] \notin {"moveUndoE", "moveUndoD"}
    BY DEF Ownership
  <2>2. CASE MoveLinkD(p)
    <3>1. InFast(p) /\ Undisturbed(p)
      BY <2>2 DEF MoveLinkD, Ownership, InFast, Undisturbed
    <3>2. \A q \in Proc : q # p => pc'[q] = "idle"
      BY <2>2, <3>1 DEF MoveLinkD, Goto, TypeOK, SpoolTypeOK, Ownership
    <3>3. pc'[p] \in {"moveLinkE", "free"}
      BY <2>1, <2>2 DEF MoveLinkD, Goto, TypeOK, SpoolTypeOK
    <3>4. /\ UNCHANGED <<Efile, dir, fastFiles, move>>
          /\ Dfile'["fast"] = Dfile["fast"]
      BY <2>1, <2>2 DEF MoveLinkD, TypeOK, SpoolTypeOK, Dir
    <3> QED
      BY <3>1, <3>2, <3>3, <3>4 DEF Ownership, InFast, Undisturbed
  <2>3. CASE MoveLinkE(p)
    <3>1. InFast(p) /\ Undisturbed(p)
      BY <2>3 DEF MoveLinkE, Ownership, InFast, Undisturbed
    <3>2. Efile["slow"] = None /\ Efile["fast"] # None
      BY <3>1 DEF Ownership
    <3>3. /\ pc' = [pc EXCEPT ![p] = "moveUnlinkE"]
          /\ Efile' = [Efile EXCEPT !["slow"] = Efile["fast"]]
          /\ UNCHANGED <<Dfile, dir, fastFiles, move>>
      BY <2>1, <2>3, <3>1, <3>2 DEF MoveLinkE, Goto, Count, InFast
    <3>4. \A q \in Proc : q # p => pc'[q] = "idle"
      BY <3>1, <3>3 DEF TypeOK, SpoolTypeOK, Ownership
    <3> QED
      BY <3>1, <3>3, <3>4
         DEF TypeOK, SpoolTypeOK, Ownership, InFast, Undisturbed, Dir
  <2>4. CASE MoveUnlinkE(p)
    <3>1. InFast(p) /\ dir[p] = "fast" /\ pc[p] = "moveUnlinkE"
      BY <2>4 DEF MoveUnlinkE, Ownership, InFast
    <3>2. Efile["fast"] # None
      BY <3>1 DEF Ownership
    <3>3. /\ pc' = [pc EXCEPT ![p] = "moveUnlinkD"]
          /\ UNCHANGED <<Dfile, dir, move>>
      BY <2>4, <3>1, <3>2 DEF MoveUnlinkE, Goto
    <3>4. \A q \in Proc : ~Undisturbed(q) /\ (InFast(q) => q = p)
      BY <3>1 DEF Ownership, Undisturbed
    <3>5. \A q \in Proc : q # p => pc'[q] = pc[q]
      BY <3>3 DEF TypeOK, SpoolTypeOK
    <3>6. \A q \in Proc : InFast(q)' => q = p
      BY <3>3, <3>4, <3>5 DEF InFast
    <3>7. pc'[p] = "moveUnlinkD"
      BY <3>3 DEF TypeOK, SpoolTypeOK
    <3>8. \A q \in Proc : ~Undisturbed(q)'
      BY <3>6, <3>7 DEF Undisturbed
    <3> QED
      BY <3>1, <3>3, <3>5, <3>6, <3>7, <3>8 DEF Ownership
  <2>5. CASE MoveUnlinkD(p)
    <3>1. InFast(p) /\ dir[p] = "fast" /\ pc[p] = "moveUnlinkD"
      BY <2>5 DEF MoveUnlinkD, Ownership, InFast
    <3>2. /\ pc' = [pc EXCEPT ![p] = "free"]
          /\ dir' = [dir EXCEPT ![p] = "slow"]
          /\ UNCHANGED move
      BY <2>1, <2>5 DEF MoveUnlinkD, Goto
    <3>3. \A q \in Proc : ~InFast(q)'
      BY <3>1, <3>2 DEF TypeOK, SpoolTypeOK, Ownership, InFast
    <3> QED
      BY <3>2, <3>3 DEF TypeOK, SpoolTypeOK, Ownership, Undisturbed
  <2> QED
    BY <1>8, <2>1, <2>2, <2>3, <2>4, <2>5
       DEF MoveStep, MoveUndoE, MoveUndoD
<1>9. ASSUME NEW p \in Proc, Crash(p) PROVE Ownership'
  <2>1. \A q \in Proc : /\ pc'[q] = IF q = p THEN "idle" ELSE pc[q]
                        /\ fastFiles'[q] = IF q = p THEN 0 ELSE fastFiles[q]
    BY <1>9 DEF Crash, Goto, TypeOK, SpoolTypeOK
  <2>2. UNCHANGED <<Efile, Dfile, dir, move>>
    BY <1>9 DEF Crash
  <2> QED
    BY <2>1, <2>2 DEF Ownership, InFast, Undisturbed
<1>10. CASE GetOld \/ UNCHANGED vars
  BY <1>10
     DEF GetOld, vars, spoolVars, disk, memory, Ownership, InFast, Undisturbed
<1> QED
  BY <1>1, <1>2, <1>3, <1>4, <1>5, <1>6, <1>7, <1>8, <1>9, <1>10
     DEF Next, RunnerStep, RunnerMove, Terminating

\* Every step keeps a t file to its writer: O_EXCL admits no second one.
LEMMA OneWriterStep ==
    ASSUME BaseInv, [Next]_vars
    PROVE  OneWriter'
<1> USE DEF BaseInv
<1>0. TypeOK
  OBVIOUS
<1>1. ASSUME NEW p \in Proc, NEW l \in Label \ {"lockE", "readE", "writeT", "renameT"},
             Goto(p, l), UNCHANGED Tfile,
             \A q \in Proc \ {p} : dir'[q] = dir[q] /\ fd'[q] = fd[q]
      PROVE  OneWriter'
  <2>1. \A q \in Proc : pc'[q] = IF q = p THEN l ELSE pc[q]
    BY <1>1 DEF Goto, TypeOK, SpoolTypeOK
  <2> QED
    BY <1>1, <2>1 DEF OneWriter, Writing
<1>2. ASSUME NEW p \in Proc, ReadQueueInfo(p) PROVE OneWriter'
  <2>1. Goto(p, "stat") /\ UNCHANGED <<Tfile, fd>>
        /\ \A q \in Proc \ {p} : dir'[q] = dir[q]
    BY <1>2 DEF ReadQueueInfo, disk, TypeOK, SpoolTypeOK
  <2>2. "stat" \in Label \ {"lockE", "readE", "writeT", "renameT"}
    BY DEF Label
  <2> QED  BY <1>1, <2>1, <2>2
<1>3. ASSUME NEW p \in Proc, OpenEfile(p) PROVE OneWriter'
  BY <1>3
     DEF OpenEfile, Goto, TypeOK, SpoolTypeOK, disk, OneWriter, Writing
<1>4. ASSUME NEW p \in Proc, LockEfile(p) PROVE OneWriter'
  BY <1>4 DEF LockEfile, Goto, TypeOK, SpoolTypeOK, OneWriter, Writing
<1>5. ASSUME NEW p \in Proc,
             \/ ReadEfile(p) \/ Close(p) \/ Crash(p)
      PROVE OneWriter'
  <2>1. \E l \in {"openD", "idle"} : Goto(p, l)
    BY <1>5 DEF ReadEfile, Close, Crash
  <2>2. /\ UNCHANGED <<Tfile, dir>>
        /\ \A q \in Proc \ {p} : fd'[q] = fd[q]
    BY <1>5 DEF ReadEfile, Close, Crash, CloseLock, TypeOK, SpoolTypeOK
  <2>3. {"openD", "idle"} \subseteq Label \ {"lockE", "readE", "writeT", "renameT"}
    BY DEF Label
  <2> QED  BY <1>1, <2>1, <2>2, <2>3
<1>6. ASSUME NEW p \in Proc,
             \/ TimeOrder(p)
             \/ OpenDfile(p) \/ Attempt(p) \/ PuntDown(p) \/ WriteBounce(p)
             \/ Truncate(p) \/ UnlinkEfile(p) \/ UnlinkDfile(p) \/ PuntAgain(p)
      PROVE  OneWriter'
  <2> DEFINE After == {"openE", "idle", "openD", "attempt", "requeue", "punted",
                       "bounce", "truncate", "unlinkE", "createT", "unlinkD",
                       "free"}
  <2>1. \E l \in After : Goto(p, l)
    BY <1>6, FirstStepType
       DEF TimeOrder, OpenDfile, Attempt, PuntDown, WriteBounce, Truncate,
           UnlinkEfile, UnlinkDfile, PuntAgain
  <2>2. UNCHANGED <<Tfile, dir, fd>>
    BY <1>6
       DEF TimeOrder, OpenDfile, Attempt, PuntDown, WriteBounce, Truncate,
           UnlinkEfile, UnlinkDfile, PuntAgain, disk
  <2>3. After \subseteq Label \ {"lockE", "readE", "writeT", "renameT"}
    BY DEF Label
  <2> QED  BY <1>1, <2>1, <2>2, <2>3
<1>7. ASSUME NEW p \in Proc, MessageCleanup(p) \/ PuntLeftOver(p)
      PROVE  OneWriter'
  <2>1. \E l \in {"keep", "free", "moveLinkD"} : Goto(p, l)
    BY <1>7 DEF MessageCleanup, PuntLeftOver, EnvMove
  <2>2. UNCHANGED <<Tfile, dir, fd>>
    BY <1>7 DEF MessageCleanup, PuntLeftOver, disk
  <2>3. {"keep", "free", "moveLinkD"}
          \subseteq Label \ {"lockE", "readE", "writeT", "renameT"}
    BY DEF Label, MoveLabel
  <2> QED  BY <1>1, <2>1, <2>2, <2>3
<1>8. ASSUME NEW p \in Proc, MoveStep(p), UNCHANGED deliverVars
      PROVE  OneWriter'
  <2>1. move[p] = [to |-> "slow", done |-> "free", failed |-> "free"]
    BY DEF Ownership
  <2>2. \E l \in MoveLabel \union {"free"} : Goto(p, l)
    BY <1>8, <2>1
       DEF MoveStep, MoveLinkD, MoveLinkE, MoveUnlinkE, MoveUnlinkD, MoveUndoE,
           MoveUndoD, MoveLabel
  <2>3. /\ UNCHANGED <<Tfile, fd>>
        /\ \A q \in Proc \ {p} : dir'[q] = dir[q]
    BY <1>8
       DEF MoveStep, MoveLinkD, MoveLinkE, MoveUnlinkE, MoveUnlinkD, MoveUndoE,
           MoveUndoD, TypeOK, SpoolTypeOK
  <2>4. MoveLabel \union {"free"}
          \subseteq Label \ {"lockE", "readE", "writeT", "renameT"}
    BY DEF Label, MoveLabel
  <2> QED  BY <1>1, <2>2, <2>3, <2>4
<1>9. ASSUME NEW p \in Proc, CreateTfile(p) PROVE OneWriter'
  <2>1. CASE Goto(p, "requeue") /\ UNCHANGED Tfile
    <3>1. UNCHANGED <<dir, fd>>
      BY <1>9 DEF CreateTfile
    <3>2. "requeue" \in Label \ {"lockE", "readE", "writeT", "renameT"}
      BY DEF Label
    <3> QED  BY <1>1, <2>1, <3>1, <3>2
  <2>2. ASSUME NEW i \in Inode, Tfile[dir[p]] = None,
               Tfile' = [Tfile EXCEPT ![dir[p]] = i], Goto(p, "writeT")
        PROVE  OneWriter'
    <3>1. UNCHANGED <<dir, fd>>
      BY <1>9 DEF CreateTfile
    <3>2. \A q \in Proc : pc'[q] = IF q = p THEN "writeT" ELSE pc[q]
      BY <2>2 DEF Goto, TypeOK, SpoolTypeOK
    <3>3. \A q \in Proc : Writing(q) => dir[q] # dir[p]
      BY <2>2 DEF OneWriter
    <3>4. Tfile'[dir[p]] # None /\ \A d \in Dir : d # dir[p] => Tfile'[d] = Tfile[d]
      BY <2>2, NoneAssumption DEF TypeOK, SpoolTypeOK
    <3> QED
      BY <3>1, <3>2, <3>3, <3>4 DEF OneWriter, Writing, TypeOK, SpoolTypeOK
  <2> QED
    BY <1>9, <2>1, <2>2 DEF CreateTfile
<1>10. ASSUME NEW p \in Proc, WriteTfile(p) PROVE OneWriter'
  <2>1. /\ UNCHANGED <<Tfile, dir, fd>> /\ Writing(p)
        /\ \A q \in Proc : pc'[q] = IF q = p THEN "renameT" ELSE pc[q]
    BY <1>10 DEF WriteTfile, Writing, Goto, TypeOK, SpoolTypeOK
  <2> QED
    BY <2>1 DEF OneWriter, Writing
<1>11. ASSUME NEW p \in Proc, RenameTfile(p) PROVE OneWriter'
  <2>1. /\ UNCHANGED <<dir, fd>> /\ Writing(p)
        /\ \A q \in Proc : pc'[q] = IF q = p THEN "requeue" ELSE pc[q]
    BY <1>11 DEF RenameTfile, Writing, Goto, TypeOK, SpoolTypeOK
  <2>2. \A d \in Dir : d # dir[p] => Tfile'[d] = Tfile[d]
    BY <1>11 DEF RenameTfile, TypeOK, SpoolTypeOK
  <2> QED
    BY <2>1, <2>2 DEF OneWriter, Writing, TypeOK, SpoolTypeOK
<1>12. CASE GetOld \/ UNCHANGED vars
  BY <1>12
     DEF GetOld, vars, spoolVars, disk, memory, OneWriter, Writing
<1> QED
  BY <1>2, <1>3, <1>4, <1>5, <1>6, <1>7, <1>8, <1>9, <1>10, <1>11, <1>12
     DEF Next, RunnerStep, RunnerMove, Terminating

\* The invariant holds at the start.
LEMMA BaseInit == Init => BaseInv
<1> SUFFICES ASSUME NEW i \in Inode, NEW d \in {"slow", "fast"},
                    NEW creator \in Proc, InitAt(i, d, creator)
             PROVE  BaseInv
  BY DEF Init
<1> USE DEF InitAt
<1>1. d \in Dir
  BY DEF Dir
<1>2. TypeOK
  <2>1. crashes \in 0..MaxCrashes
    BY FlagsAssumption
  <2>2. pc \in [Proc -> Label]
    BY DEF Label
  <2>3. move \in [Proc -> [to : Dir, done : Label, failed : Label]]
    BY DEF Label, Dir
  <2>4. plan \in [Proc -> Plan]
    BY DEF Plan, NoPlan
  <2>5. /\ Efile \in [Dir -> Inode \union {None}]
        /\ Dfile \in [Dir -> BOOLEAN]
        /\ Tfile \in [Dir -> Inode \union {None}]
    OBVIOUS
  <2>6. /\ text \in [Inode -> SUBSET Rcpt]
        /\ lock \in [Inode -> Proc \union {None}]
        /\ fd \in [Proc -> Inode \union {None}]
    OBVIOUS
  <2>7. /\ dir \in [Proc -> Dir]
        /\ rcpt \in [Proc -> SUBSET Rcpt]
        /\ fastFiles \in [Proc -> Nat]
    BY <1>1
  <2>8. /\ hostq \in [Proc -> {"host", "punt"}]
        /\ copies \in [Rcpt -> 0..2]
    OBVIOUS
  <2>9. /\ held \in [Proc -> SUBSET Rcpt] /\ reported \in SUBSET Rcpt
        /\ old \in BOOLEAN /\ young \in SUBSET Proc
    OBVIOUS
  <2> QED
    BY <2>1, <2>2, <2>3, <2>4, <2>5, <2>6, <2>7, <2>8, <2>9 DEF TypeOK, SpoolTypeOK
<1>3. Ownership
  <2>1. \A p \in Proc : InFast(p) => d = "fast" /\ p = creator /\ pc[p] = "openD"
    BY DEF InFast
  <2>2. ASSUME d = "fast"
        PROVE  /\ Efile["slow"] = None /\ Efile["fast"] # None
               /\ Dfile["fast"] /\ fastFiles[creator] > 0
               /\ \A q \in Proc : q # creator => pc[q] = "idle"
    <3>1. Efile["slow"] = None /\ Efile["fast"] = i /\ Dfile["fast"]
      BY <2>2 DEF Dir
    <3>2. fastFiles[creator] = 1 /\ \A q \in Proc : q # creator => pc[q] = "idle"
      BY <2>2
    <3> QED  BY <3>1, <3>2, NoneAssumption
  <2>3. \A p \in Proc :
          /\ dir[p] \in {"slow", "fast"} /\ pc[p] \in {"openD", "idle"}
          /\ move[p] = [to |-> "slow", done |-> "free", failed |-> "free"]
    OBVIOUS
  <2> QED
    BY <2>1, <2>2, <2>3 DEF Ownership, Undisturbed
<1>4. OneWriter
  BY DEF OneWriter, Writing
<1> QED
  BY <1>2, <1>3, <1>4 DEF BaseInv

\* BaseInv is inductive.
THEOREM BaseInvariant == Spec => []BaseInv
<1>1. BaseInv /\ [Next]_vars => BaseInv'
  BY TypeStep, OwnershipStep, OneWriterStep DEF BaseInv
<1> QED
  BY BaseInit, <1>1, PTL DEF Spec

\* Type correctness, whatever is killed or fails: in particular the count
\* simta_fast_files of queue.c and envelope.c never falls below zero, as their
\* asserts demand, and the tables hold what the code puts in them.
THEOREM TypeCorrect == Spec => []TypeOK
<1>1. BaseInv => TypeOK
  BY DEF BaseInv
<1> QED
  BY BaseInvariant, <1>1, PTL

---------------------------------------------------------------------------
(* Frames.                                                                 *)

\* A step of one runner leaves the memory of the others alone.
LEMMA LocalStep ==
    ASSUME TypeOK, NEW p \in Proc, RunnerStep(p) \/ Crash(p),
           NEW q \in Proc \ {p}
    PROVE  /\ pc'[q] = pc[q] /\ dir'[q] = dir[q] /\ rcpt'[q] = rcpt[q]
           /\ fd'[q] = fd[q] /\ hostq'[q] = hostq[q]
           /\ plan'[q] = plan[q] /\ held'[q] = held[q]
<1> USE DEF TypeOK, SpoolTypeOK, Goto
<1>1. CASE \/ ReadQueueInfo(p) \/ TimeOrder(p) \/ OpenEfile(p) \/ LockEfile(p)
           \/ ReadEfile(p) \/ OpenDfile(p)
  BY <1>1
     DEF ReadQueueInfo, TimeOrder, OpenEfile, LockEfile, ReadEfile, OpenDfile,
         CloseLock, deliverVars
<1>2. CASE Attempt(p) \/ PuntDown(p) \/ WriteBounce(p)
  BY <1>2 DEF Attempt, PuntDown, WriteBounce, deliverVars
<1>3. CASE Truncate(p) \/ UnlinkEfile(p) \/ UnlinkDfile(p)
  BY <1>3 DEF Truncate, UnlinkEfile, UnlinkDfile, CommitBounce, deliverVars
<1>4. CASE CreateTfile(p) \/ WriteTfile(p) \/ RenameTfile(p)
  BY <1>4 DEF CreateTfile, WriteTfile, RenameTfile, CommitBounce, deliverVars
<1>5. CASE MessageCleanup(p) \/ Close(p) \/ PuntAgain(p) \/ PuntLeftOver(p)
  BY <1>5
     DEF MessageCleanup, Close, PuntAgain, PuntLeftOver, EnvMove, CloseLock,
         deliverVars
<1>6. CASE MoveStep(p) /\ UNCHANGED deliverVars
  BY <1>6
     DEF MoveStep, MoveLinkD, MoveLinkE, MoveUnlinkE, MoveUnlinkD, MoveUndoE,
         MoveUndoD, deliverVars
<1>7. CASE Crash(p)
  BY <1>7 DEF Crash, CloseLock, CommitBounce
<1> QED
  BY <1>1, <1>2, <1>3, <1>4, <1>5, <1>6, <1>7 DEF RunnerStep, RunnerMove

\* Nothing takes back a delivery or a bounce that was queued.
LEMMA ReportStep ==
    ASSUME TypeOK, NEW p \in Proc, RunnerStep(p) \/ Crash(p)
    PROVE  reported \subseteq reported' /\ Delivered \subseteq Delivered'
<1>1. reported \subseteq reported'
  BY DEF RunnerStep, ReadQueueInfo, TimeOrder, OpenEfile, LockEfile, ReadEfile,
         OpenDfile, Attempt, PuntDown, WriteBounce, Truncate, UnlinkEfile,
         UnlinkDfile, CreateTfile, WriteTfile, RenameTfile, MessageCleanup,
         Close, PuntAgain, PuntLeftOver, RunnerMove, Crash, CommitBounce,
         deliverVars
<1>2. ASSUME NEW took \in SUBSET rcpt[p], NEW heard \in BOOLEAN,
             HandOver(took, heard)
      PROVE  Delivered \subseteq Delivered'
  <2>1. took \in SUBSET Rcpt
    BY DEF TypeOK, SpoolTypeOK
  <2> QED  BY <1>2, <2>1, HandOverStep
<1>3. CASE Attempt(p)
  <2>1. Delivered \subseteq Delivered'
    BY <1>2, <1>3, AttemptOutcome
  <2> QED  BY <1>1, <2>1
<1>4. CASE PuntDown(p)
  <2>1. CASE copies' = copies
    BY <1>1, <2>1 DEF Delivered
  <2>2. CASE HandOver(rcpt[p], FALSE)
    <3>1. Delivered \subseteq Delivered'
      BY <1>2, <2>2
    <3> QED  BY <1>1, <3>1
  <2> QED  BY <1>4, <2>1, <2>2 DEF PuntDown
<1>5. CASE ~Attempt(p) /\ ~PuntDown(p)
  <2>1. copies' = copies
    BY <1>5
       DEF RunnerStep, ReadQueueInfo, TimeOrder, OpenEfile, LockEfile,
           ReadEfile, OpenDfile, WriteBounce, Truncate, UnlinkEfile,
           UnlinkDfile, CreateTfile, WriteTfile, RenameTfile, MessageCleanup,
           Close, PuntAgain, PuntLeftOver, RunnerMove, Crash, deliverVars
  <2> QED  BY <1>1, <2>1 DEF Delivered
<1> QED  BY <1>3, <1>4, <1>5

\* So the undone recipients only get fewer.
LEMMA UndoneStep ==
    ASSUME TypeOK, NEW p \in Proc, RunnerStep(p) \/ Crash(p)
    PROVE  Undone' \subseteq Undone
BY ReportStep DEF Undone

\* Queueing a bounce answers the recipients it lists, and no others.
LEMMA CommitStep ==
    ASSUME TypeOK, NEW p \in Proc, CommitBounce(p), UNCHANGED copies
    PROVE  Undone' = Undone \ held[p] /\ held'[p] = {}
BY DEF CommitBounce, Undone, Delivered, TypeOK

\* What an attempt leaves undone goes into the bounce it calls for; an attempt
\* that calls for none leaves nobody undone that its plan drops.
LEMMA AttemptStep ==
    ASSUME TypeOK, NoPunting, NEW p \in Proc, Attempt(p), Undone \subseteq rcpt[p]
    PROVE  LET D == plan'[p]
           IN /\ pc'[p] = "bounce" =>
                  /\ D.kind = "delete" => Undone' \subseteq D.report
                  /\ D.kind = "rewrite" => Undone' \intersect D.remove \subseteq D.report
              /\ pc'[p] # "bounce" =>
                  /\ pc'[p] = FirstStep(p, D.kind)
                  /\ D.kind = "delete" => Undone' = {}
                  /\ D.kind = "rewrite" => Undone' \intersect D.remove = {}
<1>1. hostq[p] = "host"
  BY DEF NoPunting
<1>0. rcpt[p] \in SUBSET Rcpt /\ Aged(p) \in BOOLEAN
  BY DEF TypeOK, SpoolTypeOK, Aged
<1>a. PICK heard \in BOOLEAN, took \in SUBSET rcpt[p] :
      \E o \in HostOutcome(rcpt[p]) :
          /\ o.accepted \subseteq took
          /\ HandOver(took, heard)
          /\ plan' = [plan EXCEPT ![p] = Decide(rcpt[p], o, Aged(p))]
          /\ Goto(p, IF BounceAll(rcpt[p], o, Aged(p)) \/ o.counted # {}
                     THEN "bounce"
                     ELSE FirstStep(p, Decide(rcpt[p], o, Aged(p)).kind))
  BY <1>1, AttemptOutcome
<1>2. PICK o \in HostOutcome(rcpt[p]) :
          /\ o.accepted \subseteq took
          /\ HandOver(took, heard)
          /\ plan' = [plan EXCEPT ![p] = Decide(rcpt[p], o, Aged(p))]
          /\ Goto(p, IF BounceAll(rcpt[p], o, Aged(p)) \/ o.counted # {}
                     THEN "bounce"
                     ELSE FirstStep(p, Decide(rcpt[p], o, Aged(p)).kind))
  BY <1>a
<1> DEFINE D == Decide(rcpt[p], o, Aged(p))
           bounced == BounceAll(rcpt[p], o, Aged(p)) \/ o.counted # {}
           Left == Undone \ o.accepted
<1>3. plan'[p] = D
  BY <1>2 DEF TypeOK
<1>4. pc'[p] = IF bounced THEN "bounce" ELSE FirstStep(p, D.kind)
  BY <1>2 DEF Goto, TypeOK, SpoolTypeOK
<1>5. Undone' \subseteq Left
  <2>1. Delivered' = Delivered \union took
    BY <1>0, <1>2, HandOverStep
  <2>2. reported' = reported
    BY DEF Attempt
  <2> QED  BY <1>2, <2>1, <2>2 DEF Undone
<1>6. /\ D.kind = "delete" => Left \subseteq D.report
      /\ D.kind = "rewrite" => Left \intersect D.remove \subseteq D.report
      /\ ~bounced /\ D.kind = "delete" => Left = {}
      /\ ~bounced /\ D.kind = "rewrite" => Left \intersect D.remove = {}
  BY <1>0, DecideKeepsPromise
<1>7. FirstStep(p, D.kind) # "bounce"
  BY FirstStepType
<1> HIDE DEF D, bounced, Left
<1> QED
  BY <1>3, <1>4, <1>5, <1>6, <1>7

\* A step changes the text of an inode only by truncating an envelope nobody
\* depends on, or by making and filling a t file of the runner's own.
LEMMA TextStep ==
    ASSUME BaseInv, TfilesApart, NothingUnreported,
           NEW p \in Proc, RunnerStep(p) \/ Crash(p), NEW i \in Inode
    PROVE  \/ text'[i] = text[i]
           \/ Undone' = {}
           \/ CreateTfile(p) /\ Fresh(i) /\ pc'[p] = "writeT"
           \/ WriteTfile(p) /\ i = Tfile[dir[p]]
<1> USE DEF BaseInv, TypeOK, SpoolTypeOK
<1>1. CASE Truncate(p)
  <2>1. Undone \subseteq held[p]
    BY <1>1 DEF Truncate, NothingUnreported
  <2> QED  BY <1>1, <2>1, CommitStep DEF Truncate
<1>2. CASE CreateTfile(p)
  <2>1. CASE UNCHANGED text
    BY <2>1
  <2>2. ASSUME NEW j \in Inode, Fresh(j), text' = [text EXCEPT ![j] = {}],
               Goto(p, "writeT")
        PROVE  text'[i] = text[i] \/ (Fresh(i) /\ pc'[p] = "writeT")
    BY <2>2 DEF Goto
  <2> QED  BY <1>2, <2>1, <2>2 DEF CreateTfile
<1>3. CASE WriteTfile(p)
  BY <1>3 DEF WriteTfile
<1>4. CASE ~(Truncate(p) \/ CreateTfile(p) \/ WriteTfile(p))
  <2>1. UNCHANGED text
    <3>1. CASE \/ MoveStep(p) \/ UnlinkEfile(p) \/ UnlinkDfile(p)
               \/ RenameTfile(p) \/ LockEfile(p) \/ ReadEfile(p)
               \/ Close(p) \/ Crash(p)
      BY <3>1
         DEF MoveStep, MoveLinkD, MoveLinkE, MoveUnlinkE, MoveUnlinkD,
             MoveUndoE, MoveUndoD, UnlinkEfile, UnlinkDfile, RenameTfile,
             LockEfile, ReadEfile, Close, Crash
    <3>2. CASE \/ ReadQueueInfo(p) \/ TimeOrder(p) \/ OpenEfile(p)
               \/ OpenDfile(p) \/ Attempt(p) \/ PuntDown(p) \/ WriteBounce(p)
               \/ MessageCleanup(p) \/ PuntAgain(p) \/ PuntLeftOver(p)
      BY <3>2
         DEF ReadQueueInfo, TimeOrder, OpenEfile, OpenDfile, Attempt, PuntDown,
             WriteBounce, MessageCleanup, PuntAgain, PuntLeftOver, disk
    <3> QED  BY <1>4, <3>1, <3>2 DEF RunnerStep, RunnerMove
  <2> QED  BY <2>1
<1> QED  BY <1>1, <1>2, <1>3, <1>4

---------------------------------------------------------------------------
(* Every step keeps the parts of the invariant.                            *)

\* Without a punt queue message_cleanup never keeps a message.
LEMMA NoPuntingStep ==
    ASSUME ~Punt, TypeOK, NoPunting, Ownership,
           NEW p \in Proc, RunnerStep(p) \/ Crash(p)
    PROVE  NoPunting'
<1> USE DEF NoPunting
<1>1. \A q \in Proc \ {p} : pc'[q] = pc[q] /\ hostq'[q] = hostq[q]
  BY LocalStep
<1>2. hostq'[p] = "host"
  <2>1. CASE ReadQueueInfo(p)
    BY <2>1 DEF ReadQueueInfo, TypeOK
  <2>2. CASE MessageCleanup(p)
    BY <2>2 DEF MessageCleanup, TypeOK
  <2>3. CASE ~ReadQueueInfo(p) /\ ~MessageCleanup(p)
    BY <2>3
       DEF RunnerStep, TimeOrder, OpenEfile, LockEfile, ReadEfile,
           OpenDfile, Attempt, PuntDown, WriteBounce, Truncate, UnlinkEfile,
           UnlinkDfile, CreateTfile, WriteTfile, RenameTfile,
           Close, PuntAgain, PuntLeftOver, RunnerMove, Crash, deliverVars
  <2> QED  BY <2>1, <2>2, <2>3
<1>3. pc'[p] \notin {"keep", "punted"}
  <2> USE DEF Goto, TypeOK, SpoolTypeOK
  <2>1. CASE \/ ReadQueueInfo(p) \/ TimeOrder(p) \/ OpenEfile(p) \/ LockEfile(p)
             \/ ReadEfile(p) \/ OpenDfile(p)
    BY <2>1
       DEF ReadQueueInfo, TimeOrder, OpenEfile, LockEfile, ReadEfile, OpenDfile
  <2>2. CASE Attempt(p) \/ WriteBounce(p)
    <3>1. PICK l \in {"bounce", "requeue", "truncate", "unlinkE", "createT"} :
            Goto(p, l)
      BY <2>2, FirstStepType DEF Attempt, WriteBounce
    <3> QED  BY <3>1
  <2>3. CASE Truncate(p) \/ UnlinkEfile(p) \/ UnlinkDfile(p)
    BY <2>3 DEF Truncate, UnlinkEfile, UnlinkDfile
  <2>4. CASE CreateTfile(p) \/ WriteTfile(p) \/ RenameTfile(p)
    BY <2>4 DEF CreateTfile, WriteTfile, RenameTfile
  <2>5. CASE MessageCleanup(p) \/ Close(p) \/ Crash(p)
    BY <2>5 DEF MessageCleanup, Close, Crash, EnvMove
  <2>6. CASE PuntDown(p) \/ PuntAgain(p) \/ PuntLeftOver(p)
    BY <2>6 DEF PuntDown, PuntAgain, PuntLeftOver
  <2>7. CASE MoveStep(p)
    <3>1. move[p] = [to |-> "slow", done |-> "free", failed |-> "free"]
      BY DEF Ownership
    <3> QED
      BY <2>7, <3>1
         DEF MoveStep, MoveLinkD, MoveLinkE, MoveUnlinkE, MoveUnlinkD,
             MoveUndoE, MoveUndoD
  <2> QED
    BY <2>1, <2>2, <2>3, <2>4, <2>5, <2>6, <2>7 DEF RunnerStep, RunnerMove
<1> QED
  BY <1>1, <1>2, <1>3

\* A t file keeps an inode of its own.
LEMMA TfilesApartStep ==
    ASSUME BaseInv, TfilesApart, NEW p \in Proc, RunnerStep(p) \/ Crash(p)
    PROVE  TfilesApart'
<1> USE DEF BaseInv, TypeOK, SpoolTypeOK
<1>1. CASE CreateTfile(p)
  <2>1. CASE UNCHANGED Tfile
    BY <1>1, <2>1 DEF CreateTfile, TfilesApart
  <2>2. ASSUME NEW i \in Inode, Fresh(i), Tfile' = [Tfile EXCEPT ![dir[p]] = i]
        PROVE  TfilesApart'
    BY <1>1, <2>2 DEF CreateTfile, TfilesApart, Fresh
  <2> QED  BY <1>1, <2>1, <2>2 DEF CreateTfile
<1>2. CASE RenameTfile(p)
  <2>1. /\ Efile' = [Efile EXCEPT ![dir[p]] = Tfile[dir[p]]]
        /\ Tfile' = [Tfile EXCEPT ![dir[p]] = None]
        /\ UNCHANGED fd
    BY <1>2 DEF RenameTfile
  <2> QED  BY <2>1 DEF TfilesApart
<1>3. CASE OpenEfile(p)
  BY <1>3 DEF OpenEfile, disk, TfilesApart
<1>4. CASE MoveLinkE(p)
  BY <1>4 DEF MoveLinkE, TfilesApart
<1>5. CASE \/ MoveUnlinkE(p) \/ MoveUndoE(p) \/ UnlinkEfile(p)
  <2>1. /\ UNCHANGED <<Tfile, fd>>
        /\ \A d \in Dir : Efile'[d] \in {Efile[d], None}
    BY <1>5 DEF MoveUnlinkE, MoveUndoE, UnlinkEfile
  <2> QED  BY <2>1 DEF TfilesApart
<1>6. CASE ~(\/ CreateTfile(p) \/ RenameTfile(p) \/ OpenEfile(p) \/ MoveLinkE(p)
             \/ MoveUnlinkE(p) \/ MoveUndoE(p) \/ UnlinkEfile(p))
  <2>1. /\ UNCHANGED <<Efile, Tfile>>
        /\ \A q \in Proc : fd'[q] \in {fd[q], None}
    <3> USE <1>6
    <3>1. CASE LockEfile(p) \/ ReadEfile(p) \/ Close(p) \/ Crash(p)
      BY <3>1 DEF LockEfile, ReadEfile, Close, Crash, CloseLock
    <3>2. CASE MoveStep(p)
      BY <3>2 DEF MoveStep, MoveLinkD, MoveUnlinkD, MoveUndoD
    <3>3. CASE ~(\/ LockEfile(p) \/ ReadEfile(p) \/ Close(p) \/ Crash(p) \/ MoveStep(p))
      BY <3>3
         DEF RunnerStep, ReadQueueInfo, TimeOrder, OpenDfile, Attempt,
             PuntDown, WriteBounce, Truncate, UnlinkDfile, WriteTfile,
             MessageCleanup, PuntAgain, PuntLeftOver, RunnerMove, disk
    <3> QED  BY <3>1, <3>2, <3>3
  <2> QED  BY <2>1 DEF TfilesApart
<1> QED
  BY <1>1, <1>2, <1>3, <1>4, <1>5, <1>6

\* What a runner drops is in the bounce it commits.
LEMMA UnreportedStep ==
    ASSUME BaseInv, NoPunting, NothingForgotten, NothingUnreported,
           NEW p \in Proc, RunnerStep(p) \/ Crash(p)
    PROVE  NothingUnreported'
<1> USE DEF BaseInv
<1> DEFINE Clause(q) ==
        /\ pc[q] = "bounce" /\ plan[q].kind = "delete" =>
            Undone \subseteq plan[q].report
        /\ pc[q] = "bounce" /\ plan[q].kind = "rewrite" =>
            Undone \intersect plan[q].remove \subseteq plan[q].report
        /\ pc[q] \in {"truncate", "unlinkE"} => Undone \subseteq held[q]
        /\ pc[q] = "unlinkD" => Undone = {}
        /\ pc[q] = "createT" => Undone \intersect plan[q].remove \subseteq held[q]
<1>0. TypeOK /\ (\A q \in Proc : Clause(q)) /\ Undone' \subseteq Undone
  BY UndoneStep DEF NothingUnreported
<1>1. ASSUME NEW q \in Proc \ {p} PROVE Clause(q)'
  BY <1>0, LocalStep
<1>2. Clause(p)'
  <2> USE DEF Goto, TypeOK, SpoolTypeOK
  <2>1. CASE Attempt(p)
    <3>1. Undone \subseteq rcpt[p]
      BY <2>1 DEF Attempt, NothingForgotten
    <3> HIDE DEF TypeOK, SpoolTypeOK, Goto
    <3>2. FirstStep(p, plan'[p].kind) \in {"truncate", "unlinkE"} => plan'[p].kind = "delete"
      BY DEF FirstStep
    <3>3. FirstStep(p, plan'[p].kind) = "createT" => plan'[p].kind = "rewrite"
      BY DEF FirstStep
    <3>4. FirstStep(p, plan'[p].kind) # "unlinkD"
      BY DEF FirstStep
    <3> QED  BY <1>0, <2>1, <3>1, <3>2, <3>3, <3>4, AttemptStep
  <2>2. CASE WriteBounce(p)
    <3>1. CASE pc'[p] = "requeue"
      BY <3>1
    <3>2. CASE /\ held' = [held EXCEPT ![p] = plan[p].report]
               /\ Goto(p, FirstStep(p, plan[p].kind))
      <4>1. /\ held'[p] = plan[p].report /\ plan'[p] = plan[p] /\ pc[p] = "bounce"
            /\ pc'[p] = FirstStep(p, plan[p].kind)
        BY <2>2, <3>2 DEF WriteBounce
      <4>2. pc'[p] \in {"truncate", "unlinkE"} => plan[p].kind = "delete"
        BY <4>1 DEF FirstStep
      <4>3. pc'[p] = "createT" => plan[p].kind = "rewrite"
        BY <4>1 DEF FirstStep
      <4>4. pc'[p] \notin {"unlinkD", "bounce"}
        BY <4>1 DEF FirstStep
      <4> QED  BY <1>0, <4>1, <4>2, <4>3, <4>4
    <3> QED  BY <2>2, <3>1, <3>2 DEF WriteBounce
  <2>3. CASE Truncate(p)
    <3>1. Undone \subseteq held[p] /\ pc'[p] = "unlinkE"
      BY <2>3, <1>0 DEF Truncate
    <3>2. Undone' = {}
      BY <2>3, <3>1, CommitStep DEF Truncate
    <3> QED  BY <3>1, <3>2
  <2>4. CASE UnlinkEfile(p)
    <3>1. CASE CommitBounce(p) /\ Goto(p, "unlinkD")
      <4>1. Undone' = {}
        BY <2>4, <3>1, <1>0, CommitStep DEF UnlinkEfile
      <4> QED  BY <3>1, <4>1
    <3>2. CASE pc'[p] \in {"free", "requeue"}
      BY <3>2
    <3> QED  BY <2>4, <3>1, <3>2 DEF UnlinkEfile
  <2>5. CASE ~(Attempt(p) \/ WriteBounce(p) \/ Truncate(p) \/ UnlinkEfile(p))
    <3>1. pc'[p] \notin {"bounce", "truncate", "unlinkE", "unlinkD", "createT"}
      <4>1. CASE MoveStep(p)
        <5>1. move[p] = [to |-> "slow", done |-> "free", failed |-> "free"]
          BY DEF Ownership
        <5> QED
          BY <4>1, <5>1
             DEF MoveStep, MoveLinkD, MoveLinkE, MoveUnlinkE, MoveUnlinkD,
                 MoveUndoE, MoveUndoD
      <4>2. CASE \/ ReadQueueInfo(p) \/ TimeOrder(p) \/ OpenEfile(p)
                 \/ LockEfile(p) \/ ReadEfile(p) \/ OpenDfile(p) \/ PuntDown(p)
        BY <4>2
           DEF ReadQueueInfo, TimeOrder, OpenEfile, LockEfile, ReadEfile,
               OpenDfile, PuntDown
      <4>3. CASE \/ UnlinkDfile(p) \/ CreateTfile(p) \/ WriteTfile(p)
                 \/ RenameTfile(p)
        BY <4>3 DEF UnlinkDfile, CreateTfile, WriteTfile, RenameTfile
      <4>4. CASE \/ MessageCleanup(p) \/ Close(p) \/ PuntAgain(p)
                 \/ PuntLeftOver(p) \/ Crash(p)
        BY <4>4
           DEF MessageCleanup, Close, PuntAgain, PuntLeftOver, Crash, EnvMove
      <4> QED
        BY <2>5, <4>1, <4>2, <4>3, <4>4 DEF RunnerStep, RunnerMove
    <3> QED  BY <3>1
  <2> QED  BY <2>1, <2>2, <2>3, <2>4, <2>5
<1> QED
  BY <1>1, <1>2 DEF NothingUnreported

\* One directory keeps both files: env_move unlinks no name before both new
\* ones are there, and an envelope is unlinked only when nobody is undone.
LEMMA WholeStep ==
    ASSUME BaseInv, NothingUnreported, SomewhereWhole,
           NEW p \in Proc, RunnerStep(p) \/ Crash(p)
    PROVE  SomewhereWhole'
<1> SUFFICES ASSUME Undone' # {} PROVE SomewhereWhole'
  BY DEF SomewhereWhole
<1> USE DEF BaseInv
<1>0. TypeOK /\ Undone # {} /\ Undone' \subseteq Undone
  BY UndoneStep
<1> DEFINE Whole(d) == Efile[d] # None /\ Dfile[d]
           Clause(q) ==
             /\ pc[q] \in {"moveUnlinkE", "moveUnlinkD"} => Whole("slow")
             /\ pc[q] = "moveLinkE" => Dfile["slow"]
<1>1. /\ \E d \in Dir : Whole(d)
      /\ \A q \in Proc : Clause(q)
  BY <1>0 DEF SomewhereWhole
<1>2. \A q \in Proc \ {p} : pc'[q] = pc[q]
  BY <1>0, LocalStep
<1>3. move[p] = [to |-> "slow", done |-> "free", failed |-> "free"]
  BY DEF Ownership
<1>4. SUFFICES (\E d \in Dir : Whole(d)') /\ (\A q \in Proc : Clause(q)')
  BY DEF SomewhereWhole
<1>5. CASE MoveLinkD(p)
  <2>1. \A d \in Dir : Whole(d) => Whole(d)'
    BY <1>5, <1>3 DEF MoveLinkD, TypeOK, SpoolTypeOK
  <2>2. Dfile["slow"] => Dfile'["slow"]
    BY <1>5, <1>3 DEF MoveLinkD, TypeOK, SpoolTypeOK, Dir
  <2>3. (pc'[p] = "moveLinkE" /\ Dfile'["slow"]) \/ pc'[p] = "free"
    BY <1>5, <1>3 DEF MoveLinkD, Goto, TypeOK, SpoolTypeOK, Dir
  <2>4. "slow" \in Dir
    BY DEF Dir
  <2> QED  BY <1>1, <1>2, <2>1, <2>2, <2>3, <2>4
<1>6. CASE MoveLinkE(p)
  <2>1. pc[p] = "moveLinkE" /\ Dfile["slow"]
    BY <1>1, <1>6 DEF MoveLinkE
  <2>2. UNCHANGED Dfile
    BY <1>6 DEF MoveLinkE
  <2>3. \A d \in Dir : Efile[d] # None => Efile'[d] # None
    BY <1>6, <1>3 DEF MoveLinkE, TypeOK, SpoolTypeOK
  <2>4. \/ pc'[p] = "moveUnlinkE" /\ Efile'["slow"] # None
        \/ pc'[p] = "moveUndoD"
    BY <1>6, <1>3 DEF MoveLinkE, Goto, TypeOK, SpoolTypeOK, Dir
  <2>5. "slow" \in Dir
    BY DEF Dir
  <2> QED  BY <1>1, <1>2, <2>1, <2>2, <2>3, <2>4, <2>5
<1>7. CASE MoveUnlinkE(p) \/ MoveUnlinkD(p)
  <2>1. Whole("slow") /\ dir[p] = "fast"
    BY <1>1, <1>7 DEF MoveUnlinkE, MoveUnlinkD, Ownership
  <2>2. Whole("slow")'
    <3>1. CASE MoveUnlinkE(p)
      BY <3>1, <2>1 DEF MoveUnlinkE, TypeOK, SpoolTypeOK, Dir
    <3>2. CASE MoveUnlinkD(p)
      BY <3>2, <2>1 DEF MoveUnlinkD, TypeOK, SpoolTypeOK, Dir
    <3> QED  BY <1>7, <3>1, <3>2
  <2>3. "slow" \in Dir
    BY DEF Dir
  <2> QED  BY <2>2, <2>3
<1>8. ~MoveUndoE(p) /\ ~MoveUndoD(p)
  BY DEF MoveUndoE, MoveUndoD, Ownership
<1>9. CASE UnlinkEfile(p)
  <2>1. UNCHANGED <<Efile, Dfile>>
    <3>1. ~CommitBounce(p)
      <4>1. pc[p] = "unlinkE" /\ UNCHANGED copies
        BY <1>9 DEF UnlinkEfile
      <4> QED  BY <1>0, <4>1, CommitStep DEF NothingUnreported
    <3> QED  BY <1>9, <3>1 DEF UnlinkEfile
  <2>2. pc'[p] \in {"free", "requeue"}
    BY <1>9, <2>1 DEF UnlinkEfile, Goto, TypeOK, SpoolTypeOK
  <2> QED  BY <1>1, <1>2, <2>1, <2>2
<1>10. ~UnlinkDfile(p)
  BY <1>0 DEF UnlinkDfile, NothingUnreported
<1>11. CASE RenameTfile(p)
  <2>1. Tfile[dir[p]] # None
    BY <1>11 DEF RenameTfile, OneWriter, Writing
  <2>2. /\ \A d \in Dir : Whole(d) => Whole(d)'
        /\ Dfile' = Dfile
    BY <1>11, <2>1 DEF RenameTfile, TypeOK, SpoolTypeOK
  <2>3. pc'[p] = "requeue"
    BY <1>11 DEF RenameTfile, Goto, TypeOK, SpoolTypeOK
  <2>4. "slow" \in Dir
    BY DEF Dir
  <2> QED  BY <1>1, <1>2, <2>2, <2>3, <2>4
<1>12. CASE ~(\/ MoveStep(p) \/ UnlinkEfile(p) \/ UnlinkDfile(p) \/ RenameTfile(p))
  <2>1. /\ UNCHANGED <<Efile, Dfile>>
        /\ pc'[p] \notin {"moveLinkE", "moveUnlinkE", "moveUnlinkD"}
    <3> USE DEF Goto, TypeOK, SpoolTypeOK
    <3>1. CASE \/ ReadQueueInfo(p) \/ TimeOrder(p) \/ OpenEfile(p)
               \/ LockEfile(p) \/ ReadEfile(p) \/ OpenDfile(p) \/ PuntDown(p)
      BY <3>1
         DEF ReadQueueInfo, TimeOrder, OpenEfile, LockEfile, ReadEfile,
             OpenDfile, PuntDown, disk
    <3>2. CASE Attempt(p) \/ WriteBounce(p)
      <4>1. PICK l \in {"bounce", "requeue", "truncate", "unlinkE", "createT"} :
              Goto(p, l)
        BY <3>2, FirstStepType DEF Attempt, WriteBounce
      <4> QED  BY <3>2, <4>1 DEF Attempt, WriteBounce, disk
    <3>3. CASE Truncate(p) \/ CreateTfile(p) \/ WriteTfile(p)
      BY <3>3 DEF Truncate, CreateTfile, WriteTfile
    <3>4. CASE \/ MessageCleanup(p) \/ Close(p) \/ PuntAgain(p)
               \/ PuntLeftOver(p) \/ Crash(p)
      BY <3>4
         DEF MessageCleanup, Close, PuntAgain, PuntLeftOver, Crash, EnvMove, disk
    <3> QED
      BY <1>12, <3>1, <3>2, <3>3, <3>4 DEF RunnerStep, RunnerMove
  <2> QED  BY <1>1, <1>2, <2>1
<1> QED
  BY <1>5, <1>6, <1>7, <1>8, <1>9, <1>10, <1>11, <1>12 DEF MoveStep

\* Every list a runner may read or write back keeps the undone recipients.
LEMMA ForgottenStep ==
    ASSUME BaseInv, BaseInv', TfilesApart, TfilesApart', NoPunting,
           NothingForgotten, NothingUnreported,
           NEW p \in Proc, RunnerStep(p) \/ Crash(p)
    PROVE  NothingForgotten'
<1> SUFFICES ASSUME Undone' # {} PROVE NothingForgotten'
  BY DEF NothingForgotten
<1>0. TypeOK /\ TypeOK' /\ Undone' \subseteq Undone
  BY UndoneStep DEF BaseInv
<1> DEFINE Remembers(q) ==
             /\ fd[q] # None => Undone \subseteq text[fd[q]]
             /\ pc[q] \in {"openD", "attempt", "bounce", "createT"} =>
                  Undone \subseteq rcpt[q]
             /\ Writing(q) => Undone \subseteq rcpt[q] \union held[q]
             /\ pc[q] = "renameT" =>
                  Undone \subseteq text[Tfile[dir[q]]] \union held[q]
<1>1. /\ \A d \in Dir : Efile[d] # None => Undone \subseteq text[Efile[d]]
      /\ \A q \in Proc : Remembers(q)
  BY DEF NothingForgotten
\* The text of an inode with a name or a descriptor stays.
<1>2. ASSUME NEW i \in Inode, text'[i] # text[i]
      PROVE  /\ \A d \in Dir : Efile[d] # i
             /\ \A q \in Proc : fd[q] # i
             /\ \A q \in Proc \ {p} : Writing(q) => Tfile[dir[q]] # i
  <2>1. CASE CreateTfile(p) /\ Fresh(i)
    BY <1>0, <2>1 DEF Fresh, TypeOK, SpoolTypeOK
  <2>2. CASE WriteTfile(p) /\ i = Tfile[dir[p]]
    <3>1. dir[p] \in Dir /\ Writing(p) /\ Tfile[dir[p]] # None
      BY <1>0, <2>2, NoneAssumption
         DEF WriteTfile, Writing, TypeOK, SpoolTypeOK
    <3>2. \A q \in Proc \ {p} : Writing(q) => dir[q] # dir[p] /\ dir[q] \in Dir
      BY <1>0, <3>1 DEF BaseInv, OneWriter, TypeOK, SpoolTypeOK
    <3> QED  BY <2>2, <3>1, <3>2 DEF TfilesApart
  <2> QED  BY <1>2, <2>1, <2>2, TextStep
<1>3. \A i \in Inode :
        /\ Undone \subseteq text[i]
        /\ (\E d \in Dir : Efile[d] = i) \/ (\E q \in Proc : fd[q] = i)
        => Undone' \subseteq text'[i]
  BY <1>0, <1>2
<1>4. ASSUME NEW d \in Dir, Efile'[d] # None
      PROVE  Undone' \subseteq text'[Efile'[d]]
  <2>1. CASE RenameTfile(p) /\ d = dir[p]
    <3>1. Efile'[d] = Tfile[d] /\ UNCHANGED <<text, copies>> /\ CommitBounce(p)
      BY <1>0, <2>1 DEF RenameTfile, TypeOK, SpoolTypeOK
    <3>2. Undone \subseteq text[Tfile[d]] \union held[p]
      BY <1>1, <2>1 DEF RenameTfile
    <3> QED  BY <1>0, <3>1, <3>2, CommitStep
  <2>2. CASE ~(RenameTfile(p) /\ d = dir[p])
    <3>1. \E e \in Dir : Efile'[d] = Efile[e]
      <4> USE <1>4, <2>2 DEF TypeOK, SpoolTypeOK
      <4>1. CASE RenameTfile(p)
        BY <1>0, <4>1 DEF RenameTfile
      <4>2. CASE MoveStep(p)
        BY <1>0, <4>2
           DEF MoveStep, MoveLinkD, MoveLinkE, MoveUnlinkE, MoveUnlinkD,
               MoveUndoE, MoveUndoD
      <4>3. CASE \/ UnlinkEfile(p) \/ UnlinkDfile(p) \/ LockEfile(p)
                 \/ ReadEfile(p) \/ Close(p) \/ Crash(p) \/ Truncate(p)
                 \/ CreateTfile(p) \/ WriteTfile(p)
        BY <1>0, <4>3
           DEF UnlinkEfile, UnlinkDfile, LockEfile, ReadEfile, Close, Crash,
               Truncate, CreateTfile, WriteTfile
      <4>4. CASE \/ ReadQueueInfo(p) \/ TimeOrder(p) \/ OpenEfile(p)
                 \/ OpenDfile(p) \/ Attempt(p) \/ PuntDown(p) \/ WriteBounce(p)
                 \/ MessageCleanup(p) \/ PuntAgain(p) \/ PuntLeftOver(p)
        BY <4>4
           DEF ReadQueueInfo, TimeOrder, OpenEfile, OpenDfile, Attempt,
               PuntDown, WriteBounce, MessageCleanup, PuntAgain, PuntLeftOver,
               disk
      <4> QED  BY <4>1, <4>2, <4>3, <4>4 DEF RunnerStep, RunnerMove
    <3>2. PICK e \in Dir : Efile'[d] = Efile[e]
      BY <3>1
    <3>3. Efile[e] \in Inode
      BY <1>0, <1>4, <3>2 DEF TypeOK, SpoolTypeOK
    <3> QED  BY <1>1, <1>3, <1>4, <3>2, <3>3
  <2> QED  BY <2>1, <2>2
\* The other runners.
<1>5. ASSUME NEW q \in Proc \ {p} PROVE Remembers(q)'
  <2>1. /\ pc'[q] = pc[q] /\ dir'[q] = dir[q] /\ rcpt'[q] = rcpt[q]
        /\ fd'[q] = fd[q] /\ held'[q] = held[q]
    BY <1>0, LocalStep
  <2>2. ASSUME fd'[q] # None PROVE Undone' \subseteq text'[fd'[q]]
    <3>1. fd[q] \in Inode /\ Undone \subseteq text[fd[q]]
      BY <1>0, <1>1, <2>1, <2>2 DEF TypeOK, SpoolTypeOK
    <3>2. Undone' \subseteq text'[fd[q]]
      BY <1>3, <3>1
    <3> QED  BY <2>1, <3>2
  <2>3. pc'[q] \in {"openD", "attempt", "bounce", "createT"} =>
          Undone' \subseteq rcpt'[q]
    BY <1>0, <1>1, <2>1
  <2>4. Writing(q)' => Undone' \subseteq rcpt'[q] \union held'[q]
    BY <1>0, <1>1, <2>1 DEF Writing
  <2>5. ASSUME pc'[q] = "renameT"
        PROVE  Undone' \subseteq text'[Tfile'[dir'[q]]] \union held'[q]
    <3>1. Writing(q) /\ Writing(q)' /\ dir[q] \in Dir
      BY <1>0, <2>1, <2>5 DEF Writing, TypeOK, SpoolTypeOK
    <3>2. Tfile[dir[q]] \in Inode /\ Tfile'[dir[q]] # None
      BY <1>0, <2>1, <3>1 DEF BaseInv, OneWriter, TypeOK, SpoolTypeOK
    <3>3. Tfile'[dir[q]] = Tfile[dir[q]]
      <4>1. CASE CreateTfile(p) \/ RenameTfile(p)
        BY <1>0, <3>1, <3>2, <4>1, NoneAssumption
           DEF CreateTfile, RenameTfile, TypeOK, SpoolTypeOK
      <4>2. CASE ~(CreateTfile(p) \/ RenameTfile(p))
        <5>1. CASE \/ MoveStep(p) \/ UnlinkEfile(p) \/ UnlinkDfile(p)
                   \/ LockEfile(p) \/ ReadEfile(p) \/ Close(p) \/ Crash(p)
                   \/ Truncate(p) \/ WriteTfile(p)
          BY <5>1
             DEF MoveStep, MoveLinkD, MoveLinkE, MoveUnlinkE, MoveUnlinkD,
                 MoveUndoE, MoveUndoD, UnlinkEfile, UnlinkDfile, LockEfile,
                 ReadEfile, Close, Crash, Truncate, WriteTfile
        <5>2. CASE \/ ReadQueueInfo(p) \/ TimeOrder(p) \/ OpenEfile(p)
                   \/ OpenDfile(p) \/ Attempt(p) \/ PuntDown(p)
                   \/ WriteBounce(p) \/ MessageCleanup(p) \/ PuntAgain(p)
                   \/ PuntLeftOver(p)
          BY <5>2
             DEF ReadQueueInfo, TimeOrder, OpenEfile, OpenDfile, Attempt,
                 PuntDown, WriteBounce, MessageCleanup, PuntAgain,
                 PuntLeftOver, disk
        <5> QED  BY <4>2, <5>1, <5>2 DEF RunnerStep, RunnerMove
      <4> QED  BY <4>1, <4>2
    <3>4. text'[Tfile[dir[q]]] = text[Tfile[dir[q]]]
      BY <1>2, <3>1, <3>2
    <3> QED  BY <1>0, <1>1, <2>1, <2>5, <3>3, <3>4
  <2> QED  BY <2>2, <2>3, <2>4, <2>5
\* The runner that makes the step.
<1>6. fd'[p] # None => Undone' \subseteq text'[fd'[p]]
  <2>1. fd'[p] = fd[p] \/ fd'[p] = None \/ (\E d \in Dir : fd'[p] = Efile[d])
    <3> USE <1>0 DEF TypeOK, SpoolTypeOK
    <3>1. CASE OpenEfile(p)
      BY <3>1 DEF OpenEfile
    <3>2. CASE LockEfile(p) \/ ReadEfile(p) \/ Close(p) \/ Crash(p)
      BY <3>2 DEF LockEfile, ReadEfile, Close, Crash, CloseLock
    <3>3. CASE \/ MoveStep(p) \/ UnlinkEfile(p) \/ UnlinkDfile(p)
               \/ Truncate(p) \/ WriteTfile(p) \/ CreateTfile(p)
               \/ RenameTfile(p)
      BY <3>3
         DEF MoveStep, MoveLinkD, MoveLinkE, MoveUnlinkE, MoveUnlinkD,
             MoveUndoE, MoveUndoD, UnlinkEfile, UnlinkDfile, Truncate,
             WriteTfile, CreateTfile, RenameTfile
    <3>4. CASE \/ ReadQueueInfo(p) \/ TimeOrder(p)
               \/ OpenDfile(p) \/ Attempt(p) \/ PuntDown(p) \/ WriteBounce(p)
               \/ MessageCleanup(p) \/ PuntAgain(p) \/ PuntLeftOver(p)
      BY <3>4
         DEF ReadQueueInfo, TimeOrder, OpenDfile, Attempt, PuntDown,
             WriteBounce, MessageCleanup, PuntAgain, PuntLeftOver
    <3> QED  BY <3>1, <3>2, <3>3, <3>4 DEF RunnerStep, RunnerMove
  <2> QED  BY <1>0, <1>1, <1>3, <2>1, NoneAssumption DEF TypeOK, SpoolTypeOK
<1>7. /\ pc'[p] \in {"openD", "attempt", "bounce", "createT"} =>
           Undone' \subseteq rcpt'[p]
      /\ Writing(p)' => Undone' \subseteq rcpt'[p] \union held'[p]
      /\ pc'[p] = "renameT" =>
           Undone' \subseteq text'[Tfile'[dir'[p]]] \union held'[p]
  <2> USE DEF Writing
  <2>1. CASE ReadEfile(p)
    <3>1. fd[p] # None
      BY <2>1 DEF ReadEfile, BaseInv, OneWriter
    <3>2. (pc'[p] = "openD" /\ rcpt'[p] = text[fd[p]]) \/ pc'[p] = "idle"
      BY <1>0, <2>1 DEF ReadEfile, Goto, TypeOK, SpoolTypeOK
    <3> QED  BY <1>0, <1>1, <3>1, <3>2
  <2>2. CASE OpenDfile(p) \/ Attempt(p) \/ WriteBounce(p)
    <3>1. /\ pc[p] \in {"openD", "attempt", "bounce"} /\ UNCHANGED rcpt
          /\ \E l \in {"attempt", "bounce", "createT", "requeue", "truncate",
                       "unlinkE"} : Goto(p, l)
      BY <2>2, FirstStepType DEF OpenDfile, Attempt, WriteBounce
    <3>2. pc'[p] \notin {"writeT", "renameT"}
      BY <1>0, <3>1 DEF Goto, TypeOK, SpoolTypeOK
    <3> QED  BY <1>0, <1>1, <3>1, <3>2
  <2>3. CASE CreateTfile(p)
    <3>0. \E l \in {"writeT", "requeue"} : Goto(p, l)
      BY <2>3 DEF CreateTfile
    <3>1. /\ rcpt'[p] = rcpt[p] \ plan[p].remove
          /\ pc[p] = "createT" /\ UNCHANGED held
          /\ pc'[p] \in {"writeT", "requeue"}
      BY <1>0, <2>3, <3>0 DEF CreateTfile, Goto, deliverVars, TypeOK, SpoolTypeOK
    <3>2. Undone \intersect plan[p].remove \subseteq held[p]
      BY <3>1 DEF NothingUnreported
    <3> QED  BY <1>0, <1>1, <3>1, <3>2
  <2>4. CASE WriteTfile(p)
    <3>1. /\ pc'[p] = "renameT" /\ UNCHANGED <<rcpt, dir, held, Tfile>>
          /\ text' = [text EXCEPT ![Tfile[dir[p]]] = rcpt[p]]
          /\ Writing(p)
      BY <1>0, <2>4 DEF WriteTfile, Goto, TypeOK, SpoolTypeOK, deliverVars
    <3>2. Tfile[dir[p]] \in Inode
      BY <1>0, <3>1 DEF BaseInv, OneWriter, TypeOK, SpoolTypeOK
    <3>3. text'[Tfile'[dir'[p]]] = rcpt[p]
      BY <1>0, <3>1, <3>2 DEF TypeOK, SpoolTypeOK
    <3> QED  BY <1>0, <1>1, <3>1, <3>3
  <2>5. CASE ~(\/ ReadEfile(p) \/ OpenDfile(p) \/ Attempt(p) \/ WriteBounce(p)
               \/ CreateTfile(p) \/ WriteTfile(p))
    <3>1. pc'[p] \notin {"openD", "attempt", "bounce", "createT", "writeT",
                         "renameT"}
      <4> USE <1>0 DEF Goto, TypeOK, SpoolTypeOK
      <4>1. CASE MoveStep(p)
        <5>1. move[p] = [to |-> "slow", done |-> "free", failed |-> "free"]
          BY DEF BaseInv, Ownership
        <5> QED
          BY <4>1, <5>1
             DEF MoveStep, MoveLinkD, MoveLinkE, MoveUnlinkE, MoveUnlinkD,
                 MoveUndoE, MoveUndoD
      <4>2. CASE \/ ReadQueueInfo(p) \/ TimeOrder(p) \/ OpenEfile(p)
                 \/ LockEfile(p) \/ PuntDown(p)
        BY <4>2
           DEF ReadQueueInfo, TimeOrder, OpenEfile, LockEfile, PuntDown
      <4>3. CASE \/ Truncate(p) \/ UnlinkEfile(p) \/ UnlinkDfile(p)
                 \/ RenameTfile(p)
        BY <4>3 DEF Truncate, UnlinkEfile, UnlinkDfile, RenameTfile
      <4>4. CASE MessageCleanup(p) \/ Close(p) \/ Crash(p)
        BY <4>4 DEF MessageCleanup, Close, Crash, EnvMove, NoPunting
      <4>5. CASE PuntAgain(p) \/ PuntLeftOver(p)
        BY <4>5 DEF PuntAgain, PuntLeftOver, NoPunting
      <4> QED
        BY <2>5, <4>1, <4>2, <4>3, <4>4, <4>5 DEF RunnerStep, RunnerMove
    <3> QED  BY <3>1
  <2> QED  BY <2>1, <2>2, <2>3, <2>4, <2>5
<1> QED
  BY <1>4, <1>5, <1>6, <1>7 DEF NothingForgotten

---------------------------------------------------------------------------
(* The promise.                                                            *)

\* The invariant holds at the start.
LEMMA PromiseInit ==
    ASSUME ~Punt
    PROVE  Init => PromiseInv
<1> SUFFICES ASSUME NEW i \in Inode, NEW d \in {"slow", "fast"},
                    NEW creator \in Proc, InitAt(i, d, creator)
             PROVE  PromiseInv
  BY DEF Init
<1>0. d \in Dir /\ i # None
  BY NoneAssumption DEF Dir
<1>1. BaseInv
  BY BaseInit DEF Init
<1> USE DEF InitAt
<1>2. TfilesApart /\ NoPunting
  BY DEF TfilesApart, NoPunting
<1>3. \A p \in Proc : (pc[p] = "openD" /\ rcpt[p] = Rcpt) \/ pc[p] = "idle"
  OBVIOUS
<1>4. Undone \subseteq Rcpt
  BY DEF Undone
<1>5. NothingForgotten
  <2>1. \A e \in Dir : Efile[e] # None => text[Efile[e]] = Rcpt
    OBVIOUS
  <2>2. \A p \in Proc : fd[p] = None
    OBVIOUS
  <2> QED
    BY <1>3, <1>4, <2>1, <2>2 DEF NothingForgotten, Writing
<1>6. NothingUnreported
  BY <1>3 DEF NothingUnreported
<1>7. SomewhereWhole
  <2>1. Efile[d] # None /\ Dfile[d]
    BY <1>0
  <2> QED
    BY <1>0, <1>3, <2>1 DEF SomewhereWhole
<1> QED
  BY <1>1, <1>2, <1>5, <1>6, <1>7 DEF PromiseInv

\* Every step keeps the invariant.
LEMMA PromiseStep ==
    ASSUME ~Punt, PromiseInv, [Next]_vars
    PROVE  PromiseInv'
<1>1. BaseInv /\ BaseInv' /\ TypeOK
  BY TypeStep, OwnershipStep, OneWriterStep DEF BaseInv, PromiseInv
<1>2. ASSUME NEW p \in Proc, RunnerStep(p) \/ Crash(p)
      PROVE  PromiseInv'
  <2>1. TfilesApart' /\ NoPunting'
    BY <1>1, <1>2, TfilesApartStep, NoPuntingStep DEF PromiseInv, BaseInv
  <2>2. NothingUnreported' /\ SomewhereWhole'
    BY <1>1, <1>2, UnreportedStep, WholeStep DEF PromiseInv
  <2>3. NothingForgotten'
    BY <1>1, <1>2, <2>1, ForgottenStep DEF PromiseInv
  <2> QED
    BY <1>1, <2>1, <2>2, <2>3 DEF PromiseInv
<1>3. CASE GetOld \/ UNCHANGED vars
  <2>1. UNCHANGED <<Efile, Dfile, Tfile, text, pc, dir, rcpt, fd, hostq, plan,
                    held, reported, copies>>
    BY <1>3 DEF GetOld, vars, spoolVars, disk, memory, deliverVars
  <2>2. Undone' = Undone
    BY <2>1 DEF Undone, Delivered
  <2>3. TfilesApart' /\ NoPunting' /\ SomewhereWhole'
    BY <2>1, <2>2 DEF PromiseInv, TfilesApart, NoPunting, SomewhereWhole
  <2>4. NothingForgotten' /\ NothingUnreported'
    BY <2>1, <2>2
       DEF PromiseInv, NothingForgotten, NothingUnreported, Writing
  <2> QED
    BY <1>1, <2>3, <2>4 DEF PromiseInv
<1> QED
  BY <1>2, <1>3 DEF Next, Terminating

\* PromiseInv is inductive.
THEOREM PromiseInvariant ==
    ASSUME ~Punt
    PROVE  Spec => []PromiseInv
BY PromiseInit, PromiseStep, PTL DEF Spec

\* An undone recipient is listed where the text of the message is.
LEMMA PromiseKeeps == PromiseInv => NoLoss
<1> SUFFICES ASSUME PromiseInv, NEW r \in Undone PROVE r \in Kept
  BY DEF NoLoss, Settled, Undone
<1>1. PICK d \in Dir : Efile[d] # None /\ Dfile[d]
  BY DEF PromiseInv, SomewhereWhole
<1>2. r \in text[Efile[d]]
  BY <1>1 DEF PromiseInv, NothingForgotten
<1> QED
  BY <1>1, <1>2 DEF Kept, Undone

\* No accepted recipient is lost: whatever order the runners' system calls come
\* in, whichever of them are killed, whatever cannot be written, a recipient
\* that was neither delivered to nor reported is in an envelope on disk.
THEOREM NothingLost ==
    ASSUME ~Punt
    PROVE  Spec => []NoLoss
BY PromiseInvariant, PromiseKeeps, PTL

---------------------------------------------------------------------------
(* What a runner does only once, and what it leaves behind.                *)
(*                                                                         *)
(* That a run accounts for its files in fast holds whatever the constants  *)
(* are.  That a message is delivered once, and that its E file is never    *)
(* alone, holds for any number of runners as long as nobody rewrites the   *)
(* envelope, and nobody does for a message with one recipient: a rename    *)
(* replaces the inode the lock is on.  With any number of recipients it is *)
(* delivered once if the runner is alone.                                  *)

OneRcpt == \A r, s \in Rcpt : r = s

---------------------------------------------------------------------------
(* The invariants.                                                         *)

\* simta_fast_files is the number of envelopes a runner has in fast, and the
\* way from there to slow is free.
FastCounted ==
    \A p \in Proc :
        /\ fastFiles[p] =
            IF Undisturbed(p) \/ (InFast(p) /\ pc[p] = "moveUnlinkE")
            THEN 1 ELSE 0
        /\ Undisturbed(p) /\ pc[p] # "moveLinkE" => ~Dfile["slow"]

\* No t file, and no plan for one.
NoRewrite ==
    /\ \A d \in Dir : Tfile[d] = None
    /\ \A p \in Proc :
        /\ pc[p] \notin {"createT", "writeT", "renameT"}
        /\ pc[p] = "bounce" => plan[p].kind # "rewrite"

\* The D file outlives the E file.
DfileLast ==
    /\ NoLoneEfile
    /\ \A p \in Proc :
        /\ pc[p] \in {"unlinkD", "moveUnlinkD"} => Efile[dir[p]] = None
        /\ pc[p] = "moveLinkE" => Dfile["slow"]

\* An envelope some runner may yet read.
Current(i) == (\E d \in Dir : Efile[d] = i) \/ (\E p \in Proc : fd[p] = i)

\* Without rewrites there is one inode, and its lock is what counts: who reads
\* the recipients has it.
OneInode ==
    /\ \A i, j \in Inode : Current(i) /\ Current(j) => i = j
    /\ Efile["local"] = None

Locked ==
    \A p \in Proc :
        /\ dir[p] = "slow"
           /\ pc[p] \in {"readE", "openD", "attempt", "bounce", "truncate"}
             => fd[p] # None /\ lock[fd[p]] = p
        /\ InFast(p) \/ pc[p] \in {"idle", "stat", "openE"} => fd[p] = None
        /\ pc[p] = "truncate" => dir[p] = "slow"

\* p is about to remove what it has delivered.
Finishing(p) == pc[p] = "truncate" \/ (pc[p] = "unlinkE" /\ dir[p] = "fast")

\* Recipients with a verdict.
Answered == Served \union reported

\* A runner that may deliver or report knows of no verdict, after the first one
\* there is nothing to read, and who holds a bounce is about to give the first.
FirstVerdict ==
    /\ \A p \in Proc :
        /\ pc[p] \in {"openD", "attempt", "bounce"} => Answered = {}
        /\ pc[p] = "bounce" => plan[p].kind = "delete"
        /\ held[p] # {} => Finishing(p) /\ Answered = {}
    /\ Answered # {} =>
        \/ \E p \in Proc : Finishing(p)
        \/ \A i \in Inode : Current(i) => text[i] = {}

OnceInv == crashes = 0 => FirstVerdict /\ NoDouble

---------------------------------------------------------------------------
(* Frames.                                                                 *)

\* The steps there are: no move is ever unwound.
LEMMA OneOf ==
    ASSUME BaseInv, NEW p \in Proc, RunnerStep(p) \/ Crash(p)
    PROVE  \/ ReadQueueInfo(p) \/ TimeOrder(p) \/ OpenEfile(p) \/ LockEfile(p)
           \/ ReadEfile(p) \/ OpenDfile(p) \/ Attempt(p) \/ PuntDown(p)
           \/ WriteBounce(p) \/ Truncate(p) \/ UnlinkEfile(p) \/ UnlinkDfile(p)
           \/ CreateTfile(p) \/ WriteTfile(p) \/ RenameTfile(p)
           \/ MessageCleanup(p) \/ Close(p) \/ PuntAgain(p) \/ PuntLeftOver(p)
           \/ MoveLinkD(p) /\ UNCHANGED deliverVars
           \/ MoveLinkE(p) /\ UNCHANGED deliverVars
           \/ MoveUnlinkE(p) /\ UNCHANGED deliverVars
           \/ MoveUnlinkD(p) /\ UNCHANGED deliverVars
           \/ Crash(p)
<1>1. pc[p] \notin {"moveUndoE", "moveUndoD"}
  BY DEF BaseInv, Ownership
<1> QED
  BY <1>1 DEF RunnerStep, RunnerMove, MoveStep, MoveUndoE, MoveUndoD

\* A runner at one of the two calls that settle an E file can only make it.
LEMMA AtTruncate ==
    ASSUME NEW p \in Proc, RunnerStep(p), pc[p] = "truncate"
    PROVE  Truncate(p)
  BY DEF RunnerStep, RunnerMove, MoveStep, MoveLinkD, MoveLinkE, MoveUnlinkE,
         MoveUnlinkD, MoveUndoE, MoveUndoD, ReadQueueInfo, TimeOrder,
         OpenEfile, LockEfile, ReadEfile, OpenDfile, Attempt, PuntDown,
         WriteBounce, UnlinkEfile, UnlinkDfile, CreateTfile, WriteTfile,
         RenameTfile, MessageCleanup, Close, PuntAgain, PuntLeftOver

LEMMA AtUnlinkE ==
    ASSUME NEW p \in Proc, RunnerStep(p), pc[p] = "unlinkE"
    PROVE  UnlinkEfile(p)
  BY DEF RunnerStep, RunnerMove, MoveStep, MoveLinkD, MoveLinkE, MoveUnlinkE,
         MoveUnlinkD, MoveUndoE, MoveUndoD, ReadQueueInfo, TimeOrder,
         OpenEfile, LockEfile, ReadEfile, OpenDfile, Attempt, PuntDown,
         WriteBounce, Truncate, UnlinkDfile, CreateTfile, WriteTfile,
         RenameTfile, MessageCleanup, Close, PuntAgain, PuntLeftOver

\* A step of one runner leaves the counts of the others alone.
LEMMA OwnCount ==
    ASSUME BaseInv, NEW p \in Proc, RunnerStep(p) \/ Crash(p)
    PROVE  \A q \in Proc : q # p => fastFiles'[q] = fastFiles[q]
<1>0. TypeOK
  BY DEF BaseInv
<1> USE DEF TypeOK, SpoolTypeOK
<1>1. CASE ReadQueueInfo(p)
  BY <1>1, <1>0 DEF ReadQueueInfo
<1>2. CASE TimeOrder(p)
  BY <1>2, <1>0 DEF TimeOrder
<1>3. CASE OpenEfile(p)
  BY <1>3, <1>0 DEF OpenEfile
<1>4. CASE LockEfile(p)
  BY <1>4, <1>0 DEF LockEfile
<1>5. CASE ReadEfile(p)
  BY <1>5, <1>0 DEF ReadEfile
<1>6. CASE OpenDfile(p)
  BY <1>6, <1>0 DEF OpenDfile
<1>7. CASE Attempt(p)
  BY <1>7, <1>0 DEF Attempt
<1>8. CASE PuntDown(p)
  BY <1>8, <1>0 DEF PuntDown
<1>9. CASE WriteBounce(p)
  BY <1>9, <1>0 DEF WriteBounce
<1>10. CASE Truncate(p)
  BY <1>10, <1>0 DEF Truncate
<1>11. CASE UnlinkEfile(p)
  BY <1>11, <1>0 DEF UnlinkEfile, Count
<1>12. CASE UnlinkDfile(p)
  BY <1>12, <1>0 DEF UnlinkDfile
<1>13. CASE CreateTfile(p)
  BY <1>13, <1>0 DEF CreateTfile
<1>14. CASE WriteTfile(p)
  BY <1>14, <1>0 DEF WriteTfile
<1>15. CASE RenameTfile(p)
  BY <1>15, <1>0 DEF RenameTfile
<1>16. CASE MessageCleanup(p)
  BY <1>16, <1>0 DEF MessageCleanup
<1>17. CASE Close(p)
  BY <1>17, <1>0 DEF Close
<1>18. CASE PuntAgain(p)
  BY <1>18, <1>0 DEF PuntAgain
<1>19. CASE PuntLeftOver(p)
  BY <1>19, <1>0 DEF PuntLeftOver
<1>20. CASE MoveLinkD(p) /\ UNCHANGED deliverVars
  BY <1>20, <1>0 DEF MoveLinkD
<1>21. CASE MoveLinkE(p) /\ UNCHANGED deliverVars
  BY <1>21, <1>0 DEF MoveLinkE, Count
<1>22. CASE MoveUnlinkE(p) /\ UNCHANGED deliverVars
  BY <1>22, <1>0 DEF MoveUnlinkE, Count
<1>23. CASE MoveUnlinkD(p) /\ UNCHANGED deliverVars
  BY <1>23, <1>0 DEF MoveUnlinkD
<1>24. CASE Crash(p)
  BY <1>24, <1>0 DEF Crash
<1> QED
  BY <1>1, <1>2, <1>3, <1>4, <1>5, <1>6, <1>7, <1>8, <1>9, <1>10, <1>11,
     <1>12, <1>13, <1>14, <1>15, <1>16, <1>17, <1>18, <1>19, <1>20, <1>21,
     <1>22, <1>23, <1>24, OneOf

---------------------------------------------------------------------------
(* The files in fast.                                                      *)

\* Every step keeps the count.
LEMMA CountStep ==
    ASSUME BaseInv, FastCounted, NEW p \in Proc, RunnerStep(p) \/ Crash(p)
    PROVE  FastCounted'
<1>0. TypeOK /\ Ownership /\ FastCounted
  BY DEF BaseInv
<1>a. \A q \in Proc : q # p =>
        /\ pc'[q] = pc[q] /\ dir'[q] = dir[q] /\ fastFiles'[q] = fastFiles[q]
  BY <1>0, LocalStep, OwnCount
<1>b. pc[p] # "idle" => \A q \in Proc : q # p => ~Undisturbed(q)
  BY <1>0 DEF Ownership
<1> USE DEF TypeOK, SpoolTypeOK, FastCounted, InFast, Undisturbed, Dir
<1>1. CASE ReadQueueInfo(p)
  BY <1>0, <1>a, <1>b, <1>1
     DEF ReadQueueInfo, Goto, Ownership, disk
<1>2. CASE TimeOrder(p)
  BY <1>0, <1>a, <1>b, <1>2
     DEF TimeOrder, Goto, Ownership, disk
<1>3. CASE OpenEfile(p)
  BY <1>0, <1>a, <1>b, <1>3
     DEF OpenEfile, Goto, Ownership, disk
<1>4. CASE LockEfile(p)
  BY <1>0, <1>a, <1>b, <1>4
     DEF LockEfile, Goto, Ownership, disk
<1>5. CASE ReadEfile(p)
  BY <1>0, <1>a, <1>b, <1>5
     DEF ReadEfile, Goto, CloseLock, Ownership, disk
<1>6. CASE OpenDfile(p)
  BY <1>0, <1>a, <1>b, <1>6
     DEF OpenDfile, Goto, Ownership, disk
<1>7. CASE Attempt(p)
  BY <1>0, <1>a, <1>b, <1>7
     DEF Attempt, Goto, FirstStep, Ownership, disk
<1>8. CASE PuntDown(p)
  BY <1>0, <1>a, <1>b, <1>8
     DEF PuntDown, Goto, Ownership, disk
<1>9. CASE WriteBounce(p)
  BY <1>0, <1>a, <1>b, <1>9
     DEF WriteBounce, Goto, FirstStep, Ownership, disk
<1>10. CASE Truncate(p)
  BY <1>0, <1>a, <1>b, <1>10
     DEF Truncate, Goto, CommitBounce, Ownership, disk
<1>11. CASE UnlinkEfile(p)
  <2>1. /\ dir' = dir /\ Dfile' = Dfile
        /\ pc[p] = "unlinkE" /\ dir[p] \in {"slow", "fast"}
    BY <1>0, <1>11 DEF UnlinkEfile, Ownership
  <2>2. fastFiles[p] = IF dir[p] = "fast" THEN 1 ELSE 0
    BY <1>0, <2>1
  <2>3. CASE Efile[dir[p]] # None
    <3>1. pc'[p] = "unlinkD" /\ Count(p, dir[p], -1)
      BY <1>0, <1>11, <2>3 DEF UnlinkEfile, Goto
    <3>2. fastFiles'[p] = 0
      BY <1>0, <2>1, <2>2, <3>1 DEF Count
    <3> QED  BY <1>0, <1>a, <2>1, <3>1, <3>2
  <2>4. CASE Efile[dir[p]] = None
    <3>1. /\ dir[p] # "fast" /\ fastFiles'[p] = fastFiles[p]
      BY <1>0, <1>11, <2>1, <2>4 DEF UnlinkEfile, Ownership
    <3> QED  BY <1>0, <1>a, <2>1, <2>2, <3>1
  <2> QED  BY <2>3, <2>4
<1>12. CASE UnlinkDfile(p)
  BY <1>0, <1>a, <1>b, <1>12
     DEF UnlinkDfile, Goto, Ownership, disk
<1>13. CASE CreateTfile(p)
  BY <1>0, <1>a, <1>b, <1>13
     DEF CreateTfile, Goto, Ownership, disk
<1>14. CASE WriteTfile(p)
  BY <1>0, <1>a, <1>b, <1>14
     DEF WriteTfile, Goto, Ownership, disk
<1>15. CASE RenameTfile(p)
  BY <1>0, <1>a, <1>b, <1>15
     DEF RenameTfile, Goto, CommitBounce, Ownership, disk
<1>16. CASE MessageCleanup(p)
  BY <1>0, <1>a, <1>b, <1>16
     DEF MessageCleanup, Goto, EnvMove, Ownership, disk
<1>17. CASE Close(p)
  BY <1>0, <1>a, <1>b, <1>17
     DEF Close, Goto, CloseLock, Ownership, disk
<1>18. CASE PuntAgain(p)
  BY <1>0, <1>a, <1>b, <1>18
     DEF PuntAgain, Goto, Ownership, disk
<1>19. CASE PuntLeftOver(p)
  BY <1>0, <1>a, <1>b, <1>19
     DEF PuntLeftOver, Goto, EnvMove, Ownership, disk
<1>20. CASE MoveLinkD(p) /\ UNCHANGED deliverVars
  BY <1>0, <1>a, <1>b, <1>20
     DEF MoveLinkD, Goto, Ownership, disk
<1>21. CASE MoveLinkE(p) /\ UNCHANGED deliverVars
  BY <1>0, <1>a, <1>b, <1>21
     DEF MoveLinkE, Goto, Count, Ownership, disk
<1>22. CASE MoveUnlinkE(p) /\ UNCHANGED deliverVars
  BY <1>0, <1>a, <1>b, <1>22
     DEF MoveUnlinkE, Goto, Count, Ownership, disk
<1>23. CASE MoveUnlinkD(p) /\ UNCHANGED deliverVars
  BY <1>0, <1>a, <1>b, <1>23
     DEF MoveUnlinkD, Goto, Ownership, disk
<1>24. CASE Crash(p)
  BY <1>0, <1>a, <1>b, <1>24
     DEF Crash, Goto, CloseLock, CommitBounce, Ownership, disk
<1> QED
  BY <1>1, <1>2, <1>3, <1>4, <1>5, <1>6, <1>7, <1>8, <1>9, <1>10, <1>11,
     <1>12, <1>13, <1>14, <1>15, <1>16, <1>17, <1>18, <1>19, <1>20, <1>21,
     <1>22, <1>23, <1>24, OneOf

\* The inductive invariant of CleanExit.
ExitInv == BaseInv /\ FastCounted

\* A message in fast is counted by its creator, one in slow by nobody.
LEMMA ExitInit == Init => ExitInv
<1> SUFFICES ASSUME NEW i \in Inode, NEW d \in {"slow", "fast"},
                    NEW creator \in Proc, InitAt(i, d, creator)
             PROVE  FastCounted
  BY BaseInit DEF Init, ExitInv
<1> QED
  BY DEF InitAt, FastCounted, InFast, Undisturbed, Dir

\* ExitInv is inductive.
LEMMA ExitNext == ExitInv /\ [Next]_vars => ExitInv'
<1> SUFFICES ASSUME ExitInv, [Next]_vars PROVE ExitInv'
  OBVIOUS
<1>1. BaseInv'
  BY TypeStep, OwnershipStep, OneWriterStep DEF BaseInv, ExitInv
<1>2. ASSUME NEW p \in Proc, RunnerStep(p) \/ Crash(p) PROVE FastCounted'
  BY <1>2, CountStep DEF ExitInv
<1>3. CASE GetOld \/ UNCHANGED vars
  <2>1. UNCHANGED spoolVars
    BY <1>3 DEF GetOld, vars
  <2> QED
    BY <1>1, <2>1
       DEF ExitInv, FastCounted, InFast, Undisturbed, spoolVars, disk, memory
<1> QED
  BY <1>1, <1>2, <1>3 DEF Next, Terminating, ExitInv

\* Whatever is killed or fails, and with a punt queue or without one, a runner
\* that ends has simta_fast_files at 0, so that q_runner does not exit with an
\* error and the daemon goes on (env_move, env_unlink, env_efile, _q_deliver).
THEOREM EveryExitIsClean == Spec => []CleanExit
<1>1. ExitInv => CleanExit
  BY DEF ExitInv, FastCounted, CleanExit, InFast, Undisturbed
<1> QED  BY <1>1, ExitInit, ExitNext, PTL DEF Spec

---------------------------------------------------------------------------
(* One recipient: no rewrites.                                             *)

\* The envelope of one recipient is deleted or kept, never rewritten.
LEMMA DecideOne ==
    ASSUME OneRcpt, NEW R \in SUBSET Rcpt, NEW o \in Outcome(R),
           NEW aged \in BOOLEAN
    PROVE  Decide(R, o, aged).kind # "rewrite"
<1>1. Counted(R, o) \subseteq R
  BY DEF Outcome, Counted
<1>2. Counted(R, o) = {} \/ Counted(R, o) = R
  BY <1>1 DEF OneRcpt
<1> QED  BY <1>2 DEF Decide

\* So no t file is ever made for it.
LEMMA NoRewriteStep ==
    ASSUME OneRcpt, BaseInv, NoRewrite, NEW p \in Proc, RunnerStep(p) \/ Crash(p)
    PROVE  NoRewrite'
<1>0. TypeOK /\ Ownership /\ NoRewrite
  BY DEF BaseInv
<1>a. \A q \in Proc : q # p => pc'[q] = pc[q] /\ plan'[q] = plan[q]
  BY <1>0, LocalStep
<1>b. CASE Attempt(p)
  <2>1. PICK o \in Outcome(rcpt[p]) :
          /\ plan' = [plan EXCEPT ![p] = Decide(rcpt[p], o, Aged(p))]
          /\ Goto(p, IF BounceAll(rcpt[p], o, Aged(p)) \/ o.counted # {}
                     THEN "bounce"
                     ELSE FirstStep(p, Decide(rcpt[p], o, Aged(p)).kind))
    BY <1>b, AttemptOutcome, OutcomeType
  <2>2. Decide(rcpt[p], o, Aged(p)).kind # "rewrite"
    BY <1>0, <2>1, DecideOne DEF TypeOK, SpoolTypeOK, Aged
  <2>3. FirstStep(p, Decide(rcpt[p], o, Aged(p)).kind)
            \in {"truncate", "unlinkE", "requeue"}
    BY <2>2 DEF FirstStep
  <2>4. /\ pc'[p] \in {"bounce", "truncate", "unlinkE", "requeue"}
        /\ plan'[p].kind # "rewrite" /\ Tfile' = Tfile
    BY <1>0, <1>b, <2>1, <2>2, <2>3
       DEF Attempt, Goto, TypeOK, SpoolTypeOK, disk
  <2> QED
    BY <1>0, <1>a, <2>4 DEF NoRewrite
<1>c. CASE WriteBounce(p)
  <2>1. FirstStep(p, plan[p].kind) \in {"truncate", "unlinkE", "requeue"}
    BY <1>0, <1>c DEF FirstStep, WriteBounce, NoRewrite
  <2> QED
    BY <1>0, <1>a, <1>c, <2>1
       DEF WriteBounce, NoRewrite, Goto, TypeOK, SpoolTypeOK, disk
<1> USE DEF TypeOK, SpoolTypeOK, NoRewrite, disk, deliverVars
<1>1. CASE ReadQueueInfo(p)
  BY <1>0, <1>a, <1>1
     DEF ReadQueueInfo, Goto, Ownership
<1>2. CASE TimeOrder(p)
  BY <1>0, <1>a, <1>2
     DEF TimeOrder, Goto, Ownership
<1>3. CASE OpenEfile(p)
  BY <1>0, <1>a, <1>3
     DEF OpenEfile, Goto, Ownership
<1>4. CASE LockEfile(p)
  BY <1>0, <1>a, <1>4
     DEF LockEfile, Goto, Ownership
<1>5. CASE ReadEfile(p)
  BY <1>0, <1>a, <1>5
     DEF ReadEfile, Goto, CloseLock, Ownership
<1>6. CASE OpenDfile(p)
  BY <1>0, <1>a, <1>6
     DEF OpenDfile, Goto, Ownership
<1>7. CASE PuntDown(p)
  BY <1>0, <1>a, <1>7
     DEF PuntDown, Goto, Ownership
<1>8. CASE Truncate(p)
  BY <1>0, <1>a, <1>8
     DEF Truncate, Goto, CommitBounce, Ownership
<1>9. CASE UnlinkEfile(p)
  BY <1>0, <1>a, <1>9
     DEF UnlinkEfile, Goto, CommitBounce, Count, Ownership
<1>10. CASE UnlinkDfile(p)
  BY <1>0, <1>a, <1>10
     DEF UnlinkDfile, Goto, Ownership
<1>11. CASE CreateTfile(p)
  BY <1>0, <1>a, <1>11
     DEF CreateTfile, Goto, Ownership
<1>12. CASE WriteTfile(p)
  BY <1>0, <1>a, <1>12
     DEF WriteTfile, Goto, Ownership
<1>13. CASE RenameTfile(p)
  BY <1>0, <1>a, <1>13
     DEF RenameTfile, Goto, CommitBounce, Ownership
<1>14. CASE MessageCleanup(p)
  BY <1>0, <1>a, <1>14
     DEF MessageCleanup, Goto, EnvMove, Ownership
<1>15. CASE Close(p)
  BY <1>0, <1>a, <1>15
     DEF Close, Goto, CloseLock, Ownership
<1>16. CASE PuntAgain(p)
  BY <1>0, <1>a, <1>16
     DEF PuntAgain, Goto, Ownership
<1>17. CASE PuntLeftOver(p)
  BY <1>0, <1>a, <1>17
     DEF PuntLeftOver, Goto, EnvMove, Ownership
<1>18. CASE MoveLinkD(p) /\ UNCHANGED deliverVars
  BY <1>0, <1>a, <1>18
     DEF MoveLinkD, Goto, Ownership
<1>19. CASE MoveLinkE(p) /\ UNCHANGED deliverVars
  BY <1>0, <1>a, <1>19
     DEF MoveLinkE, Goto, Count, Ownership
<1>20. CASE MoveUnlinkE(p) /\ UNCHANGED deliverVars
  BY <1>0, <1>a, <1>20
     DEF MoveUnlinkE, Goto, Count, Ownership
<1>21. CASE MoveUnlinkD(p) /\ UNCHANGED deliverVars
  BY <1>0, <1>a, <1>21
     DEF MoveUnlinkD, Goto, Ownership
<1>22. CASE Crash(p)
  BY <1>0, <1>a, <1>22
     DEF Crash, Goto, CloseLock, CommitBounce, Ownership
<1> QED
  BY <1>b, <1>c, <1>1, <1>2, <1>3, <1>4, <1>5, <1>6, <1>7, <1>8, <1>9, <1>10,
     <1>11, <1>12, <1>13, <1>14, <1>15, <1>16, <1>17, <1>18, <1>19, <1>20,
     <1>21, <1>22, OneOf

\* The D file is linked before the E file and unlinked after it.
LEMMA DfileLastStep ==
    ASSUME BaseInv, NoRewrite, DfileLast, NEW p \in Proc, RunnerStep(p) \/ Crash(p)
    PROVE  DfileLast'
<1>0. TypeOK /\ Ownership /\ NoRewrite /\ DfileLast
  BY DEF BaseInv
<1>a. \A q \in Proc : q # p => pc'[q] = pc[q] /\ dir'[q] = dir[q]
  BY <1>0, LocalStep
<1>b. pc[p] # "idle" => \A q \in Proc : q # p => ~Undisturbed(q)
  BY <1>0 DEF Ownership
<1> USE DEF TypeOK, SpoolTypeOK, DfileLast, NoLoneEfile, Dir, disk
<1>1. CASE ReadQueueInfo(p)
  BY <1>0, <1>a, <1>b, <1>1
     DEF ReadQueueInfo, Goto, Ownership, NoRewrite, InFast, Undisturbed
<1>2. CASE TimeOrder(p)
  BY <1>0, <1>a, <1>b, <1>2
     DEF TimeOrder, Goto, Ownership, NoRewrite, InFast, Undisturbed
<1>3. CASE OpenEfile(p)
  BY <1>0, <1>a, <1>b, <1>3
     DEF OpenEfile, Goto, Ownership, NoRewrite, InFast, Undisturbed
<1>4. CASE LockEfile(p)
  BY <1>0, <1>a, <1>b, <1>4
     DEF LockEfile, Goto, Ownership, NoRewrite, InFast, Undisturbed
<1>5. CASE ReadEfile(p)
  BY <1>0, <1>a, <1>b, <1>5
     DEF ReadEfile, Goto, CloseLock, Ownership, NoRewrite, InFast, Undisturbed
<1>6. CASE OpenDfile(p)
  BY <1>0, <1>a, <1>b, <1>6
     DEF OpenDfile, Goto, Ownership, NoRewrite, InFast, Undisturbed
<1>7. CASE Attempt(p)
  BY <1>0, <1>a, <1>b, <1>7
     DEF Attempt, Goto, FirstStep, Ownership, NoRewrite, InFast, Undisturbed
<1>8. CASE PuntDown(p)
  BY <1>0, <1>a, <1>b, <1>8
     DEF PuntDown, Goto, Ownership, NoRewrite, InFast, Undisturbed
<1>9. CASE WriteBounce(p)
  BY <1>0, <1>a, <1>b, <1>9
     DEF WriteBounce, Goto, FirstStep, Ownership, NoRewrite, InFast,
         Undisturbed
<1>10. CASE Truncate(p)
  BY <1>0, <1>a, <1>b, <1>10
     DEF Truncate, Goto, CommitBounce, Ownership, NoRewrite, InFast,
         Undisturbed
<1>11. CASE UnlinkEfile(p)
  BY <1>0, <1>a, <1>b, <1>11
     DEF UnlinkEfile, Goto, CommitBounce, Count, Ownership, NoRewrite, InFast,
         Undisturbed
<1>12. CASE UnlinkDfile(p)
  BY <1>0, <1>a, <1>b, <1>12, SMTT(60)
     DEF UnlinkDfile, Goto, Ownership, NoRewrite, InFast, Undisturbed
<1>13. CASE CreateTfile(p)
  BY <1>0, <1>a, <1>b, <1>13
     DEF CreateTfile, Goto, Ownership, NoRewrite, InFast, Undisturbed
<1>14. CASE WriteTfile(p)
  BY <1>0, <1>a, <1>b, <1>14
     DEF WriteTfile, Goto, Ownership, NoRewrite, InFast, Undisturbed
<1>15. CASE RenameTfile(p)
  BY <1>0, <1>a, <1>b, <1>15
     DEF RenameTfile, Goto, CommitBounce, Ownership, NoRewrite, InFast,
         Undisturbed
<1>16. CASE MessageCleanup(p)
  BY <1>0, <1>a, <1>b, <1>16
     DEF MessageCleanup, Goto, EnvMove, Ownership, NoRewrite, InFast,
         Undisturbed
<1>17. CASE Close(p)
  BY <1>0, <1>a, <1>b, <1>17
     DEF Close, Goto, CloseLock, Ownership, NoRewrite, InFast, Undisturbed
<1>18. CASE PuntAgain(p)
  BY <1>0, <1>a, <1>b, <1>18
     DEF PuntAgain, Goto, Ownership, NoRewrite, InFast, Undisturbed
<1>19. CASE PuntLeftOver(p)
  BY <1>0, <1>a, <1>b, <1>19
     DEF PuntLeftOver, Goto, EnvMove, Ownership, NoRewrite, InFast, Undisturbed
<1>20. CASE MoveLinkD(p) /\ UNCHANGED deliverVars
  <2>1. /\ dir[p] = "fast" /\ move[p].to = "slow" /\ move[p].failed = "free"
        /\ Undisturbed(p) /\ \A q \in Proc : q # p => pc[q] = "idle"
    BY <1>20, <1>0 DEF MoveLinkD, Ownership, InFast, Undisturbed
  <2>2. /\ Efile' = Efile /\ dir' = dir
        /\ \A d \in Dir : Dfile[d] => Dfile'[d]
        /\ pc'[p] \in {"moveLinkE", "free"} /\ (pc'[p] = "moveLinkE" => Dfile'["slow"])
    BY <1>20, <1>0, <2>1 DEF MoveLinkD, Goto
  <2> QED  BY <1>0, <1>a, <2>1, <2>2
<1>21. CASE MoveLinkE(p) /\ UNCHANGED deliverVars
  <2>1. /\ dir[p] = "fast" /\ move[p].to = "slow" /\ Dfile["slow"]
        /\ Undisturbed(p) /\ \A q \in Proc : q # p => pc[q] = "idle"
        /\ Efile["fast"] # None /\ Efile["slow"] = None
    <3>1. dir[p] = "fast" /\ Undisturbed(p) /\ move[p].to = "slow" /\ Dfile["slow"]
      BY <1>21, <1>0 DEF MoveLinkE, Ownership, InFast, Undisturbed
    <3> QED  BY <1>0, <3>1 DEF Ownership
  <2>2. /\ Dfile' = Dfile /\ dir' = dir /\ pc'[p] = "moveUnlinkE"
        /\ \A d \in Dir : d # "slow" => Efile'[d] = Efile[d]
    BY <1>21, <1>0, <2>1 DEF MoveLinkE, Goto
  <2> QED  BY <1>0, <1>a, <2>1, <2>2
<1>22. CASE MoveUnlinkE(p) /\ UNCHANGED deliverVars
  BY <1>0, <1>a, <1>b, <1>22
     DEF MoveUnlinkE, Goto, Count, Ownership, NoRewrite, InFast, Undisturbed
<1>23. CASE MoveUnlinkD(p) /\ UNCHANGED deliverVars
  BY <1>0, <1>a, <1>b, <1>23
     DEF MoveUnlinkD, Goto, Ownership, NoRewrite, InFast, Undisturbed
<1>24. CASE Crash(p)
  BY <1>0, <1>a, <1>b, <1>24
     DEF Crash, Goto, CloseLock, CommitBounce, Ownership, NoRewrite, InFast,
         Undisturbed
<1> QED
  BY <1>1, <1>2, <1>3, <1>4, <1>5, <1>6, <1>7, <1>8, <1>9, <1>10, <1>11,
     <1>12, <1>13, <1>14, <1>15, <1>16, <1>17, <1>18, <1>19, <1>20, <1>21,
     <1>22, <1>23, <1>24, OneOf

\* No inode is added.
LEMMA OneInodeStep ==
    ASSUME BaseInv, NoRewrite, OneInode, NEW p \in Proc, RunnerStep(p) \/ Crash(p)
    PROVE  /\ OneInode'
           /\ \A i \in Inode : Current(i)' => Current(i)
<1>0. TypeOK /\ Ownership /\ NoRewrite
  BY DEF BaseInv
<1>a. \A q \in Proc : q # p => fd'[q] = fd[q]
  BY <1>0, LocalStep
<1>b. /\ \A d \in Dir : Efile'[d] # None => \E e \in Dir : Efile'[d] = Efile[e]
      /\ fd'[p] \in {fd[p], None} \/ \E e \in Dir : fd'[p] = Efile[e]
  <2> USE DEF TypeOK, SpoolTypeOK, disk
  <2>1. CASE ReadQueueInfo(p)
    BY <1>0, <1>a, <2>1
       DEF ReadQueueInfo, Goto, NoRewrite, Ownership
  <2>2. CASE TimeOrder(p)
    BY <1>0, <1>a, <2>2
       DEF TimeOrder, Goto, NoRewrite, Ownership
  <2>3. CASE OpenEfile(p)
    BY <1>0, <1>a, <2>3
       DEF OpenEfile, Goto, NoRewrite, Ownership
  <2>4. CASE LockEfile(p)
    BY <1>0, <1>a, <2>4
       DEF LockEfile, Goto, NoRewrite, Ownership
  <2>5. CASE ReadEfile(p)
    BY <1>0, <1>a, <2>5
       DEF ReadEfile, Goto, CloseLock, NoRewrite, Ownership
  <2>6. CASE OpenDfile(p)
    BY <1>0, <1>a, <2>6
       DEF OpenDfile, Goto, NoRewrite, Ownership
  <2>7. CASE Attempt(p)
    BY <1>0, <1>a, <2>7
       DEF Attempt, Goto, FirstStep, NoRewrite, Ownership
  <2>8. CASE PuntDown(p)
    BY <1>0, <1>a, <2>8
       DEF PuntDown, Goto, NoRewrite, Ownership
  <2>9. CASE WriteBounce(p)
    BY <1>0, <1>a, <2>9
       DEF WriteBounce, Goto, FirstStep, NoRewrite, Ownership
  <2>10. CASE Truncate(p)
    BY <1>0, <1>a, <2>10
       DEF Truncate, Goto, CommitBounce, NoRewrite, Ownership
  <2>11. CASE UnlinkEfile(p)
    BY <1>0, <1>a, <2>11
       DEF UnlinkEfile, Goto, CommitBounce, Count, NoRewrite, Ownership
  <2>12. CASE UnlinkDfile(p)
    BY <1>0, <1>a, <2>12
       DEF UnlinkDfile, Goto, NoRewrite, Ownership
  <2>13. CASE CreateTfile(p)
    BY <1>0, <1>a, <2>13
       DEF CreateTfile, Goto, NoRewrite, Ownership
  <2>14. CASE WriteTfile(p)
    BY <1>0, <1>a, <2>14
       DEF WriteTfile, Goto, NoRewrite, Ownership
  <2>15. CASE RenameTfile(p)
    BY <1>0, <1>a, <2>15
       DEF RenameTfile, Goto, CommitBounce, NoRewrite, Ownership
  <2>16. CASE MessageCleanup(p)
    BY <1>0, <1>a, <2>16
       DEF MessageCleanup, Goto, EnvMove, NoRewrite, Ownership
  <2>17. CASE Close(p)
    BY <1>0, <1>a, <2>17
       DEF Close, Goto, CloseLock, NoRewrite, Ownership
  <2>18. CASE PuntAgain(p)
    BY <1>0, <1>a, <2>18
       DEF PuntAgain, Goto, NoRewrite, Ownership
  <2>19. CASE PuntLeftOver(p)
    BY <1>0, <1>a, <2>19
       DEF PuntLeftOver, Goto, EnvMove, NoRewrite, Ownership
  <2>20. CASE MoveLinkD(p) /\ UNCHANGED deliverVars
    BY <1>0, <1>a, <2>20
       DEF MoveLinkD, Goto, NoRewrite, Ownership
  <2>21. CASE MoveLinkE(p) /\ UNCHANGED deliverVars
    BY <1>0, <1>a, <2>21
       DEF MoveLinkE, Goto, Count, NoRewrite, Ownership
  <2>22. CASE MoveUnlinkE(p) /\ UNCHANGED deliverVars
    BY <1>0, <1>a, <2>22
       DEF MoveUnlinkE, Goto, Count, NoRewrite, Ownership
  <2>23. CASE MoveUnlinkD(p) /\ UNCHANGED deliverVars
    BY <1>0, <1>a, <2>23
       DEF MoveUnlinkD, Goto, NoRewrite, Ownership
  <2>24. CASE Crash(p)
    BY <1>0, <1>a, <2>24
       DEF Crash, Goto, CloseLock, CommitBounce, NoRewrite, Ownership
  <2> QED
    BY <2>1, <2>2, <2>3, <2>4, <2>5, <2>6, <2>7, <2>8, <2>9, <2>10, <2>11,
       <2>12, <2>13, <2>14, <2>15, <2>16, <2>17, <2>18, <2>19, <2>20, <2>21,
       <2>22, <2>23, <2>24, OneOf
<1>c. \A i \in Inode : Current(i)' => Current(i)
  BY <1>a, <1>b, NoneAssumption DEF Current
<1>d. Efile'["local"] = Efile["local"]
  <2>1. dir[p] \in {"slow", "fast"} /\ move[p].to = "slow"
    BY <1>0 DEF Ownership
  <2>2. CASE UnlinkEfile(p) \/ MoveLinkE(p) \/ MoveUnlinkE(p)
    BY <1>0, <2>1, <2>2
       DEF UnlinkEfile, MoveLinkE, MoveUnlinkE, TypeOK, SpoolTypeOK, Dir
  <2>3. CASE ~(UnlinkEfile(p) \/ MoveLinkE(p) \/ MoveUnlinkE(p))
    BY <1>0, <2>3, OneOf
       DEF ReadQueueInfo, TimeOrder, OpenEfile, LockEfile, ReadEfile,
           OpenDfile, Attempt, PuntDown, WriteBounce, Truncate, UnlinkDfile,
           CreateTfile, WriteTfile, RenameTfile, MessageCleanup, Close,
           PuntAgain, PuntLeftOver, MoveLinkD, MoveUnlinkD, Crash, disk,
           NoRewrite
  <2> QED  BY <2>2, <2>3
<1> QED  BY <1>c, <1>d DEF OneInode

---------------------------------------------------------------------------
(* An envelope has its D file.                                             *)

\* The inductive invariant of NoLoneEfile.
PairInv == BaseInv /\ NoRewrite /\ DfileLast

\* The message starts as a pair, with no t file.
LEMMA PairInit == Init => PairInv
<1> SUFFICES ASSUME NEW i \in Inode, NEW d \in {"slow", "fast"},
                    NEW creator \in Proc, InitAt(i, d, creator)
             PROVE  NoRewrite /\ DfileLast
  BY BaseInit DEF Init, PairInv
<1> QED
  BY DEF InitAt, NoRewrite, DfileLast, NoLoneEfile, Dir

\* PairInv is inductive.
LEMMA PairNext ==
    ASSUME OneRcpt
    PROVE  PairInv /\ [Next]_vars => PairInv'
<1> SUFFICES ASSUME PairInv, [Next]_vars PROVE PairInv'
  OBVIOUS
<1>1. BaseInv'
  BY TypeStep, OwnershipStep, OneWriterStep DEF BaseInv, PairInv
<1>2. ASSUME NEW p \in Proc, RunnerStep(p) \/ Crash(p)
      PROVE  NoRewrite' /\ DfileLast'
  BY <1>2, NoRewriteStep, DfileLastStep DEF PairInv
<1>3. CASE GetOld \/ UNCHANGED vars
  <2>1. UNCHANGED <<spoolVars, plan>>
    BY <1>3 DEF GetOld, vars, deliverVars
  <2> QED
    BY <1>1, <2>1
       DEF PairInv, NoRewrite, DfileLast, NoLoneEfile, spoolVars, disk, memory
<1> QED
  BY <1>1, <1>2, <1>3 DEF Next, Terminating, PairInv

\* simta.8, "Efiles should never exist alone", for a message with one recipient:
\* however the runners interleave and whatever is killed or fails, an E file has
\* its D file beside it (env_move, env_unlink, env_truncate_and_unlink).  With a
\* second recipient the rewriting of the envelope breaks it.
THEOREM EfileHasDfile ==
    ASSUME OneRcpt
    PROVE  Spec => []NoLoneEfile
<1>1. PairInv => NoLoneEfile
  BY DEF PairInv, DfileLast
<1> QED  BY <1>1, PairInit, PairNext, PTL DEF Spec

---------------------------------------------------------------------------
(* One delivery.                                                           *)

\* The lock is taken before the recipients are read, and kept.
LEMMA LockedStep ==
    ASSUME BaseInv, NoRewrite, NoPunting, Locked,
           NEW p \in Proc, RunnerStep(p) \/ Crash(p)
    PROVE  Locked'
<1>0. TypeOK /\ Ownership /\ OneWriter /\ NoRewrite /\ NoPunting /\ Locked
  BY DEF BaseInv
<1>a. \A q \in Proc : q # p => pc'[q] = pc[q] /\ dir'[q] = dir[q] /\ fd'[q] = fd[q]
  BY <1>0, LocalStep
<1>b. None \notin Inode /\ None \notin Proc
  BY NoneAssumption
<1> USE DEF TypeOK, SpoolTypeOK, Locked, InFast, disk
<1>1. CASE ReadQueueInfo(p)
  BY <1>0, <1>a, <1>b, <1>1
     DEF ReadQueueInfo, Goto, Ownership, OneWriter, NoRewrite, NoPunting
<1>2. CASE TimeOrder(p)
  BY <1>0, <1>a, <1>b, <1>2
     DEF TimeOrder, Goto, Ownership, OneWriter, NoRewrite, NoPunting
<1>3. CASE OpenEfile(p)
  BY <1>0, <1>a, <1>b, <1>3
     DEF OpenEfile, Goto, Ownership, OneWriter, NoRewrite, NoPunting
<1>4. CASE LockEfile(p)
  BY <1>0, <1>a, <1>b, <1>4
     DEF LockEfile, Goto, Ownership, OneWriter, NoRewrite, NoPunting
<1>5. CASE ReadEfile(p)
  BY <1>0, <1>a, <1>b, <1>5
     DEF ReadEfile, Goto, CloseLock, Ownership, OneWriter, NoRewrite, NoPunting
<1>6. CASE OpenDfile(p)
  BY <1>0, <1>a, <1>b, <1>6
     DEF OpenDfile, Goto, Ownership, OneWriter, NoRewrite, NoPunting
<1>7. CASE Attempt(p)
  BY <1>0, <1>a, <1>b, <1>7
     DEF Attempt, Goto, FirstStep, Ownership, OneWriter, NoRewrite, NoPunting
<1>8. CASE PuntDown(p)
  BY <1>0, <1>a, <1>b, <1>8
     DEF PuntDown, Goto, Ownership, OneWriter, NoRewrite, NoPunting
<1>9. CASE WriteBounce(p)
  BY <1>0, <1>a, <1>b, <1>9
     DEF WriteBounce, Goto, FirstStep, Ownership, OneWriter, NoRewrite,
         NoPunting
<1>10. CASE Truncate(p)
  BY <1>0, <1>a, <1>b, <1>10
     DEF Truncate, Goto, CommitBounce, Ownership, OneWriter, NoRewrite,
         NoPunting
<1>11. CASE UnlinkEfile(p)
  BY <1>0, <1>a, <1>b, <1>11
     DEF UnlinkEfile, Goto, CommitBounce, Count, Ownership, OneWriter,
         NoRewrite, NoPunting
<1>12. CASE UnlinkDfile(p)
  BY <1>0, <1>a, <1>b, <1>12
     DEF UnlinkDfile, Goto, Ownership, OneWriter, NoRewrite, NoPunting
<1>13. CASE CreateTfile(p)
  BY <1>0, <1>a, <1>b, <1>13
     DEF CreateTfile, Goto, Ownership, OneWriter, NoRewrite, NoPunting
<1>14. CASE WriteTfile(p)
  BY <1>0, <1>a, <1>b, <1>14
     DEF WriteTfile, Goto, Ownership, OneWriter, NoRewrite, NoPunting
<1>15. CASE RenameTfile(p)
  BY <1>0, <1>a, <1>b, <1>15
     DEF RenameTfile, Goto, CommitBounce, Ownership, OneWriter, NoRewrite,
         NoPunting
<1>16. CASE MessageCleanup(p)
  BY <1>0, <1>a, <1>b, <1>16
     DEF MessageCleanup, Goto, EnvMove, Ownership, OneWriter, NoRewrite,
         NoPunting
<1>17. CASE Close(p)
  BY <1>0, <1>a, <1>b, <1>17
     DEF Close, Goto, CloseLock, Ownership, OneWriter, NoRewrite, NoPunting
<1>18. CASE PuntAgain(p)
  BY <1>0, <1>a, <1>b, <1>18
     DEF PuntAgain, Goto, Ownership, OneWriter, NoRewrite, NoPunting
<1>19. CASE PuntLeftOver(p)
  BY <1>0, <1>a, <1>b, <1>19
     DEF PuntLeftOver, Goto, EnvMove, Ownership, OneWriter, NoRewrite,
         NoPunting
<1>20. CASE MoveLinkD(p) /\ UNCHANGED deliverVars
  BY <1>0, <1>a, <1>b, <1>20
     DEF MoveLinkD, Goto, Ownership, OneWriter, NoRewrite, NoPunting
<1>21. CASE MoveLinkE(p) /\ UNCHANGED deliverVars
  BY <1>0, <1>a, <1>b, <1>21
     DEF MoveLinkE, Goto, Count, Ownership, OneWriter, NoRewrite, NoPunting
<1>22. CASE MoveUnlinkE(p) /\ UNCHANGED deliverVars
  BY <1>0, <1>a, <1>b, <1>22
     DEF MoveUnlinkE, Goto, Count, Ownership, OneWriter, NoRewrite, NoPunting
<1>23. CASE MoveUnlinkD(p) /\ UNCHANGED deliverVars
  BY <1>0, <1>a, <1>b, <1>23
     DEF MoveUnlinkD, Goto, Ownership, OneWriter, NoRewrite, NoPunting
<1>24. CASE Crash(p)
  BY <1>0, <1>a, <1>b, <1>24
     DEF Crash, Goto, CloseLock, CommitBounce, Ownership, OneWriter,
         NoRewrite, NoPunting
<1> QED
  BY <1>1, <1>2, <1>3, <1>4, <1>5, <1>6, <1>7, <1>8, <1>9, <1>10, <1>11,
     <1>12, <1>13, <1>14, <1>15, <1>16, <1>17, <1>18, <1>19, <1>20, <1>21,
     <1>22, <1>23, <1>24, OneOf

\* Two runners never both have the recipients in hand.
LEMMA OneReader ==
    ASSUME BaseInv, OneInode, Locked, NEW p \in Proc, NEW q \in Proc,
           pc[p] \in {"readE", "openD", "attempt", "bounce", "truncate"},
           \/ pc[q] \in {"readE", "openD", "attempt", "bounce", "truncate"}
           \/ Finishing(q)
    PROVE  p = q
<1> SUFFICES ASSUME p # q PROVE FALSE
  OBVIOUS
<1>0. TypeOK /\ Ownership
  BY DEF BaseInv
<1>1. dir[p] = "slow" /\ dir[q] = "slow"
  BY <1>0 DEF Ownership, Undisturbed, InFast, Finishing
<1>2. /\ fd[p] # None /\ lock[fd[p]] = p
      /\ fd[q] # None /\ lock[fd[q]] = q
  BY <1>1 DEF Locked, Finishing
<1>3. fd[p] \in Inode /\ fd[q] \in Inode
  BY <1>0, <1>2 DEF TypeOK, SpoolTypeOK
<1>4. fd[p] = fd[q]
  BY <1>3 DEF OneInode, Current
<1> QED  BY <1>2, <1>4

\* What an attempt of a message with one recipient comes to.
LEMMA AttemptOne ==
    ASSUME OneRcpt, TypeOK, NoPunting, NoDouble, NEW p \in Proc, Attempt(p),
           Served = {}
    PROVE  /\ NoDouble'
           /\ \/ Served' = {}
              \/ pc'[p] = IF fd[p] # None THEN "truncate" ELSE "unlinkE"
           /\ pc'[p] = "bounce" => plan'[p].kind = "delete"
<1>0. rcpt[p] \in SUBSET Rcpt
  BY DEF TypeOK, SpoolTypeOK
<1>a. PICK heard \in BOOLEAN, took \in SUBSET rcpt[p] :
      \E o \in HostOutcome(rcpt[p]) :
          /\ heard => took = o.accepted
          /\ HandOver(took, heard)
          /\ plan' = [plan EXCEPT ![p] = Decide(rcpt[p], o, Aged(p))]
          /\ Goto(p, IF BounceAll(rcpt[p], o, Aged(p)) \/ o.counted # {}
                     THEN "bounce"
                     ELSE FirstStep(p, Decide(rcpt[p], o, Aged(p)).kind))
  BY AttemptOutcome DEF NoPunting
<1>1. PICK o \in HostOutcome(rcpt[p]) :
          /\ heard => took = o.accepted
          /\ HandOver(took, heard)
          /\ plan' = [plan EXCEPT ![p] = Decide(rcpt[p], o, Aged(p))]
          /\ Goto(p, IF BounceAll(rcpt[p], o, Aged(p)) \/ o.counted # {}
                     THEN "bounce"
                     ELSE FirstStep(p, Decide(rcpt[p], o, Aged(p)).kind))
  BY <1>a
<1>b. took \in SUBSET Rcpt
  BY <1>0
<1>2. /\ NoDouble'
      /\ Served' \subseteq took
      /\ ~heard => Served' = {}
  BY <1>1, <1>b, HandOverStep
<1>3. /\ o.accepted \subseteq rcpt[p] /\ o.counted \subseteq rcpt[p]
      /\ o.accepted \cap o.counted = {}
      /\ ~o.delivered => o.accepted = {}
      /\ o.delivered => ~o.bounce
  BY DEF HostOutcome, Outcome
<1>4. /\ plan'[p] = Decide(rcpt[p], o, Aged(p))
      /\ pc'[p] = IF BounceAll(rcpt[p], o, Aged(p)) \/ o.counted # {}
                  THEN "bounce" ELSE FirstStep(p, plan'[p].kind)
  BY <1>1 DEF Goto, TypeOK, SpoolTypeOK
<1>5. ASSUME o.accepted # {}
      PROVE  pc'[p] = IF fd[p] # None THEN "truncate" ELSE "unlinkE"
  <2>1. o.accepted = rcpt[p] /\ o.counted = {} /\ o.delivered /\ ~o.bounce
    BY <1>0, <1>3, <1>5 DEF OneRcpt
  <2>2. Counted(rcpt[p], o) = rcpt[p]
    BY <2>1 DEF Counted
  <2>3. /\ ~BounceAll(rcpt[p], o, Aged(p))
        /\ Decide(rcpt[p], o, Aged(p)).kind = "delete"
    BY <2>1, <2>2 DEF BounceAll, Decide
  <2> QED  BY <1>4, <2>1, <2>3 DEF FirstStep
<1>6. ASSUME pc'[p] = "bounce" PROVE plan'[p].kind = "delete"
  <2>1. BounceAll(rcpt[p], o, Aged(p)) \/ o.counted # {}
    BY <1>4, <1>6, FirstStepType
  <2>2. CASE BounceAll(rcpt[p], o, Aged(p))
    BY <1>4, <2>2 DEF Decide
  <2>3. CASE o.counted # {} /\ ~o.bounce
    <3>1. Counted(rcpt[p], o) = rcpt[p]
      BY <1>0, <1>3, <2>3 DEF OneRcpt, Counted
    <3> QED  BY <1>4, <3>1 DEF Decide
  <2>4. o.bounce => BounceAll(rcpt[p], o, Aged(p))
    BY DEF BounceAll
  <2> QED  BY <2>1, <2>2, <2>3, <2>4
<1>7. Served' = {} \/ o.accepted # {}
  BY <1>1, <1>2
<1> QED  BY <1>2, <1>5, <1>6, <1>7

\* The inductive invariant of OnceUnlessKilled.
SingleInv ==
    /\ BaseInv /\ NoRewrite /\ NoPunting
    /\ OneInode /\ Locked
    /\ OnceInv

\* Once the only envelope is truncated, or unlinked by the runner that has it in
\* fast, there is no recipient left to read.
LEMMA LastText ==
    ASSUME BaseInv, NoRewrite, OneInode, Locked, NEW p \in Proc, RunnerStep(p),
           Truncate(p) \/ (UnlinkEfile(p) /\ dir[p] = "fast")
    PROVE  \A i \in Inode : Current(i)' => text'[i] = {}
<1>0. TypeOK /\ Ownership
  BY DEF BaseInv
<1>1. CASE Truncate(p)
  <2>1. pc[p] = "truncate" /\ dir[p] = "slow"
    BY <1>1 DEF Truncate, Locked
  <2>2. fd[p] \in Inode
    BY <1>0, <2>1 DEF Locked, TypeOK, SpoolTypeOK
  <2>3. \A i \in Inode : Current(i) => i = fd[p]
    BY <2>2 DEF OneInode, Current
  <2>4. text'[fd[p]] = {}
    BY <1>0, <1>1, <2>2 DEF Truncate, TypeOK, SpoolTypeOK
  <2>5. \A i \in Inode : Current(i)' => Current(i)
    BY <1>1 DEF Truncate, Current
  <2> QED  BY <2>3, <2>4, <2>5
<1>2. CASE UnlinkEfile(p) /\ dir[p] = "fast"
  <2>1. /\ Undisturbed(p) /\ Efile["slow"] = None
        /\ Efile["fast"] # None
        /\ \A q \in Proc : q # p => pc[q] = "idle"
    BY <1>0, <1>2 DEF Undisturbed, InFast, UnlinkEfile, Ownership
  <2>2. \A q \in Proc : fd[q] = None
    BY <1>0, <2>1 DEF Locked, Undisturbed
  <2>3. Efile' = [Efile EXCEPT !["fast"] = None] /\ fd' = fd
    BY <1>2, <2>1 DEF UnlinkEfile
  <2>4. \A i \in Inode : ~Current(i)'
    BY <1>0, <2>1, <2>2, <2>3, NoneAssumption
       DEF Current, OneInode, Dir, TypeOK, SpoolTypeOK
  <2> QED  BY <2>4
<1> QED  BY <1>1, <1>2

\* Outside an attempt nothing is handed over, and only deleting an envelope
\* commits a bounce.
LEMMA NoAttemptStep ==
    ASSUME BaseInv, NoRewrite, NoPunting, NEW p \in Proc, RunnerStep(p), ~Attempt(p)
    PROVE  /\ UNCHANGED <<copies, unheard>>
           /\ ~WriteBounce(p) => held'[p] \subseteq held[p]
           /\ reported' \subseteq reported \union held[p]
           /\ \/ reported' = reported
              \/ /\ Truncate(p) \/ UnlinkEfile(p)
                 /\ held'[p] = {}
<1>0. TypeOK
  BY DEF BaseInv
<1>1. ~PuntDown(p) /\ ~RenameTfile(p)
  BY DEF PuntDown, NoPunting, RenameTfile, NoRewrite
<1>2. CASE Truncate(p)
  BY <1>0, <1>2 DEF Truncate, CommitBounce, TypeOK, WriteBounce
<1>3. CASE UnlinkEfile(p)
  BY <1>0, <1>3 DEF UnlinkEfile, CommitBounce, TypeOK, WriteBounce
<1>4. CASE WriteBounce(p)
  BY <1>4 DEF WriteBounce
<1>5. CASE MessageCleanup(p)
  BY <1>0, <1>5 DEF MessageCleanup, TypeOK
<1>6. CASE ~(Truncate(p) \/ UnlinkEfile(p) \/ WriteBounce(p) \/ MessageCleanup(p))
  <2>1. UNCHANGED <<copies, unheard, held, reported>>
    BY <1>1, <1>6
       DEF RunnerStep, ReadQueueInfo, TimeOrder, OpenEfile, LockEfile,
           ReadEfile, OpenDfile, UnlinkDfile, CreateTfile, WriteTfile, Close,
           PuntAgain, PuntLeftOver, RunnerMove, deliverVars
  <2> QED  BY <2>1
<1> QED  BY <1>2, <1>3, <1>4, <1>5, <1>6

\* The first verdict is the last: it comes with the truncation or the unlink of
\* the only envelope, before another runner reads a recipient from it.
LEMMA OnceStep ==
    ASSUME OneRcpt, SingleInv, NEW p \in Proc, RunnerStep(p) \/ Crash(p)
    PROVE  OnceInv'
<1>0. /\ BaseInv /\ NoRewrite /\ NoPunting /\ OneInode /\ Locked
      /\ TypeOK /\ Ownership
      /\ crashes \in Nat /\ copies \in [Rcpt -> 0..2]
  BY DEF SingleInv, BaseInv, TypeOK
<1>a. \A q \in Proc : q # p =>
        pc'[q] = pc[q] /\ dir'[q] = dir[q] /\ fd'[q] = fd[q]
        /\ plan'[q] = plan[q] /\ held'[q] = held[q]
  BY <1>0, LocalStep
<1>b. \A i \in Inode : Current(i)' => Current(i)
  BY <1>0, OneInodeStep
<1>1. CASE Crash(p)
  <2>1. crashes' = crashes + 1
    BY <1>1 DEF Crash
  <2> QED  BY <1>0, <2>1 DEF OnceInv
<1>2. CASE RunnerStep(p)
  <2>0. SUFFICES ASSUME crashes' = 0
                 PROVE  FirstVerdict' /\ NoDouble'
    BY DEF OnceInv
  <2>1. crashes = 0
    BY <2>0, <1>2
       DEF RunnerStep, ReadQueueInfo, TimeOrder, OpenEfile, LockEfile,
           ReadEfile, OpenDfile, Attempt, PuntDown, WriteBounce, Truncate,
           UnlinkEfile, UnlinkDfile, CreateTfile, WriteTfile, RenameTfile,
           MessageCleanup, Close, PuntAgain, PuntLeftOver, RunnerMove,
           deliverVars
  <2>2. FirstVerdict /\ NoDouble
    BY <2>1 DEF SingleInv, OnceInv
  <2>3. CASE Attempt(p)
    <3>0. /\ pc[p] = "attempt" /\ dir' = dir /\ dir[p] \in {"slow", "fast"}
          /\ UNCHANGED <<held, reported>>
      BY <1>0, <2>3 DEF Attempt, Ownership
    <3>1. Answered = {} /\ Served = {} /\ reported = {}
      BY <2>2, <3>0 DEF FirstVerdict, Answered
    <3>2. \A q \in Proc : held[q] = {}
      <4>1. \A q \in Proc : Finishing(q) => p = q
        BY <1>0, <3>0, OneReader
      <4>2. ~Finishing(p)
        BY <3>0 DEF Finishing
      <4> QED  BY <2>2, <4>1, <4>2 DEF FirstVerdict
    <3>3. \A q \in Proc : q # p => pc[q] \notin {"openD", "attempt", "bounce"}
      BY <1>0, <3>0, OneReader
    <3>4. /\ NoDouble'
          /\ \/ Served' = {}
             \/ pc'[p] = IF fd[p] # None THEN "truncate" ELSE "unlinkE"
          /\ pc'[p] = "bounce" => plan'[p].kind = "delete"
      BY <1>0, <2>2, <2>3, <3>1, AttemptOne
    <3>5. Answered' = Served'
      BY <3>0, <3>1 DEF Answered
    <3>6. \A q \in Proc : held'[q] = {}
      BY <3>0, <3>2
    <3>7. \A q \in Proc : pc'[q] = "bounce" => plan'[q].kind = "delete"
      BY <1>a, <3>3, <3>4
    <3>8. CASE Served' = {}
      BY <3>4, <3>5, <3>6, <3>7, <3>8 DEF FirstVerdict
    <3>9. CASE pc'[p] = IF fd[p] # None THEN "truncate" ELSE "unlinkE"
      <4>1. Finishing(p)'
        BY <1>0, <3>0, <3>9 DEF Finishing, Locked
      <4>2. \A q \in Proc : pc'[q] \notin {"openD", "attempt", "bounce"}
        BY <1>a, <3>3, <3>9
      <4> QED  BY <3>4, <3>6, <4>1, <4>2 DEF FirstVerdict
    <3> QED  BY <3>4, <3>8, <3>9
  <2>4. CASE ~Attempt(p)
    <3>1. /\ UNCHANGED <<copies, unheard>>
          /\ ~WriteBounce(p) => held'[p] \subseteq held[p]
          /\ reported' \subseteq reported \union held[p]
          /\ \/ reported' = reported
             \/ /\ Truncate(p) \/ UnlinkEfile(p)
                /\ held'[p] = {}
      BY <1>0, <1>2, <2>4, NoAttemptStep
    <3>2. NoDouble' /\ Served' = Served
      BY <2>2, <3>1 DEF NoDouble, Served, Delivered
    <3>3. \A q \in Proc : pc'[q] = "bounce" => plan'[q].kind = "delete"
      <4>1. pc'[p] # "bounce"
        <5> USE <1>0, <1>2 DEF TypeOK, SpoolTypeOK, Goto
        <5>1. move[p].done = "free" /\ move[p].failed = "free"
          BY DEF Ownership
        <5>2. CASE \/ ReadQueueInfo(p) \/ TimeOrder(p) \/ OpenEfile(p)
                   \/ LockEfile(p) \/ ReadEfile(p) \/ OpenDfile(p)
                   \/ PuntDown(p)
          BY <5>2 DEF ReadQueueInfo, TimeOrder, OpenEfile, LockEfile,
                      ReadEfile, OpenDfile, PuntDown
        <5>a. CASE WriteBounce(p)
          <6>1. FirstStep(p, plan[p].kind) # "bounce"
            BY FirstStepType
          <6> QED  BY <5>a, <6>1 DEF WriteBounce
        <5>3. CASE \/ Truncate(p) \/ UnlinkEfile(p) \/ UnlinkDfile(p)
                   \/ CreateTfile(p) \/ WriteTfile(p) \/ RenameTfile(p)
          BY <5>3
             DEF Truncate, UnlinkEfile, UnlinkDfile, CreateTfile, WriteTfile,
                 RenameTfile
        <5>4. CASE \/ MessageCleanup(p) \/ Close(p) \/ PuntAgain(p)
                   \/ PuntLeftOver(p)
          BY <5>1, <5>4 DEF MessageCleanup, Close, PuntAgain, PuntLeftOver,
                            EnvMove
        <5>5. CASE \/ MoveLinkD(p) \/ MoveLinkE(p) \/ MoveUnlinkE(p)
                   \/ MoveUnlinkD(p) \/ Crash(p)
          BY <5>1, <5>5 DEF MoveLinkD, MoveLinkE, MoveUnlinkE, MoveUnlinkD, Crash
        <5> QED  BY <2>4, <5>2, <5>a, <5>3, <5>4, <5>5, OneOf
      <4> QED  BY <1>a, <2>2, <4>1 DEF FirstVerdict
    <3>4. ASSUME held'[p] # {} PROVE Finishing(p)' /\ reported' = reported
      <4>1. CASE WriteBounce(p)
        <5>1. /\ pc[p] = "bounce" /\ plan[p].kind = "delete" /\ held[p] = {}
              /\ UNCHANGED <<dir, fd, reported>>
          BY <2>2, <4>1 DEF WriteBounce, FirstVerdict, Finishing
        <5>2. pc'[p] = FirstStep(p, "delete")
          BY <1>0, <3>4, <4>1, <5>1
             DEF WriteBounce, Goto, TypeOK, SpoolTypeOK
        <5>3. /\ dir[p] = "slow" => fd[p] # None
              /\ dir[p] = "fast" => fd[p] = None
              /\ dir[p] \in {"slow", "fast"}
          BY <1>0, <5>1 DEF Locked, InFast, Ownership
        <5> QED  BY <5>1, <5>2, <5>3 DEF Finishing, FirstStep
      <4>2. CASE ~WriteBounce(p)
        <5>1. held[p] # {} /\ Finishing(p)
          BY <2>2, <3>1, <3>4, <4>2 DEF FirstVerdict
        <5>2. CASE pc[p] = "truncate"
          <6>1. Truncate(p)
            BY <1>2, <5>2, AtTruncate
          <6> QED  BY <1>0, <3>4, <6>1 DEF Truncate, CommitBounce, TypeOK
        <5>3. CASE pc[p] = "unlinkE" /\ dir[p] = "fast"
          <6>1. UnlinkEfile(p)
            BY <1>2, <5>3, AtUnlinkE
          <6>2. Efile["fast"] # None
            BY <1>0, <5>3 DEF Undisturbed, InFast, Ownership
          <6> QED
            BY <1>0, <3>4, <5>3, <6>1, <6>2
               DEF UnlinkEfile, CommitBounce, TypeOK
        <5> QED  BY <5>1, <5>2, <5>3 DEF Finishing
      <4> QED  BY <4>1, <4>2
    <3>5. CASE Answered' = {}
      <4>1. ASSUME NEW q \in Proc, held'[q] # {} PROVE Finishing(q)'
        <5>1. CASE q = p
          BY <3>4, <4>1, <5>1
        <5>2. CASE q # p
          <6>1. Finishing(q)
            BY <1>a, <2>2, <4>1, <5>2 DEF FirstVerdict
          <6> QED  BY <1>a, <5>2, <6>1 DEF Finishing
        <5> QED  BY <5>1, <5>2
      <4> QED  BY <3>2, <3>3, <3>5, <4>1 DEF FirstVerdict
    <3>6. CASE Answered # {}
      <4>0. /\ \A q \in Proc : pc[q] \notin {"openD", "attempt", "bounce"}
            /\ \A q \in Proc : held[q] = {}
        BY <2>2, <3>6 DEF FirstVerdict
      <4>1. pc'[p] \notin {"openD", "attempt", "bounce"}
        <5>1. CASE ReadEfile(p)
          <6>0. pc[p] = "readE" /\ fd[p] \in Inode
            BY <1>0, <5>1
               DEF ReadEfile, BaseInv, OneWriter, TypeOK, SpoolTypeOK
          <6>1. \A q \in Proc : ~Finishing(q)
            BY <1>0, <6>0, OneReader DEF Finishing
          <6>2. text[fd[p]] = {}
            BY <2>2, <3>6, <6>0, <6>1 DEF FirstVerdict, Current
          <6> QED  BY <1>0, <5>1, <6>2 DEF ReadEfile, Goto, TypeOK, SpoolTypeOK
        <5>2. CASE ~ReadEfile(p)
          <6> USE <1>0, <1>2, <4>0, <5>2 DEF TypeOK, SpoolTypeOK, Goto
          <6>1. pc[p] \notin {"openD", "attempt", "bounce", "keep", "punted"}
            BY DEF NoPunting
          <6>2. move[p].done = "free" /\ move[p].failed = "free"
            BY DEF Ownership
          <6>3. CASE \/ ReadQueueInfo(p) \/ TimeOrder(p) \/ OpenEfile(p)
                     \/ LockEfile(p) \/ OpenDfile(p) \/ PuntDown(p)
                     \/ WriteBounce(p)
            BY <6>1, <6>3
               DEF ReadQueueInfo, TimeOrder, OpenEfile, LockEfile, OpenDfile,
                   PuntDown, WriteBounce
          <6>4. CASE \/ Truncate(p) \/ UnlinkEfile(p) \/ UnlinkDfile(p)
                     \/ CreateTfile(p) \/ WriteTfile(p) \/ RenameTfile(p)
            BY <6>4 DEF Truncate, UnlinkEfile, UnlinkDfile, CreateTfile,
                        WriteTfile, RenameTfile
          <6>5. CASE \/ MessageCleanup(p) \/ Close(p) \/ PuntAgain(p)
                     \/ PuntLeftOver(p)
            BY <6>1, <6>2, <6>5 DEF MessageCleanup, Close, PuntAgain,
                                    PuntLeftOver, EnvMove
          <6>6. CASE \/ MoveLinkD(p) \/ MoveLinkE(p) \/ MoveUnlinkE(p)
                     \/ MoveUnlinkD(p) \/ Crash(p)
            BY <6>2, <6>6 DEF MoveLinkD, MoveLinkE, MoveUnlinkE, MoveUnlinkD,
                              Crash
          <6> QED  BY <2>4, <6>3, <6>4, <6>5, <6>6, OneOf
        <5> QED  BY <5>1, <5>2
      <4>2. \A q \in Proc : pc'[q] \notin {"openD", "attempt", "bounce"}
        BY <1>a, <4>0, <4>1
      <4>3. \A q \in Proc : held'[q] = {}
        <5>1. ~WriteBounce(p)
          BY <4>0 DEF WriteBounce
        <5> QED  BY <1>a, <3>1, <4>0, <5>1
      <4>4. \/ \E q \in Proc : Finishing(q)'
            \/ \A i \in Inode : Current(i)' => text'[i] = {}
        <5>1. CASE Truncate(p) \/ (UnlinkEfile(p) /\ dir[p] = "fast")
          BY <1>0, <1>2, <5>1, LastText
        <5>2. CASE ~Truncate(p) /\ ~(UnlinkEfile(p) /\ dir[p] = "fast")
          <6>1. text' = text
            <7> USE <1>0, <5>2
            <7>1. CASE \/ ReadQueueInfo(p) \/ TimeOrder(p) \/ OpenEfile(p)
                       \/ LockEfile(p) \/ ReadEfile(p) \/ OpenDfile(p)
                       \/ Attempt(p) \/ PuntDown(p) \/ WriteBounce(p)
              BY <7>1 DEF ReadQueueInfo, TimeOrder, OpenEfile, LockEfile,
                          ReadEfile, OpenDfile, Attempt, PuntDown,
                          WriteBounce, disk
            <7>2. CASE \/ UnlinkEfile(p) \/ UnlinkDfile(p) \/ CreateTfile(p)
                       \/ WriteTfile(p) \/ RenameTfile(p)
              BY <7>2 DEF UnlinkEfile, UnlinkDfile, CreateTfile, WriteTfile,
                          RenameTfile, disk, NoRewrite
            <7>3. CASE \/ MessageCleanup(p) \/ Close(p) \/ PuntAgain(p)
                       \/ PuntLeftOver(p)
              BY <7>3 DEF MessageCleanup, Close, PuntAgain, PuntLeftOver,
                          EnvMove, disk
            <7>4. CASE \/ MoveLinkD(p) \/ MoveLinkE(p) \/ MoveUnlinkE(p)
                       \/ MoveUnlinkD(p) \/ Crash(p)
              BY <7>4 DEF MoveLinkD, MoveLinkE, MoveUnlinkE, MoveUnlinkD,
                          Crash, disk
            <7> QED  BY <1>2, <7>1, <7>2, <7>3, <7>4, OneOf
          <6>2. ~Finishing(p)
            BY <1>2, <5>2, AtTruncate, AtUnlinkE DEF Finishing
          <6>3. \A q \in Proc : Finishing(q) => Finishing(q)'
            BY <1>a, <6>2 DEF Finishing
          <6> QED  BY <1>b, <2>2, <3>6, <6>1, <6>3 DEF FirstVerdict
        <5> QED  BY <5>1, <5>2
      <4> QED  BY <3>2, <4>2, <4>3, <4>4 DEF FirstVerdict
    <3>7. CASE Answered = {} /\ Answered' # {}
      <4>1. /\ held[p] # {} /\ Finishing(p)
            /\ Truncate(p) \/ UnlinkEfile(p)
            /\ held'[p] = {}
        <5>1. reported' # reported
          BY <3>2, <3>7 DEF Answered
        <5>2. held[p] # {}
          BY <3>1, <3>7, <5>1 DEF Answered
        <5> QED  BY <2>2, <3>1, <5>1, <5>2 DEF FirstVerdict
      <4>2. \/ Truncate(p) /\ pc[p] = "truncate"
            \/ UnlinkEfile(p) /\ pc[p] = "unlinkE" /\ dir[p] = "fast"
        BY <4>1 DEF Truncate, UnlinkEfile, Finishing
      <4>3. \A q \in Proc \ {p} :
              /\ pc[q] \notin {"openD", "attempt", "bounce"}
              /\ ~Finishing(q)
        <5>1. CASE pc[p] = "truncate"
          BY <1>0, <5>1, OneReader
        <5>2. CASE pc[p] = "unlinkE" /\ dir[p] = "fast"
          BY <1>0, <5>2 DEF Undisturbed, InFast, Ownership, Finishing
        <5> QED  BY <4>2, <5>1, <5>2
      <4>4. \A q \in Proc : held'[q] = {}
        BY <1>a, <2>2, <4>1, <4>3 DEF FirstVerdict
      <4>5. pc'[p] \notin {"openD", "attempt", "bounce"}
        BY <1>0, <4>2 DEF Truncate, UnlinkEfile, Goto, TypeOK, SpoolTypeOK
      <4>6. \A q \in Proc : pc'[q] \notin {"openD", "attempt", "bounce"}
        BY <1>a, <4>3, <4>5
      <4>7. \A i \in Inode : Current(i)' => text'[i] = {}
        BY <1>0, <1>2, <4>2, LastText
      <4> QED  BY <3>2, <4>4, <4>6, <4>7 DEF FirstVerdict
    <3> QED  BY <3>5, <3>6, <3>7
  <2> QED  BY <2>3, <2>4
<1> QED  BY <1>1, <1>2

\* Nothing has been delivered, and one runner at most is at work.
LEMMA SingleInit == Init => SingleInv
<1> SUFFICES ASSUME NEW i \in Inode, NEW d \in {"slow", "fast"},
                    NEW creator \in Proc, InitAt(i, d, creator)
             PROVE  NoRewrite /\ NoPunting /\ OneInode /\ Locked /\ OnceInv
  BY BaseInit DEF Init, SingleInv
<1>1. NoRewrite /\ NoPunting
  BY DEF InitAt, NoRewrite, NoPunting
<1>2. OneInode
  BY NoneAssumption DEF InitAt, OneInode, Current, Dir
<1>3. Locked
  BY DEF InitAt, Locked, InFast
<1>4. OnceInv
  BY DEF InitAt, OnceInv, FirstVerdict, NoDouble, Answered, Served, Delivered
<1> QED  BY <1>1, <1>2, <1>3, <1>4

\* SingleInv is inductive.
LEMMA SingleNext ==
    ASSUME OneRcpt, ~Punt
    PROVE  SingleInv /\ [Next]_vars => SingleInv'
<1> SUFFICES ASSUME SingleInv, [Next]_vars PROVE SingleInv'
  OBVIOUS
<1>0. BaseInv /\ NoRewrite /\ NoPunting /\ OneInode /\ Locked /\ TypeOK /\ Ownership
  BY DEF SingleInv, BaseInv
<1>1. BaseInv'
  BY <1>0, TypeStep, OwnershipStep, OneWriterStep DEF BaseInv
<1>2. ASSUME NEW p \in Proc, RunnerStep(p) \/ Crash(p)
      PROVE  NoRewrite' /\ NoPunting' /\ OneInode' /\ Locked' /\ OnceInv'
  BY <1>0, <1>2, NoRewriteStep, NoPuntingStep, OneInodeStep, LockedStep,
     OnceStep
<1>3. CASE GetOld \/ UNCHANGED vars
  <2>1. /\ UNCHANGED <<spoolVars, plan, hostq, held, reported>>
        /\ UNCHANGED <<copies, unheard, crashes>>
    BY <1>3 DEF GetOld, vars, deliverVars
  <2>2. NoRewrite' /\ NoPunting' /\ OneInode' /\ Locked'
    BY <1>0, <2>1
       DEF NoRewrite, NoPunting, OneInode, Current, Locked, InFast,
           spoolVars, disk, memory
  <2>3. OnceInv'
    BY <2>1
       DEF SingleInv, OnceInv, FirstVerdict, NoDouble, Finishing, Current,
           Answered, Served, Delivered, spoolVars, disk, memory
  <2> QED  BY <1>1, <2>2, <2>3 DEF SingleInv
<1> QED
  BY <1>1, <1>2, <1>3 DEF Next, Terminating, SingleInv

\* A message with one recipient is delivered once, by however many runners, as
\* long as none of them is killed and no answer of a host got lost: who reads the
\* envelope has its lock, who gets the lock of a finished envelope finds it
\* empty, and who has the message in fast is alone with it (env_read,
\* env_truncate_and_unlink, _q_deliver).
THEOREM DeliveredOnceUnlessKilled ==
    ASSUME OneRcpt, ~Punt
    PROVE  Spec => []OnceUnlessKilled
<1>1. SingleInv => OnceUnlessKilled
  BY DEF SingleInv, OnceInv, OnceUnlessKilled
<1> QED  BY <1>1, SingleInit, SingleNext, PTL DEF Spec

\* Where no runner is killed that is to say never twice, a host's lost answer
\* apart.
THEOREM NeverTwice ==
    ASSUME OneRcpt, ~Punt, MaxCrashes = 0
    PROVE  Spec => []NoDouble
<1>1. SingleInv => NoDouble
  BY DEF SingleInv, OnceInv, BaseInv, TypeOK
<1> QED  BY <1>1, SingleInit, SingleNext, PTL DEF Spec

---------------------------------------------------------------------------
(* One verdict for a message with one recipient: the specification in      *)
(* module MailPromise is implemented where nobody is killed and every      *)
(* answer comes.                                                           *)

VerdictInv ==
    SingleInv /\ PromiseInv /\ unheard = {} /\ crashes = 0

\* No bounce is listed twice, and no copy handed over where one was: a step of a
\* runner settles recipients that are still owed a verdict, in one way.
LEMMA VerdictStep ==
    ASSUME OneRcpt, ~Punt, ~LostAnswers, VerdictInv, NoLoss',
           NEW p \in Proc, RunnerStep(p)
    PROVE  Promise!Step /\ unheard' = {}
<1>0. /\ BaseInv /\ NoRewrite /\ NoPunting /\ OneInode /\ Locked /\ TypeOK
      /\ copies \in [Rcpt -> 0..2] /\ reported \in SUBSET Rcpt
      /\ held \in [Proc -> SUBSET Rcpt]
      /\ FirstVerdict /\ NoDouble
  BY DEF VerdictInv, SingleInv, OnceInv, BaseInv, TypeOK
<1>1. Answered = Delivered \union reported
  BY DEF VerdictInv, Answered, Served
<1>2. Promise!Owed = Rcpt \ Answered
  BY <1>0, <1>1 DEF Promise!Owed, Delivered
<1>3. Rcpt \ (Delivered' \union reported') \subseteq Kept' /\ Kept' \in SUBSET Rcpt
  BY DEF NoLoss, Settled, Kept
<1>4. CASE Attempt(p)
  <2>1. Answered = {} /\ UNCHANGED reported
    BY <1>0, <1>4 DEF Attempt, FirstVerdict
  <2>2. PICK took \in SUBSET Rcpt : HandOver(took, TRUE)
    <3>1. PICK heard \in BOOLEAN, took \in SUBSET rcpt[p] :
              (~heard => LostAnswers) /\ HandOver(took, heard)
      BY <1>4, AttemptOutcome
    <3>2. rcpt[p] \in SUBSET Rcpt
      BY <1>0 DEF TypeOK, SpoolTypeOK
    <3> QED  BY <3>1, <3>2
  <2>3. \A r \in Rcpt : copies[r] = 0
    BY <1>0, <1>1, <2>1 DEF Delivered
  <2>4. copies' = [r \in Rcpt |-> IF r \in took THEN 1 ELSE copies[r]]
    BY <2>2, <2>3 DEF HandOver
  <2>5. Delivered' = took
    BY <2>3, <2>4 DEF Delivered
  <2>6. unheard' = {}
    BY <2>2 DEF HandOver, VerdictInv
  <2>7. /\ took \union {} \subseteq Promise!Owed /\ took \cap {} = {}
        /\ Promise!Owed \ (took \union {}) \subseteq Kept'
        /\ reported' = reported \union {}
    BY <1>1, <1>2, <1>3, <2>1, <2>5
  <2> QED  BY <1>3, <2>4, <2>6, <2>7 DEF Promise!Step
<1>5. CASE ~Attempt(p)
  <2> DEFINE T == reported' \ reported
  <2>1. /\ UNCHANGED <<copies, unheard>>
        /\ reported' \subseteq reported \union held[p]
        /\ reported' = reported \/ Truncate(p) \/ UnlinkEfile(p)
    BY <1>0, <1>5, NoAttemptStep
  <2>2. reported \subseteq reported'
    BY <2>1 DEF Truncate, UnlinkEfile, CommitBounce
  <2>3. T \subseteq held[p] /\ reported' = reported \union T
    BY <2>1, <2>2
  <2>4. T \in SUBSET Rcpt /\ T \subseteq Promise!Owed
    BY <1>0, <1>2, <2>3 DEF FirstVerdict
  <2>5. copies' = [r \in Rcpt |-> IF r \in {} THEN 1 ELSE copies[r]]
    BY <1>0, <2>1
  <2>6. Delivered' = Delivered
    BY <2>1 DEF Delivered
  <2>7. /\ {} \union T \subseteq Promise!Owed /\ {} \cap T = {}
        /\ Promise!Owed \ ({} \union T) \subseteq Kept'
    BY <1>1, <1>2, <1>3, <2>3, <2>4, <2>6
  <2>8. Promise!Step
    <3> HIDE DEF T
    <3> QED  BY <1>3, <2>3, <2>4, <2>5, <2>7 DEF Promise!Step
  <2> QED  BY <2>1, <2>8 DEF VerdictInv
<1> QED  BY <1>4, <1>5

\* A recipient gets one verdict, and it is final: whatever runners lock, read,
\* truncate and unlink the envelope meanwhile, the message of one recipient is
\* handed over once or reported once, never both, and until then it is kept
\* (env_read, env_truncate_and_unlink, _q_deliver).
THEOREM ExactlyOneVerdict ==
    ASSUME OneRcpt, ~Punt, ~LostAnswers, MaxCrashes = 0
    PROVE  Spec => OneVerdict
<1>1. Init => Promise!Init /\ VerdictInv
  <2> SUFFICES ASSUME Init PROVE Promise!Init /\ unheard = {} /\ crashes = 0
    BY SingleInit, PromiseInit DEF VerdictInv
  <2>1. PICK i \in Inode, d \in {"slow", "fast"}, creator \in Proc :
            InitAt(i, d, creator)
    BY DEF Init
  <2>2. copies = [r \in Rcpt |-> 0] /\ reported = {} /\ unheard = {} /\ crashes = 0
    BY <2>1 DEF InitAt
  <2>3. Dfile[d] /\ Efile[d] # None /\ text[Efile[d]] = Rcpt
    BY <2>1, NoneAssumption DEF InitAt, Dir
  <2>4. Kept = Rcpt
    BY <2>3 DEF Kept, Dir
  <2> QED  BY <2>2, <2>4 DEF Promise!Init
<1>a. PromiseInv' => NoLoss'
  BY PromiseKeeps, PTL
<1>2. VerdictInv /\ [Next]_vars => VerdictInv' /\ [Promise!Step]_Promise!vars
  <2> SUFFICES ASSUME VerdictInv, [Next]_vars
               PROVE  VerdictInv' /\ [Promise!Step]_Promise!vars
    OBVIOUS
  <2>1. SingleInv' /\ PromiseInv'
    BY SingleNext, PromiseStep DEF VerdictInv
  <2>2. NoLoss'
    BY <2>1, <1>a
  <2>3. ASSUME NEW p \in Proc, Crash(p) PROVE FALSE
    BY <2>3 DEF Crash, VerdictInv
  <2>4. ASSUME NEW p \in Proc, RunnerStep(p)
        PROVE  VerdictInv' /\ Promise!Step
    <3>1. crashes' = crashes
      BY <2>4
         DEF RunnerStep, ReadQueueInfo, TimeOrder, OpenEfile, LockEfile,
             ReadEfile, OpenDfile, Attempt, PuntDown, WriteBounce, Truncate,
             UnlinkEfile, UnlinkDfile, CreateTfile, WriteTfile, RenameTfile,
             MessageCleanup, Close, PuntAgain, PuntLeftOver, RunnerMove,
             deliverVars
    <3> QED  BY <2>1, <2>2, <2>4, <3>1, VerdictStep DEF VerdictInv
  <2>5. CASE GetOld \/ UNCHANGED vars
    <3>1. UNCHANGED <<spoolVars, reported, copies, unheard, crashes>>
      BY <2>5 DEF GetOld, vars, deliverVars
    <3>2. Kept' = Kept
      BY <3>1 DEF Kept, spoolVars, disk
    <3> QED  BY <2>1, <3>1, <3>2 DEF VerdictInv, Promise!vars
  <2> QED  BY <2>3, <2>4, <2>5 DEF Next, Terminating
<1> QED  BY <1>1, <1>2, PTL DEF Spec, OneVerdict, Promise!Spec

---------------------------------------------------------------------------
(* A runner alone.                                                         *)

OneRunner == \A p, q \in Proc : p = q

\* Where the message is while p works on it.
AloneFiles(p) ==
    /\ \A d \in Dir : Efile[d] # None =>
        d = dir[p] \/ (d = "slow" /\ pc[p] \in {"moveUnlinkE", "moveUnlinkD"})
    /\ pc[p] = "moveUnlinkD" => Efile[dir[p]] = None
    /\ pc[p] \in {"lockE", "readE", "openD", "attempt", "bounce", "truncate",
                  "unlinkE", "createT", "writeT", "renameT", "requeue",
                  "keep", "punted"}
         => Efile[dir[p]] # None
    /\ pc[p] \in {"lockE", "readE", "openD", "attempt", "bounce", "truncate",
                  "punted"}
         => fd[p] \in {None, Efile[dir[p]]}
    /\ pc[p] = "truncate" => fd[p] # None
    /\ \A d \in Dir : Tfile[d] # None => d = dir[p] /\ Writing(p)

\* Whom p would deliver to next, and whom the next run would.
AloneRcpts(p) ==
    /\ pc[p] = "bounce" => plan[p].kind \in {"delete", "rewrite"}
    /\ pc[p] \notin {"bounce", "truncate", "unlinkE", "createT", "writeT",
                     "renameT"}
         => \A d \in Dir : Efile[d] # None => text[Efile[d]] \cap Served = {}
    /\ pc[p] \in {"openD", "attempt", "writeT", "renameT", "requeue", "keep",
                  "punted"}
         => rcpt[p] \cap Served = {}
    /\ pc[p] = "createT" \/ (pc[p] = "bounce" /\ plan[p].kind = "rewrite")
         => rcpt[p] \cap Served \subseteq plan[p].remove
    /\ pc[p] = "renameT" => text[Tfile[dir[p]]] \cap Served = {}

Alone == \A p \in Proc : AloneFiles(p) /\ AloneRcpts(p)

\* The inductive invariant for a runner alone.
AloneInv == BaseInv /\ (crashes = 0 => Alone /\ NoDouble)

\* The envelope p works on stays the only one, and its t file is removed.
LEMMA AloneFilesStep ==
    ASSUME ~DiskErrors, BaseInv, NEW p \in Proc,
           AloneFiles(p), RunnerStep(p),
           pc[p] = "bounce" => plan[p].kind \in {"delete", "rewrite"}
    PROVE  AloneFiles(p)'
<1>0. TypeOK /\ Ownership /\ OneWriter
  BY DEF BaseInv
<1>a. /\ dir[p] \in {"slow", "fast"} /\ None \notin Inode
      /\ move[p] = [to |-> "slow", done |-> "free", failed |-> "free"]
  BY <1>0, NoneAssumption DEF Ownership
<1>b. CASE Attempt(p)
  <2>1. /\ pc[p] = "attempt" /\ UNCHANGED <<Efile, Tfile, dir, fd>>
        /\ pc'[p] \in {"bounce", "truncate", "unlinkE", "createT", "requeue"}
        /\ pc'[p] = "truncate" => fd[p] # None
    BY <1>b, <1>0 DEF Attempt, Goto, FirstStep, TypeOK, SpoolTypeOK, disk
  <2> QED  BY <2>1 DEF AloneFiles, Writing
<1> USE DEF TypeOK, SpoolTypeOK, AloneFiles, InFast, Writing, disk, Dir,
    Readable
<1>1. CASE ReadQueueInfo(p)
  BY <1>0, <1>a, <1>1
     DEF ReadQueueInfo, Goto, Ownership, OneWriter
<1>2. CASE TimeOrder(p)
  BY <1>0, <1>a, <1>2
     DEF TimeOrder, Goto, Ownership, OneWriter
<1>3. CASE OpenEfile(p)
  BY <1>0, <1>a, <1>3
     DEF OpenEfile, Goto, Ownership, OneWriter
<1>4. CASE LockEfile(p)
  BY <1>0, <1>a, <1>4
     DEF LockEfile, Goto, Ownership, OneWriter
<1>5. CASE ReadEfile(p)
  BY <1>0, <1>a, <1>5
     DEF ReadEfile, Goto, CloseLock, Ownership, OneWriter
<1>6. CASE OpenDfile(p)
  BY <1>0, <1>a, <1>6
     DEF OpenDfile, Goto, Ownership, OneWriter
<1>7. CASE PuntDown(p)
  BY <1>0, <1>a, <1>7
     DEF PuntDown, Goto, Ownership, OneWriter
<1>8. CASE WriteBounce(p)
  BY <1>0, <1>a, <1>8
     DEF WriteBounce, Goto, FirstStep, Ownership, OneWriter
<1>9. CASE Truncate(p)
  BY <1>0, <1>a, <1>9
     DEF Truncate, Goto, CommitBounce, Ownership, OneWriter
<1>10. CASE UnlinkEfile(p)
  BY <1>0, <1>a, <1>10
     DEF UnlinkEfile, Goto, CommitBounce, Count, Ownership, OneWriter
<1>11. CASE UnlinkDfile(p)
  BY <1>0, <1>a, <1>11
     DEF UnlinkDfile, Goto, Ownership, OneWriter
<1>12. CASE CreateTfile(p)
  BY <1>0, <1>a, <1>12
     DEF CreateTfile, Goto, Ownership, OneWriter
<1>13. CASE WriteTfile(p)
  BY <1>0, <1>a, <1>13
     DEF WriteTfile, Goto, Ownership, OneWriter
<1>14. CASE RenameTfile(p)
  BY <1>0, <1>a, <1>14
     DEF RenameTfile, Goto, CommitBounce, Ownership, OneWriter
<1>15. CASE MessageCleanup(p)
  BY <1>0, <1>a, <1>15
     DEF MessageCleanup, Goto, EnvMove, Ownership, OneWriter
<1>16. CASE Close(p)
  BY <1>0, <1>a, <1>16
     DEF Close, Goto, CloseLock, Ownership, OneWriter
<1>17. CASE PuntAgain(p)
  BY <1>0, <1>a, <1>17
     DEF PuntAgain, Goto, Ownership, OneWriter
<1>18. CASE PuntLeftOver(p)
  BY <1>0, <1>a, <1>18
     DEF PuntLeftOver, Goto, EnvMove, Ownership, OneWriter
<1>19. CASE MoveLinkD(p) /\ UNCHANGED deliverVars
  BY <1>0, <1>a, <1>19
     DEF MoveLinkD, Goto, Ownership, OneWriter
<1>20. CASE MoveLinkE(p) /\ UNCHANGED deliverVars
  BY <1>0, <1>a, <1>20
     DEF MoveLinkE, Goto, Count, Ownership, OneWriter
<1>21. CASE MoveUnlinkE(p) /\ UNCHANGED deliverVars
  BY <1>0, <1>a, <1>21
     DEF MoveUnlinkE, Goto, Count, Ownership, OneWriter
<1>22. CASE MoveUnlinkD(p) /\ UNCHANGED deliverVars
  BY <1>0, <1>a, <1>22
     DEF MoveUnlinkD, Goto, Ownership, OneWriter
<1> QED
  BY <1>b, <1>1, <1>2, <1>3, <1>4, <1>5, <1>6, <1>7, <1>8, <1>9, <1>10, <1>11,
     <1>12, <1>13, <1>14, <1>15, <1>16, <1>17, <1>18, <1>19, <1>20, <1>21,
     <1>22, <1>0
     DEF RunnerStep, RunnerMove, MoveStep, Ownership, MoveUndoE, MoveUndoD

\* What an attempt leaves to deliver.
LEMMA AttemptAlone ==
    ASSUME TypeOK, NEW p \in Proc, Attempt(p), rcpt[p] \cap Served = {},
           NoDouble
    PROVE  /\ NoDouble'
           /\ pc'[p] \in {"bounce", "truncate", "unlinkE", "createT", "requeue"}
           /\ pc'[p] = "bounce" => plan'[p].kind \in {"delete", "rewrite"}
           /\ pc'[p] = "createT" \/ (pc'[p] = "bounce" /\ plan'[p].kind = "rewrite")
                => rcpt[p] \cap Served' \subseteq plan'[p].remove
           /\ pc'[p] = "requeue" => Served' \subseteq Served
<1> DEFINE R == rcpt[p]
<1>0. R \in SUBSET Rcpt
  BY DEF TypeOK, SpoolTypeOK
<1>a. PICK heard \in BOOLEAN, took \in SUBSET R :
      \E o \in IF hostq[p] = "punt" THEN PuntOutcome(R, heard) ELSE HostOutcome(R) :
        /\ heard => took = o.accepted
        /\ HandOver(took, heard)
        /\ plan' = [plan EXCEPT ![p] = Decide(R, o, Aged(p))]
        /\ Goto(p, IF BounceAll(R, o, Aged(p)) \/ o.counted # {}
                   THEN "bounce"
                   ELSE FirstStep(p, Decide(R, o, Aged(p)).kind))
  BY AttemptOutcome
<1>1. PICK o \in IF hostq[p] = "punt" THEN PuntOutcome(R, heard) ELSE HostOutcome(R) :
        /\ heard => took = o.accepted
        /\ HandOver(took, heard)
        /\ plan' = [plan EXCEPT ![p] = Decide(R, o, Aged(p))]
        /\ Goto(p, IF BounceAll(R, o, Aged(p)) \/ o.counted # {}
                   THEN "bounce"
                   ELSE FirstStep(p, Decide(R, o, Aged(p)).kind))
  BY <1>a
<1>2. o \in Outcome(R)
  BY <1>1, OutcomeType
<1>3. /\ o.accepted \subseteq R /\ o.counted \subseteq R
      /\ ~o.delivered => o.accepted = {}
      /\ o.delivered => ~o.bounce
  BY <1>2 DEF Outcome
<1>4. took \in SUBSET Rcpt /\ took \cap Served = {}
  BY <1>0
<1>5. /\ NoDouble'
      /\ Served' \subseteq Served \union took
      /\ ~heard => Served' \subseteq Served
  BY <1>1, <1>4, HandOverStep
<1>6. R \cap Served' \subseteq o.accepted
  BY <1>1, <1>5
<1>7. /\ plan'[p] = Decide(R, o, Aged(p))
      /\ pc'[p] = IF BounceAll(R, o, Aged(p)) \/ o.counted # {} THEN "bounce"
                  ELSE FirstStep(p, plan'[p].kind)
  BY <1>1 DEF Goto, TypeOK, SpoolTypeOK
<1>8. ASSUME plan'[p].kind = "rewrite" PROVE R \cap Served' \subseteq plan'[p].remove
  <2>1. ~BounceAll(R, o, Aged(p)) /\ Counted(R, o) # R
    BY <1>7, <1>8 DEF Decide
  <2>2. CASE o.marked = o.accepted
    BY <1>6, <1>7, <2>2 DEF Decide
  <2>3. CASE o.marked # o.accepted
    <3>1. o \in PuntOutcome(R, heard)
      BY <1>1, <2>3 DEF HostOutcome
    <3>2. ~heard
      <4>1. heard /\ o.delivered => o.accepted = R
        BY <3>1 DEF PuntOutcome
      <4>2. o.delivered /\ o.accepted = R => Counted(R, o) = R
        BY <1>3 DEF Counted
      <4>3. ~o.delivered => o.accepted = {} /\ o.marked = {}
        BY <1>3, <3>1 DEF PuntOutcome
      <4> QED  BY <2>1, <2>3, <4>1, <4>2, <4>3
    <3> QED  BY <1>5, <3>2
  <2> QED  BY <2>2, <2>3
<1>9. BounceAll(R, o, Aged(p)) \/ o.counted # {} =>
        plan'[p].kind \in {"delete", "rewrite"}
  BY <1>3, <1>7 DEF Decide, Counted
<1>10. ASSUME plan'[p].kind = "requeue" PROVE Served' \subseteq Served
  <2>1. Counted(R, o) = {} /\ ~o.bounce
    BY <1>7, <1>10 DEF Decide, BounceAll
  <2>2. o.accepted = {}
    BY <1>3, <2>1 DEF Counted
  <2> QED  BY <1>1, <1>5, <2>2
<1>11. plan'[p].kind \in {"delete", "rewrite", "requeue"}
  BY <1>7 DEF Decide
<1> QED
  BY <1>5, <1>7, <1>8, <1>9, <1>10, <1>11 DEF FirstStep

\* Whoever was delivered to leaves the lists p and the next run deliver from.
LEMMA AloneRcptsStep ==
    ASSUME ~DiskErrors, BaseInv, NEW p \in Proc, NoDouble,
           AloneFiles(p), AloneRcpts(p), RunnerStep(p)
    PROVE  AloneRcpts(p)' /\ NoDouble'
<1>0. TypeOK /\ Ownership /\ OneWriter /\ AloneFiles(p) /\ AloneRcpts(p)
  BY DEF BaseInv
<1>a. /\ dir[p] \in {"slow", "fast"} /\ None \notin Inode
      /\ move[p] = [to |-> "slow", done |-> "free", failed |-> "free"]
  BY <1>0, NoneAssumption DEF Ownership
<1>b. CASE Attempt(p)
  <2>1. pc[p] = "attempt" /\ UNCHANGED <<Efile, text, dir, rcpt>>
    BY <1>b DEF Attempt, disk
  <2>2. rcpt[p] \cap Served = {}
    BY <1>0, <2>1 DEF AloneRcpts
  <2>3. /\ NoDouble'
        /\ pc'[p] \in {"bounce", "truncate", "unlinkE", "createT", "requeue"}
        /\ pc'[p] = "bounce" => plan'[p].kind \in {"delete", "rewrite"}
        /\ pc'[p] = "createT" \/ (pc'[p] = "bounce" /\ plan'[p].kind = "rewrite")
                => rcpt[p] \cap Served' \subseteq plan'[p].remove
        /\ pc'[p] = "requeue" => Served' \subseteq Served
    BY <1>0, <1>b, <2>2, AttemptAlone
  <2> QED  BY <1>0, <2>1, <2>2, <2>3 DEF AloneRcpts
<1>c. CASE ~Attempt(p)
  <2>2. Served' \subseteq Served /\ NoDouble'
    <3>1. CASE UNCHANGED <<copies, unheard>>
      BY <3>1 DEF Served, Delivered, NoDouble
    <3>2. CASE PuntDown(p) /\ HandOver(rcpt[p], FALSE)
      <4>1. rcpt[p] \in SUBSET Rcpt /\ FALSE \in BOOLEAN
        BY <1>0 DEF TypeOK, SpoolTypeOK
      <4>2. rcpt[p] \cap Served = {}
        BY <1>0, <3>2 DEF PuntDown, AloneRcpts
      <4> QED  BY <1>0, <3>2, <4>1, <4>2, HandOverStep
    <3>3. ~PuntDown(p) => UNCHANGED <<copies, unheard>>
      BY <1>c
         DEF RunnerStep, ReadQueueInfo, TimeOrder, OpenEfile, LockEfile,
             ReadEfile, OpenDfile, WriteBounce, Truncate,
             UnlinkEfile, UnlinkDfile, CreateTfile, WriteTfile, RenameTfile,
             MessageCleanup, Close, PuntAgain, PuntLeftOver, RunnerMove,
             deliverVars
    <3>4. PuntDown(p) =>
            UNCHANGED <<copies, unheard>> \/ HandOver(rcpt[p], FALSE)
      BY DEF PuntDown
    <3> QED  BY <3>1, <3>2, <3>3, <3>4
  <2>3. AloneRcpts(p)'
    <3> USE DEF TypeOK, SpoolTypeOK, AloneRcpts, AloneFiles, InFast, Writing,
                disk, deliverVars, Dir, Readable
    <3>1. CASE ReadQueueInfo(p)
      BY <1>0, <1>a, <2>2, <3>1
         DEF ReadQueueInfo, Goto, Ownership, OneWriter
    <3>2. CASE TimeOrder(p)
      BY <1>0, <1>a, <2>2, <3>2
         DEF TimeOrder, Goto, Ownership, OneWriter
    <3>3. CASE OpenEfile(p)
      BY <1>0, <1>a, <2>2, <3>3
         DEF OpenEfile, Goto, Ownership, OneWriter
    <3>4. CASE LockEfile(p)
      BY <1>0, <1>a, <2>2, <3>4
         DEF LockEfile, Goto, Ownership, OneWriter
    <3>5. CASE ReadEfile(p)
      BY <1>0, <1>a, <2>2, <3>5
         DEF ReadEfile, Goto, CloseLock, Ownership, OneWriter
    <3>6. CASE OpenDfile(p)
      BY <1>0, <1>a, <2>2, <3>6
         DEF OpenDfile, Goto, Ownership, OneWriter
    <3>7. CASE PuntDown(p)
      BY <1>0, <1>a, <2>2, <3>7
         DEF PuntDown, Goto, Ownership, OneWriter
    <3>8. CASE WriteBounce(p)
      BY <1>0, <1>a, <2>2, <3>8
         DEF WriteBounce, Goto, FirstStep, Ownership, OneWriter
    <3>9. CASE Truncate(p)
      BY <1>0, <1>a, <2>2, <3>9
         DEF Truncate, Goto, CommitBounce, Ownership, OneWriter
    <3>10. CASE UnlinkEfile(p)
      BY <1>0, <1>a, <2>2, <3>10
         DEF UnlinkEfile, Goto, CommitBounce, Count, Ownership, OneWriter
    <3>11. CASE UnlinkDfile(p)
      BY <1>0, <1>a, <2>2, <3>11
         DEF UnlinkDfile, Goto, Ownership, OneWriter
    <3>12. CASE CreateTfile(p)
      BY <1>0, <1>a, <2>2, <3>12
         DEF CreateTfile, Goto, Ownership, OneWriter
    <3>13. CASE WriteTfile(p)
      BY <1>0, <1>a, <2>2, <3>13
         DEF WriteTfile, Goto, Ownership, OneWriter
    <3>14. CASE RenameTfile(p)
      BY <1>0, <1>a, <2>2, <3>14
         DEF RenameTfile, Goto, CommitBounce, Ownership, OneWriter
    <3>15. CASE MessageCleanup(p)
      BY <1>0, <1>a, <2>2, <3>15
         DEF MessageCleanup, Goto, EnvMove, Ownership, OneWriter
    <3>16. CASE Close(p)
      BY <1>0, <1>a, <2>2, <3>16
         DEF Close, Goto, CloseLock, Ownership, OneWriter
    <3>17. CASE PuntAgain(p)
      BY <1>0, <1>a, <2>2, <3>17
         DEF PuntAgain, Goto, Ownership, OneWriter
    <3>18. CASE PuntLeftOver(p)
      BY <1>0, <1>a, <2>2, <3>18
         DEF PuntLeftOver, Goto, EnvMove, Ownership, OneWriter
    <3>19. CASE MoveLinkD(p) /\ UNCHANGED deliverVars
      BY <1>0, <1>a, <2>2, <3>19
         DEF MoveLinkD, Goto, Ownership, OneWriter
    <3>20. CASE MoveLinkE(p) /\ UNCHANGED deliverVars
      BY <1>0, <1>a, <2>2, <3>20
         DEF MoveLinkE, Goto, Count, Ownership, OneWriter
    <3>21. CASE MoveUnlinkE(p) /\ UNCHANGED deliverVars
      BY <1>0, <1>a, <2>2, <3>21
         DEF MoveUnlinkE, Goto, Count, Ownership, OneWriter
    <3>22. CASE MoveUnlinkD(p) /\ UNCHANGED deliverVars
      BY <1>0, <1>a, <2>2, <3>22
         DEF MoveUnlinkD, Goto, Ownership, OneWriter
    <3> QED
      BY <1>c, <3>1, <3>2, <3>3, <3>4, <3>5, <3>6, <3>7, <3>8, <3>9, <3>10,
         <3>11, <3>12, <3>13, <3>14, <3>15, <3>16, <3>17, <3>18, <3>19, <3>20,
         <3>21, <3>22, <1>0
         DEF RunnerStep, RunnerMove, MoveStep, Ownership, MoveUndoE, MoveUndoD
  <2> QED  BY <2>2, <2>3
<1> QED  BY <1>b, <1>c

\* Nothing has been delivered from the only envelope.
LEMMA AloneInit == Init => AloneInv
<1> SUFFICES ASSUME NEW i \in Inode, NEW d \in {"slow", "fast"},
                    NEW creator \in Proc, InitAt(i, d, creator)
             PROVE  Alone /\ NoDouble
  BY BaseInit DEF Init, AloneInv
<1>1. NoDouble /\ Served = {}
  BY DEF InitAt, NoDouble, Served, Delivered
<1>2. ASSUME NEW p \in Proc PROVE AloneFiles(p) /\ AloneRcpts(p)
  <2>1. /\ pc[p] \in {"idle", "openD"} /\ dir[p] = d /\ fd[p] = None
        /\ \A e \in Dir : Tfile[e] = None /\ (Efile[e] # None => e = d)
        /\ Efile[d] # None
    BY NoneAssumption DEF InitAt, Dir
  <2> QED  BY <1>1, <2>1 DEF AloneFiles, AloneRcpts
<1> QED  BY <1>1, <1>2 DEF Alone

\* AloneInv is inductive.
LEMMA AloneNext ==
    ASSUME OneRunner, ~DiskErrors
    PROVE  AloneInv /\ [Next]_vars => AloneInv'
<1> SUFFICES ASSUME AloneInv, [Next]_vars, crashes' = 0
             PROVE  Alone' /\ NoDouble'
  BY TypeStep, OwnershipStep, OneWriterStep DEF BaseInv, AloneInv
<1>0. BaseInv /\ crashes \in Nat
  BY DEF AloneInv, BaseInv, TypeOK
<1>1. ASSUME NEW p \in Proc, RunnerStep(p) PROVE Alone' /\ NoDouble'
  <2>1. crashes = 0
    BY <1>1
       DEF RunnerStep, ReadQueueInfo, TimeOrder, OpenEfile, LockEfile,
           ReadEfile, OpenDfile, Attempt, PuntDown, WriteBounce, Truncate,
           UnlinkEfile, UnlinkDfile, CreateTfile, WriteTfile, RenameTfile,
           MessageCleanup, Close, PuntAgain, PuntLeftOver, RunnerMove,
           deliverVars
  <2>2. AloneFiles(p) /\ AloneRcpts(p) /\ NoDouble
    BY <2>1 DEF AloneInv, Alone
  <2>3. AloneFiles(p)'
    BY <1>0, <1>1, <2>2, AloneFilesStep DEF AloneRcpts
  <2>4. AloneRcpts(p)' /\ NoDouble'
    BY <1>0, <1>1, <2>2, AloneRcptsStep
  <2> QED  BY <2>3, <2>4 DEF OneRunner, Alone
<1>2. ASSUME NEW p \in Proc, Crash(p) PROVE FALSE
  BY <1>0, <1>2 DEF Crash
<1>3. CASE GetOld \/ UNCHANGED vars
  <2>1. UNCHANGED <<spoolVars, plan, copies, unheard, crashes>>
    BY <1>3 DEF GetOld, vars, deliverVars
  <2>2. Alone /\ NoDouble
    BY <2>1 DEF AloneInv
  <2> QED
    BY <2>1, <2>2
       DEF Alone, AloneFiles, AloneRcpts, NoDouble, Writing, Served,
           Delivered, spoolVars, disk, memory
<1> QED
  BY <1>1, <1>2, <1>3 DEF Next, Terminating

\* A runner alone delivers to every recipient once, however many there are:
\* through partial deliveries, the rewriting of the envelope, runs that follow
\* one another and further tries at the punt host, unless it is killed or cannot
\* write.  The exception is a recipient some host took and whose answer was lost
\* or cut short: _q_deliver returns for HOST_PUNT_DOWN without a look at
\* d_delivered (_q_deliver, env_outfile, env_efile, message_cleanup).
THEOREM AloneDeliversOnce ==
    ASSUME OneRunner, ~DiskErrors
    PROVE  Spec => []OnceUnlessKilled
<1>1. AloneInv => OnceUnlessKilled
  BY DEF AloneInv, OnceUnlessKilled
<1> QED  BY <1>1, AloneInit, AloneNext, PTL DEF Spec
=============================================================================
