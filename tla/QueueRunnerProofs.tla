------------------------- MODULE QueueRunnerProofs -------------------------
(***************************************************************************)
(* Proofs about the runners of module QueueRunner, for any number of local *)
(* runners, slow runners and receivers.                                    *)
(*                                                                         *)
(* A message has no lock.  What its processes rely on is that link(2)      *)
(* refuses a name that is there: who links the D file in a directory has   *)
(* claimed the directory, who links the E file in fast holds the message.  *)
(***************************************************************************)
EXTENDS QueueRunner, TLAPS

---------------------------------------------------------------------------
(* The inductive invariant.                                                *)

\* The two calls of env_move.
ToFast == [to |-> "fast", done |-> "readE", failed |-> "cleanup"]
ToSlow == [to |-> "slow", done |-> "free", failed |-> "free"]

\* What is done to a message that was taken: it is in fast.
TakenStep == {"readE", "expand", "unlinkE", "unlinkD",
              "bounce", "unlinkOldE", "unlinkOldD"}

\* Who may be where: a move is one of the two, a runner works on the mail of
\* its own directory or on mail in fast, and only slow runners bounce.
Role(p) ==
    /\ move[p] \in {ToFast, ToSlow}
    /\ pc[p] \in MoveLabel =>
        dir[p] # move[p].to /\ (dir[p] = "slow" => move[p] = ToFast)
    /\ pc[p] \in {"stat", "take"} => dir[p] # "fast"
    /\ pc[p] \in TakenStep => dir[p] = "fast"
    /\ pc[p] \in {"bounce", "unlinkOldE", "unlinkOldD"} => p \in SlowRunner
    /\ pc[p] \notin {"off", "idle", "free"} =>
        /\ dir[p] = "slow" => p \in SlowRunner
        /\ dir[p] = "local" => p \in LocalRunner

Roles == \A p \in Proc : Role(p)

\* Every name of the envelope is a link to the file that lists the recipients.
OneText == \A d \in Dir : Efile[d] # None => text[Efile[d]] = Rcpt

\* p has linked the D file of d and not the E file yet, or has unlinked the E
\* file of d and not the D file yet.
Claims(p, d) ==
    \/ dir[p] = d /\ pc[p] \in {"moveUnlinkD", "unlinkD", "unlinkOldD"}
    \/ move[p].to = d /\ pc[p] \in {"moveLinkE", "moveUndoD"}

\* The D file is what a directory is claimed by.
ClaimedByOne ==
    /\ NoLoneEfile
    /\ \A p \in Proc, d \in Dir : Claims(p, d) =>
        /\ Dfile[d] /\ Efile[d] = None
        /\ \A q \in Proc : Claims(q, d) => q = p

\* p has the message in fast: it linked the E file there and has not unlinked
\* it.  (A slow runner that has bounced the message cleans up after it.)
Holds(p) ==
    \/ /\ dir[p] = "fast"
       /\ pc[p] \in {"readE", "expand", "unlinkE", "bounce", "unlinkOldE",
                     "cleanup", "moveLinkD", "moveLinkE", "moveUnlinkE"}
    \/ /\ move[p].to = "fast"
       /\ pc[p] \in {"moveUnlinkE", "moveUnlinkD", "moveUndoE"}

\* The message in fast has one holder, who has counted it, until it is bounced.
HeldByOne ==
    \A p \in Proc :
        /\ pc[p] # "unlinkOldD"
        /\ Holds(p) =>
            /\ Efile["fast"] # None /\ fastFiles[p] > 0
            /\ \A q \in Proc : Holds(q) => q = p

\* p moves the message from local to d and has linked its D file.
Leaving(p, d) ==
    /\ dir[p] = "local" /\ move[p].to = d
    /\ pc[p] \in {"moveLinkE", "moveUnlinkE"}

\* As long as the envelope is in local, fast and slow are reached from there
\* only, fast by the first local runner and slow by one that came too late for
\* fast.  None of their moves is complete.
LocalOf(p) ==
    /\ pc[p] \notin TakenStep
    /\ pc[p] \in MoveLabel \ {"moveLinkD"} =>
        dir[p] = "local" /\ pc[p] \in {"moveLinkE", "moveUnlinkE"}
    /\ pc[p] \in {"cleanup"} \union MoveLabel => dir[p] # "fast"
    /\ /\ dir[p] = "local"
       /\ pc[p] = "cleanup" \/ (pc[p] \in MoveLabel /\ move[p] = ToSlow)
       => Dfile["fast"]

FromLocal ==
    Efile["local"] # None =>
        /\ \A d \in {"fast", "slow"} :
            Dfile[d] => \E p \in Proc : Leaving(p, d)
        /\ \A p \in Proc : LocalOf(p)

\* What a slow runner has taken to fast is the only envelope left.
LastCopy ==
    \A p \in SlowRunner :
        Holds(p) /\ (dir[p] = "fast" \/ pc[p] = "moveUnlinkD") =>
            /\ Efile["local"] = None
            /\ pc[p] # "moveUnlinkE" => Efile["slow"] = None

\* So a bounce leaves none.
BaseInv ==
    /\ TypeOK /\ Roles /\ OneText /\ ClaimedByOne
    /\ bounces = 0 => HeldByOne /\ FromLocal /\ LastCopy
    /\ bounces # 0 => \A d \in Dir : Efile[d] = None

---------------------------------------------------------------------------
(* Types, and what a step leaves alone.                                    *)

\* A step is a step of one process: the others' memories stay as they are, and
\* so does the text of the envelope.
LEMMA Frame ==
    ASSUME TypeOK, NEW p \in Proc, RunnerStep(p)
    PROVE  /\ text' = text
           /\ \A q \in Proc : q # p =>
                /\ pc'[q] = pc[q] /\ dir'[q] = dir[q] /\ move'[q] = move[q]
                /\ fastFiles'[q] = fastFiles[q]
<1> USE DEF TypeOK, SpoolTypeOK, disk, runnerVars
<1>1. CASE ReadQueueInfo(p)
  BY <1>1
     DEF ReadQueueInfo, Goto
<1>2. CASE TimeOrder(p)
  BY <1>2
     DEF TimeOrder, Goto
<1>3. CASE Take(p)
  BY <1>3
     DEF Take, Goto, EnvMove
<1>4. CASE ReadEfile(p)
  BY <1>4
     DEF ReadEfile, Goto
<1>5. CASE Expand(p)
  BY <1>5
     DEF Expand, Goto
<1>6. CASE ExpandFails(p)
  BY <1>6
     DEF ExpandFails, Goto
<1>7. CASE UnlinkEfile(p)
  BY <1>7
     DEF UnlinkEfile, Goto, Count
<1>8. CASE UnlinkDfile(p)
  BY <1>8
     DEF UnlinkDfile, Goto
<1>9. CASE BounceWritten(p)
  BY <1>9
     DEF BounceWritten, Goto
<1>10. CASE BounceFails(p)
  BY <1>10
     DEF BounceFails, Goto
<1>11. CASE UnlinkOldEfile(p)
  BY <1>11
     DEF UnlinkOldEfile, Goto, Count
<1>12. CASE UnlinkOldDfile(p)
  BY <1>12
     DEF UnlinkOldDfile, Goto
<1>13. CASE CleanUp(p)
  BY <1>13
     DEF CleanUp, Goto, EnvMove
<1>14. CASE Exit(p)
  BY <1>14
     DEF Exit, Goto
<1>15. CASE MoveLinkD(p) /\ UNCHANGED runnerVars
  BY <1>15
     DEF MoveLinkD, Goto
<1>16. CASE MoveLinkE(p) /\ UNCHANGED runnerVars
  BY <1>16
     DEF MoveLinkE, Goto, Count
<1>17. CASE MoveUnlinkE(p) /\ UNCHANGED runnerVars
  BY <1>17
     DEF MoveUnlinkE, Goto, Count
<1>18. CASE MoveUnlinkD(p) /\ UNCHANGED runnerVars
  BY <1>18
     DEF MoveUnlinkD, Goto
<1>19. CASE MoveUndoE(p) /\ UNCHANGED runnerVars
  BY <1>19
     DEF MoveUndoE, Goto, Count
<1>20. CASE MoveUndoD(p) /\ UNCHANGED runnerVars
  BY <1>20
     DEF MoveUndoD, Goto
<1> QED
  BY <1>1, <1>2, <1>3, <1>4, <1>5, <1>6, <1>7, <1>8, <1>9, <1>10, <1>11,
     <1>12, <1>13, <1>14, <1>15, <1>16, <1>17, <1>18, <1>19, <1>20
     DEF RunnerStep, RunnerMove, MoveStep

\* The next label is one.
LEMMA GotoType ==
    ASSUME pc \in [Proc -> Label], NEW p, NEW l \in Label, Goto(p, l)
    PROVE  pc' \in [Proc -> Label]
BY DEF Goto

\* Every step goes to a label.
LEMMA PcType ==
    ASSUME TypeOK, NEW p \in Proc, RunnerStep(p)
    PROVE  pc' \in [Proc -> Label]
<1>0. pc \in [Proc -> Label] /\ move[p].done \in Label /\ move[p].failed \in Label
  BY DEF TypeOK, SpoolTypeOK
<1>1. CASE ReadQueueInfo(p)
  BY <1>1, <1>0, GotoType DEF ReadQueueInfo, Label, MoveLabel
<1>2. CASE TimeOrder(p)
  BY <1>2, <1>0, GotoType DEF TimeOrder, Label, MoveLabel
<1>3. CASE Take(p)
  BY <1>3, <1>0, GotoType DEF Take, EnvMove, Label, MoveLabel
<1>4. CASE ReadEfile(p)
  BY <1>4, <1>0, GotoType DEF ReadEfile, Label, MoveLabel
<1>5. CASE Expand(p)
  BY <1>5, <1>0, GotoType DEF Expand, Label, MoveLabel
<1>6. CASE ExpandFails(p)
  BY <1>6, <1>0, GotoType DEF ExpandFails, Label, MoveLabel
<1>7. CASE UnlinkEfile(p)
  BY <1>7, <1>0, GotoType DEF UnlinkEfile, Label, MoveLabel
<1>8. CASE UnlinkDfile(p)
  BY <1>8, <1>0, GotoType DEF UnlinkDfile, Label, MoveLabel
<1>9. CASE BounceWritten(p)
  BY <1>9, <1>0, GotoType DEF BounceWritten, Label, MoveLabel
<1>10. CASE BounceFails(p)
  BY <1>10, <1>0, GotoType DEF BounceFails, Label, MoveLabel
<1>11. CASE UnlinkOldEfile(p)
  BY <1>11, <1>0, GotoType DEF UnlinkOldEfile, Label, MoveLabel
<1>12. CASE UnlinkOldDfile(p)
  BY <1>12, <1>0, GotoType DEF UnlinkOldDfile, Label, MoveLabel
<1>13. CASE CleanUp(p)
  BY <1>13, <1>0, GotoType DEF CleanUp, EnvMove, Label, MoveLabel
<1>14. CASE Exit(p)
  BY <1>14, <1>0, GotoType DEF Exit, Label, MoveLabel
<1>15. CASE MoveLinkD(p) /\ UNCHANGED runnerVars
  BY <1>15, <1>0, GotoType DEF MoveLinkD, Label, MoveLabel
<1>16. CASE MoveLinkE(p) /\ UNCHANGED runnerVars
  BY <1>16, <1>0, GotoType DEF MoveLinkE, Label, MoveLabel
<1>17. CASE MoveUnlinkE(p) /\ UNCHANGED runnerVars
  BY <1>17, <1>0, GotoType DEF MoveUnlinkE, Label, MoveLabel
<1>18. CASE MoveUnlinkD(p) /\ UNCHANGED runnerVars
  BY <1>18, <1>0, GotoType DEF MoveUnlinkD, Label, MoveLabel
<1>19. CASE MoveUndoE(p) /\ UNCHANGED runnerVars
  BY <1>19, <1>0, GotoType DEF MoveUndoE, Label, MoveLabel
<1>20. CASE MoveUndoD(p) /\ UNCHANGED runnerVars
  BY <1>20, <1>0, GotoType DEF MoveUndoD, Label, MoveLabel
<1> QED
  BY <1>1, <1>2, <1>3, <1>4, <1>5, <1>6, <1>7, <1>8, <1>9, <1>10, <1>11,
     <1>12, <1>13, <1>14, <1>15, <1>16, <1>17, <1>18, <1>19, <1>20
     DEF RunnerStep, RunnerMove, MoveStep

\* Who takes an envelope out of fast has counted it.
LEMMA CountedOff ==
    ASSUME BaseInv, NEW p \in Proc, Holds(p), Efile["fast"] # None
    PROVE  fastFiles[p] - 1 \in Nat
BY DEF BaseInv, HeldByOne, TypeOK, SpoolTypeOK, Dir

\* Every step keeps the types.
LEMMA TypeStep ==
    ASSUME BaseInv, NEW p \in Proc, RunnerStep(p)
    PROVE  TypeOK'
<1>0. TypeOK /\ Roles
  BY DEF BaseInv
<1>a. dir[p] \in Dir /\ move[p].to \in Dir
  BY <1>0 DEF TypeOK, SpoolTypeOK
<1>b. pc' \in [Proc -> Label]
  BY <1>0, PcType
<1> USE DEF TypeOK, SpoolTypeOK, disk, runnerVars
<1>1. CASE ReadQueueInfo(p)
  <2>1. dir' \in [Proc -> Dir]
    BY <1>1, <1>0 DEF ReadQueueInfo, Dir
  <2> QED
    BY <1>1, <1>0, <1>a, <1>b, <2>1 DEF ReadQueueInfo
<1>2. CASE TimeOrder(p)
  BY <1>2, <1>0, <1>a, <1>b DEF TimeOrder
<1>3. CASE Take(p)
  <2>1. move' \in [Proc -> [to : Dir, done : Label, failed : Label]]
    BY <1>3, <1>0 DEF Take, EnvMove, Dir, Label
  <2> QED
    BY <1>3, <1>0, <1>a, <1>b, <2>1 DEF Take
<1>4. CASE ReadEfile(p)
  <2>1. rcpt' \in [Proc -> SUBSET Rcpt]
    BY <1>4, <1>0, <1>a DEF ReadEfile, Readable
  <2> QED
    BY <1>4, <1>0, <1>a, <1>b, <2>1 DEF ReadEfile
<1>5. CASE Expand(p)
  BY <1>5, <1>0, <1>a, <1>b DEF Expand
<1>6. CASE ExpandFails(p)
  BY <1>6, <1>0, <1>a, <1>b DEF ExpandFails
<1>7. CASE UnlinkEfile(p)
  <2>1. fastFiles' \in [Proc -> Nat]
    <3>1. CASE Efile[dir[p]] # None
      <4>1. fastFiles[p] - 1 \in Nat
        BY <1>7, <1>0, <3>1, CountedOff
           DEF UnlinkEfile, Holds, TakenStep, Roles, Role
      <4> QED  BY <1>7, <1>0, <3>1, <4>1 DEF UnlinkEfile, Count
    <3>2. CASE ~(Efile[dir[p]] # None)
      BY <1>7, <1>0, <3>2 DEF UnlinkEfile, Count, Roles, Role, TakenStep
    <3> QED  BY <3>1, <3>2
  <2>2. Efile' \in [Dir -> Inode \union {None}]
    BY <1>7, <1>0 DEF UnlinkEfile
  <2> QED
    BY <1>7, <1>0, <1>a, <1>b, <2>1, <2>2 DEF UnlinkEfile
<1>8. CASE UnlinkDfile(p)
  <2>1. Dfile' \in [Dir -> BOOLEAN]
    BY <1>8, <1>0, <1>a, Zenon DEF UnlinkDfile
  <2> QED
    BY <1>8, <1>0, <1>a, <1>b, <2>1 DEF UnlinkDfile
<1>9. CASE BounceWritten(p)
  BY <1>9, <1>0, <1>a, <1>b DEF BounceWritten
<1>10. CASE BounceFails(p)
  BY <1>10, <1>0, <1>a, <1>b DEF BounceFails
<1>11. CASE UnlinkOldEfile(p)
  <2>1. fastFiles' \in [Proc -> Nat]
    <3>1. CASE Efile[dir[p]] # None
      <4>1. fastFiles[p] - 1 \in Nat
        BY <1>11, <1>0, <3>1, CountedOff
           DEF UnlinkOldEfile, Holds, TakenStep, Roles, Role
      <4> QED  BY <1>11, <1>0, <3>1, <4>1 DEF UnlinkOldEfile, Count
    <3>2. CASE ~(Efile[dir[p]] # None)
      BY <1>11, <1>0, <3>2 DEF UnlinkOldEfile, Count, Roles, Role, TakenStep
    <3> QED  BY <3>1, <3>2
  <2>2. Efile' \in [Dir -> Inode \union {None}]
    BY <1>11, <1>0 DEF UnlinkOldEfile
  <2> QED
    BY <1>11, <1>0, <1>a, <1>b, <2>1, <2>2 DEF UnlinkOldEfile
<1>12. CASE UnlinkOldDfile(p)
  <2>1. Dfile' \in [Dir -> BOOLEAN]
    BY <1>12, <1>0, <1>a, Zenon DEF UnlinkOldDfile
  <2> QED
    BY <1>12, <1>0, <1>a, <1>b, <2>1 DEF UnlinkOldDfile
<1>13. CASE CleanUp(p)
  <2>1. move' \in [Proc -> [to : Dir, done : Label, failed : Label]]
    BY <1>13, <1>0 DEF CleanUp, EnvMove, Dir, Label
  <2> QED
    BY <1>13, <1>0, <1>a, <1>b, <2>1 DEF CleanUp
<1>14. CASE Exit(p)
  BY <1>14, <1>0, <1>a, <1>b DEF Exit
<1>15. CASE MoveLinkD(p) /\ UNCHANGED runnerVars
  <2>1. Dfile' \in [Dir -> BOOLEAN]
    BY <1>15, <1>0, <1>a, Zenon DEF MoveLinkD
  <2> QED
    BY <1>15, <1>0, <1>a, <1>b, <2>1 DEF MoveLinkD
<1>16. CASE MoveLinkE(p) /\ UNCHANGED runnerVars
  <2>1. Efile' \in [Dir -> Inode \union {None}]
    BY <1>16, <1>0, <1>a DEF MoveLinkE
  <2>2. fastFiles' \in [Proc -> Nat]
    BY <1>16, <1>0 DEF MoveLinkE, Count
  <2> QED
    BY <1>16, <1>0, <1>a, <1>b, <2>1, <2>2 DEF MoveLinkE
<1>17. CASE MoveUnlinkE(p) /\ UNCHANGED runnerVars
  <2>1. fastFiles' \in [Proc -> Nat]
    <3>1. CASE Efile[dir[p]] # None /\ dir[p] = "fast"
      <4>1. fastFiles[p] - 1 \in Nat
        BY <1>17, <1>0, <3>1, CountedOff
           DEF MoveUnlinkE, Holds, TakenStep, Roles, Role
      <4> QED  BY <1>17, <1>0, <3>1, <4>1 DEF MoveUnlinkE, Count
    <3>2. CASE ~(Efile[dir[p]] # None /\ dir[p] = "fast")
      BY <1>17, <1>0, <3>2 DEF MoveUnlinkE, Count
    <3> QED  BY <3>1, <3>2
  <2>2. Efile' \in [Dir -> Inode \union {None}]
    BY <1>17, <1>0 DEF MoveUnlinkE
  <2> QED
    BY <1>17, <1>0, <1>a, <1>b, <2>1, <2>2 DEF MoveUnlinkE
<1>18. CASE MoveUnlinkD(p) /\ UNCHANGED runnerVars
  <2>1. Dfile' \in [Dir -> BOOLEAN]
    BY <1>18, <1>0, <1>a, Zenon DEF MoveUnlinkD
  <2>2. dir' \in [Proc -> Dir]
    BY <1>18, <1>0, <1>a DEF MoveUnlinkD
  <2> QED
    BY <1>18, <1>0, <1>a, <1>b, <2>1, <2>2 DEF MoveUnlinkD
<1>19. CASE MoveUndoE(p) /\ UNCHANGED runnerVars
  <2>1. fastFiles' \in [Proc -> Nat]
    <3>1. CASE Efile[move[p].to] # None /\ move[p].to = "fast"
      <4>1. fastFiles[p] - 1 \in Nat
        BY <1>19, <1>0, <3>1, CountedOff
           DEF MoveUndoE, Holds, TakenStep, Roles, Role
      <4> QED  BY <1>19, <1>0, <3>1, <4>1 DEF MoveUndoE, Count
    <3>2. CASE ~(Efile[move[p].to] # None /\ move[p].to = "fast")
      BY <1>19, <1>0, <3>2 DEF MoveUndoE, Count
    <3> QED  BY <3>1, <3>2
  <2>2. Efile' \in [Dir -> Inode \union {None}]
    BY <1>19, <1>0 DEF MoveUndoE
  <2> QED
    BY <1>19, <1>0, <1>a, <1>b, <2>1, <2>2 DEF MoveUndoE
<1>20. CASE MoveUndoD(p) /\ UNCHANGED runnerVars
  <2>1. Dfile' \in [Dir -> BOOLEAN]
    BY <1>20, <1>0, <1>a, Zenon DEF MoveUndoD
  <2> QED
    BY <1>20, <1>0, <1>a, <1>b, <2>1 DEF MoveUndoD
<1> QED
  BY <1>1, <1>2, <1>3, <1>4, <1>5, <1>6, <1>7, <1>8, <1>9, <1>10, <1>11,
     <1>12, <1>13, <1>14, <1>15, <1>16, <1>17, <1>18, <1>19, <1>20
     DEF RunnerStep, RunnerMove, MoveStep

---------------------------------------------------------------------------
(* Claims on a directory.                                                  *)

\* A process stays within the steps of its kind.
LEMMA RolesStep ==
    ASSUME BaseInv, NEW p \in Proc, RunnerStep(p)
    PROVE  Roles'
<1>0. TypeOK /\ Role(p)
  BY DEF BaseInv, Roles
<1>a. ASSUME NEW q \in Proc, q # p PROVE Role(q)'
  BY <1>a, <1>0, Frame DEF BaseInv, Roles, Role
<1>b. Role(p)'
  <2> USE DEF TypeOK, SpoolTypeOK, disk, runnerVars, Role, TakenStep, MoveLabel
  <2>1. CASE ReadQueueInfo(p)
    BY <1>0, <2>1
       DEF ReadQueueInfo, Goto, ToFast, ToSlow
  <2>2. CASE TimeOrder(p)
    BY <1>0, <2>2
       DEF TimeOrder, Goto, ToFast, ToSlow
  <2>3. CASE Take(p)
    BY <1>0, <2>3
       DEF Take, Goto, EnvMove, ToFast, ToSlow
  <2>4. CASE ReadEfile(p)
    BY <1>0, <2>4
       DEF ReadEfile, Goto, ToFast, ToSlow
  <2>5. CASE Expand(p)
    BY <1>0, <2>5
       DEF Expand, Goto, ToFast, ToSlow
  <2>6. CASE ExpandFails(p)
    BY <1>0, <2>6
       DEF ExpandFails, Goto, ToFast, ToSlow
  <2>7. CASE UnlinkEfile(p)
    BY <1>0, <2>7
       DEF UnlinkEfile, Goto, Count, ToFast, ToSlow
  <2>8. CASE UnlinkDfile(p)
    BY <1>0, <2>8
       DEF UnlinkDfile, Goto, ToFast, ToSlow
  <2>9. CASE BounceWritten(p)
    BY <1>0, <2>9
       DEF BounceWritten, Goto, ToFast, ToSlow
  <2>10. CASE BounceFails(p)
    BY <1>0, <2>10
       DEF BounceFails, Goto, ToFast, ToSlow
  <2>11. CASE UnlinkOldEfile(p)
    BY <1>0, <2>11
       DEF UnlinkOldEfile, Goto, Count, ToFast, ToSlow
  <2>12. CASE UnlinkOldDfile(p)
    BY <1>0, <2>12
       DEF UnlinkOldDfile, Goto, ToFast, ToSlow
  <2>13. CASE CleanUp(p)
    BY <1>0, <2>13
       DEF CleanUp, Goto, EnvMove, ToFast, ToSlow
  <2>14. CASE Exit(p)
    BY <1>0, <2>14
       DEF Exit, Goto, ToFast, ToSlow
  <2>15. CASE MoveLinkD(p) /\ UNCHANGED runnerVars
    BY <1>0, <2>15
       DEF MoveLinkD, Goto, ToFast, ToSlow
  <2>16. CASE MoveLinkE(p) /\ UNCHANGED runnerVars
    BY <1>0, <2>16
       DEF MoveLinkE, Goto, Count, ToFast, ToSlow
  <2>17. CASE MoveUnlinkE(p) /\ UNCHANGED runnerVars
    BY <1>0, <2>17
       DEF MoveUnlinkE, Goto, Count, ToFast, ToSlow
  <2>18. CASE MoveUnlinkD(p) /\ UNCHANGED runnerVars
    BY <1>0, <2>18
       DEF MoveUnlinkD, Goto, ToFast, ToSlow
  <2>19. CASE MoveUndoE(p) /\ UNCHANGED runnerVars
    BY <1>0, <2>19
       DEF MoveUndoE, Goto, Count, ToFast, ToSlow
  <2>20. CASE MoveUndoD(p) /\ UNCHANGED runnerVars
    BY <1>0, <2>20
       DEF MoveUndoD, Goto, ToFast, ToSlow
  <2> QED
    BY <2>1, <2>2, <2>3, <2>4, <2>5, <2>6, <2>7, <2>8, <2>9, <2>10, <2>11,
       <2>12, <2>13, <2>14, <2>15, <2>16, <2>17, <2>18, <2>19, <2>20
       DEF RunnerStep, RunnerMove, MoveStep
<1> QED  BY <1>a, <1>b DEF Roles

\* No step makes another envelope, or changes the one there is.
LEMMA OneTextStep ==
    ASSUME BaseInv, NEW p \in Proc, RunnerStep(p)
    PROVE  OneText'
<1>0. TypeOK /\ OneText
  BY DEF BaseInv
<1>a. text' = text /\ dir[p] \in Dir /\ move[p].to \in Dir
  BY <1>0, Frame DEF TypeOK, SpoolTypeOK
<1> USE DEF TypeOK, SpoolTypeOK, disk, runnerVars, OneText
<1>1. CASE ReadQueueInfo(p)
  BY <1>1, <1>0, <1>a DEF ReadQueueInfo
<1>2. CASE TimeOrder(p)
  BY <1>2, <1>0, <1>a DEF TimeOrder
<1>3. CASE Take(p)
  BY <1>3, <1>0, <1>a DEF Take
<1>4. CASE ReadEfile(p)
  BY <1>4, <1>0, <1>a DEF ReadEfile
<1>5. CASE Expand(p)
  BY <1>5, <1>0, <1>a DEF Expand
<1>6. CASE ExpandFails(p)
  BY <1>6, <1>0, <1>a DEF ExpandFails
<1>7. CASE UnlinkEfile(p)
  BY <1>7, <1>0, <1>a DEF UnlinkEfile
<1>8. CASE UnlinkDfile(p)
  BY <1>8, <1>0, <1>a DEF UnlinkDfile
<1>9. CASE BounceWritten(p)
  BY <1>9, <1>0, <1>a DEF BounceWritten
<1>10. CASE BounceFails(p)
  BY <1>10, <1>0, <1>a DEF BounceFails
<1>11. CASE UnlinkOldEfile(p)
  BY <1>11, <1>0, <1>a DEF UnlinkOldEfile
<1>12. CASE UnlinkOldDfile(p)
  BY <1>12, <1>0, <1>a DEF UnlinkOldDfile
<1>13. CASE CleanUp(p)
  BY <1>13, <1>0, <1>a DEF CleanUp
<1>14. CASE Exit(p)
  BY <1>14, <1>0, <1>a DEF Exit
<1>15. CASE MoveLinkD(p) /\ UNCHANGED runnerVars
  BY <1>15, <1>0, <1>a DEF MoveLinkD
<1>16. CASE MoveLinkE(p) /\ UNCHANGED runnerVars
  BY <1>16, <1>0, <1>a DEF MoveLinkE
<1>17. CASE MoveUnlinkE(p) /\ UNCHANGED runnerVars
  BY <1>17, <1>0, <1>a DEF MoveUnlinkE
<1>18. CASE MoveUnlinkD(p) /\ UNCHANGED runnerVars
  BY <1>18, <1>0, <1>a DEF MoveUnlinkD
<1>19. CASE MoveUndoE(p) /\ UNCHANGED runnerVars
  BY <1>19, <1>0, <1>a DEF MoveUndoE
<1>20. CASE MoveUndoD(p) /\ UNCHANGED runnerVars
  BY <1>20, <1>0, <1>a DEF MoveUndoD
<1> QED
  BY <1>1, <1>2, <1>3, <1>4, <1>5, <1>6, <1>7, <1>8, <1>9, <1>10, <1>11,
     <1>12, <1>13, <1>14, <1>15, <1>16, <1>17, <1>18, <1>19, <1>20
     DEF RunnerStep, RunnerMove, MoveStep

\* The name a D file gets is free, and who frees one had claimed it.
LEMMA ClaimStep ==
    ASSUME BaseInv, NEW p \in Proc, RunnerStep(p)
    PROVE  ClaimedByOne'
<1>0. TypeOK /\ Role(p) /\ ClaimedByOne
  BY DEF BaseInv, Roles
<1>a. \A q \in Proc : q # p =>
         /\ pc'[q] = pc[q] /\ dir'[q] = dir[q] /\ move'[q] = move[q]
  BY <1>0, Frame
<1>b. dir[p] \in Dir /\ move[p].to \in Dir
  BY <1>0 DEF TypeOK, SpoolTypeOK
<1> USE DEF TypeOK, SpoolTypeOK, disk, runnerVars, ClaimedByOne, NoLoneEfile,
    Claims
<1>1. CASE ReadQueueInfo(p)
  BY <1>0, <1>a, <1>b, <1>1
     DEF ReadQueueInfo, Goto, Role, ToFast, ToSlow
<1>2. CASE TimeOrder(p)
  BY <1>0, <1>a, <1>b, <1>2
     DEF TimeOrder, Goto, Role, ToFast, ToSlow
<1>3. CASE Take(p)
  BY <1>0, <1>a, <1>b, <1>3
     DEF Take, Goto, EnvMove, Role, ToFast, ToSlow
<1>4. CASE ReadEfile(p)
  BY <1>0, <1>a, <1>b, <1>4
     DEF ReadEfile, Goto, Role, ToFast, ToSlow
<1>5. CASE Expand(p)
  BY <1>0, <1>a, <1>b, <1>5
     DEF Expand, Goto, Role, ToFast, ToSlow
<1>6. CASE ExpandFails(p)
  BY <1>0, <1>a, <1>b, <1>6
     DEF ExpandFails, Goto, Role, ToFast, ToSlow
<1>7. CASE UnlinkEfile(p)
  BY <1>0, <1>a, <1>b, <1>7
     DEF UnlinkEfile, Goto, Count, Role, ToFast, ToSlow
<1>8. CASE UnlinkDfile(p)
  BY <1>0, <1>a, <1>b, <1>8
     DEF UnlinkDfile, Goto, Role, ToFast, ToSlow
<1>9. CASE BounceWritten(p)
  BY <1>0, <1>a, <1>b, <1>9
     DEF BounceWritten, Goto, Role, ToFast, ToSlow
<1>10. CASE BounceFails(p)
  BY <1>0, <1>a, <1>b, <1>10
     DEF BounceFails, Goto, Role, ToFast, ToSlow
<1>11. CASE UnlinkOldEfile(p)
  BY <1>0, <1>a, <1>b, <1>11
     DEF UnlinkOldEfile, Goto, Count, Role, ToFast, ToSlow
<1>12. CASE UnlinkOldDfile(p)
  BY <1>0, <1>a, <1>b, <1>12
     DEF UnlinkOldDfile, Goto, Role, ToFast, ToSlow
<1>13. CASE CleanUp(p)
  BY <1>0, <1>a, <1>b, <1>13
     DEF CleanUp, Goto, EnvMove, Role, ToFast, ToSlow
<1>14. CASE Exit(p)
  BY <1>0, <1>a, <1>b, <1>14
     DEF Exit, Goto, Role, ToFast, ToSlow
<1>15. CASE MoveLinkD(p) /\ UNCHANGED runnerVars
  <2>1. CASE pc'[p] = "moveLinkE"
    <3>1. /\ ~Dfile[move[p].to] /\ Dfile'[move[p].to]
          /\ \A d \in Dir : d # move[p].to => Dfile'[d] = Dfile[d]
          /\ Efile' = Efile /\ dir' = dir /\ move' = move
      BY <1>15, <1>0, <1>b, <2>1 DEF MoveLinkD, Goto, Role, ToFast, ToSlow
    <3> QED
      BY <1>0, <1>a, <1>b, <2>1, <3>1
  <2>2. CASE pc'[p] # "moveLinkE"
    BY <1>15, <1>0, <1>a, <1>b, <2>2 DEF MoveLinkD, Goto, Role, ToFast, ToSlow
  <2> QED  BY <2>1, <2>2
<1>16. CASE MoveLinkE(p) /\ UNCHANGED runnerVars
  BY <1>0, <1>a, <1>b, <1>16
     DEF MoveLinkE, Goto, Count, Role, ToFast, ToSlow
<1>17. CASE MoveUnlinkE(p) /\ UNCHANGED runnerVars
  BY <1>0, <1>a, <1>b, <1>17
     DEF MoveUnlinkE, Goto, Count, Role, ToFast, ToSlow
<1>18. CASE MoveUnlinkD(p) /\ UNCHANGED runnerVars
  BY <1>0, <1>a, <1>b, <1>18
     DEF MoveUnlinkD, Goto, Role, ToFast, ToSlow
<1>19. CASE MoveUndoE(p) /\ UNCHANGED runnerVars
  BY <1>0, <1>a, <1>b, <1>19
     DEF MoveUndoE, Goto, Count, Role, ToFast, ToSlow
<1>20. CASE MoveUndoD(p) /\ UNCHANGED runnerVars
  BY <1>0, <1>a, <1>b, <1>20
     DEF MoveUndoD, Goto, Role, ToFast, ToSlow
<1> QED
  BY <1>1, <1>2, <1>3, <1>4, <1>5, <1>6, <1>7, <1>8, <1>9, <1>10, <1>11,
     <1>12, <1>13, <1>14, <1>15, <1>16, <1>17, <1>18, <1>19, <1>20
     DEF RunnerStep, RunnerMove, MoveStep

---------------------------------------------------------------------------
(* The message in fast.                                                    *)

\* No bounce is taken back.
LEMMA BounceStays ==
    ASSUME BaseInv, NEW p \in Proc, RunnerStep(p), bounces' = 0
    PROVE  bounces = 0
<1>0. TypeOK
  BY DEF BaseInv
<1> USE DEF TypeOK, disk, runnerVars
<1>1. CASE ReadQueueInfo(p)
  BY <1>1, <1>0 DEF ReadQueueInfo
<1>2. CASE TimeOrder(p)
  BY <1>2, <1>0 DEF TimeOrder
<1>3. CASE Take(p)
  BY <1>3, <1>0 DEF Take
<1>4. CASE ReadEfile(p)
  BY <1>4, <1>0 DEF ReadEfile
<1>5. CASE Expand(p)
  BY <1>5, <1>0 DEF Expand
<1>6. CASE ExpandFails(p)
  BY <1>6, <1>0 DEF ExpandFails
<1>7. CASE UnlinkEfile(p)
  BY <1>7, <1>0 DEF UnlinkEfile
<1>8. CASE UnlinkDfile(p)
  BY <1>8, <1>0 DEF UnlinkDfile
<1>9. CASE BounceWritten(p)
  BY <1>9, <1>0 DEF BounceWritten
<1>10. CASE BounceFails(p)
  BY <1>10, <1>0 DEF BounceFails
<1>11. CASE UnlinkOldEfile(p)
  BY <1>11, <1>0 DEF UnlinkOldEfile
<1>12. CASE UnlinkOldDfile(p)
  BY <1>12, <1>0 DEF UnlinkOldDfile
<1>13. CASE CleanUp(p)
  BY <1>13, <1>0 DEF CleanUp
<1>14. CASE Exit(p)
  BY <1>14, <1>0 DEF Exit
<1>15. CASE MoveLinkD(p) /\ UNCHANGED runnerVars
  BY <1>15, <1>0 DEF MoveLinkD
<1>16. CASE MoveLinkE(p) /\ UNCHANGED runnerVars
  BY <1>16, <1>0 DEF MoveLinkE
<1>17. CASE MoveUnlinkE(p) /\ UNCHANGED runnerVars
  BY <1>17, <1>0 DEF MoveUnlinkE
<1>18. CASE MoveUnlinkD(p) /\ UNCHANGED runnerVars
  BY <1>18, <1>0 DEF MoveUnlinkD
<1>19. CASE MoveUndoE(p) /\ UNCHANGED runnerVars
  BY <1>19, <1>0 DEF MoveUndoE
<1>20. CASE MoveUndoD(p) /\ UNCHANGED runnerVars
  BY <1>20, <1>0 DEF MoveUndoD
<1> QED
  BY <1>1, <1>2, <1>3, <1>4, <1>5, <1>6, <1>7, <1>8, <1>9, <1>10, <1>11,
     <1>12, <1>13, <1>14, <1>15, <1>16, <1>17, <1>18, <1>19, <1>20
     DEF RunnerStep, RunnerMove, MoveStep

\* Who links the E file in fast finds no other there, and it stays until its
\* holder unlinks it.
LEMMA HeldStep ==
    ASSUME BaseInv, NEW p \in Proc, RunnerStep(p), bounces = 0, bounces' = 0
    PROVE  HeldByOne'
<1>0. TypeOK /\ Role(p) /\ ClaimedByOne /\ HeldByOne
  BY DEF BaseInv, Roles
<1>a. \A q \in Proc : q # p =>
         /\ pc'[q] = pc[q] /\ dir'[q] = dir[q] /\ move'[q] = move[q]
         /\ fastFiles'[q] = fastFiles[q]
  BY <1>0, Frame
<1>b. dir[p] \in Dir /\ move[p].to \in Dir
  BY <1>0 DEF TypeOK, SpoolTypeOK
<1> USE DEF TypeOK, SpoolTypeOK, disk, runnerVars, HeldByOne, Holds, Dir
<1>1. CASE ReadQueueInfo(p)
  BY <1>0, <1>a, <1>b, <1>1
     DEF ReadQueueInfo, Goto, Role, ToFast, ToSlow, TakenStep, MoveLabel
<1>2. CASE TimeOrder(p)
  BY <1>0, <1>a, <1>b, <1>2
     DEF TimeOrder, Goto, Role, ToFast, ToSlow, TakenStep, MoveLabel
<1>3. CASE Take(p)
  BY <1>0, <1>a, <1>b, <1>3
     DEF Take, Goto, EnvMove, Role, ToFast, ToSlow, TakenStep, MoveLabel
<1>4. CASE ReadEfile(p)
  BY <1>0, <1>a, <1>b, <1>4
     DEF ReadEfile, Goto, Role, ToFast, ToSlow, TakenStep, MoveLabel
<1>5. CASE Expand(p)
  BY <1>0, <1>a, <1>b, <1>5
     DEF Expand, Goto, Role, ToFast, ToSlow, TakenStep, MoveLabel
<1>6. CASE ExpandFails(p)
  BY <1>0, <1>a, <1>b, <1>6
     DEF ExpandFails, Goto, Role, ToFast, ToSlow, TakenStep, MoveLabel
<1>7. CASE UnlinkEfile(p)
  BY <1>0, <1>a, <1>b, <1>7
     DEF UnlinkEfile, Goto, Count, Role, ToFast, ToSlow, TakenStep, MoveLabel
<1>8. CASE UnlinkDfile(p)
  BY <1>0, <1>a, <1>b, <1>8
     DEF UnlinkDfile, Goto, Role, ToFast, ToSlow, TakenStep, MoveLabel
<1>9. CASE BounceWritten(p)
  BY <1>0, <1>a, <1>b, <1>9
     DEF BounceWritten, Goto, Role, ToFast, ToSlow, TakenStep, MoveLabel
<1>10. CASE BounceFails(p)
  BY <1>0, <1>a, <1>b, <1>10
     DEF BounceFails, Goto, Role, ToFast, ToSlow, TakenStep, MoveLabel
<1>11. CASE UnlinkOldEfile(p)
  BY <1>0, <1>a, <1>b, <1>11
     DEF UnlinkOldEfile, Goto, Count, Role, ToFast, ToSlow, TakenStep,
         MoveLabel
<1>12. CASE UnlinkOldDfile(p)
  BY <1>0, <1>a, <1>b, <1>12
     DEF UnlinkOldDfile, Goto, Role, ToFast, ToSlow, TakenStep, MoveLabel
<1>13. CASE CleanUp(p)
  BY <1>0, <1>a, <1>b, <1>13
     DEF CleanUp, Goto, EnvMove, Role, ToFast, ToSlow, TakenStep, MoveLabel
<1>14. CASE Exit(p)
  BY <1>0, <1>a, <1>b, <1>14
     DEF Exit, Goto, Role, ToFast, ToSlow, TakenStep, MoveLabel
<1>15. CASE MoveLinkD(p) /\ UNCHANGED runnerVars
  BY <1>0, <1>a, <1>b, <1>15
     DEF MoveLinkD, Goto, Role, ToFast, ToSlow, TakenStep, MoveLabel
<1>16. CASE MoveLinkE(p) /\ UNCHANGED runnerVars
  BY <1>0, <1>a, <1>b, <1>16
     DEF MoveLinkE, Goto, Count, Role, ToFast, ToSlow, TakenStep, MoveLabel
<1>17. CASE MoveUnlinkE(p) /\ UNCHANGED runnerVars
  BY <1>0, <1>a, <1>b, <1>17
     DEF MoveUnlinkE, Goto, Count, Role, ToFast, ToSlow, TakenStep, MoveLabel
<1>18. CASE MoveUnlinkD(p) /\ UNCHANGED runnerVars
  BY <1>0, <1>a, <1>b, <1>18
     DEF MoveUnlinkD, Goto, Role, ToFast, ToSlow, TakenStep, MoveLabel
<1>19. CASE MoveUndoE(p) /\ UNCHANGED runnerVars
  BY <1>0, <1>a, <1>b, <1>19
     DEF MoveUndoE, Goto, Count, Role, ToFast, ToSlow, TakenStep, MoveLabel
<1>20. CASE MoveUndoD(p) /\ UNCHANGED runnerVars
  BY <1>0, <1>a, <1>b, <1>20
     DEF MoveUndoD, Goto, Role, ToFast, ToSlow, TakenStep, MoveLabel
<1> QED
  BY <1>1, <1>2, <1>3, <1>4, <1>5, <1>6, <1>7, <1>8, <1>9, <1>10, <1>11,
     <1>12, <1>13, <1>14, <1>15, <1>16, <1>17, <1>18, <1>19, <1>20
     DEF RunnerStep, RunnerMove, MoveStep

\* While local has the envelope no other directory gets one but from there.
LEMMA FromLocalStep ==
    ASSUME BaseInv, NEW p \in Proc, RunnerStep(p), bounces = 0
    PROVE  FromLocal'
<1>0. TypeOK /\ Role(p) /\ ClaimedByOne /\ HeldByOne
  BY DEF BaseInv, Roles
<1>a. \A q \in Proc : q # p =>
         /\ pc'[q] = pc[q] /\ dir'[q] = dir[q] /\ move'[q] = move[q]
         /\ fastFiles'[q] = fastFiles[q]
  BY <1>0, Frame
<1>b. dir[p] \in Dir /\ move[p].to \in Dir
  BY <1>0 DEF TypeOK, SpoolTypeOK
<1>c. FromLocal
  BY DEF BaseInv
<1> USE DEF TypeOK, SpoolTypeOK, disk, runnerVars, FromLocal, Leaving, Dir
<1>1. CASE ReadQueueInfo(p)
  <2>1. /\ pc'[p] = "stat" /\ pc[p] = "idle"
        /\ Efile' = Efile /\ Dfile' = Dfile /\ move' = move
    BY <1>1, <1>0 DEF ReadQueueInfo, Goto
  <2> QED
    BY <1>a, <1>c, <2>1 DEF LocalOf, TakenStep, MoveLabel
<1>2. CASE TimeOrder(p)
  BY <1>0, <1>a, <1>b, <1>c, <1>2
     DEF TimeOrder, Goto, LocalOf, Role, ToFast, ToSlow, TakenStep, MoveLabel,
         ClaimedByOne, NoLoneEfile, Claims
<1>3. CASE Take(p)
  <2>1. /\ pc'[p] = "moveLinkD" /\ pc[p] = "take" /\ Efile' = Efile /\ Dfile' = Dfile
        /\ dir' = dir /\ move'[p] = ToFast /\ dir[p] # "fast"
    BY <1>3, <1>0 DEF Take, EnvMove, Goto, Role, ToFast
  <2>2. ToFast # ToSlow
    BY DEF ToFast, ToSlow
  <2> QED
    BY <1>a, <1>c, <2>1, <2>2 DEF LocalOf, TakenStep, MoveLabel
<1>4. CASE ReadEfile(p)
  BY <1>0, <1>a, <1>b, <1>c, <1>4
     DEF ReadEfile, Goto, LocalOf, Role, ToFast, ToSlow, TakenStep, MoveLabel,
         ClaimedByOne, NoLoneEfile, Claims
<1>5. CASE Expand(p)
  BY <1>0, <1>a, <1>b, <1>c, <1>5
     DEF Expand, Goto, LocalOf, Role, ToFast, ToSlow, TakenStep, MoveLabel,
         ClaimedByOne, NoLoneEfile, Claims
<1>6. CASE ExpandFails(p)
  BY <1>0, <1>a, <1>b, <1>c, <1>6
     DEF ExpandFails, Goto, LocalOf, Role, ToFast, ToSlow, TakenStep,
         MoveLabel, ClaimedByOne, NoLoneEfile, Claims
<1>7. CASE UnlinkEfile(p)
  BY <1>0, <1>a, <1>b, <1>c, <1>7
     DEF UnlinkEfile, Goto, Count, LocalOf, Role, ToFast, ToSlow, TakenStep,
         MoveLabel, ClaimedByOne, NoLoneEfile, Claims
<1>8. CASE UnlinkDfile(p)
  BY <1>0, <1>a, <1>b, <1>c, <1>8
     DEF UnlinkDfile, Goto, LocalOf, Role, ToFast, ToSlow, TakenStep,
         MoveLabel, ClaimedByOne, NoLoneEfile, Claims
<1>9. CASE BounceWritten(p)
  BY <1>0, <1>a, <1>b, <1>c, <1>9
     DEF BounceWritten, Goto, LocalOf, Role, ToFast, ToSlow, TakenStep,
         MoveLabel, ClaimedByOne, NoLoneEfile, Claims
<1>10. CASE BounceFails(p)
  BY <1>0, <1>a, <1>b, <1>c, <1>10
     DEF BounceFails, Goto, LocalOf, Role, ToFast, ToSlow, TakenStep,
         MoveLabel, ClaimedByOne, NoLoneEfile, Claims
<1>11. CASE UnlinkOldEfile(p)
  BY <1>0, <1>a, <1>b, <1>c, <1>11
     DEF UnlinkOldEfile, Goto, Count, LocalOf, Role, ToFast, ToSlow,
         TakenStep, MoveLabel, ClaimedByOne, NoLoneEfile, Claims
<1>12. CASE UnlinkOldDfile(p)
  BY <1>0, <1>a, <1>b, <1>c, <1>12
     DEF UnlinkOldDfile, Goto, LocalOf, Role, ToFast, ToSlow, TakenStep,
         MoveLabel, ClaimedByOne, NoLoneEfile, Claims
<1>13. CASE CleanUp(p)
  BY <1>0, <1>a, <1>b, <1>c, <1>13
     DEF CleanUp, Goto, EnvMove, LocalOf, Role, ToFast, ToSlow, TakenStep,
         MoveLabel, ClaimedByOne, NoLoneEfile, Claims
<1>14. CASE Exit(p)
  BY <1>0, <1>a, <1>b, <1>c, <1>14
     DEF Exit, Goto, LocalOf, Role, ToFast, ToSlow, TakenStep, MoveLabel,
         ClaimedByOne, NoLoneEfile, Claims
<1>15. CASE MoveLinkD(p) /\ UNCHANGED runnerVars
  <2> SUFFICES ASSUME Efile["local"] # None PROVE FromLocal'
    BY <1>15 DEF MoveLinkD
  <2>1. /\ pc[p] = "moveLinkD" /\ Efile' = Efile /\ dir' = dir /\ move' = move
        /\ Dfile["local"] /\ dir[p] # "fast" /\ dir[p] # move[p].to
    BY <1>15, <1>0, <1>c
       DEF MoveLinkD, LocalOf, Role, MoveLabel, ClaimedByOne, NoLoneEfile
  <2>2. CASE pc'[p] = "moveLinkE"
    <3>1. /\ Dfile[dir[p]] /\ ~Dfile[move[p].to]
          /\ \A d \in Dir : d # move[p].to => Dfile'[d] = Dfile[d]
          /\ Dfile'[move[p].to]
      BY <1>15, <1>0, <1>b, <2>2 DEF MoveLinkD, Goto, Role, ToFast, ToSlow
    <3>2. dir[p] = "local"
      <4> SUFFICES ASSUME dir[p] = "slow" PROVE FALSE
        BY <1>b, <2>1
      <4>1. PICK q \in Proc : Leaving(q, "slow")
        BY <1>c, <3>1
      <4>2. move[q] = ToSlow
        BY <4>1 DEF BaseInv, Roles, Role, ToFast, ToSlow
      <4>3. Dfile["fast"]
        BY <1>c, <4>1, <4>2 DEF LocalOf, MoveLabel
      <4> QED
        BY <1>0, <2>1, <3>1, <4>3 DEF Role, ToFast, MoveLabel
    <3>3. move[p].to \in {"fast", "slow"} /\ Leaving(p, move[p].to)'
      BY <1>0, <2>1, <2>2, <3>2 DEF Role, ToFast, ToSlow
    <3>4. ASSUME NEW d \in {"fast", "slow"}, Dfile'[d]
          PROVE  \E q \in Proc : Leaving(q, d)'
      <4>1. CASE d = move[p].to
        BY <2>1, <3>3, <4>1
      <4>2. CASE d # move[p].to
        <5>1. PICK q \in Proc : Leaving(q, d)
          BY <1>c, <3>1, <3>4, <4>2
        <5> QED
          BY <1>a, <2>1, <5>1
      <4> QED  BY <4>1, <4>2
    <3>5. ASSUME NEW q \in Proc, q # p PROVE LocalOf(q)'
      BY <1>a, <1>c, <2>1, <3>1, <3>5 DEF LocalOf
    <3>6. LocalOf(p)'
      BY <1>c, <2>1, <2>2, <3>1, <3>2
         DEF LocalOf, ToFast, ToSlow, TakenStep, MoveLabel
    <3> QED  BY <3>4, <3>5, <3>6
  <2>3. CASE pc'[p] # "moveLinkE"
    <3>1. /\ Dfile' = Dfile /\ pc'[p] = move[p].failed
          /\ move[p].failed \in {"cleanup", "free"}
          /\ dir[p] = "local" => Dfile[move[p].to]
      BY <1>15, <1>0, <2>1, <2>3 DEF MoveLinkD, Goto, Role, ToFast, ToSlow
    <3>2. ASSUME NEW d \in {"fast", "slow"}, Dfile'[d]
          PROVE  \E q \in Proc : Leaving(q, d)'
      <4>1. PICK q \in Proc : Leaving(q, d)
        BY <1>c, <3>1, <3>2
      <4> QED  BY <1>a, <2>1, <4>1
    <3>3. ASSUME NEW q \in Proc, q # p PROVE LocalOf(q)'
      BY <1>a, <1>c, <2>1, <3>1, <3>3 DEF LocalOf
    <3>4. LocalOf(p)'
      BY <1>0, <1>c, <2>1, <3>1
         DEF LocalOf, Role, ToFast, ToSlow, TakenStep, MoveLabel
    <3> QED  BY <3>2, <3>3, <3>4
  <2> QED  BY <2>2, <2>3
<1>16. CASE MoveLinkE(p) /\ UNCHANGED runnerVars
  BY <1>0, <1>a, <1>b, <1>c, <1>16
     DEF MoveLinkE, Goto, Count, LocalOf, Role, ToFast, ToSlow, TakenStep,
         MoveLabel, ClaimedByOne, NoLoneEfile, Claims
<1>17. CASE MoveUnlinkE(p) /\ UNCHANGED runnerVars
  BY <1>0, <1>a, <1>b, <1>c, <1>17
     DEF MoveUnlinkE, Goto, Count, LocalOf, Role, ToFast, ToSlow, TakenStep,
         MoveLabel, ClaimedByOne, NoLoneEfile, Claims
<1>18. CASE MoveUnlinkD(p) /\ UNCHANGED runnerVars
  BY <1>0, <1>a, <1>b, <1>c, <1>18
     DEF MoveUnlinkD, Goto, LocalOf, Role, ToFast, ToSlow, TakenStep,
         MoveLabel, ClaimedByOne, NoLoneEfile, Claims
<1>19. CASE MoveUndoE(p) /\ UNCHANGED runnerVars
  BY <1>0, <1>a, <1>b, <1>c, <1>19
     DEF MoveUndoE, Goto, Count, LocalOf, Role, ToFast, ToSlow, TakenStep,
         MoveLabel, ClaimedByOne, NoLoneEfile, Claims
<1>20. CASE MoveUndoD(p) /\ UNCHANGED runnerVars
  BY <1>0, <1>a, <1>b, <1>c, <1>20
     DEF MoveUndoD, Goto, LocalOf, Role, ToFast, ToSlow, TakenStep, MoveLabel,
         ClaimedByOne, NoLoneEfile, Claims
<1> QED
  BY <1>1, <1>2, <1>3, <1>4, <1>5, <1>6, <1>7, <1>8, <1>9, <1>10, <1>11,
     <1>12, <1>13, <1>14, <1>15, <1>16, <1>17, <1>18, <1>19, <1>20
     DEF RunnerStep, RunnerMove, MoveStep

\* A slow runner takes the envelope from slow, when local has none, and nobody
\* but a holder puts one into slow then.
LEMMA LastCopyStep ==
    ASSUME BaseInv, NEW p \in Proc, RunnerStep(p), bounces = 0
    PROVE  LastCopy'
<1>0. TypeOK /\ Role(p) /\ ClaimedByOne /\ HeldByOne
  BY DEF BaseInv, Roles
<1>a. \A q \in Proc : q # p =>
         /\ pc'[q] = pc[q] /\ dir'[q] = dir[q] /\ move'[q] = move[q]
         /\ fastFiles'[q] = fastFiles[q]
  BY <1>0, Frame
<1>b. dir[p] \in Dir /\ move[p].to \in Dir
  BY <1>0 DEF TypeOK, SpoolTypeOK
<1>c. FromLocal /\ LastCopy /\ Roles
  BY DEF BaseInv
<1>d. SlowRunner \subseteq Proc /\ SlowRunner \cap LocalRunner = {}
  BY RolesAssumption
<1> USE DEF TypeOK, SpoolTypeOK, disk, runnerVars, LastCopy, Holds, Dir
<1>1. CASE ReadQueueInfo(p)
  BY <1>0, <1>a, <1>b, <1>c, <1>d, <1>1
     DEF ReadQueueInfo, Goto, Roles, Role, ToFast, ToSlow, TakenStep,
         MoveLabel, HeldByOne, FromLocal, LocalOf
<1>2. CASE TimeOrder(p)
  BY <1>0, <1>a, <1>b, <1>c, <1>d, <1>2
     DEF TimeOrder, Goto, Roles, Role, ToFast, ToSlow, TakenStep, MoveLabel,
         HeldByOne, FromLocal, LocalOf
<1>3. CASE Take(p)
  BY <1>0, <1>a, <1>b, <1>c, <1>d, <1>3
     DEF Take, Goto, EnvMove, Roles, Role, ToFast, ToSlow, TakenStep,
         MoveLabel, HeldByOne, FromLocal, LocalOf
<1>4. CASE ReadEfile(p)
  BY <1>0, <1>a, <1>b, <1>c, <1>d, <1>4
     DEF ReadEfile, Goto, Roles, Role, ToFast, ToSlow, TakenStep, MoveLabel,
         HeldByOne, FromLocal, LocalOf
<1>5. CASE Expand(p)
  BY <1>0, <1>a, <1>b, <1>c, <1>d, <1>5
     DEF Expand, Goto, Roles, Role, ToFast, ToSlow, TakenStep, MoveLabel,
         HeldByOne, FromLocal, LocalOf
<1>6. CASE ExpandFails(p)
  BY <1>0, <1>a, <1>b, <1>c, <1>d, <1>6
     DEF ExpandFails, Goto, Roles, Role, ToFast, ToSlow, TakenStep, MoveLabel,
         HeldByOne, FromLocal, LocalOf
<1>7. CASE UnlinkEfile(p)
  BY <1>0, <1>a, <1>b, <1>c, <1>d, <1>7
     DEF UnlinkEfile, Goto, Count, Roles, Role, ToFast, ToSlow, TakenStep,
         MoveLabel, HeldByOne, FromLocal, LocalOf
<1>8. CASE UnlinkDfile(p)
  BY <1>0, <1>a, <1>b, <1>c, <1>d, <1>8
     DEF UnlinkDfile, Goto, Roles, Role, ToFast, ToSlow, TakenStep, MoveLabel,
         HeldByOne, FromLocal, LocalOf
<1>9. CASE BounceWritten(p)
  BY <1>0, <1>a, <1>b, <1>c, <1>d, <1>9
     DEF BounceWritten, Goto, Roles, Role, ToFast, ToSlow, TakenStep,
         MoveLabel, HeldByOne, FromLocal, LocalOf
<1>10. CASE BounceFails(p)
  BY <1>0, <1>a, <1>b, <1>c, <1>d, <1>10
     DEF BounceFails, Goto, Roles, Role, ToFast, ToSlow, TakenStep, MoveLabel,
         HeldByOne, FromLocal, LocalOf
<1>11. CASE UnlinkOldEfile(p)
  BY <1>0, <1>a, <1>b, <1>c, <1>d, <1>11
     DEF UnlinkOldEfile, Goto, Count, Roles, Role, ToFast, ToSlow, TakenStep,
         MoveLabel, HeldByOne, FromLocal, LocalOf
<1>12. CASE UnlinkOldDfile(p)
  BY <1>0, <1>a, <1>b, <1>c, <1>d, <1>12
     DEF UnlinkOldDfile, Goto, Roles, Role, ToFast, ToSlow, TakenStep,
         MoveLabel, HeldByOne, FromLocal, LocalOf
<1>13. CASE CleanUp(p)
  BY <1>0, <1>a, <1>b, <1>c, <1>d, <1>13
     DEF CleanUp, Goto, EnvMove, Roles, Role, ToFast, ToSlow, TakenStep,
         MoveLabel, HeldByOne, FromLocal, LocalOf
<1>14. CASE Exit(p)
  BY <1>0, <1>a, <1>b, <1>c, <1>d, <1>14
     DEF Exit, Goto, Roles, Role, ToFast, ToSlow, TakenStep, MoveLabel,
         HeldByOne, FromLocal, LocalOf
<1>15. CASE MoveLinkD(p) /\ UNCHANGED runnerVars
  BY <1>0, <1>a, <1>b, <1>c, <1>d, <1>15
     DEF MoveLinkD, Goto, Roles, Role, ToFast, ToSlow, TakenStep, MoveLabel,
         HeldByOne, FromLocal, LocalOf
<1>16. CASE MoveLinkE(p) /\ UNCHANGED runnerVars
  BY <1>0, <1>a, <1>b, <1>c, <1>d, <1>16
     DEF MoveLinkE, Goto, Count, Roles, Role, ToFast, ToSlow, TakenStep,
         MoveLabel, HeldByOne, FromLocal, LocalOf
<1>17. CASE MoveUnlinkE(p) /\ UNCHANGED runnerVars
  BY <1>0, <1>a, <1>b, <1>c, <1>d, <1>17
     DEF MoveUnlinkE, Goto, Count, Roles, Role, ToFast, ToSlow, TakenStep,
         MoveLabel, HeldByOne, FromLocal, LocalOf
<1>18. CASE MoveUnlinkD(p) /\ UNCHANGED runnerVars
  BY <1>0, <1>a, <1>b, <1>c, <1>d, <1>18
     DEF MoveUnlinkD, Goto, Roles, Role, ToFast, ToSlow, TakenStep, MoveLabel,
         HeldByOne, FromLocal, LocalOf
<1>19. CASE MoveUndoE(p) /\ UNCHANGED runnerVars
  BY <1>0, <1>a, <1>b, <1>c, <1>d, <1>19
     DEF MoveUndoE, Goto, Count, Roles, Role, ToFast, ToSlow, TakenStep,
         MoveLabel, HeldByOne, FromLocal, LocalOf
<1>20. CASE MoveUndoD(p) /\ UNCHANGED runnerVars
  BY <1>0, <1>a, <1>b, <1>c, <1>d, <1>20
     DEF MoveUndoD, Goto, Roles, Role, ToFast, ToSlow, TakenStep, MoveLabel,
         HeldByOne, FromLocal, LocalOf
<1> QED
  BY <1>1, <1>2, <1>3, <1>4, <1>5, <1>6, <1>7, <1>8, <1>9, <1>10, <1>11,
     <1>12, <1>13, <1>14, <1>15, <1>16, <1>17, <1>18, <1>19, <1>20
     DEF RunnerStep, RunnerMove, MoveStep

\* A bounced message is gone: the envelope that was unlinked was the last one,
\* and links are made of links.
LEMMA BouncedStep ==
    ASSUME BaseInv, NEW p \in Proc, RunnerStep(p), bounces' # 0
    PROVE  \A d \in Dir : Efile'[d] = None
<1>0. TypeOK /\ Role(p) /\ ClaimedByOne
  BY DEF BaseInv, Roles
<1>a. \A q \in Proc : q # p =>
         /\ pc'[q] = pc[q] /\ dir'[q] = dir[q] /\ move'[q] = move[q]
         /\ fastFiles'[q] = fastFiles[q]
  BY <1>0, Frame
<1>b. dir[p] \in Dir /\ move[p].to \in Dir
  BY <1>0 DEF TypeOK, SpoolTypeOK
<1>c. bounces = 0 => HeldByOne /\ LastCopy
  BY DEF BaseInv
<1>d. bounces # 0 => \A d \in Dir : Efile[d] = None
  BY DEF BaseInv
<1> USE DEF TypeOK, SpoolTypeOK, disk, runnerVars, Dir
<1>1. CASE ReadQueueInfo(p)
  BY <1>0, <1>b, <1>c, <1>d, <1>1
     DEF ReadQueueInfo, Goto, Role, TakenStep, HeldByOne, LastCopy, Holds
<1>2. CASE TimeOrder(p)
  BY <1>0, <1>b, <1>c, <1>d, <1>2
     DEF TimeOrder, Goto, Role, TakenStep, HeldByOne, LastCopy, Holds
<1>3. CASE Take(p)
  BY <1>0, <1>b, <1>c, <1>d, <1>3
     DEF Take, Goto, EnvMove, Role, TakenStep, HeldByOne, LastCopy, Holds
<1>4. CASE ReadEfile(p)
  BY <1>0, <1>b, <1>c, <1>d, <1>4
     DEF ReadEfile, Goto, Role, TakenStep, HeldByOne, LastCopy, Holds
<1>5. CASE Expand(p)
  BY <1>0, <1>b, <1>c, <1>d, <1>5
     DEF Expand, Goto, Role, TakenStep, HeldByOne, LastCopy, Holds
<1>6. CASE ExpandFails(p)
  BY <1>0, <1>b, <1>c, <1>d, <1>6
     DEF ExpandFails, Goto, Role, TakenStep, HeldByOne, LastCopy, Holds
<1>7. CASE UnlinkEfile(p)
  BY <1>0, <1>b, <1>c, <1>d, <1>7
     DEF UnlinkEfile, Goto, Count, Role, TakenStep, HeldByOne, LastCopy, Holds
<1>8. CASE UnlinkDfile(p)
  BY <1>0, <1>b, <1>c, <1>d, <1>8
     DEF UnlinkDfile, Goto, Role, TakenStep, HeldByOne, LastCopy, Holds
<1>9. CASE BounceWritten(p)
  BY <1>0, <1>b, <1>c, <1>d, <1>9
     DEF BounceWritten, Goto, Role, TakenStep, HeldByOne, LastCopy, Holds
<1>10. CASE BounceFails(p)
  BY <1>0, <1>b, <1>c, <1>d, <1>10
     DEF BounceFails, Goto, Role, TakenStep, HeldByOne, LastCopy, Holds
<1>11. CASE UnlinkOldEfile(p)
  BY <1>0, <1>b, <1>c, <1>d, <1>11
     DEF UnlinkOldEfile, Goto, Count, Role, TakenStep, HeldByOne, LastCopy,
         Holds
<1>12. CASE UnlinkOldDfile(p)
  BY <1>0, <1>b, <1>c, <1>d, <1>12
     DEF UnlinkOldDfile, Goto, Role, TakenStep, HeldByOne, LastCopy, Holds
<1>13. CASE CleanUp(p)
  BY <1>0, <1>b, <1>c, <1>d, <1>13
     DEF CleanUp, Goto, EnvMove, Role, TakenStep, HeldByOne, LastCopy, Holds
<1>14. CASE Exit(p)
  BY <1>0, <1>b, <1>c, <1>d, <1>14
     DEF Exit, Goto, Role, TakenStep, HeldByOne, LastCopy, Holds
<1>15. CASE MoveLinkD(p) /\ UNCHANGED runnerVars
  BY <1>0, <1>b, <1>c, <1>d, <1>15
     DEF MoveLinkD, Goto, Role, TakenStep, HeldByOne, LastCopy, Holds
<1>16. CASE MoveLinkE(p) /\ UNCHANGED runnerVars
  BY <1>0, <1>b, <1>c, <1>d, <1>16
     DEF MoveLinkE, Goto, Count, Role, TakenStep, HeldByOne, LastCopy, Holds
<1>17. CASE MoveUnlinkE(p) /\ UNCHANGED runnerVars
  BY <1>0, <1>b, <1>c, <1>d, <1>17
     DEF MoveUnlinkE, Goto, Count, Role, TakenStep, HeldByOne, LastCopy, Holds
<1>18. CASE MoveUnlinkD(p) /\ UNCHANGED runnerVars
  BY <1>0, <1>b, <1>c, <1>d, <1>18
     DEF MoveUnlinkD, Goto, Role, TakenStep, HeldByOne, LastCopy, Holds
<1>19. CASE MoveUndoE(p) /\ UNCHANGED runnerVars
  BY <1>0, <1>b, <1>c, <1>d, <1>19
     DEF MoveUndoE, Goto, Count, Role, TakenStep, HeldByOne, LastCopy, Holds
<1>20. CASE MoveUndoD(p) /\ UNCHANGED runnerVars
  BY <1>0, <1>b, <1>c, <1>d, <1>20
     DEF MoveUndoD, Goto, Role, TakenStep, HeldByOne, LastCopy, Holds
<1> QED
  BY <1>1, <1>2, <1>3, <1>4, <1>5, <1>6, <1>7, <1>8, <1>9, <1>10, <1>11,
     <1>12, <1>13, <1>14, <1>15, <1>16, <1>17, <1>18, <1>19, <1>20
     DEF RunnerStep, RunnerMove, MoveStep

---------------------------------------------------------------------------
(* The base invariant.                                                     *)

\* A message in one directory, in the hands of nobody or of its receiver.
LEMMA BaseInit == Init => BaseInv
<1> SUFFICES ASSUME Init PROVE BaseInv
  OBVIOUS
<1>1. PICK i \in Inode, d \in Dir, on \in Launched, q \in Proc :
        /\ d = "fast" => q \in Receiver
        /\ Efile = [e \in Dir |-> IF e = d THEN i ELSE None]
        /\ Dfile = [e \in Dir |-> e = d]
        /\ Tfile = [e \in Dir |-> None]
        /\ text = [j \in Inode |-> IF j = i THEN Rcpt ELSE {}]
        /\ lock = [j \in Inode |-> None]
        /\ pc = [p \in Proc |->
                    IF p \notin on THEN "off"
                    ELSE IF d = "fast" /\ p = q THEN "expand" ELSE "idle"]
        /\ dir = [p \in Proc |-> d]
        /\ rcpt = [p \in Proc |-> IF d = "fast" /\ p = q THEN Rcpt ELSE {}]
        /\ fd = [p \in Proc |-> None]
        /\ fastFiles = [p \in Proc |-> IF d = "fast" /\ p = q THEN 1 ELSE 0]
        /\ move = [p \in Proc |->
                    [to |-> "slow", done |-> "free", failed |-> "free"]]
        /\ expansions = 0 /\ bounces = 0
        /\ old = FALSE /\ up = TRUE
  BY RolesAssumption DEF Init
<1>2. TypeOK
  <2>1. Dfile \in [Dir -> BOOLEAN]
    BY <1>1
  <2>2. pc \in [Proc -> Label] /\ fastFiles \in [Proc -> Nat]
    BY <1>1 DEF Label
  <2>3. move \in [Proc -> [to : Dir, done : Label, failed : Label]]
    BY <1>1 DEF Label, Dir
  <2>4. old \in BOOLEAN /\ up \in BOOLEAN
    BY <1>1
  <2>5. expansions \in 0..2 /\ bounces \in 0..2
    BY <1>1
  <2>6. /\ Efile \in [Dir -> Inode \union {None}] /\ Tfile \in [Dir -> Inode \union {None}]
        /\ text \in [Inode -> SUBSET Rcpt] /\ lock \in [Inode -> Proc \union {None}]
        /\ dir \in [Proc -> Dir] /\ rcpt \in [Proc -> SUBSET Rcpt]
        /\ fd \in [Proc -> Inode \union {None}]
    BY <1>1
  <2> QED
    BY <2>1, <2>2, <2>3, <2>4, <2>5, <2>6 DEF TypeOK, SpoolTypeOK
<1>3. Roles
  BY <1>1 DEF Roles, Role, ToFast, ToSlow, MoveLabel, TakenStep
<1>4. OneText /\ ClaimedByOne
  BY <1>1, NoneAssumption DEF OneText, ClaimedByOne, NoLoneEfile, Claims
<1>5. HeldByOne
  BY <1>1, NoneAssumption DEF HeldByOne, Holds, Dir
<1>6. FromLocal
  BY <1>1 DEF FromLocal, LocalOf, TakenStep, MoveLabel, Dir
<1>7. LastCopy
  BY <1>1, RolesAssumption DEF LastCopy, Holds, Dir
<1> QED
  BY <1>1, <1>2, <1>3, <1>4, <1>5, <1>6, <1>7 DEF BaseInv

\* Time and stuttering touch nothing of it.
LEMMA QuietStep ==
    ASSUME BaseInv, GetOld \/ UNCHANGED vars
    PROVE  BaseInv'
<1>1. UNCHANGED <<spoolVars, expansions, bounces, up>> /\ old' \in BOOLEAN
  BY DEF GetOld, vars, runnerVars, BaseInv, TypeOK
<1>2. TypeOK'
  BY <1>1 DEF BaseInv, TypeOK, SpoolTypeOK, spoolVars, disk, memory
<1>3. /\ Roles' /\ OneText' /\ ClaimedByOne'
      /\ HeldByOne' = HeldByOne /\ FromLocal' = FromLocal /\ LastCopy' = LastCopy
  BY <1>1
     DEF BaseInv, spoolVars, disk, memory, Roles, Role, OneText, ClaimedByOne,
         NoLoneEfile,
     Claims, HeldByOne, Holds, FromLocal, Leaving, LocalOf, LastCopy
<1> QED
  BY <1>1, <1>2, <1>3 DEF BaseInv, spoolVars, disk

\* BaseInv is inductive.
LEMMA BaseStep == BaseInv /\ [Next]_vars => BaseInv'
<1> SUFFICES ASSUME BaseInv, [Next]_vars PROVE BaseInv'
  OBVIOUS
<1>1. CASE GetOld \/ UNCHANGED vars
  BY <1>1, QuietStep
<1>2. ASSUME NEW p \in Proc, RunnerStep(p) PROVE BaseInv'
  <2>1. TypeOK' /\ Roles' /\ OneText' /\ ClaimedByOne'
    BY <1>2, TypeStep, RolesStep, OneTextStep, ClaimStep
  <2>2. bounces' = 0 => HeldByOne' /\ FromLocal' /\ LastCopy'
    BY <1>2, BounceStays, HeldStep, FromLocalStep, LastCopyStep
  <2>3. bounces' # 0 => \A d \in Dir : Efile'[d] = None
    BY <1>2, BouncedStep
  <2> QED  BY <2>1, <2>2, <2>3 DEF BaseInv
<1> QED
  BY <1>1, <1>2 DEF Next, Terminating

\* The inductive invariant holds of any number of processes.
THEOREM BaseInvariant == Spec => []BaseInv
<1>1. Init => BaseInv
  BY BaseInit
<1>2. BaseInv /\ [Next]_vars => BaseInv'
  BY BaseStep
<1> QED  BY <1>1, <1>2, PTL DEF Spec

\* Every variable keeps its type; simta_fast_files, which q_runner asserts not
\* to be negative, is never decremented below zero.
THEOREM TypeCorrect == Spec => []TypeOK
<1>1. BaseInv => TypeOK
  BY DEF BaseInv
<1> QED  BY <1>1, BaseInvariant, PTL

\* simta.8's "Efiles should never exist alone" holds of messages that wait for
\* expansion, however the moves of any number of runners overlap (env_move,
\* q_runner): the D file is linked first and unlinked last.
THEOREM EfileHasDfile == Spec => []NoLoneEfile
<1>1. BaseInv => NoLoneEfile
  BY DEF BaseInv, ClaimedByOne
<1> QED  BY <1>1, BaseInvariant, PTL

---------------------------------------------------------------------------
(* No loss.                                                                *)

\* p has linked both names in b of the message in a.
Copied(p, a, b) ==
    dir[p] = a /\ move[p].to = b /\ pc[p] \in {"moveUnlinkE", "moveUndoE"}

\* Nobody is about to unlink the last envelope of a message that was neither
\* expanded nor bounced.  The dangerous one is a local runner that came too late
\* for fast and put what it saw in local into slow: it may have to unwind that
\* once the envelope in local is gone.  By then fast has one, and as slow is not
\* free that one stays.
KeptBy(p) ==
    /\ pc[p] \notin {"unlinkE", "unlinkD", "unlinkOldD"}
    /\ pc[p] = "moveUndoE" => dir[p] = "local"
    /\ Copied(p, "local", "slow") =>
        /\ Efile["slow"] # None
        /\ \A q \in Proc :
            /\ Copied(q, "local", "slow") => q = p
            /\ ~Copied(q, "slow", "fast") /\ ~Copied(q, "fast", "slow")
            /\ ~(dir[q] = "slow" /\ pc[q] = "moveLinkE")
        /\ Efile["local"] = None =>
            Efile["fast"] # None /\ \A q \in Proc : ~Copied(q, "local", "fast")
    /\ Copied(p, "local", "fast") /\ Efile["local"] = None => Efile["slow"] # None
    /\ Copied(p, "fast", "slow") \/ Copied(p, "slow", "fast") => Efile["slow"] # None

StillKept ==
    expansions = 0 /\ bounces = 0 =>
        /\ \E d \in Dir : Efile[d] # None
        /\ \A p \in Proc : KeptBy(p)

\* An expansion is not taken back either.
LEMMA ExpansionStays ==
    ASSUME BaseInv, NEW p \in Proc, RunnerStep(p), expansions' = 0
    PROVE  expansions = 0
<1>0. TypeOK
  BY DEF BaseInv
<1> USE DEF TypeOK, disk, runnerVars
<1>1. CASE ReadQueueInfo(p)
  BY <1>1, <1>0 DEF ReadQueueInfo
<1>2. CASE TimeOrder(p)
  BY <1>2, <1>0 DEF TimeOrder
<1>3. CASE Take(p)
  BY <1>3, <1>0 DEF Take
<1>4. CASE ReadEfile(p)
  BY <1>4, <1>0 DEF ReadEfile
<1>5. CASE Expand(p)
  BY <1>5, <1>0 DEF Expand
<1>6. CASE ExpandFails(p)
  BY <1>6, <1>0 DEF ExpandFails
<1>7. CASE UnlinkEfile(p)
  BY <1>7, <1>0 DEF UnlinkEfile
<1>8. CASE UnlinkDfile(p)
  BY <1>8, <1>0 DEF UnlinkDfile
<1>9. CASE BounceWritten(p)
  BY <1>9, <1>0 DEF BounceWritten
<1>10. CASE BounceFails(p)
  BY <1>10, <1>0 DEF BounceFails
<1>11. CASE UnlinkOldEfile(p)
  BY <1>11, <1>0 DEF UnlinkOldEfile
<1>12. CASE UnlinkOldDfile(p)
  BY <1>12, <1>0 DEF UnlinkOldDfile
<1>13. CASE CleanUp(p)
  BY <1>13, <1>0 DEF CleanUp
<1>14. CASE Exit(p)
  BY <1>14, <1>0 DEF Exit
<1>15. CASE MoveLinkD(p) /\ UNCHANGED runnerVars
  BY <1>15, <1>0 DEF MoveLinkD
<1>16. CASE MoveLinkE(p) /\ UNCHANGED runnerVars
  BY <1>16, <1>0 DEF MoveLinkE
<1>17. CASE MoveUnlinkE(p) /\ UNCHANGED runnerVars
  BY <1>17, <1>0 DEF MoveUnlinkE
<1>18. CASE MoveUnlinkD(p) /\ UNCHANGED runnerVars
  BY <1>18, <1>0 DEF MoveUnlinkD
<1>19. CASE MoveUndoE(p) /\ UNCHANGED runnerVars
  BY <1>19, <1>0 DEF MoveUndoE
<1>20. CASE MoveUndoD(p) /\ UNCHANGED runnerVars
  BY <1>20, <1>0 DEF MoveUndoD
<1> QED
  BY <1>1, <1>2, <1>3, <1>4, <1>5, <1>6, <1>7, <1>8, <1>9, <1>10, <1>11,
     <1>12, <1>13, <1>14, <1>15, <1>16, <1>17, <1>18, <1>19, <1>20
     DEF RunnerStep, RunnerMove, MoveStep

\* Nobody unlinks the last envelope before the message is expanded or bounced.
LEMMA KeptStep ==
    ASSUME BaseInv, StillKept, NEW p \in Proc, RunnerStep(p)
    PROVE  StillKept'
<1> SUFFICES ASSUME expansions' = 0, bounces' = 0
             PROVE  /\ \E d \in Dir : Efile'[d] # None
                    /\ \A q \in Proc : KeptBy(q)'
  BY DEF StillKept
<1>0. TypeOK /\ Role(p) /\ ClaimedByOne /\ HeldByOne /\ FromLocal
  BY BounceStays DEF BaseInv, Roles
<1>a. \A q \in Proc : q # p =>
         /\ pc'[q] = pc[q] /\ dir'[q] = dir[q] /\ move'[q] = move[q]
  BY <1>0, Frame
<1>b. dir[p] \in Dir /\ move[p].to \in Dir
  BY <1>0 DEF TypeOK, SpoolTypeOK
<1>c. /\ \E d \in Dir : Efile[d] # None
      /\ \A q \in Proc : KeptBy(q)
  BY BounceStays, ExpansionStays DEF StillKept
<1> USE DEF TypeOK, SpoolTypeOK, disk, runnerVars, KeptBy, Copied, Dir
<1>1. CASE ReadQueueInfo(p)
  BY <1>0, <1>a, <1>b, <1>c, <1>1
     DEF ReadQueueInfo, Goto, Role, ToFast, ToSlow, MoveLabel, TakenStep,
         HeldByOne, Holds, FromLocal, LocalOf, ClaimedByOne, NoLoneEfile,
         Claims
<1>2. CASE TimeOrder(p)
  BY <1>0, <1>a, <1>b, <1>c, <1>2
     DEF TimeOrder, Goto, Role, ToFast, ToSlow, MoveLabel, TakenStep,
         HeldByOne, Holds, FromLocal, LocalOf, ClaimedByOne, NoLoneEfile,
         Claims
<1>3. CASE Take(p)
  BY <1>0, <1>a, <1>b, <1>c, <1>3
     DEF Take, Goto, EnvMove, Role, ToFast, ToSlow, MoveLabel, TakenStep,
         HeldByOne, Holds, FromLocal, LocalOf, ClaimedByOne, NoLoneEfile,
         Claims
<1>4. CASE ReadEfile(p)
  BY <1>0, <1>a, <1>b, <1>c, <1>4
     DEF ReadEfile, Goto, Role, ToFast, ToSlow, MoveLabel, TakenStep,
         HeldByOne, Holds, FromLocal, LocalOf, ClaimedByOne, NoLoneEfile,
         Claims
<1>5. CASE Expand(p)
  BY <1>0, <1>a, <1>b, <1>c, <1>5
     DEF Expand, Goto, Role, ToFast, ToSlow, MoveLabel, TakenStep, HeldByOne,
         Holds, FromLocal, LocalOf, ClaimedByOne, NoLoneEfile, Claims
<1>6. CASE ExpandFails(p)
  BY <1>0, <1>a, <1>b, <1>c, <1>6
     DEF ExpandFails, Goto, Role, ToFast, ToSlow, MoveLabel, TakenStep,
         HeldByOne, Holds, FromLocal, LocalOf, ClaimedByOne, NoLoneEfile,
         Claims
<1>7. CASE UnlinkEfile(p)
  BY <1>0, <1>a, <1>b, <1>c, <1>7
     DEF UnlinkEfile, Goto, Count, Role, ToFast, ToSlow, MoveLabel, TakenStep,
         HeldByOne, Holds, FromLocal, LocalOf, ClaimedByOne, NoLoneEfile,
         Claims
<1>8. CASE UnlinkDfile(p)
  BY <1>0, <1>a, <1>b, <1>c, <1>8
     DEF UnlinkDfile, Goto, Role, ToFast, ToSlow, MoveLabel, TakenStep,
         HeldByOne, Holds, FromLocal, LocalOf, ClaimedByOne, NoLoneEfile,
         Claims
<1>9. CASE BounceWritten(p)
  BY <1>0, <1>a, <1>b, <1>c, <1>9
     DEF BounceWritten, Goto, Role, ToFast, ToSlow, MoveLabel, TakenStep,
         HeldByOne, Holds, FromLocal, LocalOf, ClaimedByOne, NoLoneEfile,
         Claims
<1>10. CASE BounceFails(p)
  BY <1>0, <1>a, <1>b, <1>c, <1>10
     DEF BounceFails, Goto, Role, ToFast, ToSlow, MoveLabel, TakenStep,
         HeldByOne, Holds, FromLocal, LocalOf, ClaimedByOne, NoLoneEfile,
         Claims
<1>11. CASE UnlinkOldEfile(p)
  BY <1>0, <1>a, <1>b, <1>c, <1>11
     DEF UnlinkOldEfile, Goto, Count, Role, ToFast, ToSlow, MoveLabel,
         TakenStep, HeldByOne, Holds, FromLocal, LocalOf, ClaimedByOne,
         NoLoneEfile, Claims
<1>12. CASE UnlinkOldDfile(p)
  BY <1>0, <1>a, <1>b, <1>c, <1>12
     DEF UnlinkOldDfile, Goto, Role, ToFast, ToSlow, MoveLabel, TakenStep,
         HeldByOne, Holds, FromLocal, LocalOf, ClaimedByOne, NoLoneEfile,
         Claims
<1>13. CASE CleanUp(p)
  BY <1>0, <1>a, <1>b, <1>c, <1>13
     DEF CleanUp, Goto, EnvMove, Role, ToFast, ToSlow, MoveLabel, TakenStep,
         HeldByOne, Holds, FromLocal, LocalOf, ClaimedByOne, NoLoneEfile,
         Claims
<1>14. CASE Exit(p)
  BY <1>0, <1>a, <1>b, <1>c, <1>14
     DEF Exit, Goto, Role, ToFast, ToSlow, MoveLabel, TakenStep, HeldByOne,
         Holds, FromLocal, LocalOf, ClaimedByOne, NoLoneEfile, Claims
<1>15. CASE MoveLinkD(p) /\ UNCHANGED runnerVars
  <2>1. /\ pc[p] = "moveLinkD" /\ Efile' = Efile /\ dir' = dir /\ move' = move
        /\ pc'[p] \in {"moveLinkE", "cleanup", "free"}
        /\ pc'[p] = "moveLinkE" => ~Dfile[move[p].to]
    BY <1>15, <1>0, <1>b DEF MoveLinkD, Goto, Role, ToFast, ToSlow
  <2>2. ASSUME NEW q \in Proc, Copied(q, "local", "slow")
        PROVE  Dfile["fast"]
    BY <1>0, <1>c, <2>2
       DEF BaseInv, Roles, Role, FromLocal, LocalOf, ClaimedByOne, NoLoneEfile,
           MoveLabel, ToFast, ToSlow
  <2>3. pc'[p] = "moveLinkE" /\ dir[p] = "slow" => ~Dfile["fast"]
    BY <1>0, <2>1 DEF Role, ToFast, MoveLabel
  <2> QED
    BY <1>a, <1>c, <2>1, <2>2, <2>3
<1>16. CASE MoveLinkE(p) /\ UNCHANGED runnerVars
  BY <1>0, <1>a, <1>b, <1>c, <1>16
     DEF MoveLinkE, Goto, Count, Role, ToFast, ToSlow, MoveLabel, TakenStep,
         HeldByOne, Holds, FromLocal, LocalOf, ClaimedByOne, NoLoneEfile,
         Claims
<1>17. CASE MoveUnlinkE(p) /\ UNCHANGED runnerVars
  BY <1>0, <1>a, <1>b, <1>c, <1>17
     DEF MoveUnlinkE, Goto, Count, Role, ToFast, ToSlow, MoveLabel, TakenStep,
         HeldByOne, Holds, FromLocal, LocalOf, ClaimedByOne, NoLoneEfile,
         Claims
<1>18. CASE MoveUnlinkD(p) /\ UNCHANGED runnerVars
  BY <1>0, <1>a, <1>b, <1>c, <1>18
     DEF MoveUnlinkD, Goto, Role, ToFast, ToSlow, MoveLabel, TakenStep,
         HeldByOne, Holds, FromLocal, LocalOf, ClaimedByOne, NoLoneEfile,
         Claims
<1>19. CASE MoveUndoE(p) /\ UNCHANGED runnerVars
  BY <1>0, <1>a, <1>b, <1>c, <1>19
     DEF MoveUndoE, Goto, Count, Role, ToFast, ToSlow, MoveLabel, TakenStep,
         HeldByOne, Holds, FromLocal, LocalOf, ClaimedByOne, NoLoneEfile,
         Claims
<1>20. CASE MoveUndoD(p) /\ UNCHANGED runnerVars
  BY <1>0, <1>a, <1>b, <1>c, <1>20
     DEF MoveUndoD, Goto, Role, ToFast, ToSlow, MoveLabel, TakenStep,
         HeldByOne, Holds, FromLocal, LocalOf, ClaimedByOne, NoLoneEfile,
         Claims
<1> QED
  BY <1>1, <1>2, <1>3, <1>4, <1>5, <1>6, <1>7, <1>8, <1>9, <1>10, <1>11,
     <1>12, <1>13, <1>14, <1>15, <1>16, <1>17, <1>18, <1>19, <1>20
     DEF RunnerStep, RunnerMove, MoveStep

\* The inductive invariant of NoLoss.
KeptInv == BaseInv /\ StillKept

\* The message starts with an envelope.
LEMMA KeptInit == Init => StillKept
<1> SUFFICES ASSUME Init PROVE StillKept
  OBVIOUS
<1>1. \E d \in Dir : Efile[d] # None
  BY NoneAssumption DEF Init
<1>2. \A p \in Proc : pc[p] \in {"off", "idle", "expand"}
  BY DEF Init
<1> QED
  BY <1>1, <1>2 DEF StillKept, KeptBy, Copied

\* KeptInv is inductive.
LEMMA KeptNext == KeptInv /\ [Next]_vars => KeptInv'
<1> SUFFICES ASSUME KeptInv, [Next]_vars PROVE KeptInv'
  OBVIOUS
<1>1. BaseInv'
  BY BaseStep DEF KeptInv
<1>2. CASE GetOld \/ UNCHANGED vars
  <2>1. UNCHANGED <<spoolVars, expansions, bounces, up>>
    BY <1>2 DEF GetOld, vars, runnerVars
  <2> QED
    BY <1>1, <2>1
       DEF KeptInv, StillKept, KeptBy, Copied, spoolVars, disk, memory
<1>3. CASE \E p \in Proc : RunnerStep(p)
  BY <1>1, <1>3, KeptStep DEF KeptInv
<1> QED
  BY <1>2, <1>3 DEF Next, Terminating

\* No message that simta accepted is lost before it was expanded or bounced: at
\* every moment some directory has its D file and an envelope env_read accepts,
\* however many local runners, slow runners and receivers race for it with
\* env_move and unexpanded_clean_up.
THEOREM NothingLost == Spec => []NoLoss
<1>1. Init => KeptInv
  BY BaseInit, KeptInit DEF KeptInv
<1>2. KeptInv => NoLoss
  BY RcptAssumption
     DEF KeptInv, BaseInv, StillKept, NoLoss, Readable, OneText, ClaimedByOne,
         NoLoneEfile,
         TypeOK
<1> QED  BY <1>1, <1>2, KeptNext, PTL DEF Spec

---------------------------------------------------------------------------
(* One local runner at a time.                                             *)

\* The directories that have the E file, and those that have the D file.
Files(S, T) ==
    \A d \in Dir : (Efile[d] # None <=> d \in S) /\ (Dfile[d] <=> d \in T)

\* p has claimed a directory or holds the message.
Active(p) ==
    \/ pc[p] \in {"moveLinkE", "moveUnlinkE", "moveUnlinkD"} \union TakenStep
    \/ dir[p] = "fast" /\ pc[p] \in {"cleanup", "moveLinkD"} /\ bounces = 0

\* What is on disk then, and how often the message was handled.
Progress(p) ==
    LET a == dir[p]
        b == move[p].to
    IN  /\ pc[p] = "moveLinkE" => Files({a}, {a, b})
        /\ pc[p] = "moveUnlinkE" => Files({a, b}, {a, b})
        /\ pc[p] = "moveUnlinkD" => Files({b}, {a, b})
        /\ pc[p] \in {"readE", "expand", "bounce", "unlinkE", "unlinkOldE",
                      "cleanup", "moveLinkD"} => Files({"fast"}, {"fast"})
        /\ pc[p] \in {"unlinkD", "unlinkOldD"} => Files({}, {"fast"})
        /\ expansions + bounces =
            IF pc[p] \in {"unlinkE", "unlinkD", "unlinkOldD"} THEN 1 ELSE 0

\* What is on disk otherwise.
Resting ==
    \/ expansions + bounces = 1 /\ Files({}, {})
    \/ expansions + bounces = 0 /\ \E d \in {"local", "slow"} : Files({d}, {d})

\* No move fails but for want of the message: it is handed on like a token.
TokenOf(p) ==
    /\ pc[p] \notin {"moveUndoE", "moveUndoD"}
    /\ dir[p] = "local" =>
        /\ pc[p] # "cleanup" /\ (pc[p] \in MoveLabel => move[p] = ToFast)
        /\ pc[p] \in {"stat", "take", "moveLinkD"} => Efile["local"] # None
    /\ Active(p) => Progress(p) /\ \A q \in Proc : Active(q) => q = p
    /\ dir[p] = "fast" /\ pc[p] \in {"cleanup", "moveLinkD"} /\ bounces # 0 =>
        \A q \in Proc : ~Active(q)
    /\ fastFiles[p] = IF Holds(p) /\ bounces = 0 THEN 1 ELSE 0

Token ==
    /\ up
    /\ \A p \in Proc : TokenOf(p)
    /\ (\A p \in Proc : ~Active(p)) => Resting

\* Processes that are off stay off, and no other is ever off.
LEMMA OffStays ==
    ASSUME BaseInv, NEW p \in Proc, RunnerStep(p)
    PROVE  pc[p] # "off" /\ pc'[p] # "off"
<1>0. TypeOK /\ Role(p)
  BY DEF BaseInv, Roles
<1> USE DEF TypeOK, SpoolTypeOK, disk, runnerVars
<1>1. CASE ReadQueueInfo(p)
  BY <1>0, <1>1
     DEF ReadQueueInfo, Goto, Role, ToFast, ToSlow
<1>2. CASE TimeOrder(p)
  BY <1>0, <1>2
     DEF TimeOrder, Goto, Role, ToFast, ToSlow
<1>3. CASE Take(p)
  BY <1>0, <1>3
     DEF Take, Goto, EnvMove, Role, ToFast, ToSlow
<1>4. CASE ReadEfile(p)
  BY <1>0, <1>4
     DEF ReadEfile, Goto, Role, ToFast, ToSlow
<1>5. CASE Expand(p)
  BY <1>0, <1>5
     DEF Expand, Goto, Role, ToFast, ToSlow
<1>6. CASE ExpandFails(p)
  BY <1>0, <1>6
     DEF ExpandFails, Goto, Role, ToFast, ToSlow
<1>7. CASE UnlinkEfile(p)
  BY <1>0, <1>7
     DEF UnlinkEfile, Goto, Count, Role, ToFast, ToSlow
<1>8. CASE UnlinkDfile(p)
  BY <1>0, <1>8
     DEF UnlinkDfile, Goto, Role, ToFast, ToSlow
<1>9. CASE BounceWritten(p)
  BY <1>0, <1>9
     DEF BounceWritten, Goto, Role, ToFast, ToSlow
<1>10. CASE BounceFails(p)
  BY <1>0, <1>10
     DEF BounceFails, Goto, Role, ToFast, ToSlow
<1>11. CASE UnlinkOldEfile(p)
  BY <1>0, <1>11
     DEF UnlinkOldEfile, Goto, Count, Role, ToFast, ToSlow
<1>12. CASE UnlinkOldDfile(p)
  BY <1>0, <1>12
     DEF UnlinkOldDfile, Goto, Role, ToFast, ToSlow
<1>13. CASE CleanUp(p)
  BY <1>0, <1>13
     DEF CleanUp, Goto, EnvMove, Role, ToFast, ToSlow
<1>14. CASE Exit(p)
  BY <1>0, <1>14
     DEF Exit, Goto, Role, ToFast, ToSlow
<1>15. CASE MoveLinkD(p) /\ UNCHANGED runnerVars
  BY <1>0, <1>15
     DEF MoveLinkD, Goto, Role, ToFast, ToSlow
<1>16. CASE MoveLinkE(p) /\ UNCHANGED runnerVars
  BY <1>0, <1>16
     DEF MoveLinkE, Goto, Count, Role, ToFast, ToSlow
<1>17. CASE MoveUnlinkE(p) /\ UNCHANGED runnerVars
  BY <1>0, <1>17
     DEF MoveUnlinkE, Goto, Count, Role, ToFast, ToSlow
<1>18. CASE MoveUnlinkD(p) /\ UNCHANGED runnerVars
  BY <1>0, <1>18
     DEF MoveUnlinkD, Goto, Role, ToFast, ToSlow
<1>19. CASE MoveUndoE(p) /\ UNCHANGED runnerVars
  BY <1>0, <1>19
     DEF MoveUndoE, Goto, Count, Role, ToFast, ToSlow
<1>20. CASE MoveUndoD(p) /\ UNCHANGED runnerVars
  BY <1>0, <1>20
     DEF MoveUndoD, Goto, Role, ToFast, ToSlow
<1> QED
  BY <1>1, <1>2, <1>3, <1>4, <1>5, <1>6, <1>7, <1>8, <1>9, <1>10, <1>11,
     <1>12, <1>13, <1>14, <1>15, <1>16, <1>17, <1>18, <1>19, <1>20
     DEF RunnerStep, RunnerMove, MoveStep

\* Every step passes the message on, and leaves no second holder behind.
LEMMA TokenStep ==
    ASSUME BaseInv, OneLocal, Token, NEW p \in Proc, RunnerStep(p)
    PROVE  Token'
<1>0. TypeOK /\ Role(p) /\ Token
  BY DEF BaseInv, Roles
<1>a. \A q \in Proc : q # p =>
         /\ pc'[q] = pc[q] /\ dir'[q] = dir[q] /\ move'[q] = move[q]
         /\ fastFiles'[q] = fastFiles[q]
  BY <1>0, Frame
<1>b. dir[p] \in Dir /\ move[p].to \in Dir /\ expansions \in 0..2 /\ bounces \in 0..2
  BY <1>0 DEF TypeOK, SpoolTypeOK
<1>c. /\ bounces # 0 => \A d \in Dir : Efile[d] = None
      /\ pc[p] = "unlinkOldD" => bounces # 0
  BY DEF BaseInv, HeldByOne
<1>d. ASSUME NEW q \in Proc, q # p, dir[p] = "local", dir[q] = "local",
             pc[p] \notin {"off", "idle", "free"}
      PROVE  pc[q] \in {"off", "idle", "free"}
  BY <1>d, RolesAssumption DEF BaseInv, Roles, Role, OneLocal
<1> USE DEF TypeOK, SpoolTypeOK, disk, runnerVars, Token, TokenOf, Active,
    Progress, Files, Resting, Holds, Dir
<1>1. CASE ReadQueueInfo(p)
  <2>1. /\ pc[p] = "idle" /\ pc'[p] = "stat" /\ Efile' = Efile /\ Dfile' = Dfile
        /\ expansions' = expansions /\ bounces' = bounces
        /\ fastFiles'[p] = 0 /\ Efile[dir'[p]] # None
    BY <1>1, <1>0, <1>b DEF ReadQueueInfo, Goto, Readable
  <2>2. ASSUME NEW q \in Proc, q # p PROVE TokenOf(q)'
    BY <1>0, <1>a, <2>1, <2>2 DEF TakenStep
  <2>3. TokenOf(p)'
    BY <1>0, <1>a, <2>1 DEF TakenStep, MoveLabel
  <2>4. (\A q \in Proc : ~Active(q))' => Resting'
    BY <1>0, <1>a, <2>1 DEF TakenStep
  <2>5. up'
    BY <1>1, <1>0 DEF ReadQueueInfo, Token, runnerVars
  <2> QED
    BY <2>2, <2>3, <2>4, <2>5
<1>2. CASE TimeOrder(p)
  BY <1>0, <1>a, <1>b, <1>2
     DEF TimeOrder, Goto, Role, ToFast, ToSlow, MoveLabel, TakenStep
<1>3. CASE Take(p)
  BY <1>0, <1>a, <1>b, <1>3
     DEF Take, Goto, EnvMove, Role, ToFast, ToSlow, MoveLabel, TakenStep
<1>4. CASE ReadEfile(p)
  BY <1>0, <1>a, <1>b, <1>4
     DEF ReadEfile, Goto, Role, ToFast, ToSlow, MoveLabel, TakenStep
<1>5. CASE Expand(p)
  BY <1>0, <1>a, <1>b, <1>5
     DEF Expand, Goto, Role, ToFast, ToSlow, MoveLabel, TakenStep
<1>6. CASE ExpandFails(p)
  BY <1>0, <1>a, <1>b, <1>6
     DEF ExpandFails, Goto, Role, ToFast, ToSlow, MoveLabel, TakenStep
<1>7. CASE UnlinkEfile(p)
  <2>1. /\ Active(p) /\ Progress(p) /\ \A q \in Proc : q # p => ~Active(q)
        /\ fastFiles[p] = IF bounces = 0 THEN 1 ELSE 0
    BY <1>7, <1>0, <1>b, <1>c
       DEF UnlinkEfile, Role, ToFast, ToSlow, TakenStep, MoveLabel
  <2>2. /\ dir' = dir /\ move' = move /\ expansions' = expansions /\ bounces' = bounces
        /\ Dfile' = Dfile /\ dir[p] = "fast" /\ pc[p] = "unlinkE" /\ pc'[p] = "unlinkD"
        /\ \A d \in Dir : Efile'[d] = IF d = "fast" THEN None ELSE Efile[d]
        /\ fastFiles'[p] = 0
    BY <1>7, <1>0, <1>b, <1>c, <2>1
       DEF UnlinkEfile, Goto, Count, Role, ToFast, ToSlow, TakenStep, MoveLabel
  <2>3. ASSUME NEW q \in Proc, q # p PROVE ~Active(q)' /\ TokenOf(q)'
    BY <1>0, <1>a, <1>d, <2>1, <2>2, <2>3 DEF TakenStep, MoveLabel
  <2>4. TokenOf(p)'
    BY <1>0, <1>b, <2>1, <2>2, <2>3
       DEF Role, TakenStep, MoveLabel, ToFast, ToSlow
  <2>5. (\A q \in Proc : ~Active(q))' => Resting'
    BY <1>0, <1>b, <2>1, <2>2 DEF TakenStep
  <2>6. up'
    BY <1>7, <1>0 DEF UnlinkEfile
  <2> QED  BY <2>3, <2>4, <2>5, <2>6
<1>8. CASE UnlinkDfile(p)
  BY <1>0, <1>a, <1>b, <1>8
     DEF UnlinkDfile, Goto, Role, ToFast, ToSlow, MoveLabel, TakenStep
<1>9. CASE BounceWritten(p)
  BY <1>0, <1>a, <1>b, <1>9
     DEF BounceWritten, Goto, Role, ToFast, ToSlow, MoveLabel, TakenStep
<1>10. CASE BounceFails(p)
  BY <1>0, <1>a, <1>b, <1>10
     DEF BounceFails, Goto, Role, ToFast, ToSlow, MoveLabel, TakenStep
<1>11. CASE UnlinkOldEfile(p)
  BY <1>0, <1>a, <1>b, <1>11
     DEF UnlinkOldEfile, Goto, Count, Role, ToFast, ToSlow, MoveLabel,
         TakenStep
<1>12. CASE UnlinkOldDfile(p)
  <2>1. /\ Active(p) /\ Progress(p) /\ \A q \in Proc : q # p => ~Active(q)
        /\ fastFiles[p] = 0
    BY <1>12, <1>0, <1>b, <1>c
       DEF UnlinkOldDfile, Role, ToFast, ToSlow, TakenStep, MoveLabel
  <2>2. /\ dir' = dir /\ move' = move /\ expansions' = expansions /\ bounces' = bounces
        /\ Efile' = Efile /\ dir[p] = "fast" /\ pc[p] = "unlinkOldD" /\ pc'[p] = "cleanup"
        /\ \A d \in Dir : Dfile'[d] = IF d = "fast" THEN FALSE ELSE Dfile[d]
        /\ fastFiles'[p] = 0 /\ bounces # 0
    BY <1>12, <1>0, <1>b, <1>c, <2>1
       DEF UnlinkOldDfile, Goto, Count, Role, ToFast, ToSlow, TakenStep,
           MoveLabel
  <2>3. ASSUME NEW q \in Proc, q # p PROVE ~Active(q)' /\ TokenOf(q)'
    BY <1>0, <1>a, <1>d, <2>1, <2>2, <2>3 DEF TakenStep, MoveLabel
  <2>4. TokenOf(p)'
    BY <1>0, <1>b, <2>1, <2>2, <2>3
       DEF Role, TakenStep, MoveLabel, ToFast, ToSlow
  <2>5. (\A q \in Proc : ~Active(q))' => Resting'
    BY <1>0, <1>b, <2>1, <2>2 DEF TakenStep
  <2>6. up'
    BY <1>12, <1>0 DEF UnlinkOldDfile
  <2> QED  BY <2>3, <2>4, <2>5, <2>6
<1>13. CASE CleanUp(p)
  BY <1>0, <1>a, <1>b, <1>13
     DEF CleanUp, Goto, EnvMove, Role, ToFast, ToSlow, MoveLabel, TakenStep
<1>14. CASE Exit(p)
  <2>1. /\ pc[p] = "free" /\ pc'[p] = "idle" /\ Efile' = Efile /\ Dfile' = Dfile
        /\ expansions' = expansions /\ bounces' = bounces
        /\ fastFiles' = fastFiles /\ dir' = dir
    BY <1>14, <1>0, <1>b DEF Exit, Goto
  <2>2. ASSUME NEW q \in Proc, q # p PROVE TokenOf(q)'
    BY <1>0, <1>a, <2>1, <2>2 DEF TakenStep
  <2>3. TokenOf(p)'
    BY <1>0, <1>a, <2>1 DEF TakenStep, MoveLabel
  <2>4. (\A q \in Proc : ~Active(q))' => Resting'
    BY <1>0, <1>a, <2>1 DEF TakenStep
  <2>5. up'
    BY <1>14, <1>0, <2>1 DEF Exit, Token
  <2> QED
    BY <2>2, <2>3, <2>4, <2>5
<1>15. CASE MoveLinkD(p) /\ UNCHANGED runnerVars
  <2>1. /\ pc[p] = "moveLinkD" /\ dir[p] # move[p].to
        /\ Efile' = Efile /\ dir' = dir /\ move' = move /\ fastFiles' = fastFiles
        /\ expansions' = expansions /\ bounces' = bounces /\ up'
    BY <1>15, <1>0 DEF MoveLinkD, Role, MoveLabel
  <2>2. ASSUME NEW q \in Proc, Active(q) PROVE Dfile["fast"]
    BY <2>2, <1>0
       DEF BaseInv, Roles, Role, ToFast, ToSlow, TakenStep, MoveLabel
  <2>3. ASSUME NEW q \in Proc, Active(q), Efile["local"] # None PROVE dir[q] = "local"
    BY <2>3, <1>0
       DEF BaseInv, Roles, Role, ToFast, ToSlow, TakenStep, MoveLabel
  <2>4. CASE dir[p] = "fast" /\ bounces = 0
    <3>1. Active(p) /\ Files({"fast"}, {"fast"}) /\ move[p].to = "slow" /\ fastFiles[p] = 1
      BY <1>0, <1>b, <2>1, <2>4 DEF Role, ToFast, ToSlow, MoveLabel
    <3>2. pc'[p] = "moveLinkE" /\ \A d \in Dir : Dfile'[d] <=> d \in {"fast", "slow"}
      BY <1>15, <1>0, <3>1 DEF MoveLinkD, Goto
    <3>3. ASSUME NEW q \in Proc, q # p PROVE ~Active(q)' /\ TokenOf(q)'
      BY <1>0, <1>a, <2>1, <3>1, <3>3 DEF TakenStep, MoveLabel
    <3>4. TokenOf(p)'
      BY <1>0, <2>1, <2>4, <3>1, <3>2, <3>3 DEF TakenStep, MoveLabel
    <3> QED  BY <2>1, <3>2, <3>3, <3>4
  <2>5. CASE dir[p] = "fast" /\ bounces # 0
    <3>1. ~Dfile["fast"]
      BY <1>0, <1>b, <2>1, <2>5
    <3>2. Dfile' = Dfile /\ pc'[p] = "free"
      BY <1>15, <1>0, <2>1, <2>5, <3>1
         DEF MoveLinkD, Goto, Role, ToFast, ToSlow
    <3> QED
      BY <1>0, <1>a, <2>1, <2>5, <3>2 DEF TakenStep, MoveLabel
  <2>6. CASE dir[p] # "fast"
    <3>1. move[p] = ToFast /\ move[p].to = "fast" /\ move[p].failed = "cleanup"
          /\ fastFiles[p] = 0 /\ ~Active(p)
      BY <1>0, <1>b, <2>1, <2>6 DEF Role, ToFast, ToSlow, TakenStep, MoveLabel
    <3>2. CASE Dfile[dir[p]] /\ ~Dfile["fast"]
      <4>1. \A q \in Proc : ~Active(q)
        BY <2>2, <3>2
      <4>2. Files({dir[p]}, {dir[p]}) /\ expansions + bounces = 0
        BY <1>0, <1>b, <2>6, <3>2, <4>1
      <4>3. /\ pc'[p] = "moveLinkE"
            /\ \A d \in Dir : Dfile'[d] <=> d \in {dir[p], "fast"}
        BY <1>15, <1>0, <1>b, <3>1, <3>2, <4>2 DEF MoveLinkD, Goto
      <4>4. ASSUME NEW q \in Proc, q # p PROVE ~Active(q)' /\ TokenOf(q)'
        BY <1>0, <1>a, <1>b, <2>1, <4>1, <4>2, <4>4 DEF TakenStep, MoveLabel
      <4>5. TokenOf(p)'
        BY <1>0, <1>b, <2>1, <2>6, <3>1, <4>2, <4>3, <4>4
           DEF TakenStep, MoveLabel
      <4> QED  BY <2>1, <4>3, <4>4, <4>5
    <3>3. CASE ~(Dfile[dir[p]] /\ ~Dfile["fast"])
      <4>1. Dfile' = Dfile /\ pc'[p] = "cleanup"
        BY <1>15, <1>0, <3>1, <3>3 DEF MoveLinkD, Goto
      <4>2. dir[p] = "slow"
        <5> SUFFICES ASSUME dir[p] = "local" PROVE FALSE
          BY <1>b, <2>6
        <5>1. Efile["local"] # None
          BY <1>0, <2>1
        <5>2. ASSUME NEW q \in Proc, Active(q) PROVE FALSE
          BY <1>d, <2>1, <2>3, <3>1, <5>1, <5>2 DEF TakenStep
        <5> QED
          BY <1>0, <3>3, <5>1, <5>2
      <4>3. ASSUME NEW q \in Proc PROVE Active(q)' <=> Active(q)
        BY <1>a, <2>1, <2>6, <3>1, <4>1 DEF TakenStep
      <4>4. ASSUME NEW q \in Proc, q # p PROVE TokenOf(q)'
        BY <1>0, <1>a, <2>1, <4>1, <4>3, <4>4 DEF TakenStep, MoveLabel
      <4>5. TokenOf(p)'
        BY <1>0, <2>1, <3>1, <4>1, <4>2, <4>3 DEF TakenStep, MoveLabel
      <4>6. (\A q \in Proc : ~Active(q))' => Resting'
        BY <1>0, <2>1, <4>1, <4>3
      <4> QED  BY <2>1, <4>4, <4>5, <4>6
    <3> QED  BY <3>2, <3>3
  <2> QED  BY <2>4, <2>5, <2>6
<1>16. CASE MoveLinkE(p) /\ UNCHANGED runnerVars
  BY <1>0, <1>a, <1>b, <1>16
     DEF MoveLinkE, Goto, Count, Role, ToFast, ToSlow, MoveLabel, TakenStep
<1>17. CASE MoveUnlinkE(p) /\ UNCHANGED runnerVars
  <2>1. /\ Active(p) /\ Progress(p) /\ \A q \in Proc : q # p => ~Active(q)
        /\ fastFiles[p] = 1
    BY <1>17, <1>0, <1>b, <1>c
       DEF MoveUnlinkE, Role, ToFast, ToSlow, TakenStep, MoveLabel
  <2>2. /\ dir' = dir /\ move' = move /\ expansions' = expansions /\ bounces' = bounces
        /\ Dfile' = Dfile /\ pc[p] = "moveUnlinkE" /\ pc'[p] = "moveUnlinkD"
        /\ \A d \in Dir : Efile'[d] = IF d = dir[p] THEN None ELSE Efile[d]
        /\ fastFiles'[p] = IF dir[p] = "fast" THEN 0 ELSE 1
        /\ bounces = 0
    BY <1>17, <1>0, <1>b, <1>c, <2>1
       DEF MoveUnlinkE, Goto, Count, Role, ToFast, ToSlow, TakenStep, MoveLabel
  <2>3. ASSUME NEW q \in Proc, q # p PROVE ~Active(q)' /\ TokenOf(q)'
    BY <1>0, <1>a, <1>d, <2>1, <2>2, <2>3 DEF TakenStep, MoveLabel
  <2>4. TokenOf(p)'
    BY <1>0, <1>b, <2>1, <2>2, <2>3
       DEF Role, TakenStep, MoveLabel, ToFast, ToSlow
  <2>5. (\A q \in Proc : ~Active(q))' => Resting'
    BY <1>0, <1>b, <2>1, <2>2 DEF TakenStep
  <2>6. up'
    BY <1>17, <1>0 DEF MoveUnlinkE
  <2> QED  BY <2>3, <2>4, <2>5, <2>6
<1>18. CASE MoveUnlinkD(p) /\ UNCHANGED runnerVars
  BY <1>0, <1>a, <1>b, <1>18
     DEF MoveUnlinkD, Goto, Role, ToFast, ToSlow, MoveLabel, TakenStep
<1>19. CASE MoveUndoE(p) /\ UNCHANGED runnerVars
  BY <1>0, <1>a, <1>b, <1>19
     DEF MoveUndoE, Goto, Count, Role, ToFast, ToSlow, MoveLabel, TakenStep
<1>20. CASE MoveUndoD(p) /\ UNCHANGED runnerVars
  BY <1>0, <1>a, <1>b, <1>20
     DEF MoveUndoD, Goto, Role, ToFast, ToSlow, MoveLabel, TakenStep
<1> QED
  BY <1>1, <1>2, <1>3, <1>4, <1>5, <1>6, <1>7, <1>8, <1>9, <1>10, <1>11,
     <1>12, <1>13, <1>14, <1>15, <1>16, <1>17, <1>18, <1>19, <1>20
     DEF RunnerStep, RunnerMove, MoveStep

\* A message in a queue directory, or in fast with its receiver.
LEMMA TokenInit == Init => Token
<1> SUFFICES ASSUME Init PROVE Token
  OBVIOUS
<1>1. PICK i \in Inode, d \in Dir, on \in Launched, q \in Proc :
        /\ q \in on
        /\ Efile = [e \in Dir |-> IF e = d THEN i ELSE None]
        /\ Dfile = [e \in Dir |-> e = d]
        /\ pc = [p \in Proc |->
                    IF p \notin on THEN "off"
                    ELSE IF d = "fast" /\ p = q THEN "expand" ELSE "idle"]
        /\ dir = [p \in Proc |-> d]
        /\ fastFiles = [p \in Proc |-> IF d = "fast" /\ p = q THEN 1 ELSE 0]
        /\ move = [p \in Proc |->
                    [to |-> "slow", done |-> "free", failed |-> "free"]]
        /\ expansions = 0 /\ bounces = 0 /\ up
  BY RolesAssumption DEF Init
<1>2. Files({d}, {d})
  BY <1>1, NoneAssumption DEF Files
<1>3. ASSUME NEW p \in Proc PROVE Active(p) <=> d = "fast" /\ p = q
  BY <1>1 DEF Active, TakenStep
<1>4. ASSUME NEW p \in Proc PROVE TokenOf(p)
  BY <1>1, <1>2, <1>3 DEF TokenOf, Progress, Holds, MoveLabel
<1>5. (\A p \in Proc : ~Active(p)) => Resting
  BY <1>1, <1>2, <1>3 DEF Resting, Dir
<1> QED
  BY <1>1, <1>4, <1>5 DEF Token

\* Whether there is one local runner is settled at the start.
LEMMA OneLocalStays ==
    ASSUME BaseInv, [Next]_vars
    PROVE  OneLocal' <=> OneLocal
<1>1. \A p \in Proc : pc'[p] = "off" <=> pc[p] = "off"
  <2>1. ASSUME NEW p \in Proc, RunnerStep(p)
        PROVE  \A q \in Proc : pc'[q] = "off" <=> pc[q] = "off"
    BY <2>1, Frame, OffStays DEF BaseInv
  <2>2. CASE GetOld \/ UNCHANGED vars
    BY <2>2 DEF GetOld, vars, spoolVars, memory
  <2> QED
    BY <2>1, <2>2 DEF Next, Terminating
<1> QED
  BY <1>1, RolesAssumption DEF OneLocal

\* The inductive invariant of HandledOnce and NothingStranded.
TokenInv == BaseInv /\ (OneLocal => Token)

\* TokenInv is inductive.
LEMMA TokenNext == TokenInv /\ [Next]_vars => TokenInv'
<1> SUFFICES ASSUME TokenInv, [Next]_vars PROVE TokenInv'
  OBVIOUS
<1>1. BaseInv /\ BaseInv' /\ (OneLocal' <=> OneLocal)
  BY BaseStep, OneLocalStays DEF TokenInv
<1>2. CASE GetOld \/ UNCHANGED vars
  <2>1. UNCHANGED <<spoolVars, expansions, bounces, up>>
    BY <1>2 DEF GetOld, vars, runnerVars
  <2>2. Token <=> Token'
    BY <2>1
       DEF Token, TokenOf, Active, Progress, Files, Resting, Holds, spoolVars,
           disk, memory
  <2> QED
    BY <1>1, <2>2 DEF TokenInv
<1>3. ASSUME NEW p \in Proc, RunnerStep(p) PROVE TokenInv'
  BY <1>1, <1>3, TokenStep DEF TokenInv
<1> QED
  BY <1>2, <1>3 DEF Next, Terminating

\* While there is one local runner, a message is with one process or in one
\* directory at a time (q_runner, env_move).
THEOREM TokenInvariant == Spec => []TokenInv
<1>1. Init => TokenInv
  BY BaseInit, TokenInit DEF TokenInv
<1> QED  BY <1>1, TokenNext, PTL DEF Spec

\* With one local runner at a time no message is expanded twice, or expanded and
\* bounced, by any number of slow runners and receivers: link(2) alone keeps
\* them apart (q_runner, env_move).
THEOREM ExpandedOnce == Spec => []HandledOnce
<1>1. ASSUME TypeOK, Token PROVE expansions + bounces < 2
  <2>1. expansions \in 0..2 /\ bounces \in 0..2
    BY <1>1 DEF TypeOK
  <2>2. CASE \E p \in Proc : Active(p)
    <3>1. PICK p \in Proc : Progress(p)
      BY <1>1, <2>2 DEF Token, TokenOf
    <3> QED  BY <2>1, <3>1 DEF Progress
  <2>3. CASE ~\E p \in Proc : Active(p)
    BY <1>1, <2>1, <2>3 DEF Token, Resting
  <2> QED  BY <2>2, <2>3
<1>2. TokenInv => HandledOnce
  BY <1>1 DEF TokenInv, BaseInv, HandledOnce
<1> QED  BY <1>2, TokenInvariant, PTL

\* With one local runner at a time every run ends with simta_fast_files at 0, so
\* none of them stops the daemon, and when all runs have ended no message is
\* left in fast, which nobody reads (q_runner, unexpanded_clean_up).
THEOREM NoneStranded == Spec => []NothingStranded
<1>1. ASSUME Token, Quiet PROVE Efile["fast"] = None
  <2>1. Resting
    BY <1>1 DEF Token, Quiet, Active, TakenStep
  <2> QED
    BY <2>1 DEF Resting, Files, Dir
<1>2. TokenInv => NothingStranded
  BY <1>1 DEF TokenInv, NothingStranded, Token
<1> QED  BY <1>2, TokenInvariant, PTL
=============================================================================
