------------------------------- MODULE Spool -------------------------------
(***************************************************************************)
(* One message in simta's spool, at the granularity of system calls.       *)
(*                                                                         *)
(* A message is a pair of files, D<id> (its text) and E<id> (its           *)
(* envelope), in one of the directories local, fast and slow; t<id> is an  *)
(* envelope that is still being written.  The processes of simta share     *)
(* nothing but these files: envelope.c is the library they all reach them  *)
(* through, and every step below is one call of it to the kernel, so that  *)
(* the steps of different processes interleave.                            *)
(*                                                                         *)
(* Simplifications:                                                        *)
(* - one message: the ids of two messages differ, and no step here touches *)
(*   the files of two ids;                                                 *)
(* - an envelope's text is the set of recipients it lists; {} is an empty  *)
(*   file (just created, or truncated), which env_read refuses because its *)
(*   first line is not a version;                                          *)
(* - a D file is there or not: its text never changes;                     *)
(* - a crash is the death of a process: what it wrote stays.               *)
(***************************************************************************)
EXTENDS Integers, FiniteSets

CONSTANTS
    Proc,       \* the processes that may work on the message
    Rcpt,       \* the recipients of the message
    Inode,      \* inodes for envelope files
    None        \* no inode, no process

ASSUME NoneAssumption == None \notin Inode /\ None \notin Proc
ASSUME RcptAssumption == Rcpt # {}

Dir == {"local", "fast", "slow"}

VARIABLES
    Efile,      \* Efile[d]: the inode d/E<id> names, or None
    Dfile,      \* Dfile[d]: is there a d/D<id>?
    Tfile,      \* Tfile[d]: the inode d/t<id> names, or None
    text,       \* text[i]: the recipients listed in inode i
    lock,       \* lock[i]: the process holding the lockf lock of inode i
    pc,         \* pc[p]: the call process p makes next, "idle" if it has none
    dir,        \* dir[p]: e_dir of p's struct envelope
    rcpt,       \* rcpt[p]: e_rcpt, {} for NULL (recipients not read yet)
    fd,         \* fd[p]: the inode snet_lock is open on
    fastFiles,  \* fastFiles[p]: simta_fast_files
    move        \* move[p]: the arguments of env_move and where it returns to

disk == <<Efile, Dfile, Tfile, text, lock>>
memory == <<pc, dir, rcpt, fd, fastFiles, move>>
spoolVars == <<disk, memory>>

\* Where a process may be inside env_move.
MoveLabel == {"moveLinkD", "moveLinkE", "moveUnlinkE", "moveUnlinkD",
              "moveUndoE", "moveUndoD"}

\* The types, when the processes go through the given labels.
SpoolTypeOK(Label) ==
    /\ Efile \in [Dir -> Inode \union {None}]
    /\ Dfile \in [Dir -> BOOLEAN]
    /\ Tfile \in [Dir -> Inode \union {None}]
    /\ text \in [Inode -> SUBSET Rcpt]
    /\ lock \in [Inode -> Proc \union {None}]
    /\ pc \in [Proc -> Label]
    /\ dir \in [Proc -> Dir]
    /\ rcpt \in [Proc -> SUBSET Rcpt]
    /\ fd \in [Proc -> Inode \union {None}]
    /\ fastFiles \in [Proc -> Nat]   \* envelope.c and queue.c assert it
    /\ move \in [Proc -> [to : Dir, done : Label, failed : Label]]

Goto(p, l) == pc' = [pc EXCEPT ![p] = l]

\* An inode the kernel may hand out: no name and no descriptor refers to it.
Fresh(i) ==
    /\ \A d \in Dir : Efile[d] # i /\ Tfile[d] # i
    /\ \A p \in Proc : fd[p] # i

\* d holds an envelope that env_read accepts.
Readable(d) == Efile[d] # None /\ text[Efile[d]] # {}

\* simta_fast_files counts the envelopes a process put in fast.
Count(p, d, n) ==
    fastFiles' = IF d = "fast" THEN [fastFiles EXCEPT ![p] = @ + n]
                 ELSE fastFiles

\* Mutant: the descriptor is forgotten, not closed, and the lock stays.
LeakLock(p) ==
    /\ fd' = [fd EXCEPT ![p] = None]
    /\ UNCHANGED lock

\* Closing the descriptor drops the lock that came with it.
CloseLock(p) ==
    /\ lock' = [i \in Inode |-> IF lock[i] = p THEN None ELSE lock[i]]
    /\ fd' = [fd EXCEPT ![p] = None]

---------------------------------------------------------------------------
(* env_move: link the new names, then remove the old ones.                 *)

\* The call; a message that is already in `to` stays where it is.
EnvMove(p, to, done, failed) ==
    IF dir[p] = to
    THEN Goto(p, done) /\ UNCHANGED move
    ELSE /\ Goto(p, "moveLinkD")
         /\ move' = [move EXCEPT
                ![p] = [to |-> to, done |-> done, failed |-> failed]]

\* Mutant: the D file is renamed where it should get a second name.
RenameD(p) ==
    /\ pc[p] = "moveLinkD"
    /\ Dfile' = [Dfile EXCEPT ![move[p].to] = TRUE, ![dir[p]] = FALSE]
    /\ Goto(p, IF Dfile[dir[p]] THEN "moveLinkE" ELSE move[p].failed)
    /\ UNCHANGED <<Efile, Tfile, text, lock, dir, rcpt, fd, fastFiles, move>>

MoveLinkD(p) ==
    /\ pc[p] = "moveLinkD"
    /\ \/ /\ Dfile[dir[p]] /\ ~Dfile[move[p].to]
          /\ Dfile' = [Dfile EXCEPT ![move[p].to] = TRUE]
          /\ Goto(p, "moveLinkE")
       \/ /\ ~Dfile[dir[p]] \/ Dfile[move[p].to]
          /\ Goto(p, move[p].failed)
          /\ UNCHANGED Dfile
    /\ UNCHANGED <<Efile, Tfile, text, lock, dir, rcpt, fd, fastFiles, move>>

MoveLinkE(p) ==
    /\ pc[p] = "moveLinkE"
    /\ \/ /\ Efile[dir[p]] # None /\ Efile[move[p].to] = None
          /\ Efile' = [Efile EXCEPT ![move[p].to] = Efile[dir[p]]]
          /\ Count(p, move[p].to, 1)
          /\ Goto(p, "moveUnlinkE")
       \/ /\ Efile[dir[p]] = None \/ Efile[move[p].to] # None
          /\ Goto(p, "moveUndoD")
          /\ UNCHANGED <<Efile, fastFiles>>
    /\ UNCHANGED <<Dfile, Tfile, text, lock, dir, rcpt, fd, move>>

\* env_unlink of the old names: the E file, and only then the D file.
MoveUnlinkE(p) ==
    /\ pc[p] = "moveUnlinkE"
    /\ \/ /\ Efile[dir[p]] # None
          /\ Efile' = [Efile EXCEPT ![dir[p]] = None]
          /\ Count(p, dir[p], -1)
          /\ Goto(p, "moveUnlinkD")
       \/ /\ Efile[dir[p]] = None
          /\ Goto(p, "moveUndoE")
          /\ UNCHANGED <<Efile, fastFiles>>
    /\ UNCHANGED <<Dfile, Tfile, text, lock, dir, rcpt, fd, move>>

\* The result of unlinking the old D file is ignored.
MoveUnlinkD(p) ==
    /\ pc[p] = "moveUnlinkD"
    /\ Dfile' = [Dfile EXCEPT ![dir[p]] = FALSE]
    /\ dir' = [dir EXCEPT ![p] = move[p].to]
    /\ Goto(p, move[p].done)
    /\ UNCHANGED <<Efile, Tfile, text, lock, rcpt, fd, fastFiles, move>>

\* Mutant: only the D link is unwound.
UndoOnlyD(p) ==
    /\ pc[p] = "moveUndoE"
    /\ Goto(p, "moveUndoD")
    /\ UNCHANGED <<Efile, Dfile, Tfile, text, lock, dir, rcpt, fd, fastFiles,
                   move>>

\* The old E file was gone: unwind the new names.
MoveUndoE(p) ==
    /\ pc[p] = "moveUndoE"
    /\ \/ /\ Efile[move[p].to] # None
          /\ Efile' = [Efile EXCEPT ![move[p].to] = None]
          /\ Count(p, move[p].to, -1)
          /\ Goto(p, "moveUndoD")
       \/ /\ Efile[move[p].to] = None
          /\ Goto(p, move[p].failed)
          /\ UNCHANGED <<Efile, fastFiles>>
    /\ UNCHANGED <<Dfile, Tfile, text, lock, dir, rcpt, fd, move>>

MoveUndoD(p) ==
    /\ pc[p] = "moveUndoD"
    /\ Dfile' = [Dfile EXCEPT ![move[p].to] = FALSE]
    /\ Goto(p, move[p].failed)
    /\ UNCHANGED <<Efile, Tfile, text, lock, dir, rcpt, fd, fastFiles, move>>

MoveStep(p) ==
    \/ MoveLinkD(p) \/ MoveLinkE(p)
    \/ MoveUnlinkE(p) \/ MoveUnlinkD(p)
    \/ MoveUndoE(p) \/ MoveUndoD(p)
===========================================================================
