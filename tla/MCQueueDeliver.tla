--------------------------- MODULE MCQueueDeliver ---------------------------
EXTENDS QueueDeliverProps, TLC

\* Nothing tells processes, recipients or inodes apart; used for safety only.
Symmetry ==
    Permutations(Proc) \union Permutations(Rcpt) \union Permutations(Inode)
=============================================================================
