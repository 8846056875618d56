--------------------------- MODULE MCQueueRunner ---------------------------
EXTENDS QueueRunner
=============================================================================
