--------------------------- MODULE MCQueueLeader ---------------------------
EXTENDS QueueLeader, TLC

TabSymmetry == Permutations(Tabs)
=============================================================================
