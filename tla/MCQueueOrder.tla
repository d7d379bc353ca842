---------------------------- MODULE MCQueueOrder ----------------------------
EXTENDS QueueOrder, TLC

\* Nothing but created_at and queue_position tells tasks apart.
Symmetry == Permutations(Tasks)
=============================================================================
