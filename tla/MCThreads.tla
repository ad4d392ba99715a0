------------------------------ MODULE MCThreads ------------------------------
(* Threads with THREAD_MAX_THREADS = 3, one lock, one cv, one wait queue. *)
EXTENDS Threads

CONSTANTS L1, C1, W1

MCTid == 0..2
MCLocks == {L1}
MCCVs == {C1}
MCWaitQueues == {W1}
MCNoCVs == {}
=============================================================================
