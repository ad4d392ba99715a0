----------------------------- MODULE MCThreads2 -----------------------------
EXTENDS Threads2

CONSTANTS n1, n2, n3

\* Three thread ids, so that two threads can wait on the queue while a
\* third runs; one node per thread id, the most the queue holds at once
\* (every thread but the running one, plus the running one pushed by
\* thread_yield before it pops).
MCTid == 0..2
MCNodes == {n1, n2, n3}

=============================================================================
