------------------------------- MODULE Server -------------------------------
(***************************************************************************)
(* The lab-4 web server core of src/webserver: the bounded request queue   *)
(* (queue.c) between the listener thread, which calls server_request for   *)
(* each accepted connection and finally server_exit, and nr_threads worker *)
(* threads running helper_thread_do_server_request (server_thread.c).      *)
(*                                                                         *)
(* Threads are kernel threads running in parallel.  queue_mutex guards the *)
(* queue; the two condition variables have POSIX semantics: cond_wait      *)
(* releases the mutex and blocks atomically, may wake spuriously, and      *)
(* reacquires the mutex before returning.  sv->exiting is read and written *)
(* without the mutex, so every read of it is a step of its own.  The queue *)
(* is the linked REQ_QUEUE of ReqQueue, and the server calls its push_back, *)
(* pop_front and delete_queue and tests its curr_size, as the code does.   *)
(***************************************************************************)
EXTENDS Integers, SequencesExt

CONSTANTS
    Workers,       \* the worker threads (nr_threads of them)
    Main,          \* the listener thread that calls server_request/server_exit
    MaxRequests,   \* max_requests, the queue capacity
    NumRequests,   \* connections the listener accepts (connfd 1..NumRequests)
    NoOne,         \* queue_mutex unlocked
    Nodes,         \* heap addresses a REQUEST_NODE can be allocated at
    Null

ASSUME Workers # {} /\ Main \notin Workers /\ NoOne \notin Workers \cup {Main}
ASSUME MaxRequests \in Nat \ {0} /\ NumRequests \in Nat

VARIABLES
    head, tail, next, val, free, aborted, curr_size, deleted,  \* the REQ_QUEUE
    queue_mutex,       \* the holder of queue_mutex, or NoOne
    nonempty_waiters,  \* threads blocked in cond_wait(queue_became_nonempty)
    nonfull_waiters,   \* threads blocked in cond_wait(queue_became_nonfull)
    exiting,           \* sv->exiting
    mpc,               \* the listener's program counter
    next_req,          \* the connfd the listener is submitting
    wpc,               \* each worker's program counter
    dispatched,        \* ghost: connfds handed to do_server_request, in order
    dropped            \* ghost: connfds freed unserved by delete_queue

qvars == <<head, tail, next, val, free, aborted, curr_size, deleted>>

vars == <<qvars, queue_mutex, nonempty_waiters, nonfull_waiters, exiting,
          mpc, next_req, wpc, dispatched, dropped>>

Connfds == 1..NumRequests

RQ == INSTANCE ReqQueue WITH MaxSize <- MaxRequests

\* The connfds on the queue, head first.
request_queue == RQ!Contents

\* assert(push_back(...)) or assert(pop_front(...)) fails: the call
\* refused, and the process aborts.
AssertFailed ==
    /\ aborted' = TRUE
    /\ UNCHANGED <<head, tail, next, val, free, curr_size, deleted>>
MainPcs == {"lock", "check", "wait", "waiting", "exit", "accept", "bcast", "join", "done"}
WorkerPcs == {"top", "lock", "check", "wait", "waiting", "pop", "serve", "done"}

TypeOK ==
    /\ RQ!TypeOK
    /\ queue_mutex \in Workers \cup {Main, NoOne}
    /\ nonempty_waiters \in SUBSET Workers
    /\ nonfull_waiters \in SUBSET {Main}
    /\ exiting \in BOOLEAN
    /\ mpc \in MainPcs
    /\ next_req \in 1..NumRequests + 1
    /\ wpc \in [Workers -> WorkerPcs]
    /\ dispatched \in Seq(Connfds)
    /\ dropped \in Seq(Connfds)

\* server_init: create_request_queue(max_requests), the workers started.
Init ==
    /\ RQ!Init
    /\ queue_mutex = NoOne
    /\ nonempty_waiters = {}
    /\ nonfull_waiters = {}
    /\ exiting = FALSE
    /\ mpc = IF NumRequests > 0 THEN "lock" ELSE "exit"
    /\ next_req = 1
    /\ wpc = [w \in Workers |-> "top"]
    /\ dispatched = <<>>
    /\ dropped = <<>>

\* The accept loop of the server's main (not in the repository): after one
\* server_request returns: the next one, or server_exit.
AfterRequest == IF next_req < NumRequests THEN "lock" ELSE "exit"

-----------------------------------------------------------------------------
(* The listener: server_request(sv, connfd) for connfd = next_req, with   *)
(* nr_threads > 0 (the nr_threads == 0 path is a plain call).             *)

\* pthread_mutex_lock(&queue_mutex).
main_lock ==
    /\ mpc = "lock" /\ queue_mutex = NoOne
    /\ queue_mutex' = Main
    /\ mpc' = "check"
    /\ UNCHANGED <<qvars, nonempty_waiters, nonfull_waiters, exiting,
                   next_req, wpc, dispatched, dropped>>

\* The while test on a full queue.
main_check_full ==
    /\ mpc = "check" /\ curr_size = MaxRequests
    /\ mpc' = "wait"
    /\ UNCHANGED <<qvars, queue_mutex, nonempty_waiters, nonfull_waiters,
                   exiting, next_req, wpc, dispatched, dropped>>

\* Mutant: the 0 -> 1 test reads curr_size before the push.
main_push_stale_size ==
    /\ mpc = "check" /\ curr_size # MaxRequests
    /\ IF curr_size < MaxRequests THEN RQ!push_back(next_req) ELSE AssertFailed
    /\ nonempty_waiters' = IF curr_size = 1 THEN {} ELSE nonempty_waiters
    /\ queue_mutex' = NoOne
    /\ next_req' = next_req + 1
    /\ mpc' = AfterRequest
    /\ UNCHANGED <<nonfull_waiters, exiting, wpc, dispatched, dropped>>

\* assert(push_back(...)), the broadcast on the 0 -> 1 transition, unlock.
main_push ==
    /\ mpc = "check" /\ curr_size # MaxRequests
    /\ IF curr_size < MaxRequests THEN RQ!push_back(next_req) ELSE AssertFailed
    /\ nonempty_waiters' = IF curr_size' = 1 THEN {} ELSE nonempty_waiters
    /\ queue_mutex' = NoOne
    /\ next_req' = next_req + 1
    /\ mpc' = AfterRequest
    /\ UNCHANGED <<nonfull_waiters, exiting, wpc, dispatched, dropped>>

\* No SIGINT comes: the listener stays blocked in accept and never calls
\* server_exit.
main_keep_serving ==
    /\ mpc = "exit"
    /\ mpc' = "accept"
    /\ UNCHANGED <<qvars, queue_mutex, nonempty_waiters, nonfull_waiters,
                   exiting, next_req, wpc, dispatched, dropped>>

\* server_exit: sv->exiting = 1, then the broadcast, both without the mutex.
main_set_exiting ==
    /\ mpc = "exit"
    /\ exiting' = TRUE
    /\ mpc' = "bcast"
    /\ UNCHANGED <<qvars, queue_mutex, nonempty_waiters, nonfull_waiters,
                   next_req, wpc, dispatched, dropped>>

main_broadcast ==
    /\ mpc = "bcast"
    /\ nonempty_waiters' = {}
    /\ mpc' = "join"
    /\ UNCHANGED <<qvars, queue_mutex, nonfull_waiters, exiting,
                   next_req, wpc, dispatched, dropped>>

\* pthread_join on every worker, then delete_queue frees what is left.
main_join ==
    /\ mpc = "join" /\ \A w \in Workers : wpc[w] = "done"
    /\ dropped' = request_queue
    /\ RQ!delete_queue
    /\ mpc' = "done"
    /\ UNCHANGED <<queue_mutex, nonempty_waiters, nonfull_waiters, exiting,
                   next_req, wpc, dispatched>>

-----------------------------------------------------------------------------
(* A worker: helper_thread_do_server_request.                              *)

SetW(w, pcv) == wpc' = [wpc EXCEPT ![w] = pcv]

\* while (!server->exiting), read without the mutex.
worker_top(w) ==
    /\ wpc[w] = "top"
    /\ SetW(w, IF exiting THEN "done" ELSE "lock")
    /\ UNCHANGED <<qvars, queue_mutex, nonempty_waiters, nonfull_waiters,
                   exiting, mpc, next_req, dispatched, dropped>>

\* pthread_mutex_lock(&queue_mutex).
worker_lock(w) ==
    /\ wpc[w] = "lock" /\ queue_mutex = NoOne
    /\ queue_mutex' = w
    /\ SetW(w, "check")
    /\ UNCHANGED <<qvars, nonempty_waiters, nonfull_waiters, exiting,
                   mpc, next_req, dispatched, dropped>>

\* while (curr_size == 0 && !server->exiting), then if (server->exiting).
worker_check(w) ==
    /\ wpc[w] = "check"
    /\ IF curr_size = 0 /\ ~exiting
       THEN /\ SetW(w, "wait") /\ UNCHANGED queue_mutex
       ELSE IF exiting
            THEN /\ queue_mutex' = NoOne /\ SetW(w, "done")
            ELSE /\ SetW(w, "pop") /\ UNCHANGED queue_mutex
    /\ UNCHANGED <<qvars, nonempty_waiters, nonfull_waiters, exiting,
                   mpc, next_req, dispatched, dropped>>

\* Mutant: the nonfull test compares with max_size instead of max_size - 1.
\* Mutant: a build with NDEBUG compiles assert(pop_front(...)) out; the
\* worker serves whatever the uninitialised connfd holds.
worker_pop_ndebug(w) ==
    /\ wpc[w] = "pop"
    /\ \E junk \in Connfds : dispatched' = Append(dispatched, junk)
    /\ nonfull_waiters' = IF curr_size = MaxRequests - 1 THEN {}
                          ELSE nonfull_waiters
    /\ queue_mutex' = NoOne
    /\ SetW(w, "serve")
    /\ UNCHANGED <<qvars, nonempty_waiters, exiting, mpc, next_req, dropped>>

worker_pop_no_nonfull(w) ==
    /\ wpc[w] = "pop"
    /\ IF curr_size > 0
       THEN RQ!pop_front /\ dispatched' = Append(dispatched, val[head])
       ELSE AssertFailed /\ UNCHANGED dispatched
    /\ nonfull_waiters' = IF curr_size' = MaxRequests THEN {}
                          ELSE nonfull_waiters
    /\ queue_mutex' = NoOne
    /\ SetW(w, "serve")
    /\ UNCHANGED <<nonempty_waiters, exiting, mpc, next_req, dropped>>

\* assert(pop_front(...)), the nonfull broadcast on the max -> max-1 transition, unlock.
worker_pop(w) ==
    /\ wpc[w] = "pop"
    /\ IF curr_size > 0
       THEN RQ!pop_front /\ dispatched' = Append(dispatched, val[head])
       ELSE AssertFailed /\ UNCHANGED dispatched
    /\ nonfull_waiters' = IF curr_size' = MaxRequests - 1 THEN {}
                          ELSE nonfull_waiters
    /\ queue_mutex' = NoOne
    /\ SetW(w, "serve")
    /\ UNCHANGED <<nonempty_waiters, exiting, mpc, next_req, dropped>>

\* do_server_request runs outside the mutex.
worker_serve(w) ==
    /\ wpc[w] = "serve"
    /\ SetW(w, "top")
    /\ UNCHANGED <<qvars, queue_mutex, nonempty_waiters, nonfull_waiters,
                   exiting, mpc, next_req, dispatched, dropped>>

-----------------------------------------------------------------------------
(* pthread_cond_wait and wake-ups.                                         *)

\* cond_wait: release the mutex and block, atomically.
cond_wait(t) ==
    /\ IF t = Main THEN mpc = "wait" ELSE wpc[t] = "wait"
    /\ queue_mutex' = NoOne
    /\ IF t = Main
       THEN /\ nonfull_waiters' = nonfull_waiters \cup {Main}
            /\ mpc' = "waiting"
            /\ UNCHANGED <<nonempty_waiters, wpc>>
       ELSE /\ nonempty_waiters' = nonempty_waiters \cup {t}
            /\ SetW(t, "waiting")
            /\ UNCHANGED <<nonfull_waiters, mpc>>
    /\ UNCHANGED <<qvars, exiting, next_req, dispatched, dropped>>

\* A thread no longer on a waiter set returns from cond_wait once it has
\* reacquired the mutex.
cond_return(t) ==
    /\ IF t = Main THEN mpc = "waiting" ELSE wpc[t] = "waiting"
    /\ t \notin nonempty_waiters \cup nonfull_waiters
    /\ queue_mutex = NoOne
    /\ queue_mutex' = t
    /\ IF t = Main THEN mpc' = "check" /\ UNCHANGED wpc
                   ELSE SetW(t, "check") /\ UNCHANGED mpc
    /\ UNCHANGED <<qvars, nonempty_waiters, nonfull_waiters,
                   exiting, next_req, dispatched, dropped>>

\* POSIX lets a thread leave the waiter set without a signal.
spurious_wakeup(t) ==
    /\ t \in nonempty_waiters \cup nonfull_waiters
    /\ nonempty_waiters' = nonempty_waiters \ {t}
    /\ nonfull_waiters' = nonfull_waiters \ {t}
    /\ UNCHANGED <<qvars, queue_mutex, exiting, mpc, next_req, wpc,
                   dispatched, dropped>>

-----------------------------------------------------------------------------

MainStep ==
    \/ main_lock \/ main_check_full \/ main_push
    \/ main_keep_serving \/ main_set_exiting \/ main_broadcast \/ main_join

WorkerStep(w) ==
    \/ worker_top(w) \/ worker_lock(w) \/ worker_check(w)
    \/ worker_pop(w) \/ worker_serve(w)

Next ==
    \/ MainStep
    \/ \E w \in Workers : WorkerStep(w)
    \/ \E t \in Workers \cup {Main} : cond_wait(t) \/ cond_return(t)
    \/ \E t \in Workers \cup {Main} : spurious_wakeup(t)

Spec == Init /\ [][Next]_vars

\* The kernel runs every runnable thread, and a thread blocked in
\* pthread_mutex_lock gets the mutex if it is free infinitely often.
\* Spurious wake-ups are allowed, never relied on.
Fairness ==
    /\ WF_vars(MainStep \/ cond_wait(Main))
    /\ SF_vars(main_lock \/ cond_return(Main))
    /\ \A w \in Workers :
         /\ WF_vars(WorkerStep(w) \/ cond_wait(w))
         /\ SF_vars(worker_lock(w) \/ cond_return(w))

FairSpec == Spec /\ Fairness

-----------------------------------------------------------------------------
(* Properties.                                                             *)

\* The queue is FIFO and loses or duplicates nothing: the requests handed
\* to do_server_request, then those freed at exit, then those still queued
\* are exactly the connfds submitted so far, in submission order.
RequestConservation ==
    dispatched \o dropped \o request_queue = [i \in 1..next_req - 1 |-> i]

\* The broadcasts on the 0 -> 1 and max -> max-1 transitions strand nobody:
\* no worker waits for "nonempty" while the queue holds a request, and the
\* listener does not wait for "nonfull" while there is room.
NoStrandedWaiter ==
    /\ request_queue # <<>> => nonempty_waiters = {}
    /\ Len(request_queue) < MaxRequests => nonfull_waiters = {}

\* Driven by the listener and the workers, the REQ_QUEUE's curr_size, which
\* alone decides the while loops and the broadcasts, always equals the
\* length of its list, and no assert(push_back) or assert(pop_front) fails.
SizeMatchesList == RQ!SizeMatchesList

\* Every REQUEST_NODE is freed once it is popped or when delete_queue runs
\* at server_exit, and none is freed while linked.
NoLeak == RQ!NoLeak

\* While the server keeps running, every accepted connection is eventually
\* handed to a worker: in a run where server_exit never sets sv->exiting,
\* all NumRequests connfds get dispatched (the listener is never left
\* blocked on a full queue, nor a worker on a non-empty one).
AllRequestsDispatched == [](~exiting) => <>(Len(dispatched) = NumRequests)

\* server_exit returns: once it sets sv->exiting, every worker sees it and
\* is joined.
ServerExitCompletes == exiting ~> (mpc = "done")

=============================================================================
