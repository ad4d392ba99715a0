------------------------------- MODULE Threads -------------------------------
(***************************************************************************)
(* The user-level thread library of src/threads_3: the thread table, the   *)
(* ready queue, wait queues, thread_create/yield/exit/kill/sleep/wakeup/   *)
(* wait, locks and condition variables (thread.c, queue.c).                *)
(*                                                                         *)
(* There is one CPU.  Every library entry point runs with the preempt      *)
(* signal disabled, so each call is one atomic step of the running thread  *)
(* up to the point where it switches away inside thread_yield.  A thread   *)
(* that is switched out resumes at pc[t]: "user" (user code, interrupts    *)
(* on), or inside a library call that had called thread_sleep.  The timer  *)
(* handler calls thread_yield(THREAD_ANY); it can fire only where the      *)
(* running thread has interrupts on: in user code and in the two windows   *)
(* of cv_wait that run with interrupts restored.                           *)
(*                                                                         *)
(* The client is the most general one: the running thread may call any     *)
(* library operation with any argument, respecting the API contract that   *)
(* lock_release, cv_wait, cv_signal and cv_broadcast are called by the     *)
(* holder of the lock.                                                     *)
(***************************************************************************)
EXTENDS Integers, SequencesExt

CONSTANTS
    Tid,          \* thread ids 0..THREAD_MAX_THREADS-1; 0 is the main thread
    Locks,        \* the struct lock objects the client uses
    CVs,          \* the struct cv objects the client uses
    WaitQueues    \* wait queues made by wait_queue_create

ASSUME 0 \in Tid /\ Tid \subseteq Nat
ASSUME Locks \cap CVs = {} /\ (Locks \cup CVs) \cap WaitQueues = {}

\* THREAD_NONE, stored in lock->acquiring_thread by lock_create.
NoTid == -1

\* Every WAIT_QUEUE: the one in each thread control block (thread_wait),
\* the one in each lock and cv, and the free-standing ones.
QueueIds == Tid \cup Locks \cup CVs \cup WaitQueues

ThreadState ==
    {"NOT_INITIALIZED", "RUNNING", "READY", "EXITED", "KILLED", "SLEEPING"}

\* Where a switched-out thread resumes.
User == [op |-> "user"]
ExitPc == [op |-> "exit"]                        \* IP rewritten to thread_exit
AcquirePc(l) == [op |-> "acquire", lock |-> l]    \* in lock_acquire's loop
CvLockPc(l) == [op |-> "cv_lock", lock |-> l]     \* cv_wait, before lock_acquire
CvSleepPc(c, l) == [op |-> "cv_sleep", cv |-> c, lock |-> l]
WaitRetPc(t) == [op |-> "wait_ret", tid |-> t]    \* thread_wait, after sleep

Pcs == {User, ExitPc} \cup {AcquirePc(l) : l \in Locks}
       \cup {CvLockPc(l) : l \in Locks}
       \cup {CvSleepPc(c, l) : c \in CVs, l \in Locks}
       \cup {WaitRetPc(t) : t \in Tid}

\* Points at which the running thread has the preempt signal enabled.
Interruptible == {User} \cup {CvLockPc(l) : l \in Locks}
                 \cup {CvSleepPc(c, l) : c \in CVs, l \in Locks}

VARIABLES
    state,                 \* thread_array[t].state
    thread_queue,          \* the ready queue, head first
    running_thread_id,
    cleanup_needs_to_run,  \* thread_exit_cleanup_needs_to_run
    wqueue,                \* wqueue[q]: the FIFO of wait queue q
    acquired,              \* lock->acquired
    acquiring_thread,      \* lock->acquiring_thread
    pc,                    \* where each thread is, or resumes
    halted,                \* "no", "exit" (exit(0)) or "abort" (failed assert)
    holding,               \* ghost: locks whose lock_acquire returned to t
    joined,                \* ghost: thread_wait's target has exited
    missed                 \* ghost: threads in cv_wait that a signal missed

vars == <<state, thread_queue, running_thread_id, cleanup_needs_to_run, wqueue,
          acquired, acquiring_thread, pc, halted, holding, joined, missed>>

TypeOK ==
    /\ state \in [Tid -> ThreadState]
    /\ thread_queue \in Seq(Tid)
    /\ running_thread_id \in Tid
    /\ cleanup_needs_to_run \in BOOLEAN
    /\ wqueue \in [QueueIds -> Seq(Tid)]
    /\ acquired \in [Locks -> BOOLEAN]
    /\ acquiring_thread \in [Locks -> Tid \cup {NoTid}]
    /\ pc \in [Tid -> Pcs]
    /\ halted \in {"no", "exit", "abort"}
    /\ holding \in [Tid -> SUBSET Locks]
    /\ joined \in [Tid -> BOOLEAN]
    /\ missed \in SUBSET Tid

\* thread_init, with every lock_create, cv_create and wait_queue_create done.
Init ==
    /\ state = [t \in Tid |-> IF t = 0 THEN "RUNNING" ELSE "NOT_INITIALIZED"]
    /\ thread_queue = <<>>
    /\ running_thread_id = 0
    /\ cleanup_needs_to_run = FALSE
    /\ wqueue = [q \in QueueIds |-> <<>>]
    /\ acquired = [l \in Locks |-> FALSE]
    /\ acquiring_thread = [l \in Locks |-> NoTid]
    /\ pc = [t \in Tid |-> User]
    /\ halted = "no"
    /\ holding = [t \in Tid |-> {}]
    /\ joined = [t \in Tid |-> FALSE]
    /\ missed = {}

-----------------------------------------------------------------------------
(* Helpers: thread_exit_cleanup, thread_wakeup and the switch in           *)
(* thread_yield, as functions of the state they start from.                *)

\* Mutant: the cleanup loop stops one slot short and never reaps the last.
CleanedOffByOne ==
    IF cleanup_needs_to_run
    THEN [t \in Tid |-> IF state[t] = "EXITED" /\ t < Max(Tid)
                        THEN "NOT_INITIALIZED" ELSE state[t]]
    ELSE state

\* The thread table after thread_exit_cleanup: EXITED slots are freed.
Cleaned ==
    IF cleanup_needs_to_run
    THEN [t \in Tid |-> IF state[t] = "EXITED" THEN "NOT_INITIALIZED" ELSE state[t]]
    ELSE state

\* The threads thread_wakeup(q, all) pops: the head, or the whole queue.
Woken(q, all) ==
    IF all THEN wqueue[q] ELSE SubSeq(wqueue[q], 1, IF wqueue[q] = <<>> THEN 0 ELSE 1)

\* Mutant: woken threads keep their SLEEPING state.
WakeStatesKeepSleeping(st, ts) == st

\* Mutant: every woken thread becomes READY, a KILLED one included.
WakeStatesReadyKilled(st, ts) ==
    [t \in Tid |-> IF t \in ToSet(ts) THEN "READY" ELSE st[t]]

\* A woken SLEEPING thread becomes READY; a KILLED one stays KILLED.
WakeStates(st, ts) ==
    [t \in Tid |-> IF t \in ToSet(ts) /\ st[t] = "SLEEPING" THEN "READY" ELSE st[t]]

\* thread_wakeup(q, all): woken threads go to the tail of the ready queue.
Wakeup(q, all) ==
    LET ts == Woken(q, all) IN
    /\ wqueue' = [wqueue EXCEPT ![q] = SubSeq(@, Len(ts) + 1, Len(@))]
    /\ thread_queue' = thread_queue \o ts
    /\ state' = WakeStates(state, ts)

\* The context switch of thread_yield from self to next, given the thread
\* table st, the ready queue rq left after next was taken out of it, and the
\* resume points p.  A KILLED target has its IP rewritten to thread_exit.
SwitchTo(self, next, st, rq, p) ==
    /\ thread_queue' = rq
    /\ running_thread_id' = next
    /\ state' = [st EXCEPT ![self] = IF @ \in {"EXITED", "SLEEPING"} THEN @ ELSE "READY",
                           ![next] = "RUNNING"]
    /\ pc' = IF st[next] = "KILLED" THEN [p EXCEPT ![next] = ExitPc] ELSE p

\* Mutant: the yielding thread is pushed at the head instead of the tail.
YieldAnyPushFront(self, st, rq, p) ==
    LET q == IF st[self] \in {"EXITED", "SLEEPING"} THEN rq ELSE <<self>> \o rq
    IN IF Head(q) = self
       THEN /\ state' = st /\ thread_queue' = rq /\ pc' = p
            /\ UNCHANGED running_thread_id
       ELSE SwitchTo(self, Head(q), st, Tail(q), p)

\* thread_yield(THREAD_ANY) from self: self goes to the tail unless it is
\* EXITED or SLEEPING, the head is popped; popping self returns THREAD_NONE.
YieldAny(self, st, rq, p) ==
    LET q == IF st[self] \in {"EXITED", "SLEEPING"} THEN rq ELSE Append(rq, self)
    IN IF Head(q) = self
       THEN /\ state' = st /\ thread_queue' = rq /\ pc' = p
            /\ UNCHANGED running_thread_id
       ELSE SwitchTo(self, Head(q), st, Tail(q), p)

\* thread_sleep(q) past its THREAD_NONE check (the ready queue is not
\* empty): self joins q, becomes SLEEPING and yields; it resumes at resume.
SleepOn(self, q, resume) ==
    /\ wqueue' = [wqueue EXCEPT ![q] = Append(@, self)]
    /\ YieldAny(self, [state EXCEPT ![self] = "SLEEPING"], thread_queue,
                [pc EXCEPT ![self] = resume])

-----------------------------------------------------------------------------
(* Operations of the running thread self.                                  *)

\* Mutant: the free-slot search runs to i <= THREAD_MAX_THREADS and hands
\* out the id one past the table when the table is full.
thread_create_oob(self) ==
    LET st == Cleaned
        free == {t \in Tid : st[t] = "NOT_INITIALIZED"} \cup {Max(Tid) + 1}
        t == Min(free)
    IN /\ pc[self] = User
       /\ cleanup_needs_to_run' = FALSE
       /\ state' = [st EXCEPT ![t] = "READY"]
       /\ thread_queue' = Append(thread_queue, t)
       /\ pc' = [pc EXCEPT ![t] = User]
       /\ holding' = [holding EXCEPT ![t] = {}]
       /\ UNCHANGED <<running_thread_id, wqueue, acquired, acquiring_thread,
                      halted, joined, missed>>

thread_create(self) ==
    LET st == Cleaned
        free == {t \in Tid : st[t] = "NOT_INITIALIZED"}
    IN /\ pc[self] = User
       /\ cleanup_needs_to_run' = FALSE
       /\ \E mallocOk \in BOOLEAN :
            IF free = {} \/ ~mallocOk      \* THREAD_NOMORE, THREAD_NOMEMORY
            THEN /\ state' = st
                 /\ UNCHANGED <<thread_queue, pc, holding>>
            ELSE LET t == Min(free) IN
                 /\ state' = [st EXCEPT ![t] = "READY"]
                 /\ thread_queue' = Append(thread_queue, t)
                 /\ pc' = [pc EXCEPT ![t] = User]
                 /\ holding' = [holding EXCEPT ![t] = {}]
       /\ UNCHANGED <<running_thread_id, wqueue, acquired, acquiring_thread,
                      halted, joined, missed>>

\* thread_yield(THREAD_ANY), called by the client or by the timer handler.
thread_yield_any(self) ==
    /\ pc[self] \in Interruptible
    /\ YieldAny(self, state, thread_queue, pc)
    /\ UNCHANGED <<cleanup_needs_to_run, wqueue, acquired, acquiring_thread,
                   halted, holding, joined, missed>>

\* thread_yield(want) for a thread id want (THREAD_SELF is want = self).
\* The target leaves the ready queue through assert(remove_node_rq(..)).
thread_yield(self, want) ==
    /\ pc[self] = User
    /\ want = self \/ state[want] \in {"READY", "KILLED"}
    /\ LET q == Append(thread_queue, self) IN
       IF want \in ToSet(q)
       THEN /\ SwitchTo(self, want, state, RemoveFirst(q, want), pc)
            /\ UNCHANGED halted
       ELSE /\ halted' = "abort"
            /\ UNCHANGED <<state, thread_queue, running_thread_id, pc>>
    /\ UNCHANGED <<cleanup_needs_to_run, wqueue, acquired, acquiring_thread,
                   holding, joined, missed>>

\* thread_exit: reap, mark self EXITED, wake its waiters, then yield for
\* good or end the process with exit(0) when the ready queue is empty.
\* Entered from user code or through the IP of a KILLED thread.
thread_exit(self) ==
    LET ts == wqueue[self]
        st == WakeStates([Cleaned EXCEPT ![self] = "EXITED"], ts)
        rq == thread_queue \o ts
    IN /\ pc[self] \in {User, ExitPc}
       /\ cleanup_needs_to_run' = TRUE
       /\ wqueue' = [wqueue EXCEPT ![self] = <<>>]
       /\ joined' = [w \in Tid |-> joined[w] \/ w \in ToSet(ts)]
       /\ IF rq # <<>>
          THEN YieldAny(self, st, rq, pc) /\ UNCHANGED halted
          ELSE /\ halted' = "exit"
               /\ state' = st /\ thread_queue' = rq
               /\ UNCHANGED <<running_thread_id, pc>>
       /\ UNCHANGED <<acquired, acquiring_thread, holding, missed>>

thread_kill(self, t) ==
    LET st == Cleaned IN
    /\ pc[self] = User
    /\ cleanup_needs_to_run' = FALSE
    /\ state' = IF t = self \/ st[t] = "NOT_INITIALIZED" THEN st    \* THREAD_INVALID
                ELSE [st EXCEPT ![t] = "KILLED"]
    /\ UNCHANGED <<thread_queue, running_thread_id, wqueue, acquired,
                   acquiring_thread, pc, halted, holding, joined, missed>>

\* thread_sleep(w) on a queue from wait_queue_create.
thread_sleep(self, w) ==
    /\ pc[self] = User
    /\ thread_queue # <<>>              \* else THREAD_NONE, nothing changes
    /\ SleepOn(self, w, User)
    /\ UNCHANGED <<cleanup_needs_to_run, acquired, acquiring_thread, halted,
                   holding, joined, missed>>

thread_wakeup(self, w, all) ==
    /\ pc[self] = User
    /\ wqueue[w] # <<>>
    /\ Wakeup(w, all)
    /\ UNCHANGED <<running_thread_id, cleanup_needs_to_run, acquired,
                   acquiring_thread, pc, halted, holding, joined, missed>>

\* thread_wait(t): sleeps on t's wait queue; returns t when thread_sleep
\* returns, whatever thread_sleep returned.
thread_wait(self, t) ==
    /\ pc[self] = User
    /\ t # self /\ state[t] # "NOT_INITIALIZED"
    /\ joined' = [joined EXCEPT ![self] = state[t] = "EXITED"]
    /\ IF thread_queue = <<>>
       THEN /\ pc' = [pc EXCEPT ![self] = WaitRetPc(t)]
            /\ UNCHANGED <<state, thread_queue, running_thread_id, wqueue>>
       ELSE SleepOn(self, t, WaitRetPc(t))
    /\ UNCHANGED <<cleanup_needs_to_run, acquired, acquiring_thread, halted,
                   holding, missed>>

\* thread_wait returns to its caller.
wait_return(self) ==
    /\ pc[self].op = "wait_ret"
    /\ pc' = [pc EXCEPT ![self] = User]
    /\ UNCHANGED <<state, thread_queue, running_thread_id, cleanup_needs_to_run,
                   wqueue, acquired, acquiring_thread, halted, holding, joined, missed>>

-----------------------------------------------------------------------------
(* Locks and condition variables.                                          *)

\* Mutant: "if" for "while": a woken waiter takes the lock unchecked.
lock_acquire_if(self, l) ==
    /\ pc[self] \in {User, AcquirePc(l), CvLockPc(l)}
    /\ IF ~acquired[l] \/ pc[self] = AcquirePc(l)
       THEN /\ acquired' = [acquired EXCEPT ![l] = TRUE]
            /\ acquiring_thread' = [acquiring_thread EXCEPT ![l] = self]
            /\ holding' = [holding EXCEPT ![self] = @ \cup {l}]
            /\ pc' = [pc EXCEPT ![self] = User]
            /\ UNCHANGED <<state, thread_queue, running_thread_id, wqueue>>
       ELSE /\ IF thread_queue # <<>>
               THEN SleepOn(self, l, AcquirePc(l))
               ELSE /\ pc' = [pc EXCEPT ![self] = AcquirePc(l)]
                    /\ UNCHANGED <<state, thread_queue, running_thread_id, wqueue>>
            /\ UNCHANGED <<acquired, acquiring_thread, holding>>
    /\ UNCHANGED <<cleanup_needs_to_run, halted, joined, missed>>

\* One pass of lock_acquire's loop: take the lock if free, else sleep on
\* its queue; when thread_sleep returns THREAD_NONE the loop spins.
lock_acquire(self, l) ==
    /\ pc[self] \in {User, AcquirePc(l), CvLockPc(l)}
    /\ IF ~acquired[l]
       THEN /\ acquired' = [acquired EXCEPT ![l] = TRUE]
            /\ acquiring_thread' = [acquiring_thread EXCEPT ![l] = self]
            /\ holding' = [holding EXCEPT ![self] = @ \cup {l}]
            /\ pc' = [pc EXCEPT ![self] = User]
            /\ UNCHANGED <<state, thread_queue, running_thread_id, wqueue>>
       ELSE /\ IF thread_queue # <<>>
               THEN SleepOn(self, l, AcquirePc(l))
               ELSE /\ pc' = [pc EXCEPT ![self] = AcquirePc(l)]
                    /\ UNCHANGED <<state, thread_queue, running_thread_id, wqueue>>
            /\ UNCHANGED <<acquired, acquiring_thread, holding>>
    /\ UNCHANGED <<cleanup_needs_to_run, halted, joined, missed>>

\* Mutant: lock_release wakes one waiter (thread_wakeup(.., 0)).
ReleaseWakeOne(self, l) ==
    /\ acquired' = [acquired EXCEPT ![l] = FALSE]
    /\ holding' = [holding EXCEPT ![self] = @ \ {l}]
    /\ Wakeup(l, FALSE)

\* lock_release: clears acquired (not acquiring_thread), wakes all waiters.
Release(self, l) ==
    /\ acquired' = [acquired EXCEPT ![l] = FALSE]
    /\ holding' = [holding EXCEPT ![self] = @ \ {l}]
    /\ Wakeup(l, TRUE)

lock_release(self, l) ==
    /\ pc[self] = User
    /\ l \in holding[self]
    /\ Release(self, l)
    /\ UNCHANGED <<running_thread_id, cleanup_needs_to_run, acquiring_thread,
                   pc, halted, joined, missed>>

\* cv_wait, first part: lock_release; interrupts are then on again.
cv_wait(self, c, l) ==
    /\ pc[self] = User
    /\ l \in holding[self]
    /\ Release(self, l)
    /\ pc' = [pc EXCEPT ![self] = CvSleepPc(c, l)]
    /\ UNCHANGED <<running_thread_id, cleanup_needs_to_run, acquiring_thread,
                   halted, joined, missed>>

\* cv_wait, second part: thread_sleep(&cv->wqueue), then lock_acquire.
cv_sleep(self) ==
    LET c == pc[self].cv
        l == pc[self].lock
    IN /\ pc[self].op = "cv_sleep"
       /\ IF thread_queue = <<>>
          THEN /\ pc' = [pc EXCEPT ![self] = CvLockPc(l)]
               /\ UNCHANGED <<state, thread_queue, running_thread_id, wqueue>>
          ELSE SleepOn(self, c, CvLockPc(l))
       /\ UNCHANGED <<cleanup_needs_to_run, acquired, acquiring_thread, halted,
                      holding, joined, missed>>

\* Threads inside cv_wait on c that have released the lock and are not yet
\* on c's queue: a signal they were owed that wakes nobody is lost.
InWindow(c) == {t \in Tid : pc[t].op = "cv_sleep" /\ pc[t].cv = c}

\* cv_signal (all = FALSE) and cv_broadcast (all = TRUE).
cv_notify(self, c, l, all) ==
    /\ pc[self] = User
    /\ l \in holding[self]
    /\ Wakeup(c, all)
    /\ missed' = IF all \/ wqueue[c] = <<>> THEN missed \cup InWindow(c) ELSE missed
    /\ UNCHANGED <<running_thread_id, cleanup_needs_to_run, acquired,
                   acquiring_thread, pc, halted, holding, joined>>

-----------------------------------------------------------------------------

Step(self) ==
    \/ thread_create(self)
    \/ thread_yield_any(self)
    \/ \E want \in Tid : thread_yield(self, want)
    \/ thread_exit(self)
    \/ \E t \in Tid : thread_kill(self, t)
    \/ \E w \in WaitQueues : thread_sleep(self, w)
    \/ \E w \in WaitQueues, all \in BOOLEAN : thread_wakeup(self, w, all)
    \/ \E t \in Tid : thread_wait(self, t)
    \/ wait_return(self)
    \/ \E l \in Locks : lock_acquire(self, l)
    \/ \E l \in Locks : lock_release(self, l)
    \/ \E c \in CVs, l \in Locks : cv_wait(self, c, l)
    \/ cv_sleep(self)
    \/ \E c \in CVs, l \in Locks, all \in BOOLEAN : cv_notify(self, c, l, all)

\* Only the running thread executes, until the process ends.
Next == halted = "no" /\ Step(running_thread_id)

Spec == Init /\ [][Next]_vars

\* The timer interrupt fires every 200us, so a running thread with the
\* signal enabled is eventually preempted; the CPU keeps executing the
\* library code a thread is in.
Fairness ==
    /\ WF_vars(halted = "no" /\ thread_yield_any(running_thread_id))
    /\ WF_vars(halted = "no" /\ pc[running_thread_id] # User
                             /\ Step(running_thread_id))

FairSpec == Spec /\ Fairness

-----------------------------------------------------------------------------
(* Properties.                                                             *)

InQueues(t) == {q \in QueueIds : t \in ToSet(wqueue[q])}

\* Where a thread is, by its state (thread.c keeps it in exactly one place):
\* the running thread is the one RUNNING thread and is in no queue; a
\* queued thread is in exactly one queue, once; the ready queue holds
\* exactly the READY threads and some KILLED ones; a SLEEPING thread is on
\* a wait queue; EXITED and free slots are in no queue.  (A KILLED thread
\* may still be on a wait queue: thread_kill does not take it off.)
ThreadQueueConsistency ==
    halted = "no" =>
    /\ \A t \in Tid : (state[t] = "RUNNING") <=> (t = running_thread_id)
    /\ IsInjective(thread_queue)
    /\ \A q \in QueueIds : IsInjective(wqueue[q])
    /\ \A t \in Tid :
         /\ Cardinality(InQueues(t)) + (IF t \in ToSet(thread_queue) THEN 1 ELSE 0)
              = IF state[t] \in {"READY", "SLEEPING", "KILLED"} THEN 1 ELSE 0
         /\ t \in ToSet(thread_queue) => state[t] \in {"READY", "KILLED"}
         /\ state[t] = "READY" => t \in ToSet(thread_queue)
         /\ state[t] = "SLEEPING" => InQueues(t) # {}

\* An EXITED thread is always still to be reaped: thread_exit sets
\* thread_exit_cleanup_needs_to_run after its own cleanup pass, so no slot
\* is lost by being EXITED while the flag is down.
ExitedAwaitingReap ==
    (\E t \in Tid : state[t] = "EXITED") => cleanup_needs_to_run

\* lock_acquire gives mutual exclusion: no two threads are both between a
\* return from lock_acquire and their lock_release (or cv_wait) of it.
MutualExclusion ==
    \A l \in Locks : \A t1, t2 \in Tid :
        (t1 # t2 /\ l \in holding[t1]) => l \notin holding[t2]

\* No lock waiter is stranded: lock_release wakes every waiter, so a thread
\* sleeps on a lock's queue only while the lock is held.
NoStrandedLockWaiter ==
    \A l \in Locks : wqueue[l] # <<>> => acquired[l]

\* thread_yield(want) never fails its assert(remove_node_rq(...)): every
\* target its guard accepts is on the ready queue.
NoAssertionFailure == halted # "abort"

\* Mesa condition variables lose no wakeup: a thread inside cv_wait that
\* has given up the lock receives a signal or broadcast issued after that.
NoLostWakeup == missed = {}

\* thread_wait(t) returns only after t has exited.
WaitReturnsAfterExit ==
    \A w \in Tid : pc[w].op = "wait_ret" /\ InQueues(w) = {} => joined[w]

\* Nobody sleeps on the wait queue of a thread that has already exited:
\* such a sleeper would only be woken by an unrelated later thread.
NoWaiterOnExitedThread ==
    \A t \in Tid : state[t] \in {"EXITED", "NOT_INITIALIZED"} => wqueue[t] = <<>>

\* A KILLED thread never runs its own code again.  Its state stays KILLED
\* through every call of every thread (a wakeup of the queue it sleeps
\* on, a reap, another kill) until a switch runs it, and that switch
\* resumes it in thread_exit, even when it was killed asleep inside
\* lock_acquire, cv_wait or thread_wait.
KilledOnlyExits ==
    [][\A t \in Tid :
          state[t] = "KILLED" =>
              \/ state'[t] = "KILLED"
              \/ state'[t] = "RUNNING" /\ pc'[t] = ExitPc]_vars

\* yield is starvation free: every thread on the ready queue eventually
\* runs (or the process ends).
StarvationFree ==
    \A t \in Tid : t \in ToSet(thread_queue) ~> (running_thread_id = t \/ halted # "no")

=============================================================================
