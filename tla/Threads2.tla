------------------------------ MODULE Threads2 ------------------------------
(***************************************************************************)
(* The cooperative user-level threads of lab 2, src/threads_2/thread.c:    *)
(* thread_array of states, the ready queue thread_queue (the linked list   *)
(* of src/threads_2/queue.c, modelled by LinkedQueue), running_thread_id   *)
(* and the cleanup flag.  There is no preemption: only the running thread  *)
(* acts, and each call runs to its context switch as one step.  A thread's *)
(* stack is "none" (the main thread's own stack: orig_stack_begin = NULL), *)
(* "live" (malloc'd), "freed", or "double" (freed a second time).  A       *)
(* KILLED thread resumes at thread_exit: its pc is "exit".                 *)
(***************************************************************************)
EXTENDS Integers, SequencesExt, FiniteSetsExt

CONSTANTS
    Tid,      \* thread ids 0 .. THREAD_MAX_THREADS - 1
    Nodes,    \* heap addresses a FIFO_NODE can be allocated at
    Null

ASSUME Tid = 0..(Cardinality(Tid) - 1)

VARIABLES
    head, tail, next, val, free, aborted,   \* thread_queue and its nodes
    state,                \* thread_array[t].state
    stack,                \* what thread_array[t].orig_stack_begin points to
    running_thread_id,
    cleanup,              \* thread_exit_cleanup_needs_to_run
    pc,                   \* "user", or "exit" once REG_RIP is thread_exit
    halted                \* "no", or "exit" once exit(0) ends the process

qvars == <<head, tail, next, val, free, aborted>>
vars == <<qvars, state, stack, running_thread_id, cleanup, pc, halted>>

LQ == INSTANCE LinkedQueue WITH Vals <- Tid

\* THREAD_ANY of thread.h (not in the repository): a negative id.
THREAD_ANY == -1

States == {"NOT_INITIALIZED", "RUNNING", "READY", "EXITED", "KILLED"}

TypeOK ==
    /\ LQ!TypeOK
    /\ state \in [Tid -> States]
    /\ stack \in [Tid -> {"none", "live", "freed", "double"}]
    /\ running_thread_id \in Tid
    /\ cleanup \in BOOLEAN
    /\ pc \in [Tid -> {"user", "exit"}]
    /\ halted \in {"no", "exit"}

\* thread_init: thread 0 runs on the process stack; the queue is the zeroed
\* global, i.e. empty.
Init ==
    /\ LQ!Init
    /\ state = [t \in Tid |-> IF t = 0 THEN "RUNNING" ELSE "NOT_INITIALIZED"]
    /\ stack = [t \in Tid |-> "none"]
    /\ running_thread_id = 0
    /\ cleanup = FALSE
    /\ pc = [t \in Tid |-> "user"]
    /\ halted = "no"

\* thread_exit_cleanup, on the states and on the stacks: when the flag is
\* set, every EXITED slot is NOT_INITIALIZED again and its stack is freed
\* (free(NULL) does nothing; orig_stack_begin is not reset).
Cleaned ==
    IF cleanup
    THEN [t \in Tid |-> IF state[t] = "EXITED" THEN "NOT_INITIALIZED" ELSE state[t]]
    ELSE state

\* Mutant: the stacks of exited threads are never freed.
CleanedStacksNoFree == stack

CleanedStacks ==
    LET Freed(s) == CASE s = "live" -> "freed" [] s = "none" -> "none" [] OTHER -> "double"
    IN IF cleanup
       THEN [t \in Tid |-> IF state[t] = "EXITED" THEN Freed(stack[t]) ELSE stack[t]]
       ELSE stack

\* An assert of thread_yield fails: the process aborts.
AssertFailed(st, h) ==
    /\ LQ!SetHeap([h EXCEPT !.aborted = TRUE])
    /\ state' = st
    /\ UNCHANGED <<running_thread_id, pc>>

\* The switch of thread_yield from self (whose state is st[self]) to new: a
\* KILLED new thread gets REG_RIP = thread_exit; self is READY unless it
\* EXITED; new is RUNNING.
SwitchTo(st, self, new, h) ==
    /\ LQ!SetHeap(h)
    /\ running_thread_id' = new
    /\ state' = [st EXCEPT ![self] = IF @ = "EXITED" THEN @ ELSE "READY",
                           ![new] = "RUNNING"]
    /\ pc' = IF st[new] = "KILLED" THEN [pc EXCEPT ![new] = "exit"] ELSE pc

\* thread_yield(THREAD_ANY) on the queue h: assert(pop_front(...)); popping
\* self returns THREAD_NONE, which thread_exit answers with assert(0).
YieldAny(st, self, h, fromExit) ==
    IF LQ!ListOf(h) = <<>>
    THEN AssertFailed(st, h)
    ELSE LET new == h.val[h.head]
             h2 == LQ!PopFront(h)
         IN CASE new # self -> SwitchTo(st, self, new, h2)
              [] fromExit -> AssertFailed(st, h2)
              [] OTHER -> /\ LQ!SetHeap(h2) /\ state' = st
                          /\ UNCHANGED <<running_thread_id, pc>>

\* thread_yield(want) on the queue h: assert(remove_node(...)).
YieldTo(st, self, want, h) ==
    IF want \in ToSet(LQ!ContentsOf(h))
    THEN SwitchTo(st, self, want, LQ!RemoveNode(h, want))
    ELSE AssertFailed(st, h)

-----------------------------------------------------------------------------
(* The calls of the running thread self.                                   *)

\* thread_create: cleanup, take the lowest NOT_INITIALIZED slot (else
\* THREAD_NOMORE), malloc its stack (on failure the slot is given back and
\* THREAD_NOMEMORY returned), and push it on the ready queue.
thread_create(self) ==
    LET st == Cleaned
        sk == CleanedStacks
        unused == {t \in Tid : st[t] = "NOT_INITIALIZED"}
    IN /\ pc[self] = "user"
       /\ cleanup' = FALSE
       /\ IF unused = {}
          THEN state' = st /\ stack' = sk /\ UNCHANGED <<qvars, pc>>
          ELSE LET t == Min(unused) IN
               \E mallocOk \in BOOLEAN :
                  IF mallocOk
                  THEN /\ state' = [st EXCEPT ![t] = "READY"]
                       /\ stack' = [sk EXCEPT ![t] = "live"]
                       /\ pc' = [pc EXCEPT ![t] = "user"]
                       /\ LQ!push_back(t)
                  ELSE state' = st /\ stack' = sk /\ UNCHANGED <<qvars, pc>>
       /\ UNCHANGED <<running_thread_id, halted>>

\* thread_yield(want), want a thread id or THREAD_ANY (THREAD_SELF is want =
\* self).  An id neither self nor READY nor KILLED returns THREAD_INVALID
\* and changes nothing.  Otherwise self is pushed on the queue and then the
\* next thread is popped, or want removed, and switched to.
thread_yield(self, want) ==
    /\ pc[self] = "user"
    /\ \/ want = THREAD_ANY \/ want = self
       \/ want \in Tid /\ state[want] \in {"READY", "KILLED"}
    /\ \E n \in free :
         LET h == LQ!PushBack(LQ!Heap, n, self)
         IN IF want = THREAD_ANY THEN YieldAny(state, self, h, FALSE)
                            ELSE YieldTo(state, self, want, h)
    /\ UNCHANGED <<stack, cleanup, halted>>

\* thread_exit (called by thread_stub when the thread function returns, or
\* reached through REG_RIP by a KILLED thread): EXITED, cleanup flagged,
\* then thread_yield(THREAD_ANY), or exit(0) if the queue is empty.
thread_exit(self) ==
    LET st == [state EXCEPT ![self] = "EXITED"]
    IN /\ cleanup' = TRUE
       /\ IF head = Null /\ tail = Null
          THEN /\ halted' = "exit" /\ state' = st
               /\ UNCHANGED <<qvars, running_thread_id, pc>>
          ELSE YieldAny(st, self, LQ!Heap, TRUE) /\ UNCHANGED halted
       /\ UNCHANGED stack

\* Mutant: thread_kill does not run thread_exit_cleanup first.
thread_kill_no_cleanup(self, tid) ==
    /\ pc[self] = "user"
    /\ state' = IF tid = self \/ state[tid] = "NOT_INITIALIZED" THEN state
                ELSE [state EXCEPT ![tid] = "KILLED"]
    /\ UNCHANGED <<qvars, stack, cleanup, running_thread_id, pc, halted>>

\* thread_kill(tid): cleanup, then THREAD_INVALID for self or an unused
\* slot, else mark tid KILLED; it stays on the queue until it is run.
thread_kill(self, tid) ==
    /\ pc[self] = "user"
    /\ state' = IF tid = self \/ Cleaned[tid] = "NOT_INITIALIZED" THEN Cleaned
                ELSE [Cleaned EXCEPT ![tid] = "KILLED"]
    /\ stack' = CleanedStacks
    /\ cleanup' = FALSE
    /\ UNCHANGED <<qvars, running_thread_id, pc, halted>>

Next ==
    /\ halted = "no" /\ ~aborted
    /\ LET self == running_thread_id IN
         \/ thread_create(self)
         \/ \E w \in Tid \cup {THREAD_ANY} : thread_yield(self, w)
         \/ \E t \in Tid : thread_kill(self, t)
         \/ thread_exit(self)

Spec == Init /\ [][Next]_vars

----------------------------------------------------------------------------------------------------------------------------------------
(* Properties.                                                             *)

\* The ready queue and thread_array agree after any sequence of calls:
\* the queue is a well formed list holding every READY or KILLED thread
\* exactly once and nothing else, and, while the process lives, exactly the
\* thread running_thread_id is RUNNING.  So no assert of thread_yield fires
\* and a thread_yield to a READY or KILLED id always finds it on the queue.
ThreadQueueConsistency ==
    /\ LQ!WellFormed
    /\ LQ!NoLeak
    /\ IsInjective(LQ!Contents)
    /\ ToSet(LQ!Contents) = {t \in Tid : state[t] \in {"READY", "KILLED"}}
    /\ halted = "no" => {t \in Tid : state[t] = "RUNNING"} = {running_thread_id}

\* Stacks: a slot that is in use never runs on a freed stack, a slot that
\* thread_exit_cleanup gave back holds no live stack (no leak), and no stack
\* is freed twice, though orig_stack_begin keeps its value after free.
StackSafety ==
    \A t \in Tid :
        /\ stack[t] # "double"
        /\ state[t] = "NOT_INITIALIZED" => stack[t] # "live"
        /\ state[t] # "NOT_INITIALIZED" => stack[t] # "freed"

\* The library implements Scheduler: mapping the pointer list to the ready
\* sequence and EXITED and unused slots to free ones, every call of
\* thread_create, thread_yield, thread_kill and thread_exit is a step of
\* the abstract scheduler, so ready threads run in strict FIFO order.
AS == INSTANCE Scheduler
        WITH st <- [t \in Tid |-> IF state[t] \in {"NOT_INITIALIZED", "EXITED"}
                                  THEN "FREE" ELSE state[t]],
             ready <- LQ!Contents,
             running <- running_thread_id,
             ended <- halted = "exit"
SchedulerSpec == AS!Spec

=============================================================================
