# TLA+ models of the ECE344 labs

This directory models the concurrent parts of the repository, and its word counter, with TLA+ and checks
them with TLC. It covers these parts:

- the preemptive user-level thread library of `src/threads_3`;
- the cooperative thread library of lab 2, `src/threads_2`;
- the linked FIFO queues under that library and under the web server;
- the multi-threaded web server core of `src/webserver`;
- the file cache of `src/webserver_5`;
- the word counter `src/warmup/wc.c`.

## The system and its parts

| Part | Sources | Concurrency | Status |
|---|---|---|---|
| Linked FIFO (labs 2 and 3) | `src/threads_3/queue.c`, `src/threads_2/queue.c` and their headers | none of its own: every call runs with interrupts disabled | modelled as operators: `LinkedQueue`, called by `Threads2` and `ReqQueue` |
| Thread library (lab 3) | `src/threads_3/thread.c` | Threads on one CPU, switched by `thread_yield`, either called by the client or by the SIGALRM timer handler | modelled: `Threads` |
| Timer/interrupt layer | `interrupt.c` (not in the repo) | `interrupts_set` masks the timer; the handler calls `thread_yield(THREAD_ANY)` | partly: a preemption action |
| Cooperative thread library (lab 2) | `src/threads_2/*` | none: cooperative, a thread runs until it calls `thread_yield` or `thread_exit` | modelled: `Threads2`, on the list of `LinkedQueue`, refining `Scheduler` |
| Request queue (lab 4) | `src/webserver/queue.c`, `queue.h` | none of its own: every call is made under `queue_mutex` | modelled: `ReqQueue`, driven by `Server` |
| Web server workers (lab 4) | `src/webserver/server_thread.c` | Listener and worker kernel threads; `queue_mutex` and two POSIX condition variables | modelled: `Server` |
| File cache (lab 5) | `src/webserver_5/hash_table.h`, `queue.c` | Guarded by `cache_mutex`; largest-file-first eviction | modelled: `FileCache`, refining `AbstractCache` |
| Word counter (warm-up) | `src/warmup/wc.c` | none: sequential | modelled: `Wc` (without `hash_fn`) |
| `show_ucontext.c`, warm-ups `cpr`, `point`, `fact` | `src/threads_3`, `src/warmup` | none | not modelled: sequential I/O and arithmetic |

How the parts interact:

- The thread library is self-contained. A client program calls its API, and the timer
  interrupts it.
- The web server uses pthreads, not the lab-3 library. Its parts interact through the
  request queue:
  - the listener (`server_request`) produces connection descriptors;
  - `nr_threads` workers consume them;
  - `server_exit` tells the workers to stop through `sv->exiting` and joins them.
- Lab 5 adds a file cache, shared by the workers, to the same server.

## Module `Threads`: src/threads_3/thread.c

### State

| Variable | Code |
|---|---|
| `state[t]` | `thread_array[t].state` |
| `thread_queue` | the ready queue |
| `running_thread_id` | `running_thread_id` |
| `cleanup_needs_to_run` | `thread_exit_cleanup_needs_to_run` |
| `wqueue[q]` | every wait queue: a thread's (`thread_array[t].wqueue`, waited on by `thread_wait`), a lock's, a cv's, and those made by `wait_queue_create` |
| `acquired`, `acquiring_thread` | the `struct lock` fields |

A `pc[t]` records where a switched-out thread resumes. The resume points are:

- user code;
- `thread_exit`, when the IP of a KILLED thread is rewritten;
- inside `lock_acquire`'s loop;
- inside `cv_wait`, between its `lock_release` and `thread_sleep` and after them;
- after `thread_wait`'s sleep.

There are three ghost variables:

- `holding`: which locks a thread acquired;
- `joined`: whether `thread_wait`'s target had exited;
- `missed`: threads whose cv wake-up was lost.

`halted` records the end of the process: `exit(0)` in `thread_exit`, or an `assert`
that fails.

### Actions

The CPU is single, and every library call runs with interrupts disabled. A call is
therefore one atomic step of the running thread, up to the point where it switches away
inside `thread_yield`. `Next` lets the running thread do any of the following:

- call any operation with any argument (`Step`);
- be preempted by the timer (`thread_yield_any`), but only where interrupts are on:
  user code and the two windows inside `cv_wait`.

This "most general client" obeys the API contract: it releases, waits or signals only
with locks it holds. Each action models its whole function:

- `thread_create` includes the cleanup, the slot search and the malloc failure.
- `thread_yield(want)` includes the validity test, `remove_node_rq` under `assert`, and
  the IP rewrite for KILLED targets.
- `thread_exit` includes the cleanup, waking the joiners, and the final yield or
  `exit(0)`.
- `thread_sleep`, `thread_wakeup` and `thread_wait` are one action each.
- `lock_acquire` is one loop iteration. When `thread_sleep` returns `THREAD_NONE` the
  loop spins with interrupts disabled.
- `lock_release` is one action.
- `cv_wait` is split into `cv_wait` (the release) and `cv_sleep` (the sleep, then the
  re-acquire).
- `cv_notify` covers `cv_signal` and `cv_broadcast`.

## Module `Server`: src/webserver/server_thread.c and queue.c

### State

| Variable | Code |
|---|---|
| `head`, `tail`, `next`, `val`, `free`, `aborted` | the linked `REQ_QUEUE` and its nodes, through `RQ == INSTANCE ReqQueue` |
| `curr_size`, `deleted` | `queue->curr_size`, and whether `delete_queue` has freed the queue |
| `queue_mutex` | the mutex holder |
| `nonempty_waiters`, `nonfull_waiters` | the threads blocked in `pthread_cond_wait` on each condition variable |
| `exiting` | `sv->exiting` |
| `mpc`, `wpc` | the program counters of the listener and the workers |
| `next_req` | the connfd being submitted |

`request_queue` is not a variable: it is the list of connfds read from `head`. Every
call of `server_thread.c` into `queue.c` is the `ReqQueue` action for it, in the same
step as the code around it. The `assert` around `push_back` and `pop_front` is an abort
branch (`AssertFailed`).

Two ghosts record the connfds handed to `do_server_request` (`dispatched`) and those
discarded by `delete_queue` at exit (`dropped`).

### Steps

Every critical section with no unprotected access is one step. Each read or write of
`sv->exiting`, which is accessed without the mutex, is a step of its own. So are:

- the loop test of a worker and its `pthread_cond_wait`;
- `server_exit`'s write and its broadcast.

`pthread_cond_wait` has POSIX semantics:

- it releases the mutex and blocks in one atomic step;
- after a broadcast, or spuriously (`spurious_wakeup`), it reacquires the mutex before
  it returns (`cond_return`).

After its `NumRequests` connections the listener makes a choice, since a SIGINT may or
may not ever arrive:

- `main_set_exiting` starts `server_exit`;
- `main_keep_serving` stays blocked in `accept` for good.

One run therefore covers both the shutdown path and the server that keeps running.

## Modules `LinkedQueue` and `ReqQueue`: the linked queues

`Threads` treats its queues as TLA+ sequences. `Server` and `Threads2` use the
pointer-level list itself. These modules check that the pointer code really is a FIFO.

`LinkedQueue` models `src/threads_3/queue.c` and `src/threads_2/queue.c`. The `_rq` and
`_wq` copies of lab 3 and the functions of lab 2 are the same code. Lab 2's
`move_front_to_back`, `move_selected_thread_to_front` and `peek_queue` are called by no
code in the repository, so they are not modelled.

| Variable | Code |
|---|---|
| `head`, `tail` | `queue->head`, `queue->tail` |
| `next[n]`, `val[n]` | the `next` and `thread_id` fields of the node at address `n` |
| `free` | the addresses `malloc` may return; `free()` puts a node back |
| `aborted` | an `assert(0)` ("Should never happen") branch was taken |

- `Nodes` is a small pool of heap addresses.
- `Chain` follows `next` from `head`, at most one step more than there are nodes, so a
  cycle shows up as a chain that is too long.
Each function is an operator on the heap record `h` (`Heap`), so that a caller can
chain several in one step: lab 2's `thread_yield` pushes and then pops. `SetHeap`
writes the result back. `LinkedQueue` has no run of its own. Its `WellFormed` and
`NoLeak` are checked through its two callers, `Threads2` and `ReqQueue`.

| Operator (action) | Code |
|---|---|
| `PushBack` (`push_back(v)`) | `push_back_helper`: both pointers NULL, both set, or `assert(0)` |
| `PopFront` (`pop_front`) | `pop_front_helper`; an empty queue returns false |
| `RemoveNode` (`remove_node(v)`) | `remove_node_rq`: scan to the first node with `v` (`FirstIndex`); the head goes through pop, any other node is unlinked and `tail` moves back if it was last |
| `DeleteQueue` (`delete_queue`) | pop until pop fails |

`ReqQueue` models `src/webserver/queue.c`. It reuses `LinkedQueue`'s list through
`INSTANCE`, because its `push_back_helper` is the same code. It adds two things:

- `curr_size`, which is checked against `max_size` (`MaxSize`);
- its own `PopFrontHelper`, which asserts the list is non-empty before it pops.

`push_back` and `pop_front` decide by `curr_size` alone. `delete_queue` ends the
queue's life. `ReqQueue` has no run of its own: `Server` calls it from
`server_thread.c` and checks its `SizeMatchesList` and `NoLeak`.

That the request queue is a FIFO is checked by `Server`'s `RequestConservation`. It
reads the connfds from `head` to NULL (`ReqQueue`'s `Contents`).

## Module `Wc`: src/warmup/wc.c

`wc_init` scans the text once. At each whitespace byte, and at the last byte, it
cuts the word from `start_index` to `i` and adds it with `add_to_hash_table`.
One step of `Wc` is one iteration of that loop.

| Variable / operator | Code |
|---|---|
| `words`, `i`, `start_index`, `last_char_is_space` | the locals of `wc_init` |
| `list[b]` | bucket `b`'s chain of `WORD_ENTRY`s, head first |
| `AddToList` | `add_to_list`: the count of a present word goes up; a new word becomes the head or is appended |
| `AddToHashTable` | `add_to_hash_table` |
| `Hash` | `hash_fn`, a constant operator |

Two choices in this model:

- `hash_fn` multiplies 64-bit integers, which TLC cannot represent. Which bucket a word
  lands in is all that matters here, so `Hash` is a constant (the word's length mod 2).
- An appended entry does `occurrence++` on memory `malloc` left uninitialised. The model
  draws the old value from `Junk` (`{0, 7}`).

`WordCountCorrect` compares the table, once `wc_init` returns, with a recursive
reference split of the text into whitespace-separated words (`Tokens`).

## Module `Threads2`: src/threads_2/thread.c

Lab 2 has no timer and no blocking. The running thread makes one call at a time, and
each call is one step up to its context switch. The ready queue `thread_queue` is the
`LinkedQueue` list (`LQ == INSTANCE LinkedQueue WITH Vals <- Tid`).

| Variable | Code |
|---|---|
| `head`, `tail`, `next`, `val`, `free`, `aborted` | `thread_queue` and its nodes; `aborted` is a failed `assert` |
| `state[t]` | `thread_array[t].state` |
| `stack[t]` | what `orig_stack_begin` points to: `"none"` (NULL, thread 0's own stack), `"live"`, `"freed"` or `"double"` (freed twice) |
| `running_thread_id`, `cleanup` | `running_thread_id`, `thread_exit_cleanup_needs_to_run` |
| `pc[t]` | `"exit"` once `REG_RIP` was set to `thread_exit` for a KILLED thread |
| `halted` | `"exit"` after `exit(0)` |

- `thread_create`: cleanup (`Cleaned`, `CleanedStacks`), the lowest unused slot, a stack
  `malloc` that may fail, and `push_back`.
- `thread_yield(want)`, `want` a tid or `THREAD_ANY`: the validity test, `push_back` of
  the caller, then `pop_front` (`YieldAny`) or `remove_node` (`YieldTo`) under `assert`,
  then `SwitchTo`.
- `thread_exit`: EXITED and the cleanup flag, then `thread_yield(THREAD_ANY)`, or
  `exit(0)` on an empty queue.
- `thread_kill(tid)`: cleanup, then the `THREAD_INVALID` tests, then KILLED.

`THREAD_ANY` is -1. `thread.h` is not in the repository, so this value comes from the
course header.

`Scheduler` is what the library promises, with the list, stacks and lazy reaping left
out. Each slot is free, READY, RUNNING or KILLED. The ready threads wait in a sequence:

- a yield runs the head, or the thread asked for, and puts the caller at the back;
- exit frees the caller's slot and runs the head, or ends the process.

`Threads2` maps the pointer list to that sequence, and EXITED and unused slots to free
ones. It checks the abstract spec as `SchedulerSpec`.

## Modules `FileCache` and `AbstractCache`: src/webserver_5

### State

| Variable | Code |
|---|---|
| `table[b]` | the `ENTRY` list of hash bucket `b`. An entry is a name, a size and `buflen`, the length of the buffer actually copied. |
| `curr_buffer_size` | `wc->curr_buffer_size` |
| `filesize_queue` | the `FILESIZE_QUEUE` of (name, size) nodes |

`hash_fn` is the constant map `Hash`.

### Operations

`add_to_hash_table` and `find_in_hash_table` hold `cache_mutex` from start to end, so
each is one step. The data-structure code is a set of operators:

| Operator | Code |
|---|---|
| `InsertBySize` | `insert_into_filesize_queue` |
| `EvictCache` (RECURSIVE) | `evict_cache` with `pop_front_fq` |
| `DeleteFromHashTable` | `delete_from_hash_table` |
| `DeleteNodeFromList` | `delete_node_from_list` |
| `Find` | the `strcmp` scan |
| `FileDataCopy` | `file_data_copy`, which copies with `strlen` |

### Callers

The lab-5 `server_thread.c` that calls the cache is not in the repository, so the
workers follow the request path of the design (`spec.md` §4.7–4.8):

1. Look the file up.
2. On a miss, read the file.
3. Insert it if it fits.

A miss and the later insert are separate steps, so two workers can race to insert the
same file.

### Refinement

`AbstractCache` states what the cache promises over a set of cached names:

- an inserted file is cached afterwards;
- the dropped entries are never smaller than the kept ones;
- the total size never exceeds the capacity.

`FileCache` maps `cached` to the names in its table and checks `AC!Spec` as a PROPERTY.

## Runs

| Run | Config | Expect | What it shows |
|---|---|---|---|
| `threads_safety` | `MCThreads.cfg` | pass | See below. |
| `threads_starvation` | `MCThreadsLive.cfg` | pass | `StarvationFree`: with timer preemption every thread on the ready queue eventually runs, or the process ends. |
| `threads_kill_sleeper` | `MCThreads_NoAssertionFailure.cfg` | violation | See below. |
| `threads_cv_lost_wakeup` | `MCThreads_NoLostWakeup.cfg` | violation | `cv_wait` releases the lock and then sleeps with interrupts on in between. A thread preempted there misses the next holder's `cv_signal`. |
| `threads_wait_early_return` | `MCThreads_WaitReturnsAfterExit.cfg` | violation | See below. |
| `threads_wait_on_exited` | `MCThreads_NoWaiterOnExitedThread.cfg` | violation | `thread_wait` on an EXITED thread that is not yet reaped sleeps on a queue that `thread_exit` has already emptied. Only a later thread that reuses the slot and then exits would wake it. |
| `server_safety` | `MCServer.cfg` | pass | `RequestConservation`: the dispatched requests, then the dropped ones, then the queued ones, are exactly the submitted connfds in order (FIFO, no loss, no duplicates). `NoStrandedWaiter`: the broadcasts, sent only on a size transition, never leave a waiter blocked while its condition holds. `SizeMatchesList` and `NoLeak` (of `ReqQueue`): `curr_size` equals the list length, the list is well formed, and every node is freed exactly once. `AllRequestsDispatched` (under `FairSpec`): in a run where `sv->exiting` is never set, every accepted connection is eventually handed to a worker. |
| `server_exit_hang` | `MCServerExit.cfg` | violation | See below. |
| `cache_safety` | `MCFileCache.cfg` | pass | See below. |
| `threads2_safety` | `MCThreads2.cfg` | pass | See below. |
| `wc_word_count` | `MCWc.cfg` | violation | See below. |
| `cache_copy_truncation` | `MCFileCache_Copy.cfg` | violation | `file_data_copy` copies `file_buf` with `strlen`/`strcpy`. A file containing a NUL byte is cached truncated while `file_size` keeps its full length. |

**`threads_safety`** checks these invariants for three threads, one lock, one cv and one
wait queue:

- `ThreadQueueConsistency`: thread states agree with queue membership.
- `ExitedAwaitingReap`: an EXITED thread is reaped before its slot is reused.
- `MutualExclusion`.
- `NoStrandedLockWaiter`: nobody sleeps on a free lock.

and the action property `KilledOnlyExits`: a KILLED thread stays KILLED through every
other thread's calls until a switch runs it, and that switch resumes it in `thread_exit`.
Those calls include a wakeup of the queue it sleeps on, a reap and another kill. The
case that needs this is a thread killed while it slept inside `lock_acquire`, `cv_wait`
or `thread_wait`: `thread_wakeup` must keep it KILLED (`thread.c:403`). The mutant in
which a wakeup makes it READY breaks the property.

**`threads_kill_sleeper`**: thread 0 sleeps, thread 1 kills it, then 1 yields to it.
`assert(remove_node_rq)` in `thread_yield` fails (`thread.c:209`).

**`threads_wait_early_return`**: when the ready queue is empty, `thread_sleep` returns
`THREAD_NONE`. `thread_wait` ignores that and returns as though the target had exited.

**`threads2_safety`** checks, for three lab-2 threads:

- `ThreadQueueConsistency`: the pointer list is well formed, leaks no node, and holds
  exactly the READY and KILLED threads, once each. Exactly `running_thread_id` is
  RUNNING. So every `assert` of `thread_yield` and `thread_exit` holds.
- `StackSafety`: no slot in use has a freed stack, and no unused slot keeps a live one.
- `SchedulerSpec`: every call is a step of the abstract `Scheduler`, so READY threads run
  in strict FIFO order.

**`wc_word_count`**: `wc_init` handles the last byte in the whitespace branch
(`wc.c:62`). So, for example:

- the text `" "` counts the empty word;
- in `"ab"` it counts `"a"`;
- in `"a b"` the `b` is never counted.

The shortest trace TLC finds is the single space.

**`server_exit_hang`**: one request and two workers. The trace:

1. A worker tests `curr_size == 0 && !exiting`, which is true.
2. `server_exit` sets `exiting` and broadcasts, neither under the mutex.
3. The worker then enters `pthread_cond_wait` and blocks forever.
4. `pthread_join` never returns.

**`cache_safety`** checks, for two workers:

- `CacheAccounting`: the byte count equals the entries' sizes and stays at most
  `max_cache_size`.
- `SizeIndexConsistent`: the hash table and the size queue index the same files, once
  each, in descending size order.
- `AbstractCacheSpec`: the refinement.

Each property of a passing run also has a mutant in `PROJECT.json`: a plausible bug in
the mapped code under which TLC finds that property violated.

### Bounds

- **Threads**: `Tid = 0..2`. Three threads are needed for:
  - a kill by one thread of a second that sleeps;
  - a waiter, a lock holder and a third thread that runs while both are blocked;
  - a full thread table (`THREAD_NOMORE`) with an EXITED slot waiting to be reaped.

  One lock, one cv and one wait queue reach every path of every operation. The safety
  run covers about 2.4 million states.
- **Server**: two workers, `MaxRequests = 2`, `NumRequests = 3`. With these bounds:
  - the queue fills and the listener blocks on "nonfull";
  - both workers can wait on "nonempty" at once;
  - a spurious wake-up can occur in any wait.

  The exit run uses one request so that its trace stays short.
- **FileCache**: capacity 7 and four files of sizes 4, 3, 3 and 2, in two hash buckets
  with two names each. Two workers. With these:
  - every insert order reaches a full cache;
  - eviction of one entry and of two entries both occur, with an exact fit
    (`{3,3}` + 4);
  - equal sizes tie;
  - bucket chains have collisions;
  - two workers can both miss the same file;
  - file `f4` holds a NUL byte.
- **Wc**: every text of up to four bytes over `{a, b, " "}`, and two buckets. Four
  bytes are enough for a repeated word, a word after whitespace, leading and trailing
  whitespace, and two different words in one bucket (so an entry is appended).
- **Server's queue**: two node addresses for `MaxRequests = 2`. A full queue has used
  every address, so the `curr_size` check is what keeps `push_back` from needing a
  third one.
- **Threads2**: `Tid = 0..2` and three node addresses. That is one node per thread,
  which is the most the queue holds: every thread but the running one, plus the caller
  pushed by `thread_yield` before it pops. The run covers 46,734 states. They include a
  full thread table, a failed stack `malloc`, a slot reused after cleanup, a kill of a
  READY thread followed by a yield to it, and the last `thread_exit` that calls
  `exit(0)`. `CHECK_DEADLOCK FALSE` because the process really stops at `exit(0)`.

### Fairness

- **Threads**:
  - Weak fairness on the running thread's preemption. The timer fires every 200 µs, so a
    thread with interrupts enabled is eventually switched out.
  - Weak fairness on continuing inside library code, since the CPU keeps executing the
    running thread.
  - No fairness on client calls: a client may never call anything.
- **Server**:
  - Weak fairness on each thread's steps, because the kernel schedules every runnable
    thread.
  - Strong fairness on acquiring `queue_mutex`, including the reacquire inside
    `pthread_cond_wait`. A thread blocked in `pthread_mutex_lock` is woken on every
    unlock, so it cannot lose the race forever.
  - Spurious wake-ups are possible but never assumed.

## Not modelled

- Thread contexts, stacks and `getcontext`/`setcontext` are replaced by the `pc` per
  thread.
- Creating and destroying wait queues, locks and cvs is not modelled: a fixed set exists
  from `Init`.
- `lock_create` and `cv_create` leave the embedded wait queue uninitialised. That is
  undefined behaviour. The model starts every queue empty.
- A double `lock_release` by the last owner passes the code's assert, because
  `acquiring_thread` is never reset. It is outside the API contract the model follows.
- The HTTP parsing and file I/O of `do_server_request` is abstracted to a single step.
- The `nr_threads == 0` path of `server_request` is a direct call.
- The model is the build with assertions on. `server_thread.c` calls `pop_front` and
  `push_back` inside `assert()`, so a build with `NDEBUG` drops them. The mutant
  `worker_pop_ndebug` is that build of the worker's pop, and `RequestConservation`
  catches it. No build file in the repository sets `NDEBUG`.
- Killing a thread that holds a lock (`thread.c:316`) leaves the lock held for good.
  Its waiters then sleep forever, or spin in `lock_acquire` when the ready queue is
  empty (`thread.c:471`). The model reaches these states, but no property checks
  them: the library makes no promise about locks held by a killed thread.
- `cpr`, `point`, `fact` and `show_ucontext.c` are not modelled. They are single
  sequential calls over files, doubles or a context, which tests reach directly.
  In `wc.c`, `hash_fn` (64-bit arithmetic), `wc_output` (printing) and `wc_destroy`
  (freeing) are not modelled. The lab-3 functions of
  `threads_2/thread.c` are stubs (`TBD()`).
- Lab 2's `push_back` does not check `malloc` for NULL. The node pool is sized so that
  allocation never fails.
- Cache teardown is not modelled. `delete_hash_table` and `delete_queue_fq` run only
  after every worker has been joined.
- Heap memory is modelled only for the linked queues. `malloc` never fails there,
  within the pool of addresses. Elsewhere heap memory is not modelled: `file_data_delete` leaks `file_buf`.

## Plan

1. **Done:** `Threads`, its safety and starvation runs, and the four bugs it confirms.
2. **Done:** `Server`, its conservation, waiter and dispatch runs, and the `server_exit`
   hang.
3. **Done:** `FileCache` and its refinement of `AbstractCache`.
   `add_to_hash_table` evicts before it checks for a duplicate. The design orders it
   the same way, so the model keeps that order and it is not reported as a finding.
4. **Done:** `LinkedQueue` and `ReqQueue`. These justify the sequences used by `Threads`.
5. **Done:** `Wc` and the tokenizer bug of `wc_init`.
6. **Done:** `Server` drives the pointer-level `ReqQueue`, and `Threads2` models lab 2
   on the `LinkedQueue` list.
7. **Done:** `KilledOnlyExits` for lab 3, and `Scheduler`, the abstract lab-2
   scheduler that `Threads2` refines.
8. **Not done:** liveness of `lock_acquire` when the holder is killed or the ready
   queue is empty. The library makes no promise there (see "Not modelled").
