----------------------------- MODULE ReqQueue ------------------------------
(***************************************************************************)
(* The bounded request queue of src/webserver/queue.c: the same singly     *)
(* linked list as src/threads_3/queue.c (its push_back_helper is the same  *)
(* code), holding connfds, plus a curr_size counter checked against        *)
(* max_size.  push_back refuses a full queue and pop_front an empty one by *)
(* curr_size alone; pop_front_helper then asserts the list is non-empty.   *)
(* The caller holds queue_mutex (server_thread.c), so each call is one     *)
(* step; delete_queue frees the queue at server_exit and ends its life.    *)
(* Server drives these operations from the real call sites; its runs      *)
(* check the properties below.                                             *)
(***************************************************************************)
EXTENDS Integers, SequencesExt

CONSTANTS
    Nodes,     \* heap addresses a REQUEST_NODE can be allocated at
    Connfds,   \* connection descriptors
    MaxSize,   \* max_size, the max_requests of server_init
    Null

VARIABLES head, tail, next, val, free, aborted,
          curr_size,   \* queue->curr_size
          deleted      \* delete_queue has freed the queue

vars == <<head, tail, next, val, free, aborted, curr_size, deleted>>

LQ == INSTANCE LinkedQueue WITH Vals <- Connfds

\* The connfds on the list, head first.
Contents == LQ!Contents

TypeOK ==
    /\ LQ!TypeOK
    /\ curr_size \in 0..MaxSize
    /\ deleted \in BOOLEAN

\* create_request_queue(size).
Init ==
    /\ LQ!Init
    /\ curr_size = 0
    /\ deleted = FALSE

\* Mutant: the unlinked head is not freed.
PopFrontHelperNoFree ==
    IF head # Null /\ tail # Null
    THEN /\ head' = next[head]
         /\ tail' = IF next[head] = Null THEN Null ELSE tail
         /\ UNCHANGED <<next, free, aborted>>
    ELSE aborted' = TRUE /\ UNCHANGED <<head, tail, next, free>>

\* pop_front_helper: asserts head and tail are set, then unlinks the head.
PopFrontHelper ==
    IF head # Null /\ tail # Null
    THEN /\ head' = next[head]
         /\ tail' = IF next[head] = Null THEN Null ELSE tail
         /\ free' = free \cup {head}
         /\ UNCHANGED <<next, aborted>>
    ELSE aborted' = TRUE /\ UNCHANGED <<head, tail, next, free>>

-----------------------------------------------------------------------------

\* Mutant: the new node is linked in front of the head.
push_back_front(c) ==
    /\ ~aborted /\ ~deleted
    /\ curr_size < MaxSize
    /\ \E n \in free :
         /\ free' = free \ {n}
         /\ val' = [val EXCEPT ![n] = c]
         /\ next' = [next EXCEPT ![n] = head]
         /\ head' = n
         /\ tail' = IF tail = Null THEN n ELSE tail
    /\ curr_size' = curr_size + 1
    /\ UNCHANGED <<aborted, deleted>>

\* push_back: if curr_size < max_size, push_back_helper and count it.
push_back(c) ==
    /\ ~deleted
    /\ curr_size < MaxSize
    /\ LQ!push_back(c)
    /\ curr_size' = curr_size + 1
    /\ UNCHANGED deleted

\* Mutant: the count is not decremented.
pop_front_keep_size ==
    /\ ~aborted /\ ~deleted
    /\ curr_size > 0
    /\ PopFrontHelper
    /\ UNCHANGED <<val, curr_size, deleted>>

\* pop_front: if curr_size > 0, pop_front_helper and uncount it.
pop_front ==
    /\ ~aborted /\ ~deleted
    /\ curr_size > 0
    /\ PopFrontHelper
    /\ curr_size' = curr_size - 1
    /\ UNCHANGED <<val, deleted>>

\* delete_queue: pop_front until it fails, then free the queue.
delete_queue ==
    /\ ~aborted /\ ~deleted
    /\ LQ!SetHeap(LQ!DeleteQueue(LQ!Heap))
    /\ curr_size' = 0
    /\ deleted' = TRUE

-----------------------------------------------------------------------------
(* Properties.                                                             *)

\* curr_size, which alone decides whether push_back and pop_front proceed,
\* always counts the nodes on the list, and the list stays well formed, so
\* the assert of pop_front_helper never fires.
SizeMatchesList ==
    /\ LQ!WellFormed
    /\ curr_size = Len(LQ!List)

\* Every node is freed by the time delete_queue is done, and none before
\* it leaves the list.
NoLeak == LQ!NoLeak

=============================================================================
