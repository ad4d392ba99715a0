---------------------------- MODULE LinkedQueue ----------------------------
(***************************************************************************)
(* The singly linked FIFO of src/threads_3/queue.c and src/threads_2/      *)
(* queue.c (the same code), the ready queue of the thread libraries and    *)
(* the list under src/webserver/queue.c: nodes with a value and a next     *)
(* pointer, and a queue of head and tail pointers.  The heap is a pool of  *)
(* node addresses; malloc takes a free one and free returns it.  Threads2  *)
(* and ReqQueue call these operations from their call sites.               *)
(***************************************************************************)
EXTENDS Integers, SequencesExt

CONSTANTS
    Nodes,   \* heap addresses a FIFO_NODE can be allocated at
    Vals,    \* thread ids
    Null

ASSUME Null \notin Nodes

VARIABLES
    head, tail,   \* queue->head, queue->tail
    next,         \* next[n]: the next pointer of node n
    val,          \* val[n]: the thread_id of node n
    free,         \* addresses not allocated
    aborted       \* an assert(0) was reached

vars == <<head, tail, next, val, free, aborted>>

Ptr == Nodes \cup {Null}

TypeOK ==
    /\ head \in Ptr /\ tail \in Ptr
    /\ next \in [Nodes -> Ptr]
    /\ val \in [Nodes -> Vals]
    /\ free \in SUBSET Nodes
    /\ aborted \in BOOLEAN

\* initialize_queue_rq: both pointers NULL, nothing allocated.
Init ==
    /\ head = Null /\ tail = Null
    /\ next = [n \in Nodes |-> Null]
    /\ val \in [Nodes -> Vals]
    /\ free = Nodes
    /\ aborted = FALSE

\* The nodes reached from n by following the pointers nx, at most k of them.
RECURSIVE Chain(_, _, _)
Chain(nx, n, k) == IF n = Null \/ k = 0 THEN <<>> ELSE <<n>> \o Chain(nx, nx[n], k - 1)

List == Chain(next, head, Cardinality(Nodes) + 1)
Contents == [i \in 1..Len(List) |-> val[List[i]]]

-----------------------------------------------------------------------------

(* The operations, as functions of the heap h = [head, tail, next, val,  *)
(* free, aborted], so that a caller can chain several in one step.         *)

Heap == [head |-> head, tail |-> tail, next |-> next, val |-> val,
         free |-> free, aborted |-> aborted]

SetHeap(h) ==
    /\ head' = h.head /\ tail' = h.tail /\ next' = h.next
    /\ val' = h.val /\ free' = h.free /\ aborted' = h.aborted

ListOf(h) == Chain(h.next, h.head, Cardinality(Nodes) + 1)
ContentsOf(h) == [i \in 1..Len(ListOf(h)) |-> h.val[ListOf(h)[i]]]

\* Mutant: the new node is linked in front of the head (a stack).
PushBackFront(h, n, v) ==
    LET g == [h EXCEPT !.free = @ \ {n}, !.val[n] = v, !.next[n] = h.head]
    IN IF h.head = Null THEN [g EXCEPT !.head = n, !.tail = n]
                       ELSE [g EXCEPT !.head = n]

\* push_back_helper(&head, &tail, v) with the malloc'd node n.
PushBack(h, n, v) ==
    LET g == [h EXCEPT !.free = @ \ {n}, !.val[n] = v, !.next[n] = Null]
    IN CASE h.head = Null /\ h.tail = Null -> [g EXCEPT !.head = n, !.tail = n]
         [] h.head # Null /\ h.tail # Null -> [g EXCEPT !.next[h.tail] = n, !.tail = n]
         [] OTHER -> [g EXCEPT !.aborted = TRUE]

\* pop_front_helper: unlink and free the head; the last node clears tail.
\* An empty queue returns false and is left alone.
PopFront(h) ==
    CASE h.head = Null /\ h.tail = Null -> h
      [] h.head # Null /\ h.tail # Null ->
           [h EXCEPT !.head = h.next[h.head],
                     !.tail = IF h.next[h.head] = Null THEN Null ELSE @,
                     !.free = @ \cup {h.head}]
      [] OTHER -> [h EXCEPT !.aborted = TRUE]

\* Where remove_node_rq's scan for v stops in h: the index of the first node
\* holding v, 0 if none.
FirstIndex(h, v) == SelectInSeq(ContentsOf(h), LAMBDA x : x = v)

\* remove_node_rq(v): the first node holding v is taken out; the head goes
\* through pop_front, any other node is unlinked (moving tail back if it was
\* last) and freed.  No such node returns false.
RemoveNode(h, v) ==
    LET i == FirstIndex(h, v)
        curr == ListOf(h)[i]
        prev == ListOf(h)[i - 1]
    IN CASE i = 0 -> h
         [] i = 1 -> PopFront(h)
         [] OTHER -> [h EXCEPT !.tail = IF h.next[curr] = Null THEN prev ELSE @,
                               !.next[prev] = h.next[curr],
                               !.free = @ \cup {curr}]

\* delete_queue_rq: pop until pop_front fails.
DeleteQueue(h) ==
    [h EXCEPT !.head = Null, !.tail = Null, !.free = @ \cup ToSet(ListOf(h))]

-----------------------------------------------------------------------------
(* push_back on the queue's own variables, for a caller that makes this    *)
(* one call in a step.                                                     *)

push_back(v) == ~aborted /\ \E n \in free : SetHeap(PushBack(Heap, n, v))

-----------------------------------------------------------------------------
(* Properties.                                                             *)

\* The list is well formed after any sequence of calls: head and tail are
\* both NULL or both set, the chain from head ends in NULL within the heap
\* (no cycle), tail is its last node, and no assert(0) is reached.
WellFormed ==
    /\ ~aborted
    /\ (head = Null) = (tail = Null)
    /\ Len(List) <= Cardinality(Nodes)
    /\ List # <<>> => /\ tail = List[Len(List)]
                      /\ next[tail] = Null

\* Every allocated node is on the list exactly once and every node on the
\* list is allocated: nothing leaks and nothing freed is still linked.
NoLeak ==
    /\ IsInjective(List)
    /\ ToSet(List) = Nodes \ free

=============================================================================
