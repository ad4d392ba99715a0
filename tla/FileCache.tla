------------------------------ MODULE FileCache ------------------------------
(***************************************************************************)
(* The lab-5 file cache of src/webserver_5: the chained hash table of      *)
(* hash_table.h, its byte count, and the filesize queue of queue.c that    *)
(* keeps (name, size) pairs in descending size order for largest-first     *)
(* eviction.  add_to_hash_table and find_in_hash_table each run entirely   *)
(* under cache_mutex, so each is one atomic step.  The workers that call   *)
(* them (the lab-5 server_thread.c is not in the repository) follow the    *)
(* request path of the design: look the file up, and on a miss read it     *)
(* and insert it if it fits.                                               *)
(***************************************************************************)
EXTENDS Integers, SequencesExt

CONSTANTS
    Files,      \* file names
    Size,       \* Size[f]: file_size of f
    TextLen,    \* TextLen[f]: strlen of f's contents (< Size[f] if it holds a NUL)
    MaxCache,   \* max_cache_size
    Buckets,    \* hash buckets (NUM_BUCKETS of them)
    Hash,       \* Hash[f]: hash_fn(f) % NUM_BUCKETS
    Workers,    \* server worker threads
    NoFile

VARIABLES
    table,             \* table[b]: the ENTRY list of bucket b, head first
    curr_buffer_size,  \* wc->curr_buffer_size
    filesize_queue,    \* the FILESIZE_QUEUE, head first
    wpc,               \* worker program counter: "idle" or "insert"
    wfile,             \* the file a worker missed and is about to insert
    need               \* ghost: total_size_to_evict of the last step

vars == <<table, curr_buffer_size, filesize_queue, wpc, wfile, need>>

Entry == [name : Files, size : Nat, buflen : Nat]
SizeNode == [name : Files, size : Nat]

TypeOK ==
    /\ table \in [Buckets -> Seq(Entry)]
    /\ curr_buffer_size \in Int
    /\ filesize_queue \in Seq(SizeNode)
    /\ wpc \in [Workers -> {"idle", "insert"}]
    /\ wfile \in [Workers -> Files \cup {NoFile}]
    /\ need \in 0..MaxCache

\* hash_table_init.
Init ==
    /\ table = [b \in Buckets |-> <<>>]
    /\ curr_buffer_size = 0
    /\ filesize_queue = <<>>
    /\ wpc = [w \in Workers |-> "idle"]
    /\ wfile = [w \in Workers |-> NoFile]
    /\ need = 0

-----------------------------------------------------------------------------
(* The data structures, as operators on values.                            *)

\* file_data_copy: the buffer is copied up to its first NUL (strlen).
FileDataCopy(f) == [name |-> f, size |-> Size[f], buflen |-> TextLen[f]]

\* The index of f's entry in a bucket list, 0 if absent (the strcmp scan).
Find(list, f) == SelectInSeq(list, LAMBDA e : e.name = f)

\* Mutant: the insertion scan compares the wrong way (ascending order).
InsertBySizeAscending(fq, f, sz) ==
    LET i == SelectInSeq(fq, LAMBDA n : sz < n.size)
    IN InsertAt(fq, IF i = 0 THEN Len(fq) + 1 ELSE i, [name |-> f, size |-> sz])

\* Mutant: the node is always linked at the tail (insertion order).
InsertBySizeAtTail(fq, f, sz) == Append(fq, [name |-> f, size |-> sz])

\* insert_into_filesize_queue: before the first node strictly smaller,
\* else at the back.
InsertBySize(fq, f, sz) ==
    LET i == SelectInSeq(fq, LAMBDA n : sz > n.size)
    IN InsertAt(fq, IF i = 0 THEN Len(fq) + 1 ELSE i, [name |-> f, size |-> sz])

\* Mutant: the entry is unlinked but its bytes are not subtracted.
DeleteFromHashTableKeepBytes(st, f) ==
    LET list == st.table[Hash[f]]
    IN [st EXCEPT !.table[Hash[f]] = RemoveAt(list, Find(list, f))]

\* delete_node_from_list: unlink the first entry named f.
DeleteNodeFromList(list, f) == RemoveAt(list, Find(list, f))

\* delete_from_hash_table on a state record st: unlink f's entry and
\* subtract its data's size.
DeleteFromHashTable(st, f) ==
    LET list == st.table[Hash[f]]
    IN [st EXCEPT !.table[Hash[f]] = DeleteNodeFromList(list, f),
                  !.curr = @ - list[Find(list, f)].size]

\* evict_cache: pop the largest node and delete its entry until the bytes
\* evicted reach total.  st.acc is evicted_cache.
RECURSIVE EvictCache(_, _)
EvictCache(st, total) ==
    IF st.acc >= total
    THEN st
    ELSE LET top == Head(st.fq)
         IN EvictCache([DeleteFromHashTable(st, top.name)
                           EXCEPT !.fq = Tail(@), !.acc = @ + top.size], total)

-----------------------------------------------------------------------------
(* Operations.                                                             *)

\* A worker looks f up (find_in_hash_table returns a copy or NULL); on a
\* miss it reads the file and goes on to insert it if it fits the cache.
find_in_hash_table(w, f) ==
    /\ wpc[w] = "idle"
    /\ IF Find(table[Hash[f]], f) = 0 /\ Size[f] <= MaxCache
       THEN wpc' = [wpc EXCEPT ![w] = "insert"] /\ wfile' = [wfile EXCEPT ![w] = f]
       ELSE UNCHANGED <<wpc, wfile>>
    /\ need' = 0
    /\ UNCHANGED <<table, curr_buffer_size, filesize_queue>>

\* Mutant: the amount to evict is computed as remaining - file_size.
add_to_hash_table_swapped(w) ==
    LET f == wfile[w]
        data == FileDataCopy(f)
        remaining == MaxCache - curr_buffer_size
        total == IF data.size > remaining THEN remaining - data.size ELSE 0
        st == EvictCache([table |-> table, curr |-> curr_buffer_size,
                          fq |-> filesize_queue, acc |-> 0], total)
        b == Hash[f]
    IN /\ wpc[w] = "insert"
       /\ IF Find(st.table[b], f) # 0
          THEN /\ table' = st.table
               /\ curr_buffer_size' = st.curr
               /\ filesize_queue' = st.fq
          ELSE /\ table' = [st.table EXCEPT ![b] = Append(@, data)]
               /\ curr_buffer_size' = st.curr + data.size
               /\ filesize_queue' = InsertBySize(st.fq, f, data.size)
       /\ need' = total
       /\ wpc' = [wpc EXCEPT ![w] = "idle"]
       /\ wfile' = [wfile EXCEPT ![w] = NoFile]

\* add_to_hash_table: evict if the copy does not fit, then add it to its
\* bucket unless the name is already there, and index it by size.
add_to_hash_table(w) ==
    LET f == wfile[w]
        data == FileDataCopy(f)
        remaining == MaxCache - curr_buffer_size
        total == IF data.size > remaining THEN data.size - remaining ELSE 0
        st == EvictCache([table |-> table, curr |-> curr_buffer_size,
                          fq |-> filesize_queue, acc |-> 0], total)
        b == Hash[f]
    IN /\ wpc[w] = "insert"
       /\ IF Find(st.table[b], f) # 0
          THEN /\ table' = st.table                      \* duplicate: refused
               /\ curr_buffer_size' = st.curr
               /\ filesize_queue' = st.fq
          ELSE /\ table' = [st.table EXCEPT ![b] = Append(@, data)]
               /\ curr_buffer_size' = st.curr + data.size
               /\ filesize_queue' = InsertBySize(st.fq, f, data.size)
       /\ need' = total
       /\ wpc' = [wpc EXCEPT ![w] = "idle"]
       /\ wfile' = [wfile EXCEPT ![w] = NoFile]

Next ==
    \/ \E w \in Workers, f \in Files : find_in_hash_table(w, f)
    \/ \E w \in Workers : add_to_hash_table(w)

Spec == Init /\ [][Next]_vars

-----------------------------------------------------------------------------
(* Properties.                                                             *)

Entries == UNION {ToSet(table[b]) : b \in Buckets}
CachedNames == {e.name : e \in Entries}
NumEntries == FoldFunction(LAMBDA l, acc : Len(l) + acc, 0, table)
EntryBytes == FoldFunction(LAMBDA l, acc : FoldSeq(LAMBDA e, a : e.size + a, 0, l) + acc,
                           0, table)

\* add_to_hash_table and evict_cache keep wc->curr_buffer_size equal to the
\* bytes of the cached entries, and never above max_cache_size.
CacheAccounting ==
    /\ curr_buffer_size = EntryBytes
    /\ curr_buffer_size <= MaxCache

\* The hash table and the filesize queue index the same files: no name is
\* cached twice, each entry sits in its hash bucket, and the queue holds
\* exactly one node per entry, with its size, in descending size order.
SizeIndexConsistent ==
    /\ Cardinality(CachedNames) = NumEntries
    /\ \A b \in Buckets : \A i \in 1..Len(table[b]) : Hash[table[b][i].name] = b
    /\ Len(filesize_queue) = NumEntries
    /\ {[name |-> n.name, size |-> n.size] : n \in ToSet(filesize_queue)}
         = {[name |-> e.name, size |-> e.size] : e \in Entries}
    /\ IsSorted(filesize_queue, LAMBDA x, y : x.size >= y.size)

\* The cache implements AbstractCache: capacity respected, the inserted
\* file cached afterwards, and only the largest entries evicted.
AC == INSTANCE AbstractCache WITH cached <- CachedNames
AbstractCacheSpec == AC!Spec

\* file_data_copy gives the cache a full copy of each file's contents.
CopyIsFaithful ==
    \A e \in Entries : e.buflen = e.size

=============================================================================
