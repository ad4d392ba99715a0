--------------------------------- MODULE Wc ---------------------------------
(***************************************************************************)
(* The word counter of src/warmup/wc.c.  wc_init scans the file's bytes    *)
(* once, cutting a word at each whitespace byte and at the last byte, and  *)
(* adds each word to a chained hash table of (word, occurrence) entries.   *)
(* One step is one iteration of wc_init's for loop.  The input is any      *)
(* short text over a few letters and one whitespace byte; hash_fn is the   *)
(* constant operator Hash, since its 64-bit arithmetic is beyond TLC's     *)
(* integers, and what matters here is only which words share a bucket.     *)
(***************************************************************************)
EXTENDS Integers, SequencesExt

CONSTANTS
    Letters,    \* the non-whitespace bytes a text may hold
    Space,      \* a byte for which isspace() holds
    MaxSize,    \* longest text
    Buckets,    \* bucket indices 0 .. NUM_BUCKETS - 1
    Hash(_),    \* hash_fn
    Junk        \* what a fresh malloc'd int may hold

VARIABLES
    words,                \* the text, words[1..size]
    i,                    \* the loop index (0-based, as in the code)
    start_index,
    last_char_is_space,
    list,                 \* list[b]: the WORD_ENTRYs of bucket b, head first
    pc                    \* "loop", then "done" when wc_init returns

vars == <<words, i, start_index, last_char_is_space, list, pc>>

size == Len(words)

Texts == UNION {[1..n -> Letters \cup {Space}] : n \in 0..MaxSize}

\* wc_init's setup: every bucket empty, the loop at 0.
Init ==
    /\ words \in Texts
    /\ i = 0 /\ start_index = 0 /\ last_char_is_space = FALSE
    /\ list = [b \in Buckets |-> <<>>]
    /\ pc = "loop"

\* add_to_list: a word already in the bucket gets occurrence++; otherwise
\* a new entry is made.  A new head starts at 1, but an entry appended
\* after the last one does occurrence++ on a field malloc left
\* uninitialised, here any value g of Junk.
AddToList(l, w, g) ==
    LET k == SelectInSeq(l, LAMBDA e : e.word = w)
    IN CASE l = <<>> -> <<[word |-> w, occurrence |-> 1]>>
         [] k # 0 -> [l EXCEPT ![k].occurrence = @ + 1]
         [] OTHER -> Append(l, [word |-> w, occurrence |-> g + 1])

\* add_to_hash_table: the word goes to bucket hash_fn(word).
AddToHashTable(tbl, w, g) == [tbl EXCEPT ![Hash(w)] = AddToList(@, w, g)]

\* One iteration of wc_init's loop.  At a whitespace byte or the last byte,
\* the word words[start_index .. i-1] is added unless the previous byte was
\* whitespace, in which case start_index moves on; at any other byte after
\* whitespace start_index moves on past the whitespace.
wc_init_step ==
    /\ pc = "loop" /\ i < size
    /\ i' = i + 1
    /\ IF words[i + 1] = Space \/ i = size - 1
       THEN IF ~last_char_is_space
            THEN /\ last_char_is_space' = TRUE
                 /\ \E g \in Junk :
                      list' = AddToHashTable(list, SubSeq(words, start_index + 1, i), g)
                 /\ start_index' = i
            ELSE /\ start_index' = start_index + 1
                 /\ UNCHANGED <<last_char_is_space, list>>
       ELSE /\ start_index' = IF last_char_is_space THEN start_index + 1 ELSE start_index
            /\ last_char_is_space' = FALSE
            /\ UNCHANGED list
    /\ UNCHANGED <<words, pc>>

\* The loop ends: wc_init returns the table.
wc_init_return ==
    /\ pc = "loop" /\ i = size
    /\ pc' = "done"
    /\ UNCHANGED <<words, i, start_index, last_char_is_space, list>>

Next == wc_init_step \/ wc_init_return

Spec == Init /\ [][Next]_vars

-----------------------------------------------------------------------------
(* The reference: the words of a text are its maximal runs of non-space   *)
(* bytes, and a word's count is how often it occurs among them.            *)

RECURSIVE SplitFrom(_, _)
SplitFrom(s, cur) ==
    CASE s = <<>> -> IF cur = <<>> THEN <<>> ELSE <<cur>>
      [] Head(s) = Space /\ cur = <<>> -> SplitFrom(Tail(s), <<>>)
      [] Head(s) = Space -> <<cur>> \o SplitFrom(Tail(s), <<>>)
      [] OTHER -> SplitFrom(Tail(s), Append(cur, Head(s)))

Tokens(s) == SplitFrom(s, <<>>)

\* What wc_output prints for w: the occurrence of its entry, if any.
Counted(w) ==
    LET l == list[Hash(w)]
        k == SelectInSeq(l, LAMBDA e : e.word = w)
    IN IF k = 0 THEN 0 ELSE l[k].occurrence

Listed == UNION {{e.word : e \in ToSet(list[b])} : b \in Buckets}

\* When wc_init returns, the table counts exactly the whitespace-separated
\* words of the text: each word with its number of occurrences, and no
\* other string (wc_init's word cutting and add_to_list's counting).
WordCountCorrect ==
    pc = "done" =>
        \A w \in ToSet(Tokens(words)) \cup Listed :
            Counted(w) = Cardinality({k \in 1..Len(Tokens(words)) : Tokens(words)[k] = w})

=============================================================================
