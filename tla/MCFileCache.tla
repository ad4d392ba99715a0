----------------------------- MODULE MCFileCache -----------------------------
(* FileCache for TLC: a 7-byte cache, four files of 4, 3, 3 and 2 bytes    *)
(* (two of equal size, so ties in the size order occur), two buckets that  *)
(* each hold two names (collisions), and two workers, so a miss can race   *)
(* with another worker's insert of the same file.  f4 contains a NUL byte. *)
EXTENDS FileCache

CONSTANTS f1, f2, f3, f4, b1, b2, w1, w2

MCFiles == {f1, f2, f3, f4}
MCSize == f1 :> 4 @@ f2 :> 3 @@ f3 :> 3 @@ f4 :> 2
MCTextLen == f1 :> 4 @@ f2 :> 3 @@ f3 :> 3 @@ f4 :> 1
MCBuckets == {b1, b2}
MCHash == f1 :> b1 @@ f2 :> b2 @@ f3 :> b1 @@ f4 :> b2
MCWorkers == {w1, w2}
====
