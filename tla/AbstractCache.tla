--------------------------- MODULE AbstractCache ----------------------------
(***************************************************************************)
(* What the lab-5 file cache promises, without its data structures: a set  *)
(* of cached file names whose sizes never exceed the capacity.  Inserting  *)
(* a file leaves it cached; to make room, the insert may drop some entries *)
(* first, and the ones it drops are never smaller than the ones it keeps   *)
(* (largest-first eviction).  A lookup changes nothing.                    *)
(***************************************************************************)
EXTENDS Integers, FiniteSetsExt

CONSTANTS Files, Size, MaxCache

VARIABLE cached

Bytes(S) == MapThenSumSet(LAMBDA f : Size[f], S)

Init == cached = {}

Insert(f) ==
    \E E \in SUBSET cached :
        /\ \A e \in E, s \in cached \ E : Size[e] >= Size[s]
        /\ cached' = (cached \ E) \cup {f}
        /\ Bytes(cached') <= MaxCache

Next == \E f \in Files : Size[f] <= MaxCache /\ Insert(f)

Spec == Init /\ [][Next]_cached

=============================================================================
