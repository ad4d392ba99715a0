------------------------------- MODULE MCWc --------------------------------
EXTENDS Wc

\* Two letters and texts of up to four bytes: enough for a repeated word,
\* two different words, runs of whitespace, and whitespace at either end.
MCLetters == {"a", "b"}
MCBuckets == 0..1

\* A stand-in for hash_fn: words of the same parity of length share a
\* bucket, so "a" and "b" collide and the second is appended to the first.
MCHash(w) == Len(w) % 2

\* A reused malloc chunk may hold anything; 0 and 7 are two such values.
MCJunk == {0, 7}

=============================================================================
