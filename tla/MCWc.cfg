\* wc_init against the whitespace split.
CONSTANTS
    Space = " "
    MaxSize = 4
    Letters <- MCLetters
    Buckets <- MCBuckets
    Hash <- MCHash
    Junk <- MCJunk
SPECIFICATION Spec
INVARIANT WordCountCorrect
CHECK_DEADLOCK FALSE
