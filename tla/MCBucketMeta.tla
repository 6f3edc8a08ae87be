---- MODULE MCBucketMeta ----
EXTENDS BucketMeta

CONSTANTS t1, t2, t3

MCThreads == {t1, t2, t3}

\* turbo_hash.h and the two persistent tables, with and without
\* PIN_KEY_TO_THREAD.
AllBuilds == [cas : BOOLEAN, pinned : BOOLEAN]
PinnedBuilds == [cas : BOOLEAN, pinned : {TRUE}]
====
