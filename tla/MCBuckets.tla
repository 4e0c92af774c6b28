----------------------------- MODULE MCBuckets -----------------------------
EXTENDS Buckets

MCLengths == {NilValue, 2}
=============================================================================
