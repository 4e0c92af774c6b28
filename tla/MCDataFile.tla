----------------------------- MODULE MCDataFile -----------------------------
EXTENDS DataFile

\* Two handles of one process and one of another.
MCOwner == [h \in Handles |-> IF h = "a1" THEN "A" ELSE IF h = "a2" THEN "A" ELSE "B"]
=============================================================================
