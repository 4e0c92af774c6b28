------------------------------ MODULE FreeSets ------------------------------
(***************************************************************************)
(* The freelist as its users in db.go and tx.go rely on it: sets, with the *)
(* operators of FreelistOps that DB is built from.                         *)
(***************************************************************************)
EXTENDS FreelistOps

CONSTANTS
    Sizes,      \* how many contiguous pages are asked for or freed
    MaxPage,    \* bound: the highest page id
    MaxTxid     \* bound: the highest transaction id

VARIABLES
    free,       \* pages a writer may allocate
    pend,       \* pairs <<txid, page>> of pages freed but maybe still read
    saved,      \* what the freelist page of the last commit stores
    txid,       \* the last write transaction
    got         \* what the last allocation gave, 0 if nothing; 1, a meta page, after
                \* another call

vars == <<free, pend, saved, txid, got>>

Init ==
    /\ free = {} /\ pend = {} /\ saved = {}
    /\ txid = 1 /\ got = 1

(* A write transaction begins; all its readers need is younger than bound. *)
Begin(bound) ==
    /\ txid < MaxTxid
    /\ txid' = txid + 1
    /\ free' = free \cup PendingPages(UpTo(pend, bound))
    /\ pend' = pend \ UpTo(pend, bound)
    /\ got' = 1
    /\ UNCHANGED saved

Free(id, len) ==
    /\ Run(id, len) \cap (free \cup PendingPages(pend)) = {}
    /\ pend' = pend \cup FreedBy(txid, Run(id, len))
    /\ got' = 1
    /\ UNCHANGED <<free, saved, txid>>

Allocate(n, id) ==
    /\ LowestFit(free, n, id)
    /\ free' = free \ Run(id, n)
    /\ got' = id
    /\ UNCHANGED <<pend, saved, txid>>

(* Nothing is taken when no block is long enough.                          *)
AllocateNothing(n) ==
    /\ Fits(free, n) = {}
    /\ got' = 0
    /\ UNCHANGED <<free, pend, saved, txid>>

Commit ==
    /\ saved' = Listed(free, pend)
    /\ got' = 1
    /\ UNCHANGED <<free, pend, txid>>

Rollback ==
    /\ pend' = Without(pend, txid)
    /\ free' = ReadBack(saved) \ PendingPages(pend')
    /\ got' = 1
    /\ UNCHANGED <<saved, txid>>

Reopen ==
    /\ pend' = {}
    /\ free' = ReadBack(saved)
    /\ got' = 1
    /\ UNCHANGED <<saved, txid>>

Next ==
    \/ \E bound \in 0 .. txid : Begin(bound)
    \/ \E id \in 2 .. MaxPage, len \in Sizes : Free(id, len)
    \/ \E n \in Sizes, id \in 2 .. MaxPage : Allocate(n, id)
    \/ \E n \in Sizes : AllocateNothing(n)
    \/ Commit \/ Rollback \/ Reopen

Spec == Init /\ [][Next]_vars
=============================================================================
