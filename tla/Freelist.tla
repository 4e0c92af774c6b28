------------------------------ MODULE Freelist ------------------------------
(***************************************************************************)
(* freelist.go and the merge of page.go, on the sorted slices they use and *)
(* turn by turn of their loops.  The freelist is shown to implement        *)
(* FreeSets, so that DB may use sets.                                      *)
(***************************************************************************)
EXTENDS FreelistOps, Sequences, Functions

CONSTANTS
    Sizes,      \* how many contiguous pages are asked for or freed
    MaxPage,    \* bound: the highest page id
    MaxTxid     \* bound: the highest transaction id

ASSUME SizesAssumption ==
    /\ Sizes \subseteq Nat \ {0}
    /\ MaxPage \in Nat
    /\ MaxTxid \in Nat \ {0}

Txids == 1 .. MaxTxid

VARIABLES
    ids,        \* f.ids
    pending,    \* f.pending, <<>> for a transaction that has no entry
    cache,      \* f.cache
    page,       \* the freelist page of the last commit: count and elements
    txid,       \* the last write transaction
    got,        \* what the last allocate returned; 1, a meta page, after another call
    call        \* where the call under way is, and its variables

vars == <<ids, pending, cache, page, txid, got, call>>

Idle == [at |-> "idle"]

Returns == call' = Idle

(* Every page in some transaction's list.                                  *)
PendingIds(pend) == UNION {Range(pend[t]) : t \in Txids}

(* sort.Sort: the same elements in ascending order.                        *)
Sortings(s) ==
    {r \in {[i \in DOMAIN s |-> s[p[i]]] : p \in Bijection(DOMAIN s, DOMAIN s)} :
        \A i, j \in DOMAIN r : i < j => r[i] <= r[j]}

-----------------------------------------------------------------------------
(* allocate: a pass over ids, which looks for a block of n pages.          *)

Allocate(n) ==
    /\ call = Idle
    /\ call' = [at |-> "scan", n |-> n, i |-> 1, initial |-> 0, previd |-> 0]
    /\ UNCHANGED <<ids, pending, cache, page, txid, got>>

(* Mutant of BlockStart: a gap of one page is overlooked.                  *)
BlockStartGap(initial, previd, id) ==
    IF previd = 0 \/ id - previd > 2 THEN id ELSE initial

(* Where the contiguous pages that end with id begin.                      *)
BlockStart(initial, previd, id) ==
    IF previd = 0 \/ id # previd + 1 THEN id ELSE initial

(* One turn, which panics on a meta page.  A block that is long enough is  *)
(* removed and returned.                                                   *)
Scan ==
    /\ call.at = "scan" /\ call.i <= Len(ids)
    /\ LET i == call.i
           n == call.n
           initial == BlockStart(call.initial, call.previd, ids[i])
       IN  /\ ids[i] > 1
           /\ \/ /\ ids[i] - initial + 1 = n
                 /\ ids' = SubSeq(ids, 1, i - n) \o SubSeq(ids, i + 1, Len(ids))
                 /\ cache' = cache \ Run(initial, n)
                 /\ got' = initial
                 /\ Returns
              \/ /\ ids[i] - initial + 1 # n
                 /\ call' = [call EXCEPT !.i = i + 1, !.initial = initial,
                                         !.previd = ids[i]]
                 /\ UNCHANGED <<ids, cache, got>>
    /\ UNCHANGED <<pending, page, txid>>

NothingFound ==
    /\ call.at = "scan" /\ call.i > Len(ids)
    /\ got' = 0
    /\ Returns
    /\ UNCHANGED <<ids, pending, cache, page, txid>>

-----------------------------------------------------------------------------
(* free; DB shows that it is never called for a page in the cache.         *)
Free(id, len) ==
    /\ call = Idle
    /\ Run(id, len) \cap cache = {}
    /\ id + len - 1 <= MaxPage
    /\ pending' = [pending EXCEPT ![txid] = @ \o [i \in 1 .. len |-> id + i - 1]]
    /\ cache' = cache \cup Run(id, len)
    /\ got' = 1
    /\ UNCHANGED <<ids, page, txid, call>>

-----------------------------------------------------------------------------
(* release and write (by copyall) gather the lists of transactions in the  *)
(* order of a map, sort them, and merge them with ids.                     *)

Entries(bound) == {t \in Txids : t <= bound /\ pending[t] # <<>>}

Gathering(op, bound) ==
    call' = [at |-> "gather", op |-> op, tids |-> Entries(bound), m |-> <<>>]

(* db.beginRWTx: a new transaction id, then release.                       *)
Release(bound) ==
    /\ call = Idle
    /\ txid < MaxTxid
    /\ txid' = txid + 1
    /\ Gathering("release", bound)
    /\ got' = 1
    /\ UNCHANGED <<ids, pending, cache, page>>

Write ==
    /\ call = Idle
    /\ Gathering("write", MaxTxid)
    /\ UNCHANGED <<ids, pending, cache, page, txid, got>>

(* One turn; release deletes the transaction's entry.                      *)
Gather(t) ==
    /\ call.at = "gather" /\ t \in call.tids
    /\ call' = [call EXCEPT !.tids = @ \ {t}, !.m = @ \o pending[t]]
    /\ pending' = IF call.op = "release" THEN [pending EXCEPT ![t] = <<>>]
                                         ELSE pending
    /\ UNCHANGED <<ids, cache, page, txid, got>>

(* mergepgids: the list with the lower first element.                      *)
Lead(a, b) == IF b[1] < a[1] THEN b ELSE a

(* The gathered list is sorted, and mergepgids called.  An empty list      *)
(* leaves the other one to follow.                                         *)
Sort ==
    /\ call.at = "gather" /\ call.tids = {}
    /\ \E m \in Sortings(call.m) :
          call' = [at |-> "merge", op |-> call.op,
                   count |-> Len(ids) + Len(m), merged |-> <<>>,
                   lead |-> IF ids = <<>> \/ m = <<>> THEN <<>> ELSE Lead(ids, m),
                   follow |-> IF ids = <<>> \/ m = <<>> THEN ids \o m
                              ELSE IF Lead(ids, m) = m THEN ids ELSE m]
    /\ UNCHANGED <<ids, pending, cache, page, txid, got>>

(* sort.Search: how many elements of lead are not above x.                 *)
Ahead(lead, x) ==
    {n \in 0 .. Len(lead) : /\ \A i \in 1 .. n : lead[i] <= x
                            /\ n < Len(lead) => lead[n + 1] > x}

(* One turn of mergepgids: lead's prefix up to follow's first element is   *)
(* merged, then the two change places.                                     *)
Merge ==
    /\ call.at = "merge" /\ call.lead # <<>>
    /\ \E n \in Ahead(call.lead, call.follow[1]) :
          LET rest == SubSeq(call.lead, n + 1, Len(call.lead)) IN
          call' = [call EXCEPT !.merged = @ \o SubSeq(call.lead, 1, n),
                               !.lead = IF rest = <<>> THEN <<>> ELSE call.follow,
                               !.follow = IF rest = <<>> THEN @ ELSE rest]
    /\ UNCHANGED <<ids, pending, cache, page, txid, got>>

Merged == call.at = "merge" /\ call.lead = <<>>

Union == call.merged \o call.follow

Released ==
    /\ Merged /\ call.op = "release"
    /\ ids' = Union
    /\ Returns
    /\ UNCHANGED <<pending, cache, page, txid, got>>

(* From CountLimit ids on, the first element holds the count.              *)
Written ==
    /\ Merged /\ call.op = "write"
    /\ page' = IF call.count < CountLimit
                 THEN [count |-> call.count, elems |-> Union]
                 ELSE [count |-> CountLimit, elems |-> <<call.count>> \o Union]
    /\ got' = 1
    /\ Returns
    /\ UNCHANGED <<ids, pending, cache, txid>>

-----------------------------------------------------------------------------
(* Mutant of Reindexed: only the free pages are indexed.                   *)
ReindexedFree(free, pend) == Range(free)

(* reindex.                                                                *)
Reindexed(free, pend) == Range(free) \cup PendingIds(pend)

(* read: the slice [idx:count] of the elements.                            *)
ReadIds(p) ==
    LET idx == IF p.count = CountLimit THEN 1 ELSE 0
        count == IF p.count = CountLimit THEN p.elems[1] ELSE p.count
    IN SubSeq(p.elems, idx + 1, count)

(* rollback, then reload, which reads the page and reindexes.              *)
Rollback ==
    /\ call = Idle
    /\ pending' = [pending EXCEPT ![txid] = <<>>]
    /\ ids' \in Sortings(ReadIds(page))
    /\ cache' = Reindexed(ids', pending')
    /\ call' = [at |-> "reload", i |-> 1, a |-> <<>>]
    /\ got' = 1
    /\ UNCHANGED <<page, txid>>

(* One turn of reload's loop: pages that are pending are left out.         *)
Reload ==
    /\ call.at = "reload" /\ call.i <= Len(ids)
    /\ call' = [call EXCEPT !.i = @ + 1,
                            !.a = IF ids[call.i] \in PendingIds(pending) THEN @
                                  ELSE Append(@, ids[call.i])]
    /\ UNCHANGED <<ids, pending, cache, page, txid, got>>

Reloaded ==
    /\ call.at = "reload" /\ call.i > Len(ids)
    /\ ids' = call.a
    /\ cache' = Reindexed(ids', pending)
    /\ Returns
    /\ UNCHANGED <<pending, page, txid, got>>

(* Open, whatever call the process was in: a new freelist is read.         *)
Reopen ==
    /\ pending' = [t \in Txids |-> <<>>]
    /\ ids' \in Sortings(ReadIds(page))
    /\ cache' = Reindexed(ids', pending')
    /\ got' = 1
    /\ Returns
    /\ UNCHANGED <<page, txid>>

-----------------------------------------------------------------------------
Init ==
    /\ ids = <<>>
    /\ pending = [t \in Txids |-> <<>>]
    /\ cache = {}
    /\ page = [count |-> 0, elems |-> <<>>]
    /\ txid = 1 /\ got = 1
    /\ call = Idle

Next ==
    \/ \E n \in Sizes : Allocate(n)
    \/ Scan \/ NothingFound
    \/ \E id \in 2 .. MaxPage, len \in Sizes : Free(id, len)
    \/ \E bound \in 0 .. txid : Release(bound)
    \/ Write
    \/ \E t \in Txids : Gather(t)
    \/ Sort \/ Merge \/ Released \/ Written
    \/ Rollback \/ Reload \/ Reloaded
    \/ Reopen

Spec == Init /\ [][Next]_vars

-----------------------------------------------------------------------------
(* Properties.                                                             *)

(* Between calls f.cache, which free's double-free check relies on, holds  *)
(* exactly the free and the pending pages, however ids and pending have    *)
(* changed, and allocate never meets a meta page, on which it panics       *)
(* (freelist.go:72-75, 86-106, 241-252).                                   *)
CacheExact ==
    /\ call = Idle => cache = Range(ids) \cup PendingIds(pending)
    /\ \A id \in Range(ids) : id > 1

(* The pages allocate may take.  Those release has in hand are free from   *)
(* the moment it is called, and reload's pending pages are not free.       *)
FreeIds ==
    CASE call.at = "gather" /\ call.op = "release" ->
            Range(ids) \cup Range(call.m) \cup UNION {Range(pending[t]) : t \in call.tids}
      [] call.at = "merge" /\ call.op = "release" ->
            Range(call.merged) \cup Range(call.lead) \cup Range(call.follow)
      [] call.at = "reload" -> Range(ids) \ PendingIds(pending)
      [] OTHER -> Range(ids)

Releasing == IF call.at = "gather" /\ call.op = "release" THEN call.tids ELSE {}

PendingPairs == UNION {{t} \X Range(pending[t]) : t \in Txids \ Releasing}

(* The ids on the freelist page.                                           *)
PageIds == IF page.count = CountLimit THEN Tail(page.elems) ELSE page.elems

(* The slices do what DB assumes of sets: allocate takes the lowest block, *)
(* release and reload lose and invent nothing, write and read restore what *)
(* ReadBack says, from one id short of the 16 bit count to beyond it.      *)
Sets == INSTANCE FreeSets WITH
    free <- FreeIds,
    pend <- PendingPairs,
    saved <- Range(PageIds)

ImplementsSets == Sets!Spec
=============================================================================
