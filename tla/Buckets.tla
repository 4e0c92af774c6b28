------------------------------ MODULE Buckets ------------------------------
(***************************************************************************)
(* The nested buckets of a database (bucket.go, with Tx.check of tx.go and  *)
(* the compaction of cmd/bolt/main.go): headers kept in the parent's        *)
(* leaves, small buckets stored inline in them, the write transaction's     *)
(* cache of opened buckets and its spill at commit.                         *)
(*                                                                          *)
(* The tree of each bucket is reduced to one leaf (BTree has the rest), so  *)
(* a bucket's items are a function from keys to items.  A bucket is named   *)
(* by the sequence of keys that leads to it, the root bucket by <<>>.       *)
(***************************************************************************)
EXTENDS PageStore, FiniteSetsExt, SequencesExt

CONSTANTS
    Names,         \* keys, of values and of buckets: positive numbers
    Lengths,       \* lengths of the values put, NilValue for a nil slice
    MaxDepth,      \* bound on the nesting of buckets
    MaxOps,        \* bound on the calls that change something
    MaxTx,         \* bound on the transactions
    PageSize, HeaderSize, ElemSize,  \* as in BTree
    BucketHeader,  \* bucketHeaderSize
    TxMaxSize,     \* CompactCommand.TxMaxSize
    Nil            \* a nil pointer

VARIABLES
    t,      \* the pages, t.root (tx.meta.root), t.cache: the opened Buckets
    want,   \* history: what the calls made of the database, bucket by bucket
    saved,  \* history: want at the last commit
    ops, txs

vars == <<t, want, saved, ops, txs>>

NilValue == -1

Plain(len) == [bucket |-> FALSE, len |-> len]
Header(root, seq, inline) == [bucket |-> TRUE, root |-> root, seq |-> seq, inline |-> inline]

\* The bytes of a leaf with these items on a page.
RECURSIVE size(_)
size(items) ==
    LET bytes(it) == IF it.bucket
                     THEN BucketHeader + (IF it.inline = Nil THEN 0 ELSE size(it.inline))
                     ELSE IF it.len = NilValue THEN 0 ELSE it.len
    IN  HeaderSize + MapThenSumSet(LAMBDA k : ElemSize + bytes(items[k]), DOMAIN items)

\* node.write: on a page a nil value is an empty one.
write(items) ==
    [k \in DOMAIN items |-> IF items[k] = Plain(NilValue) THEN Plain(0) ELSE items[k]]

Sorted(keys) == [i \in 1..Cardinality(keys) |-> CHOOSE k \in keys : Cardinality({j \in keys : j < k}) = i - 1]

(***************************************************************************)
(* Buckets of a transaction.                                                *)
(***************************************************************************)
openBucket(it) == [root |-> it.root, seq |-> it.seq, node |-> Nil,
                   page |-> IF it.root = 0 THEN it.inline ELSE Nil]

\* Bucket.pageNode: the root node, the inline page, or the page.
pageNode(s, p) ==
    LET c == s.cache[p]
    IN  IF c.node # Nil THEN c.node ELSE IF c.root = 0 THEN c.page ELSE s.pages[c.root].items

\* Bucket.Bucket, from the root bucket down the path p.
RECURSIVE Bucket(_, _)
Bucket(s, p) ==
    IF p \in DOMAIN s.cache THEN s
    ELSE LET up == Bucket(s, Front(p))
         IN  [up EXCEPT !.cache = (p :> openBucket(pageNode(up, Front(p))[Last(p)])) @@ @]

\* Cursor.seek: the key it stops at, 0 past the last.
seek(s, p, key) ==
    LET above == {k \in DOMAIN pageNode(s, p) : k >= key}
    IN  IF above = {} THEN 0 ELSE Min(above)

\* Bucket.node of the root page.
node(s, p) == [s EXCEPT !.cache[p].node = pageNode(s, p)]

put(s, p, key, it) == [node(s, p) EXCEPT !.cache[p].node = (key :> it) @@ @]

del(s, p, key) == [node(s, p) EXCEPT !.cache[p].node = [k \in DOMAIN @ \ {key} |-> @[k]]]

\* Bucket.free, of a bucket whose pages are not shadowed by another node.
free(s, p) ==
    IF s.cache[p].root = 0 THEN s
    ELSE [FreePage(s, s.cache[p].root) EXCEPT !.cache[p].root = 0]

CreateBucket(s, p, key) ==
    LET made == put(s, p, key, Header(0, 0, <<>>))
    IN  Bucket([made EXCEPT !.cache[p].page = Nil], Append(p, key))

(* Mutant of SetSequence: the root node is not materialised.                *)
SetSequenceOnly(s, p, v) == [s EXCEPT !.cache[p].seq = v]

SetSequence(s, p, v) == [node(s, p) EXCEPT !.cache[p].seq = v]

\* Bucket.DeleteBucket, whose ForEach deletes the buckets inside first.  Its
\* cursor stands at index i of the page it started on or, if that is Nil, of the
\* node, which shrinks under it.
RECURSIVE DeleteBucket(_, _, _), DeleteInside(_, _, _, _)

(* Mutant of DeleteBucket: the bucket stays in the cache with its node.     *)
DeleteBucketCached(s, p, key) ==
    LET q == Append(p, key)
        opened == Bucket(s, q)
    IN  del(free(DeleteInside(opened, q, pageNode(opened, q), 1), q), p, key)

DeleteBucket(s, p, key) ==
    LET q == Append(p, key)
        opened == Bucket(s, q)
        page == IF opened.cache[q].node = Nil THEN pageNode(opened, q) ELSE Nil
        inside == DeleteInside(opened, q, page, 1)
        freed == free([inside EXCEPT !.cache[q].node = Nil], q)
        uncached == [freed EXCEPT !.cache = [o \in {o \in DOMAIN @ : ~IsPrefix(q, o)} |-> @[o]]]
    IN  IF inside.failed THEN inside ELSE del(uncached, p, key)

DeleteInside(s, q, page, i) ==
    LET items == IF page = Nil THEN pageNode(s, q) ELSE page
        key == Sorted(DOMAIN items)[i]
        next == IF items[key].bucket THEN DeleteBucket(s, q, key)
                ELSE [s EXCEPT !.failed = items[key].len = NilValue]
    IN  IF s.failed \/ i > Cardinality(DOMAIN items) THEN s ELSE DeleteInside(next, q, page, i + 1)

(***************************************************************************)
(* Spilling.                                                                *)
(***************************************************************************)
maxInlineBucketSize == PageSize \div 4

inlineable(s, p) ==
    LET items == s.cache[p].node
    IN  /\ items # Nil
        /\ \A k \in DOMAIN items : ~items[k].bucket
        /\ items = <<>> \/ size(items) <= maxInlineBucketSize

\* node.spill of a bucket's only leaf.
SpillNode(s, p) ==
    LET freed == free(s, p)
        items == s.cache[p].node
        count == size(items) \div PageSize + 1
        pg == allocate(freed, count)
    IN  IF items = Nil THEN s
        ELSE [Place(freed, pg, [items |-> write(items), overflow |-> count - 1])
                 EXCEPT !.cache[p].root = pg]

\* Bucket.spill: every cached child, in the order of a map, then the bucket.
\* SpillChild writes the child's header, with its page if it is inlined.
RECURSIVE spill(_, _, _), SpillChild(_, _, _)
spill(s, p, down) ==
    LET keys == {Last(q) : q \in {o \in DOMAIN s.cache : o # <<>> /\ Front(o) = p}}
        order == IF down THEN Reverse(Sorted(keys)) ELSE Sorted(keys)
    IN  SpillNode(FoldLeft(LAMBDA acc, k : SpillChild(acc, Append(p, k), down), s, order), p)

SpillChild(s, q, down) ==
    LET inline == inlineable(s, q)
        spilled == IF inline THEN free(s, q) ELSE spill(s, q, down)
        c == spilled.cache[q]
        it == Header(c.root, c.seq, IF inline THEN write(c.node) ELSE Nil)
        at == seek(spilled, Front(q), Last(q))
    IN  IF c.node = Nil THEN spilled
        ELSE IF at # Last(q) \/ ~pageNode(spilled, Front(q))[at].bucket
             THEN [spilled EXCEPT !.panic = TRUE]
             ELSE put(spilled, Front(q), Last(q), it)

\* The cache a transaction begins with: its root bucket.
Begin(s) ==
    [s EXCEPT !.cache = (<<>> :> [root |-> s.root, seq |-> 0, page |-> Nil, node |-> Nil])]

\* The part of Tx.Commit that writes the buckets, and the next Begin.
CommitTx(s, down) ==
    LET w == spill(s, <<>>, down)
    IN  Begin(Released([w EXCEPT !.root = w.cache[<<>>].root]))

(***************************************************************************)
(* The calls of a write transaction.                                        *)
(***************************************************************************)
NewBucket == [seq |-> 0, vals |-> <<>>]

\* A store after db.init: the empty root bucket on page 3.
Fresh == Begin([pages |-> (3 :> [items |-> <<>>, overflow |-> 0]), root |-> 3, free |-> {},
                pending |-> {}, hwm |-> 4, panic |-> FALSE, failed |-> FALSE, cache |-> <<>>])

Init ==
    /\ t = Fresh
    /\ want = (<<>> :> NewBucket) /\ saved = want
    /\ ops = 0 /\ txs = 1

Work == ops < MaxOps /\ ops' = ops + 1 /\ UNCHANGED <<saved, txs>>

IsBucket(p, key) == Append(p, key) \in DOMAIN want

\* CreateBucket, and CreateBucketIfNotExists when it does not exist.
Create(p, key) ==
    /\ Work /\ Len(p) < MaxDepth
    /\ ~IsBucket(p, key) /\ key \notin DOMAIN want[p].vals
    /\ t' = CreateBucket(Bucket(t, p), p, key)
    /\ want' = (Append(p, key) :> NewBucket) @@ want

\* Bucket, and CreateBucketIfNotExists of a bucket that does.
Open(p) ==
    /\ p \notin DOMAIN t.cache
    /\ t' = Bucket(t, p)
    /\ UNCHANGED <<want, saved, ops, txs>>

Put(p, key, len) ==
    /\ Work /\ p # <<>> /\ ~IsBucket(p, key)
    /\ t' = put(Bucket(t, p), p, key, Plain(len))
    /\ want' = [want EXCEPT ![p].vals = (key :> IF len = NilValue THEN 0 ELSE len) @@ @]

\* Bucket.Delete, which answers ErrIncompatibleValue when the cursor stops at a
\* bucket, be it the one asked for or the one after it.
Delete(p, key) ==
    LET s == Bucket(t, p)
        at == seek(s, p, key)
    IN  /\ Work /\ p # <<>>
        /\ at # 0 => ~pageNode(s, p)[at].bucket
        /\ t' = del(s, p, key)
        /\ want' = [want EXCEPT ![p].vals = [k \in DOMAIN @ \ {key} |-> @[k]]]

\* SetSequence, and NextSequence with the sequence's successor.
Sequence(p, v) ==
    /\ Work /\ p # <<>> /\ v # want[p].seq
    /\ t' = SetSequence(Bucket(t, p), p, v)
    /\ want' = [want EXCEPT ![p].seq = v]

\* There is a bucket with path q.
Exists(s, q) ==
    \A i \in 1..Len(q) :
        LET up == SubSeq(q, 1, i - 1)
            items == pageNode(Bucket(s, up), up)
        IN  q[i] \in DOMAIN items /\ items[q[i]].bucket

\* DeleteBucket.  If it fails half way, at a value put as nil, the buckets inside
\* it has come to before are deleted; the caller may commit that.
Drop(p, key) ==
    LET d == DeleteBucket(Bucket(t, p), p, key)
        dropped(q) == IsPrefix(Append(p, key), q) /\ (d.failed => ~Exists(d, q))
    IN  /\ Work /\ IsBucket(p, key)
        /\ t' = [d EXCEPT !.failed = FALSE]
        /\ want' = [q \in {o \in DOMAIN want : ~dropped(o)} |-> want[q]]

Commit(down) ==
    /\ txs < MaxTx
    /\ t' = CommitTx(t, down)
    /\ saved' = want /\ txs' = txs + 1
    /\ UNCHANGED <<want, ops>>

Rollback ==
    /\ txs < MaxTx
    /\ t' = Begin([t EXCEPT !.pending = {}])
    /\ want' = saved /\ txs' = txs + 1
    /\ UNCHANGED <<saved, ops>>

Finished == txs = MaxTx /\ UNCHANGED vars

Next ==
    \/ \E p \in DOMAIN want :
          \/ Open(p)
          \/ \E key \in Names :
                \/ Create(p, key) \/ Delete(p, key) \/ Drop(p, key)
                \/ \E len \in Lengths : Put(p, key, len)
          \/ \E v \in {0, want[p].seq + 1} : Sequence(p, v)
    \/ \E down \in BOOLEAN : Commit(down)
    \/ Rollback
    \/ Finished

Spec == Init /\ [][Next]_vars

(***************************************************************************)
(* Reading a database: its contents, Tx.Check, Bucket.Stats, and bolt       *)
(* compact.  They are asked of a store no transaction has touched.          *)
(***************************************************************************)
Untouched(s) == s.cache = Begin(s).cache

Vals(items) ==
    [k \in {j \in DOMAIN items : ~items[j].bucket} |-> items[k].len]

Inside(items) == {k \in DOMAIN items : items[k].bucket}

\* ForEach over bucket p and the buckets in it, as path -> sequence and values.
RECURSIVE Contents(_, _)
Contents(s, p) ==
    LET o == Bucket(s, p)
        items == write(pageNode(o, p))
        below == {Contents(o, Append(p, k)) : k \in Inside(items)}
    IN  FoldSet(LAMBDA c, acc : c @@ acc, p :> [seq |-> o.cache[p].seq, vals |-> Vals(items)], below)

\* Tx.checkBucket: the pages of the bucket with this header, and those of the
\* buckets inside it, in the order it meets them.
RECURSIVE checkBucket(_, _)
checkBucket(s, root) ==
    IF root = 0 THEN <<>>
    ELSE LET items == s.pages[root].items
             keys == Sorted(Inside(items))
         IN  <<root>> \o FlattenSeq([i \in DOMAIN keys |-> checkBucket(s, items[keys[i]].root)])

\* Tx.check: the kinds of errors it sends.
Check(s) ==
    LET met == checkBucket(s, s.root)
        reachable == UNION {Extent(s, met[i]) : i \in DOMAIN met}
        freed == s.free \cup s.pending
        error(kind, cond) == IF cond THEN {kind} ELSE {}
    IN  error("multiple references",
              \E i, j \in DOMAIN met : i # j /\ Extent(s, met[i]) \cap Extent(s, met[j]) # {})
        \cup error("out of bounds", \E pg \in reachable : pg >= s.hwm)
        \cup error("reachable freed", reachable \cap freed # {})
        \cup error("unreachable unfreed", ~(3..s.hwm - 1 \subseteq reachable \cup freed))

(* Mutant of Add: the depths are added up.                                  *)
AddDepths(a, c) ==
    [BucketN |-> a.BucketN + c.BucketN, InlineBucketN |-> a.InlineBucketN + c.InlineBucketN,
     KeyN |-> a.KeyN + c.KeyN, LeafPageN |-> a.LeafPageN + c.LeafPageN,
     LeafOverflowN |-> a.LeafOverflowN + c.LeafOverflowN, Depth |-> a.Depth + c.Depth]

\* BucketStats.Add, of the fields modelled.
Add(a, c) ==
    [BucketN |-> a.BucketN + c.BucketN, InlineBucketN |-> a.InlineBucketN + c.InlineBucketN,
     KeyN |-> a.KeyN + c.KeyN, LeafPageN |-> a.LeafPageN + c.LeafPageN,
     LeafOverflowN |-> a.LeafOverflowN + c.LeafOverflowN,
     Depth |-> IF a.Depth < c.Depth THEN c.Depth ELSE a.Depth]

NoStats == [BucketN |-> 0, InlineBucketN |-> 0, KeyN |-> 0, LeafPageN |-> 0, LeafOverflowN |-> 0, Depth |-> 0]

\* Bucket.Stats of the bucket with header it.
RECURSIVE Stats(_, _)
Stats(s, it) ==
    LET inline == it.root = 0
        items == IF inline THEN it.inline ELSE s.pages[it.root].items
        own == [BucketN |-> 1, InlineBucketN |-> IF inline THEN 1 ELSE 0,
                KeyN |-> Cardinality(DOMAIN items), LeafPageN |-> IF inline THEN 0 ELSE 1,
                LeafOverflowN |-> IF inline THEN 0 ELSE s.pages[it.root].overflow, Depth |-> 1]
        keys == Sorted(IF inline THEN {} ELSE Inside(items))
        sub == FoldLeft(LAMBDA acc, k : Add(acc, Stats(s, items[k])), NoStats, keys)
    IN  Add([own EXCEPT !.Depth = @ + sub.Depth], sub)

\* CompactCommand.walkBucket: what walk hands to its callback for bucket p and
\* everything in it.
RECURSIVE walkBucket(_, _)
walkBucket(s, p) ==
    LET o == Bucket(s, p)
        items == pageNode(o, p)
        keys == Sorted(DOMAIN items)
        entry(k) == IF items[k].bucket THEN walkBucket(o, Append(p, k))
                    ELSE <<[keys |-> p, k |-> k, v |-> items[k].len, seq |-> o.cache[p].seq]>>
        inside == FlattenSeq([i \in DOMAIN keys |-> entry(keys[i])])
    IN  IF p = <<>> THEN inside
        ELSE <<[keys |-> Front(p), k |-> Last(p), v |-> Nil, seq |-> o.cache[p].seq]>> \o inside

\* The function compact hands to walk: entry e goes into store d.s, whose
\* transaction is committed first if it had more than TxMaxSize bytes of keys
\* and values with it (a key is one byte).
CopyBegun(d, e) ==
    LET sz == 1 + (IF e.v = Nil THEN 0 ELSE e.v)
        full == d.size + sz > TxMaxSize /\ TxMaxSize # 0
    IN  [size |-> IF full THEN sz ELSE d.size + sz,
         s |-> Bucket(IF full THEN CommitTx(d.s, FALSE) ELSE d.s, e.keys)]

(* Mutant of CopyEntry: the sequence of a new bucket is forgotten.          *)
CopyEntryNoSequence(d, e) ==
    LET c == CopyBegun(d, e)
    IN  [c EXCEPT !.s = IF e.v = Nil THEN CreateBucket(@, e.keys, e.k) ELSE put(@, e.keys, e.k, Plain(e.v))]

CopyEntry(d, e) ==
    LET c == CopyBegun(d, e)
    IN  [c EXCEPT !.s = IF e.v = Nil
                        THEN SetSequence(CreateBucket(@, e.keys, e.k), Append(e.keys, e.k), e.seq)
                        ELSE put(@, e.keys, e.k, Plain(e.v))]

\* CompactCommand.compact, into a fresh store.
compact(s) ==
    CommitTx(FoldLeft(CopyEntry, [size |-> 0, s |-> Fresh], walkBucket(s, <<>>)).s, FALSE)

-----------------------------------------------------------------------------
\* Whatever was opened, created, filled, deleted or given a sequence is what the
\* buckets hold, in the transaction that did it, through its nodes and cached
\* headers, and after commits that move buckets between inline and paged
\* (bucket.go:103-345, 526-630).
ContentsMatch == Contents(t, <<>>) = want

\* No page is in two buckets, or free while a bucket uses it, and no assertion
\* fails, however buckets are inlined, moved out again and deleted
\* (tx.go:383-454, bucket.go:534, 555, 676-690).
PagesSound ==
    /\ ~t.panic
    /\ Untouched(t) => Check(t) \subseteq {"unreachable unfreed"}

\* "page %d: unreachable unfreed" is an error Tx.Check reports (tx.go:410): no
\* commit may leave a page that is neither used nor free.
NothingLeaks == Untouched(t) => "unreachable unfreed" \notin Check(t)

\* Stats counts each bucket, each item, each page and the longest chain of
\* buckets once (bucket.go:398-477, 753-770).
StatsExact ==
    Untouched(t) =>
        LET s == Stats(t, Header(t.root, 0, Nil))
            met == checkBucket(t, t.root)
        IN  /\ s.BucketN = Cardinality(DOMAIN want)
            /\ s.KeyN = s.BucketN - 1 + MapThenSumSet(LAMBDA p : Cardinality(DOMAIN want[p].vals), DOMAIN want)
            /\ s.InlineBucketN = s.BucketN - Len(met)
            /\ s.LeafPageN + s.LeafOverflowN = Cardinality(UNION {Extent(t, met[i]) : i \in DOMAIN met})
            /\ s.Depth = Max({Len(p) : p \in DOMAIN want}) + 1

\* A compacted copy holds the same buckets, values and sequences, wherever the
\* limit cuts it into transactions, and is consistent (main.go:1619-1722).
CompactCopies ==
    Untouched(t) =>
        LET d == compact(t)
        IN  Contents(d, <<>>) = want /\ Check(d) = {} /\ ~d.panic
=============================================================================
