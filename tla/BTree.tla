------------------------------- MODULE BTree -------------------------------
(***************************************************************************)
(* The B+tree of one paged bucket: lookups over pages and materialised      *)
(* nodes, node.put and node.del, and the commit of a transaction, which     *)
(* rebalances the touched nodes in the order of a Go map and then spills    *)
(* them to new pages (node.go, and the parts of bucket.go and cursor.go     *)
(* that node.go works with).                                                *)
(*                                                                          *)
(* Indexes are 1-based.  A key is a positive number.  In a leaf an inode's  *)
(* ref is its value, and a value is its length; in a branch ref is a page.  *)
(* A node is identified by the page it was read from; the nodes spill       *)
(* makes have negative ids.  Every page is written to a place free since    *)
(* before the transaction, so a page read once never changes.               *)
(***************************************************************************)
EXTENDS PageStore, Inodes, FiniteSets, TLC

CONSTANTS
    Keys,        \* keys the operations use, positive numbers
    Values,      \* lengths of the values they put
    Loads,       \* key sets a bucket may be filled with at the start
    PageSize,    \* db.pageSize
    FillPercent, \* Bucket.FillPercent, in hundredths
    MaxOps,      \* bound on the Puts and Deletes of a behaviour
    MaxTx        \* bound on its transactions

VARIABLES
    b,      \* the Bucket: root page, node cache, and the pages it works with
    phase,  \* "open", "rebalance", "spill", "done", or "panic"
    visit,  \* nodes Bucket.rebalance's loop has yet to reach
    want,   \* history: what the calls put into the bucket, key by key
    ops,    \* Puts and Deletes so far
    txs     \* transactions begun so far

treeVars == <<b, phase, visit, want, ops, txs>>

AllKeys == Keys \cup UNION Loads

None == -1   \* no node
NoKey == 0   \* a nil key
NoPage == 0  \* the page id of what has no page yet

\* The members of S in the order of their ranks.
Ranked(S, rank(_)) ==
    [i \in 1..Cardinality(S) |->
        CHOOSE x \in S : Cardinality({y \in S : rank(y) < rank(x)}) = i - 1]

\* node.del on node n of bucket t; a key that is not there changes nothing.
del(t, n, key) ==
    LET i == Search(t.nodes[n].inodes, key)
    IN  IF Found(t.nodes[n].inodes, i, key)
        THEN [t EXCEPT !.nodes[n].inodes = RemoveAt(@, i), !.nodes[n].unbalanced = TRUE]
        ELSE t

\* Writes a node's inodes to newly allocated pages; .at is where.
WriteNode(t, leaf, inodes) ==
    LET count == size([leaf |-> leaf, inodes |-> inodes]) \div PageSize + 1
        pg == allocate(t, count)
    IN  [at |-> pg,
         t  |-> Place(t, pg, [leaf |-> leaf, inodes |-> inodes, overflow |-> count - 1])]

(***************************************************************************)
(* Nodes.                                                                   *)
(***************************************************************************)
\* node.read: a node holding a page's elements, under its parent.
read(t, pg, parent) ==
    LET p == t.pages[pg]
    IN  [leaf |-> p.leaf, inodes |-> p.inodes, pgid |-> pg, parent |-> parent, children |-> {},
         key |-> IF p.inodes = <<>> THEN NoKey ELSE p.inodes[1].key,
         unbalanced |-> FALSE, spilled |-> FALSE]

\* Bucket.node: the cached node of a page, read and hung under parent at first.
node(t, pg, parent) ==
    IF pg \in DOMAIN t.nodes THEN t
    ELSE LET cached == [t EXCEPT !.nodes = (pg :> read(t, pg, parent)) @@ @]
         IN  IF parent = None
             THEN [cached EXCEPT !.rootNode = pg]
             ELSE [cached EXCEPT !.nodes[parent].children = @ \cup {pg}]

RECURSIVE rootOf(_, _)
rootOf(t, n) == IF t.nodes[n].parent = None THEN n ELSE rootOf(t, t.nodes[n].parent)

(* Mutant of Discard: the node stays in the cache.                          *)
DiscardCached(t, n) == IF t.nodes[n].pgid = NoPage THEN t ELSE FreePage(t, t.nodes[n].pgid)

\* node.free, with its removal from the node cache.
Discard(t, n) ==
    LET freed == IF t.nodes[n].pgid = NoPage THEN t ELSE FreePage(t, t.nodes[n].pgid)
    IN  [freed EXCEPT !.nodes = [m \in DOMAIN @ \ {n} |-> @[m]]]

removeChild(t, parent, n) == [t EXCEPT !.nodes[parent].children = @ \ {n}]

childIndex(t, parent, n) == Search(t.nodes[parent].inodes, t.nodes[n].key)

(***************************************************************************)
(* Lookups.  A reference is to a node when the page has one, to the page    *)
(* otherwise, and keeps being so when a node is made later.                 *)
(***************************************************************************)
pageNode(t, pg) == [pgid |-> pg, node |-> pg \in DOMAIN t.nodes]

Elem(t, ref) == IF ref.node THEN t.nodes[ref.pgid] ELSE t.pages[ref.pgid]

\* Cursor.search: the references from page pg down to the leaf, each with the
\* index it is left at.
RECURSIVE search(_, _, _)
search(t, key, pg) ==
    LET ref == pageNode(t, pg)
        e == Elem(t, ref)
        at(i) == ref @@ [index |-> i]
    IN  IF e.leaf
        THEN <<at(Search(e.inodes, key))>>
        ELSE LET i == Descend(e.inodes, key)
             IN  <<at(i)>> \o search(t, key, e.inodes[i].ref)

\* Cursor.keyValue: the element under the last reference, if there is one.
keyValue(t, stack) ==
    LET ref == stack[Len(stack)]
        inodes == Elem(t, ref).inodes
    IN  IF ref.index \in 1..Len(inodes) THEN inodes[ref.index] ELSE [key |-> NoKey, ref |-> 0]

\* Cursor.node: materialises the path to the leaf; .n is its node.
cursorNode(t, stack) ==
    LET top == stack[Len(stack)]
        start == [t |-> node(t, stack[1].pgid, None), n |-> stack[1].pgid]
        childAt(acc, ref) ==
            LET pg == acc.t.nodes[acc.n].inodes[ref.index].ref
            IN  [t |-> node(acc.t, pg, acc.n), n |-> pg]
    IN  IF top.node /\ Elem(t, top).leaf
        THEN [t |-> t, n |-> top.pgid]
        ELSE FoldLeft(childAt, start, SubSeq(stack, 1, Len(stack) - 1))

Get(t, key) ==
    LET kv == keyValue(t, search(t, key, t.root))
    IN  IF kv.key = key THEN kv.ref ELSE None

(***************************************************************************)
(* Rebalancing.                                                             *)
(***************************************************************************)
\* The cached nodes under the moved inodes become children of node to.
Reparent(t, moved, leaf, to) ==
    LET kids == IF leaf THEN {} ELSE {moved[i].ref : i \in 1..Len(moved)} \cap DOMAIN t.nodes
    IN  [t EXCEPT !.nodes = [m \in DOMAIN @ |->
            CASE m \in kids -> [@[m] EXCEPT !.parent = to]
              [] m = to     -> [@[m] EXCEPT !.children = @ \cup kids]
              [] OTHER      -> [@[m] EXCEPT !.children = @ \ kids]]]

\* A root branch with one child takes the child's place.
CollapseRoot(t, n) ==
    LET pg == t.nodes[n].inodes[1].ref
        read1 == node(t, pg, n)
        child == read1.nodes[pg]
        up == [read1 EXCEPT !.nodes[n].leaf = child.leaf,
                            !.nodes[n].inodes = child.inodes,
                            !.nodes[n].children = child.children]
        kids == IF child.leaf THEN {} ELSE {child.inodes[i].ref : i \in 1..Len(child.inodes)}
    IN  Discard([up EXCEPT !.nodes = [m \in DOMAIN @ |->
                    IF m \in kids THEN [@[m] EXCEPT !.parent = n] ELSE @[m]]], pg)

\* Takes node n, which is empty or merged away, out of its parent.
Unlink(t, parent, n) ==
    Discard(removeChild(del(t, parent, t.nodes[n].key), parent, n), n)

(* Mutant of Merge: the moved inodes come first.                            *)
MergeInFront(t, parent, into, from) ==
    LET moved == t.nodes[from].inodes
        reparented == Reparent(t, moved, t.nodes[from].leaf, into)
    IN  Unlink([reparented EXCEPT !.nodes[into].inodes = moved \o @], parent, from)

\* Moves the inodes of node from behind those of its left neighbour into.
Merge(t, parent, into, from) ==
    LET moved == t.nodes[from].inodes
        reparented == Reparent(t, moved, t.nodes[from].leaf, into)
        joined == [reparented EXCEPT !.nodes[into].inodes = @ \o moved]
    IN  Unlink(joined, parent, from)

\* node.rebalance, up to the root.
RECURSIVE rebalance(_, _)
rebalance(t, n) ==
    LET nd == t.nodes[n]
        t1 == [t EXCEPT !.nodes[n].unbalanced = FALSE]
        parent == nd.parent
        siblings == t1.nodes[parent].inodes
        i == childIndex(t1, parent, n)
        sibling == siblings[IF i = 1 THEN 2 ELSE i - 1].ref
        t2 == node(t1, sibling, parent)
    IN  IF ~nd.unbalanced \/ t.panic THEN t
        ELSE IF size(nd) > PageSize \div 4 /\ Len(nd.inodes) > minKeys(nd) THEN t1
        ELSE IF parent = None
             THEN IF ~nd.leaf /\ Len(nd.inodes) = 1 THEN CollapseRoot(t1, n) ELSE t1
        ELSE IF nd.inodes = <<>> THEN rebalance(Unlink(t1, parent, n), parent)
        ELSE IF Len(siblings) < 2 THEN [t1 EXCEPT !.panic = TRUE]
        ELSE IF i = 1 THEN rebalance(Merge(t2, parent, n, sibling), parent)
        ELSE rebalance(Merge(t2, parent, sibling, n), parent)

(***************************************************************************)
(* Spilling.                                                                *)
(***************************************************************************)
\* node.split: the inodes of node n cut into those of one page each.
RECURSIVE split(_)
split(n) ==
    LET two == splitTwo(n, PageSize, (PageSize * FillPercent) \div 100)
    IN  <<two.left>> \o (IF two.right = <<>> THEN <<>> ELSE split([n EXCEPT !.inodes = two.right]))

\* A new root above node n.
NewRoot(t, n) ==
    LET id == (CHOOSE i \in DOMAIN t.nodes \cup {None} : \A j \in DOMAIN t.nodes \cup {None} : i <= j) - 1
    IN  [t EXCEPT !.nodes = (id :> [leaf |-> FALSE, inodes |-> <<>>, pgid |-> NoPage,
                                    parent |-> None, children |-> {}, key |-> NoKey,
                                    unbalanced |-> FALSE, spilled |-> FALSE])
                             @@ [@ EXCEPT ![n].parent = id]]

\* Writes a part and records in the node that it has been.
WritePart(t, n, inodes, isFirst) ==
    LET w == WriteNode(t, t.nodes[n].leaf, inodes)
    IN  [at |-> w.at,
         t  |-> IF ~isFirst THEN w.t
                ELSE [w.t EXCEPT !.nodes[n].pgid = w.at, !.nodes[n].inodes = inodes,
                                 !.nodes[n].spilled = TRUE]]

(* Mutant of TellParent: the parent keeps the key it had for the node.      *)
TellParentOldKey(w, n, inodes, isFirst) ==
    LET parent == w.t.nodes[n].parent
        old == IF isFirst /\ w.t.nodes[n].key # NoKey THEN w.t.nodes[n].key ELSE inodes[1].key
    IN  IF parent = None THEN w.t ELSE [w.t EXCEPT !.nodes[parent].inodes = put(@, old, old, w.at)]

\* The parent, which knew the first part by n's key and does not know the
\* others, gets the page w.at of the part just written.
TellParent(w, n, inodes, isFirst) ==
    LET parent == w.t.nodes[n].parent
        first == inodes[1].key
        old == IF isFirst /\ w.t.nodes[n].key # NoKey THEN w.t.nodes[n].key ELSE first
        told == [w.t EXCEPT !.nodes[parent].inodes = put(@, old, first, w.at)]
    IN  IF parent = None THEN w.t
        ELSE IF inodes = <<>> THEN [w.t EXCEPT !.panic = TRUE]
        ELSE IF isFirst THEN [told EXCEPT !.nodes[n].key = first] ELSE told

SpillPart(t, n, inodes, isFirst) == TellParent(WritePart(t, n, inodes, isFirst), n, inodes, isFirst)

\* Frees a node's page, if it has one.
FreeOld(t, n) ==
    IF t.nodes[n].pgid = NoPage THEN t
    ELSE [FreePage(t, t.nodes[n].pgid) EXCEPT !.nodes[n].pgid = NoPage]

\* Node n's own parts, under a new root if the split has made one.
SpillParts(t, n) ==
    LET parts == split(t.nodes[n])
        newRoot == t.nodes[n].parent = None /\ Len(parts) > 1
    IN  FoldLeftDomain(LAMBDA acc, i : SpillPart(acc, n, parts[i], i = 1),
                       IF newRoot THEN NewRoot(FreeOld(t, n), n) ELSE FreeOld(t, n),
                       parts)

RECURSIVE spill(_, _), SpillUp(_, _)

\* node.spill: the children in key order, then the node's own parts, then the
\* root above them.
spill(t, n) ==
    LET kids == t.nodes[n].children
        firstKey(m) == t.nodes[m].inodes[1].key
        below == FoldLeft(LAMBDA acc, c : spill(acc, c), t, Ranked(kids, firstKey))
    IN  IF t.panic \/ t.nodes[n].spilled THEN t
        ELSE IF Cardinality(kids) > 1 /\ \E c \in kids : t.nodes[c].inodes = <<>>
             THEN [t EXCEPT !.panic = TRUE]
             ELSE SpillUp(SpillParts([below EXCEPT !.nodes[n].children = {}], n), n)

\* A root that has no page yet is spilled, too.
SpillUp(t, n) ==
    LET parent == t.nodes[n].parent
    IN  IF ~t.panic /\ parent # None /\ t.nodes[parent].pgid = NoPage THEN spill(t, parent) ELSE t

(***************************************************************************)
(* The calls of a transaction and its commit.                               *)
(***************************************************************************)
\* The leaf holding a load, in a bucket that has no page yet.
Loaded(load) ==
    [leaf |-> TRUE,
     inodes |-> LET keys == Ranked(load, LAMBDA k : k)
                IN  [i \in DOMAIN keys |-> [key |-> keys[i], ref |-> 0]],
     pgid |-> NoPage, parent |-> None, children |-> {}, key |-> NoKey,
     unbalanced |-> FALSE, spilled |-> FALSE]

Init ==
    \E load \in Loads :
        /\ b = [root |-> NoPage, rootNode |-> NoPage, nodes |-> (NoPage :> Loaded(load)),
                pages |-> <<>>, free |-> {}, pending |-> {}, hwm |-> 4, panic |-> FALSE]
        /\ phase = "spill" /\ visit = {} /\ ops = 0 /\ txs = 1
        /\ want = [k \in AllKeys |-> IF k \in load THEN 0 ELSE None]

\* Bucket.Put of a plain value.
Put(key, v) ==
    /\ phase = "open" /\ ops < MaxOps
    /\ LET c == cursorNode(b, search(b, key, b.root))
       IN  b' = [c.t EXCEPT !.nodes[c.n].inodes = put(@, key, key, v)]
    /\ want' = [want EXCEPT ![key] = v]
    /\ ops' = ops + 1
    /\ UNCHANGED <<phase, visit, txs>>

\* Bucket.Delete of a plain value, which materialises the leaf either way.
Delete(key) ==
    /\ phase = "open" /\ ops < MaxOps
    /\ LET c == cursorNode(b, search(b, key, b.root))
       IN  b' = del(c.t, c.n, key)
    /\ want' = [want EXCEPT ![key] = None]
    /\ ops' = ops + 1
    /\ UNCHANGED <<phase, visit, txs>>

\* Tx.Commit reaches Bucket.rebalance.
Commit ==
    /\ phase = "open"
    /\ phase' = "rebalance"
    /\ visit' = DOMAIN b.nodes
    /\ UNCHANGED <<b, want, ops, txs>>

Outcome(t, next) == IF t.panic THEN "panic" ELSE next

\* One turn of Bucket.rebalance's loop, whose map may come in any order.  Nodes
\* the turn discards are not visited; those it makes have nothing to do.
Rebalance(n) ==
    /\ phase = "rebalance" /\ n \in visit
    /\ b' = rebalance(b, n)
    /\ visit' = (visit \ {n}) \cap DOMAIN b'.nodes
    /\ phase' = Outcome(b', "rebalance")
    /\ UNCHANGED <<want, ops, txs>>

Rebalanced ==
    /\ phase = "rebalance" /\ visit = {}
    /\ phase' = "spill"
    /\ UNCHANGED <<b, visit, want, ops, txs>>

\* Bucket.spill of a bucket that stays paged, and the end of the transaction:
\* its nodes are dropped and what it freed is free for the next one.
Spill ==
    /\ phase = "spill"
    /\ \E t \in {IF b.rootNode = None THEN b ELSE spill(b, b.rootNode)} :
          /\ b' = IF t.panic THEN t
                  ELSE [Released(t) EXCEPT !.root = IF b.rootNode = None THEN @
                                                    ELSE t.nodes[rootOf(t, b.rootNode)].pgid,
                                           !.rootNode = None, !.nodes = <<>>]
          /\ phase' = Outcome(t, IF txs = MaxTx THEN "done" ELSE "open")
    /\ txs' = IF txs = MaxTx THEN txs ELSE txs + 1
    /\ UNCHANGED <<visit, want, ops>>

Finished == phase \in {"done", "panic"} /\ UNCHANGED treeVars

Next ==
    \/ \E key \in Keys, v \in Values : Put(key, v)
    \/ \E key \in Keys : Delete(key)
    \/ Commit
    \/ \E n \in visit : Rebalance(n)
    \/ Rebalanced
    \/ Spill
    \/ Finished

Spec == Init /\ [][Next]_treeVars

-----------------------------------------------------------------------------
\* Every lookup finds what the calls so far have put there, in the middle of a
\* transaction, while its nodes merge, and after its pages are written
\* (cursor.go:154-315 over node.go:116-158, 409-508 and 339-405).
LookupsMatch == phase # "panic" => \A k \in AllKeys : Get(b, k) = want[k]

\* No assertion or index of node.go fails and no page is freed twice, in any
\* order of the map of nodes (node.go:388, 460, 592, freelist.go:117-137).
NoPanic == phase # "panic"

Written == phase \in {"open", "done"} /\ DOMAIN b.nodes = {}

RECURSIVE PagesUnder(_)
PagesUnder(pg) ==
    LET p == b.pages[pg]
    IN  IF p.leaf THEN <<pg>>
        ELSE <<pg>> \o FlattenSeq([i \in DOMAIN p.inodes |-> PagesUnder(p.inodes[i].ref)])

\* A page is never in two nodes, nor free while one uses it, in the middle of a
\* commit either; and after it the pages in use are those of the tree, each under
\* one parent: none is lost (node.go:363, 502, 559, tx.go:383-445).
PagesOnce ==
    /\ PagesPartitioned(b, 4)
    /\ Written => LET met == PagesUnder(b.root)
                  IN  IsInjective(met) /\ ToSet(met) = Live(b)

RECURSIVE Sound(_, _, _)
\* The keys under page pg are ordered and lie in lo..hi; the result is the depth
\* of the subtree, or 0 when it is not sound.
Sound(pg, lo, hi) ==
    LET p == b.pages[pg]
        key(i) == p.inodes[i].key
        n == Len(p.inodes)
        upper(i) == IF i = n THEN hi ELSE key(i + 1) - 1
        depths == {Sound(p.inodes[i].ref, key(i), upper(i)) : i \in 1..n}
        ordered == \A i \in 1..n : lo <= key(i) /\ key(i) <= upper(i)
        filled == n >= (IF pg = b.root THEN 0 ELSE 1) /\ (p.leaf \/ n >= 2)
        spread == n > 2 * minKeysPerPage => p.overflow = 0
    IN  IF ~(ordered /\ filled /\ spread) THEN 0
        ELSE IF p.leaf THEN 1
        ELSE IF Cardinality(depths) = 1 /\ 0 \notin depths THEN (CHOOSE d \in depths : TRUE) + 1
        ELSE 0

\* After a commit the pages form a B+tree: ordered, with separators that bound
\* what is below them, all leaves at one depth, no empty page but the root, no
\* branch of a single child, and overflow pages only for few large items; and in
\* the middle of a transaction each node is ordered, as sort.Search needs
\* (node.go:116-158, 250-335, 339-405, 409-508).
TreeSound ==
    /\ Written => Sound(b.root, 0, CHOOSE k \in AllKeys : \A j \in AllKeys : j <= k) # 0
    /\ \A n \in DOMAIN b.nodes :
         LET l == b.nodes[n].inodes
         IN  \A i \in 1..Len(l) - 1 : l[i].key < l[i + 1].key
=============================================================================
