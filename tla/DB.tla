-------------------------------- MODULE DB --------------------------------
(***************************************************************************)
(* The transaction lifecycle of the database, page by page: db.go, tx.go   *)
(* and freelist.go (through FreelistOps).                                  *)
(*                                                                         *)
(* A page holds the number of the write transaction that wrote it (gen)    *)
(* and, for the page of a freelist, the ids stored there.  A node is a     *)
(* branch or leaf page with its overflow pages; a meta names the nodes of  *)
(* its tree instead of the root they are reached from.  What a transaction *)
(* does to the tree is left open: it frees any of the nodes it found and   *)
(* allocates new ones, which is all that put, delete, rebalance and spill  *)
(* do to pages.                                                            *)
(*                                                                         *)
(* file and slot are what the process sees (the mmap and the page cache);  *)
(* disk and dslot are what survives a power failure for certain.           *)
(***************************************************************************)
EXTENDS FreelistOps

CONSTANTS
    Readers,      \* the goroutines that open read transactions
    NoMeta,       \* tx.meta of a reader without a transaction
    Faults,       \* the calls that may fail, a subset of FaultPoints
    NodeLengths,  \* lengths of the nodes a transaction allocates, in pages
    MaxPage,      \* bound: the last page of the file
    MaxNew,       \* bound: nodes one transaction allocates
    MaxGen        \* bound: write transactions begun

(* "alloc": mmap too large or Stat failing before munmap in db.allocate;   *)
(* "write": writeAt of a data page, or grow; "sync": the fdatasync after   *)
(* the data pages; "metawrite": writeAt of the meta page, may tear it;     *)
(* "metasync": the fdatasync after the meta page; "kill": the process      *)
(* dies; "power": the machine does.                                        *)
FaultPoints ==
    {"alloc", "write", "sync", "metawrite", "metasync", "kill", "power"}

Pages == 0 .. MaxPage

(* A node: its first page, how many pages it has, who wrote it.            *)
Nodes ==
    {n \in [id : Nat, len : Nat \ {0}, gen : Nat] : n.id + n.len <= MaxPage + 1}

Metas == [ok : BOOLEAN, txid : Nat, pgid : Nat, flist : Nodes,
          tree : SUBSET Nodes, gen : Nat]

ASSUME DBAssumption ==
    /\ MaxPage \in Nat /\ MaxPage >= 3
    /\ MaxNew \in Nat
    /\ MaxGen \in Nat
    /\ NodeLengths \subseteq Nat \ {0}
    /\ Faults \subseteq FaultPoints
    /\ NoMeta \notin Metas \cup Nat

VARIABLES
    opened,       \* db.opened
    file,         \* content of each page, as read through the mmap
    disk,         \* content of each page on the device
    slot,         \* the two meta pages, as read through the mmap
    dslot,        \* the two meta pages on the device
    ids,          \* db.freelist.ids
    pending,      \* db.freelist.pending, as pairs <<txid, page>>
    cache,        \* db.freelist.cache
    rmeta,        \* db.txs: tx.meta of each reader, NoMeta when closed
    phase,        \* how far the write transaction got
    wmeta,        \* db.rwtx.meta
    dirty,        \* tx.pages of the write transaction: nodes not yet written
    wlist,        \* the ids freelist.write put on the new freelist page
    gen,          \* write transactions begun so far
    acked         \* gen of the last commit that returned nil, or recovered

storage == <<file, disk, slot, dslot>>
freelist == <<ids, pending, cache>>
rwtx == <<phase, wmeta, dirty, wlist>>
vars == <<opened, storage, freelist, rmeta, rwtx, gen, acked>>

-----------------------------------------------------------------------------
NodePages(n) == Run(n.id, n.len)

PagesOf(nodes) == UNION {NodePages(n) : n \in nodes}

(* Every page a version needs: its tree and its freelist.                  *)
NodesOf(m) == m.tree \cup {m.flist}

Used(m) == PagesOf(NodesOf(m))

(* Mutant of Newer: the first meta page, whatever its transaction id.      *)
NewerIsFirst(s) == 0

(* Mutant of Meta: the newest meta page, valid or not.                     *)
MetaUnchecked(s) == IF s[1].txid > s[0].txid THEN s[1] ELSE s[0]

(* db.meta: the valid meta page with the highest transaction id.           *)
Newer(s) == IF s[1].txid > s[0].txid THEN 1 ELSE 0

Meta(s) == IF s[Newer(s)].ok THEN s[Newer(s)] ELSE s[1 - Newer(s)]

(* A meta page whose checksum does not match.                              *)
Torn(m) == [m EXCEPT !.ok = FALSE]

OpenTxs == {r \in Readers : rmeta[r] # NoMeta}

(* db.allocate: the lowest block of n free pages, else the end of the file.*)
Allocated(n) ==
    IF Fits(ids, n) # {}
      THEN {id \in Fits(ids, n) : LowestFit(ids, n, id)}
      ELSE {wmeta.pgid}

HighWater(id, n) == IF id = wmeta.pgid THEN id + n ELSE wmeta.pgid

-----------------------------------------------------------------------------
(* db.init, then Open: two equal metas, an empty freelist at page 2 and an *)
(* empty root leaf at page 3.                                              *)
InitialMeta(txid) ==
    [ok |-> TRUE, txid |-> txid, pgid |-> 4, gen |-> 1,
     flist |-> [id |-> 2, len |-> 1, gen |-> 1],
     tree |-> {[id |-> 3, len |-> 1, gen |-> 1]}]

InitialFile ==
    [p \in Pages |-> [gen |-> IF p \in {2, 3} THEN 1 ELSE 0, ids |-> {}]]

NoWriter ==
    /\ phase = "none"
    /\ wmeta = NoMeta
    /\ dirty = {}
    /\ wlist = {}

Init ==
    /\ opened = TRUE
    /\ file = InitialFile /\ disk = InitialFile
    /\ slot = [i \in {0, 1} |-> InitialMeta(i)]
    /\ dslot = [i \in {0, 1} |-> InitialMeta(i)]
    /\ ids = {} /\ pending = {} /\ cache = {}
    /\ rmeta = [r \in Readers |-> NoMeta]
    /\ NoWriter
    /\ gen = 1
    /\ acked = 1

-----------------------------------------------------------------------------
(* Read transactions.                                                      *)

(* db.beginTx: copy the meta page, join db.txs.                            *)
BeginTx(r) ==
    /\ opened
    /\ rmeta[r] = NoMeta
    /\ rmeta' = [rmeta EXCEPT ![r] = Meta(slot)]
    /\ UNCHANGED <<opened, storage, freelist, rwtx, gen, acked>>

(* tx.close of a read transaction: db.removeTx.                            *)
CloseTx(r) ==
    /\ opened
    /\ rmeta[r] # NoMeta
    /\ rmeta' = [rmeta EXCEPT ![r] = NoMeta]
    /\ UNCHANGED <<opened, storage, freelist, rwtx, gen, acked>>

-----------------------------------------------------------------------------
(* The write transaction.                                                  *)

(* Mutant of Releasable: open readers are forgotten.                       *)
ReleasableAll == pending

(* freelist.release(minid - 1), minid the oldest open read transaction.    *)
Releasable ==
    {pr \in pending : \A r \in OpenTxs : pr[1] < rmeta[r].txid}

(* db.beginRWTx.                                                           *)
BeginRWTx ==
    /\ opened
    /\ phase = "none"
    /\ gen < MaxGen
    /\ gen' = gen + 1
    /\ phase' = "open"
    /\ wmeta' = [Meta(slot) EXCEPT !.txid = @ + 1, !.gen = gen']
    /\ ids' = ids \cup PendingPages(Releasable)
    /\ pending' = pending \ Releasable
    /\ UNCHANGED <<opened, storage, cache, rmeta, dirty, wlist, acked>>

(* node.free: freelist.free of a node this transaction found in the tree;  *)
(* freeing a page that is free already panics.                             *)
FreeNode(n) ==
    /\ phase = "open"
    /\ n \in wmeta.tree
    /\ n.gen # wmeta.gen
    /\ IF NodePages(n) \cap cache # {}
         THEN phase' = "panicked" /\ UNCHANGED <<pending, cache, wmeta>>
         ELSE /\ pending' = pending \cup FreedBy(wmeta.txid, NodePages(n))
              /\ cache' = cache \cup NodePages(n)
              /\ wmeta' = [wmeta EXCEPT !.tree = @ \ {n}]
              /\ UNCHANGED phase
    /\ UNCHANGED <<opened, storage, ids, rmeta, dirty, wlist, gen, acked>>

(* node.spill: tx.allocate gives a dirty node its pages.                   *)
AllocNode(len, id) ==
    /\ phase = "open"
    /\ Cardinality(dirty) < MaxNew
    /\ id \in Allocated(len)
    /\ id + len <= MaxPage + 1
    /\ LET new == [id |-> id, len |-> len, gen |-> wmeta.gen] IN
         /\ ids' = ids \ NodePages(new)
         /\ cache' = cache \ NodePages(new)
         /\ dirty' = dirty \cup {new}
         /\ wmeta' = [wmeta EXCEPT !.tree = @ \cup {new},
                                   !.pgid = HighWater(id, len)]
    /\ UNCHANGED <<opened, storage, pending, rmeta, phase, wlist, gen, acked>>

(* tx.Commit from freeing the old freelist to freelist.write: the new list *)
(* is sized before its own pages are taken from it.                        *)
CommitFreelist(id) ==
    LET old == NodePages(wmeta.flist)
        freed == pending \cup FreedBy(wmeta.txid, old)
        len == ListPages(Cardinality(ids) + Cardinality(freed))
        new == [id |-> id, len |-> len, gen |-> wmeta.gen]
    IN
    /\ phase = "open"
    /\ wmeta.tree # {}
    /\ id \in Allocated(len)
    /\ id + len <= MaxPage + 1
    /\ IF old \cap cache # {}
         THEN phase' = "panicked" /\ UNCHANGED <<freelist, dirty, wmeta, wlist>>
         ELSE /\ phase' = "listed"
              /\ pending' = freed
              /\ ids' = ids \ NodePages(new)
              /\ cache' = (cache \cup old) \ NodePages(new)
              /\ dirty' = dirty \cup {new}
              /\ wmeta' = [wmeta EXCEPT !.flist = new,
                                        !.pgid = HighWater(id, len)]
              /\ wlist' = Listed(ids', pending')
    /\ UNCHANGED <<opened, storage, rmeta, gen, acked>>

(* What writing the nodes of done leaves in the file.                      *)
Content(p) ==
    [gen |-> wmeta.gen, ids |-> IF p = wmeta.flist.id THEN wlist ELSE {}]

Written(done) ==
    [p \in Pages |-> IF p \in PagesOf(done) THEN Content(p) ELSE file[p]]

(* tx.write up to its fdatasync.                                           *)
WritePages ==
    /\ phase = "listed"
    /\ file' = Written(dirty)
    /\ dirty' = {}
    /\ phase' = "written"
    /\ UNCHANGED <<opened, disk, slot, dslot, freelist, rmeta, wmeta, wlist,
                   gen, acked>>

(* Mutant of SyncPages: the data pages are not synced before the meta page.*)
SyncPagesSkipped ==
    /\ phase = "written"
    /\ phase' = "synced"
    /\ UNCHANGED <<opened, storage, freelist, rmeta, wmeta, dirty, wlist,
                   gen, acked>>

(* fdatasync: everything the process wrote reaches the device.             *)
SyncPages ==
    /\ phase = "written"
    /\ disk' = file
    /\ dslot' = slot
    /\ phase' = "synced"
    /\ UNCHANGED <<opened, file, slot, freelist, rmeta, wmeta, dirty, wlist,
                   gen, acked>>

(* Mutant of MetaSlot: the page of the version the transaction began from. *)
MetaSlotCurrent(m) == (m.txid + 1) % 2

(* meta.write: the meta pages take turns.                                  *)
MetaSlot(m) == m.txid % 2

(* tx.writeMeta up to its fdatasync; meta.write panics when a page named   *)
(* by the meta is beyond its high water mark.                              *)
WriteMeta ==
    /\ phase = "synced"
    /\ IF \E n \in NodesOf(wmeta) : n.id >= wmeta.pgid
         THEN phase' = "panicked" /\ UNCHANGED slot
         ELSE /\ phase' = "meta"
              /\ slot' = [slot EXCEPT ![MetaSlot(wmeta)] = wmeta]
    /\ UNCHANGED <<opened, file, disk, dslot, freelist, rmeta, wmeta, dirty,
                   wlist, gen, acked>>

(* Mutant of EndWriter: db.rwtx is left behind.                            *)
EndWriterKeepsTx ==
    /\ phase' = "none"
    /\ UNCHANGED wmeta
    /\ dirty' = {}
    /\ wlist' = {}

(* tx.close of the write transaction.                                      *)
EndWriter ==
    /\ phase' = "none"
    /\ wmeta' = NoMeta
    /\ dirty' = {}
    /\ wlist' = {}

(* The fdatasync of tx.writeMeta and tx.close: Commit returns nil.         *)
SyncMeta ==
    /\ phase = "meta"
    /\ disk' = file
    /\ dslot' = slot
    /\ acked' = wmeta.gen
    /\ EndWriter
    /\ UNCHANGED <<opened, file, slot, freelist, rmeta, gen>>

-----------------------------------------------------------------------------
(* tx.rollback: freelist.rollback, then freelist.reload from the page the  *)
(* meta names, as f and s are when it runs.                                *)
ListOnPage(f, s) == f[Meta(s).flist.id].ids

(* Mutant of Reloaded: pending pages of the list are not filtered out.     *)
ReloadedUnfiltered(pend, list) == ReadBack(list)

Reloaded(pend, list) == ReadBack(list) \ PendingPages(pend)

(* Mutant of RollbackTx: the cache is not rebuilt.                         *)
RollbackTxNoReindex(f, s) ==
    LET kept == Without(pending, wmeta.txid) IN
    /\ pending' = kept
    /\ ids' = Reloaded(kept, ListOnPage(f, s))
    /\ UNCHANGED cache
    /\ EndWriter

RollbackTx(f, s) ==
    LET kept == Without(pending, wmeta.txid)
        free == Reloaded(kept, ListOnPage(f, s))
    IN
    /\ pending' = kept
    /\ ids' = free
    /\ cache' = free \cup PendingPages(kept)
    /\ EndWriter

(* Tx.Rollback, and Update when its function fails or panics.              *)
Rollback ==
    /\ phase = "open"
    /\ RollbackTx(file, slot)
    /\ UNCHANGED <<opened, storage, rmeta, gen, acked>>

(* Commit when a call fails: tx.rollback, and the error is returned.       *)
AllocFails ==
    /\ "alloc" \in Faults
    /\ phase = "open"
    /\ RollbackTx(file, slot)
    /\ UNCHANGED <<opened, storage, rmeta, gen, acked>>

(* Pages are written in the order of their ids, up to the failing one.     *)
WriteFails ==
    /\ "write" \in Faults
    /\ phase = "listed"
    /\ \E n \in dirty :
         LET f == Written({m \in dirty : m.id < n.id}) IN
           /\ file' = f
           /\ RollbackTx(f, slot)
    /\ UNCHANGED <<opened, disk, slot, dslot, rmeta, gen, acked>>

SyncFails ==
    /\ "sync" \in Faults
    /\ phase = "written"
    /\ RollbackTx(file, slot)
    /\ UNCHANGED <<opened, storage, rmeta, gen, acked>>

(* Nothing of the meta page was written, or a part of it.                  *)
MetaWriteFails ==
    /\ "metawrite" \in Faults
    /\ phase = "synced"
    /\ \E s \in {slot, [slot EXCEPT ![MetaSlot(wmeta)] = Torn(wmeta)]} :
         /\ slot' = s
         /\ RollbackTx(file, s)
    /\ UNCHANGED <<opened, file, disk, dslot, rmeta, gen, acked>>

MetaSyncFails ==
    /\ "metasync" \in Faults
    /\ phase = "meta"
    /\ RollbackTx(file, slot)
    /\ UNCHANGED <<opened, storage, rmeta, gen, acked>>

-----------------------------------------------------------------------------
(* Opening, closing, crashing.                                             *)

(* Open: freelist.read of the page the meta names; nothing is pending.     *)
Open ==
    /\ ~opened
    /\ opened' = TRUE
    /\ ids' = ReadBack(ListOnPage(file, slot))
    /\ pending' = {}
    /\ cache' = ids'
    /\ UNCHANGED <<storage, rmeta, rwtx, gen, acked>>

NoFreelist == ids' = {} /\ pending' = {} /\ cache' = {}

(* db.Close: all transactions are closed before, as its comment demands.   *)
Close ==
    /\ opened
    /\ phase = "none"
    /\ OpenTxs = {}
    /\ opened' = FALSE
    /\ NoFreelist
    /\ UNCHANGED <<storage, rmeta, rwtx, gen, acked>>

(* The memory of the process is gone.                                      *)
ProcessGone ==
    /\ opened' = FALSE
    /\ NoFreelist
    /\ rmeta' = [r \in Readers |-> NoMeta]
    /\ EndWriter
    /\ acked' = Meta(slot').gen
    /\ UNCHANGED gen

(* The process dies; what it wrote stays in the page cache.                *)
Kill ==
    /\ "kill" \in Faults
    /\ UNCHANGED storage
    /\ ProcessGone

(* What a meta page may hold after a power failure.                        *)
Surviving(i) ==
    {slot[i], dslot[i]} \cup (IF slot[i] = dslot[i] THEN {} ELSE {Torn(slot[i])})

(* The power fails: of the pages not yet synced some reached the device.   *)
PowerFails ==
    /\ "power" \in Faults
    /\ \E lost \in SUBSET {p \in Pages : file[p] # disk[p]} :
         file' = [p \in Pages |-> IF p \in lost THEN disk[p] ELSE file[p]]
    /\ disk' = file'
    /\ \E m0 \in Surviving(0), m1 \in Surviving(1) :
         slot' = [i \in {0, 1} |-> IF i = 0 THEN m0 ELSE m1]
    /\ dslot' = slot'
    /\ ProcessGone

-----------------------------------------------------------------------------
Next ==
    \/ \E r \in Readers : BeginTx(r) \/ CloseTx(r)
    \/ BeginRWTx
    \/ phase = "open" /\ \E n \in wmeta.tree : FreeNode(n)
    \/ \E len \in NodeLengths, id \in Pages : AllocNode(len, id)
    \/ \E id \in Pages : CommitFreelist(id)
    \/ WritePages \/ SyncPages \/ WriteMeta \/ SyncMeta
    \/ Rollback \/ AllocFails \/ WriteFails \/ SyncFails
    \/ MetaWriteFails \/ MetaSyncFails
    \/ Open \/ Close \/ Kill \/ PowerFails

Spec == Init /\ [][Next]_vars

-----------------------------------------------------------------------------
(* Properties.                                                             *)

TypeOK ==
    /\ opened \in BOOLEAN
    /\ {file, disk} \subseteq [Pages -> [gen : Nat, ids : SUBSET Pages]]
    /\ {slot, dslot} \subseteq [{0, 1} -> Metas]
    /\ ids \subseteq Pages
    /\ pending \subseteq Nat \X Pages /\ IsFiniteSet(pending)
    /\ cache \subseteq Pages
    /\ rmeta \in [Readers -> Metas \cup {NoMeta}]
    /\ phase \in {"none", "open", "listed", "written", "synced", "meta",
                  "panicked"}
    /\ wmeta \in Metas \cup {NoMeta}
    /\ (wmeta = NoMeta) <=> (phase = "none")
    /\ dirty \subseteq Nodes
    /\ wlist \subseteq Pages
    /\ {gen, acked} \subseteq Nat

(* Every page of a version holds what that version's transaction wrote.    *)
Intact(m) == \A n \in NodesOf(m) : \A p \in NodePages(n) : file[p].gen = n.gen

(* "Each transaction has a consistent view of the data as it existed when  *)
(* the transaction started": whatever the writer does, releases, reuses,   *)
(* rolls back or fails to write, no page of an open read transaction's     *)
(* version is overwritten (db.beginRWTx, freelist.release).                *)
SnapshotsIntact == \A r \in OpenTxs : Intact(rmeta[r])

(* And none is about to be: the writer cannot allocate such a page, and    *)
(* has allocated none (freelist.allocate, tx.pages).                       *)
SnapshotsNotAllocatable ==
    \A r \in OpenTxs : Used(rmeta[r]) \cap (ids \cup PagesOf(dirty)) = {}

(* What Tx.Check demands of a version and the freelist of the process: no  *)
(* page is used twice, used and free, or neither below the high water      *)
(* mark.                                                                   *)
Accounted(m) ==
    LET free == ids \cup PendingPages(pending) IN
    /\ \A n1, n2 \in NodesOf(m) :
         n1 # n2 => NodePages(n1) \cap NodePages(n2) = {}
    /\ Used(m) \cap (free \cup {0, 1}) = {}
    /\ ids \cap PendingPages(pending) = {}
    /\ Used(m) \cup free = 2 .. (m.pgid - 1)

(* Tx.Check finds nothing: when no writer is active, on the version new    *)
(* transactions read, whatever commits, failures and restarts went before; *)
(* and in StrictMode, on the version being committed, before its meta page *)
(* is written (tx.Commit panics otherwise).                                *)
CheckPasses ==
    /\ opened /\ phase = "none" => Accounted(Meta(slot))
    /\ phase \in {"written", "synced"} => Accounted(wmeta)

(* The list is written to a page that was sized before its own pages were  *)
(* taken from the list: "this will overestimate the size of the freelist   *)
(* but not underestimate the size (which would be bad)" (tx.Commit).       *)
FreelistFits ==
    phase = "listed" =>
        SizeInIds(Cardinality(wlist)) <= IdsPerPage * wmeta.flist.len

(* The assertions of freelist.free and meta.write never fire, and          *)
(* freelist.cache is what they rely on: exactly the free and pending pages.*)
NoPanic ==
    /\ phase # "panicked"
    /\ cache = ids \cup PendingPages(pending)

(* "Does not require recovery in the event of a system crash": whatever    *)
(* step the process or the machine stops at, the file has a valid meta     *)
(* page, and the version it names is complete with its freelist.           *)
ClosedFileIsUsable ==
    ~opened => Meta(slot).ok /\ Intact(Meta(slot))

(* "If an error is returned then the entire transaction is rolled back":   *)
(* when no write transaction is active, what new transactions see is the   *)
(* last version whose commit was reported a success.                       *)
VisibleIsAcked ==
    opened /\ phase = "none" => Meta(slot).gen = acked

(* The transactions implement the abstract store: a reader sees one        *)
(* version from beginning to end, Corrupt if one of its pages is not of    *)
(* that version any more; a failed commit leaves no trace; a crash keeps   *)
(* the last acknowledged version or the one already visible.               *)
Corrupt == "corrupt"

Seen == [r \in Readers |-> IF rmeta[r] = NoMeta THEN NoMeta
                           ELSE IF Intact(rmeta[r]) THEN rmeta[r].gen
                           ELSE Corrupt]

Prepared == IF phase = "none" THEN NoMeta ELSE wmeta.gen

Store == INSTANCE SnapshotStore WITH
    None <- NoMeta,
    up <- opened,
    visible <- Meta(slot).gen,
    snapshot <- Seen,
    writing <- Prepared,
    attempts <- gen

ImplementsStore == Store!Spec
=============================================================================
