------------------------------ MODULE TxLocks ------------------------------
(***************************************************************************)
(* The goroutines of one process and the locks of db.go: rwlock (one       *)
(* writer), metalock (db.txs and the meta pages) and mmaplock (the mmap),  *)
(* each lock, unlock and unprotected step an action of its own.            *)
(*                                                                         *)
(* A sync.RWMutex blocks new RLock calls from the moment Lock is called.   *)
(* The meta pages are in the mmap: a reader looks at them while a commit   *)
(* writes one, without a lock in common.                                   *)
(***************************************************************************)
EXTENDS Naturals, Sequences, FiniteSets

CONSTANTS
    Readers,      \* goroutines that call Begin(false)
    Writers,      \* goroutines that call Begin(true)
    Closers,      \* goroutines that call Close, at most one
    Depth,        \* read transactions one goroutine keeps open at a time
    Free,         \* no goroutine
    MaxTxid       \* bound: a transaction with this id is not committed

Procs == Readers \cup Writers \cup Closers

ASSUME TxLocksAssumption ==
    /\ Depth \in Nat \ {0}
    /\ MaxTxid \in Nat \ {0}
    /\ Free \notin Procs
    /\ Readers \cap Writers = {}
    /\ (Readers \cup Writers) \cap Closers = {}

VARIABLES
    pc,           \* where each goroutine is
    rwlock,       \* db.rwlock: the goroutine holding it, or Free
    metalock,     \* db.metalock: likewise
    mmapwait,     \* db.mmaplock: the goroutine in Lock, waiting, or Free
    mmapwriter,   \* db.mmaplock: the goroutine that has locked it, or Free
    mmapreaders,  \* db.mmaplock: how often each goroutine has read-locked it
    opened,       \* db.opened
    mapping,      \* which mmap db.data refers to, 0 when unmapped
    slot,         \* meta0 and meta1
    picked,       \* the meta page a reader considers in db.meta
    held,         \* what the open read transactions of a reader copied
    txs,          \* db.txs
    wtxid,        \* db.rwtx.meta.txid
    released,     \* highest txid whose pending pages were released
    committed,    \* the last transaction whose Commit has returned
    asof          \* committed, when a reader called Begin

locks == <<rwlock, metalock, mmapwait, mmapwriter, mmapreaders>>
reading == <<picked, held, txs, asof>>
writing == <<wtxid, released, committed>>
vars == <<pc, locks, opened, mapping, slot, reading, writing>>

Init ==
    /\ pc = [g \in Procs |-> "idle"]
    /\ rwlock = Free /\ metalock = Free
    /\ mmapwait = Free /\ mmapwriter = Free
    /\ mmapreaders = [g \in Procs |-> 0]
    /\ opened = TRUE
    /\ mapping = 1
    /\ slot = [i \in {0, 1} |-> [txid |-> i, ok |-> TRUE]]
    /\ picked = [r \in Readers |-> 0]
    /\ held = [r \in Readers |-> <<>>]
    /\ txs = {}
    /\ wtxid = 0 /\ released = 0 /\ committed = 1
    /\ asof = [r \in Readers |-> 1]

Goto(g, from, to) == pc[g] = from /\ pc' = [pc EXCEPT ![g] = to]

RLockable == mmapwait = Free /\ mmapwriter = Free

(* Taking and returning a read lock of mmaplock.                           *)
RLock(g) == mmapreaders' = [mmapreaders EXCEPT ![g] = @ + 1]
RUnlock(g) == mmapreaders' = [mmapreaders EXCEPT ![g] = @ - 1]

-----------------------------------------------------------------------------
(* db.beginTx.                                                             *)

CallBegin(r) ==
    /\ Len(held[r]) < Depth
    /\ Goto(r, "idle", "begin")
    /\ asof' = [asof EXCEPT ![r] = committed]
    /\ UNCHANGED <<locks, opened, mapping, slot, picked, held, txs, writing>>

BeginMetaLock(r) ==
    /\ Goto(r, "begin", "rlock")
    /\ metalock = Free
    /\ metalock' = r
    /\ UNCHANGED <<rwlock, mmapwait, mmapwriter, mmapreaders, opened, mapping,
                   slot, reading, writing>>

BeginRLock(r) ==
    /\ Goto(r, "rlock", "init")
    /\ RLockable
    /\ RLock(r)
    /\ UNCHANGED <<rwlock, metalock, mmapwait, mmapwriter, opened, mapping,
                   slot, reading, writing>>

(* Mutant of BeginNotOpen: the call is tried again instead of failing.     *)
BeginNotOpenRetries(r) ==
    /\ ~opened
    /\ Goto(r, "init", "begin")
    /\ RUnlock(r)
    /\ metalock' = Free
    /\ UNCHANGED <<rwlock, mmapwait, mmapwriter, opened, mapping, slot,
                   reading, writing>>

(* ErrDatabaseNotOpen.                                                     *)
BeginNotOpen(r) ==
    /\ ~opened
    /\ Goto(r, "init", "idle")
    /\ RUnlock(r)
    /\ metalock' = Free
    /\ UNCHANGED <<rwlock, mmapwait, mmapwriter, opened, mapping, slot,
                   reading, writing>>

(* Mutant of NewerSlot: the comparison is reversed.                        *)
NewerSlotReversed(s) == IF s[1].txid > s[0].txid THEN 0 ELSE 1

(* tx.init, db.meta: metaA is the meta page with the higher txid.          *)
NewerSlot(s) == IF s[1].txid > s[0].txid THEN 1 ELSE 0

PickMeta(r) ==
    /\ opened
    /\ Goto(r, "init", "validate")
    /\ picked' = [picked EXCEPT ![r] = NewerSlot(slot)]
    /\ UNCHANGED <<locks, opened, mapping, slot, held, txs, asof, writing>>

(* metaA if it is valid, else metaB; db.meta panics if neither is.         *)
ValidateMeta(r) ==
    /\ Goto(r, "validate",
            IF \E i \in {0, 1} : slot[i].ok THEN "copy" ELSE "panicked")
    /\ picked' = [picked EXCEPT ![r] = IF slot[@].ok THEN @ ELSE 1 - @]
    /\ UNCHANGED <<locks, opened, mapping, slot, held, txs, asof, writing>>

(* meta.copy; 0 stands for a meta copied while it was being written.       *)
Copied(i) == IF slot[i].ok THEN slot[i].txid ELSE 0

CopyMeta(r) ==
    /\ Goto(r, "copy", "register")
    /\ held' = [held EXCEPT ![r] = Append(@, Copied(picked[r]))]
    /\ picked' = [picked EXCEPT ![r] = 0]
    /\ UNCHANGED <<locks, opened, mapping, slot, txs, asof, writing>>

(* Mutant of RegisterTx: metalock is released before db.txs is appended to.*)
RegisterTxUnlocked(r) ==
    \/ /\ pc[r] = "register" /\ metalock = r
       /\ metalock' = Free
       /\ UNCHANGED <<pc, rwlock, mmapwait, mmapwriter, mmapreaders, opened,
                      mapping, slot, reading, writing>>
    \/ /\ metalock # r
       /\ Goto(r, "register", "idle")
       /\ txs' = txs \cup {[owner |-> r, nth |-> Len(held[r]),
                            txid |-> held[r][Len(held[r])]]}
       /\ UNCHANGED <<locks, opened, mapping, slot, picked, held, asof,
                      writing>>

(* db.txs = append(db.txs, t), and metalock is released.                   *)
RegisterTx(r) ==
    /\ Goto(r, "register", "idle")
    /\ txs' = txs \cup {[owner |-> r, nth |-> Len(held[r]),
                         txid |-> held[r][Len(held[r])]]}
    /\ metalock' = Free
    /\ UNCHANGED <<rwlock, mmapwait, mmapwriter, mmapreaders, opened, mapping,
                   slot, picked, held, asof, writing>>

-----------------------------------------------------------------------------
(* db.removeTx: mmaplock is released first, metalock is taken after it.    *)

LastTx(r) == CHOOSE t \in txs : t.owner = r /\ t.nth = Len(held[r]) + 1

(* Mutant of RemoveTx: metalock is waited for while mmaplock is held.      *)
RemoveTxHoldingMmap(r) ==
    /\ held[r] # <<>>
    /\ Goto(r, "idle", "remove")
    /\ held' = [held EXCEPT ![r] = SubSeq(@, 1, Len(@) - 1)]
    /\ UNCHANGED <<locks, opened, mapping, slot, picked, txs, asof, writing>>

RemoveTx(r) ==
    /\ held[r] # <<>>
    /\ Goto(r, "idle", "remove")
    /\ RUnlock(r)
    /\ held' = [held EXCEPT ![r] = SubSeq(@, 1, Len(@) - 1)]
    /\ UNCHANGED <<rwlock, metalock, mmapwait, mmapwriter, opened, mapping,
                   slot, picked, txs, asof, writing>>

RemoveMetaLock(r) ==
    /\ Goto(r, "remove", "unregister")
    /\ metalock = Free
    /\ metalock' = r
    /\ UNCHANGED <<rwlock, mmapwait, mmapwriter, mmapreaders, opened, mapping,
                   slot, reading, writing>>

Unregister(r) ==
    /\ Goto(r, "unregister", "idle")
    /\ txs' = txs \ {LastTx(r)}
    /\ metalock' = Free
    /\ UNCHANGED <<rwlock, mmapwait, mmapwriter, mmapreaders, opened, mapping,
                   slot, picked, held, asof, writing>>

-----------------------------------------------------------------------------
(* The write transaction: db.beginRWTx, db.mmap under db.allocate, the     *)
(* meta page of tx.Commit, tx.close.                                       *)

CallBeginRW(w) ==
    /\ Goto(w, "idle", "begin")
    /\ UNCHANGED <<locks, opened, mapping, slot, reading, writing>>

(* Mutant of RWLock: two writers at a time.                                *)
RWLockShared(w) ==
    /\ Goto(w, "begin", "rwlocked")
    /\ rwlock' = w
    /\ UNCHANGED <<metalock, mmapwait, mmapwriter, mmapreaders, opened,
                   mapping, slot, reading, writing>>

RWLock(w) ==
    /\ Goto(w, "begin", "rwlocked")
    /\ rwlock = Free
    /\ rwlock' = w
    /\ UNCHANGED <<metalock, mmapwait, mmapwriter, mmapreaders, opened,
                   mapping, slot, reading, writing>>

RWMetaLock(w) ==
    /\ Goto(w, "rwlocked", "init")
    /\ metalock = Free
    /\ metalock' = w
    /\ UNCHANGED <<rwlock, mmapwait, mmapwriter, mmapreaders, opened, mapping,
                   slot, reading, writing>>

BeginRWNotOpen(w) ==
    /\ ~opened
    /\ Goto(w, "init", "idle")
    /\ rwlock' = Free
    /\ metalock' = Free
    /\ UNCHANGED <<mmapwait, mmapwriter, mmapreaders, opened, mapping, slot,
                   reading, writing>>

Current == slot[NewerSlot(slot)].txid

(* minid - 1; without open read transactions everything may be released,   *)
(* and Current is the highest transaction with pending pages.              *)
ReleaseBound ==
    IF txs = {} THEN Current
    ELSE CHOOSE n \in 0 .. MaxTxid :
            /\ \A t \in txs : n + 1 <= t.txid
            /\ \E t \in txs : n + 1 = t.txid

InitRWTx(w) ==
    /\ opened
    /\ Goto(w, "init", "work")
    /\ wtxid' = Current + 1
    /\ released' = IF ReleaseBound > released THEN ReleaseBound ELSE released
    /\ metalock' = Free
    /\ UNCHANGED <<rwlock, mmapwait, mmapwriter, mmapreaders, opened, mapping,
                   slot, reading, committed>>

(* db.allocate at the end of the mmap: mmaplock.Lock is called.            *)
CallMmap(w) ==
    /\ Goto(w, "work", "lockmmap")
    /\ mmapwait' = w
    /\ UNCHANGED <<rwlock, metalock, mmapwriter, mmapreaders, opened, mapping,
                   slot, reading, writing>>

(* Mutant of MmapLock: open read transactions are not waited for.          *)
MmapLockEager(w) ==
    /\ Goto(w, "lockmmap", "unmap")
    /\ mmapwriter = Free
    /\ mmapwriter' = w
    /\ mmapwait' = Free
    /\ UNCHANGED <<rwlock, metalock, mmapreaders, opened, mapping, slot,
                   reading, writing>>

MmapLock(w) ==
    /\ Goto(w, "lockmmap", "unmap")
    /\ mmapwriter = Free
    /\ \A g \in Procs : mmapreaders[g] = 0
    /\ mmapwriter' = w
    /\ mmapwait' = Free
    /\ UNCHANGED <<rwlock, metalock, mmapreaders, opened, mapping, slot,
                   reading, writing>>

Unmap(w) ==
    /\ Goto(w, "unmap", "map")
    /\ mapping' = 0
    /\ UNCHANGED <<locks, opened, slot, reading, writing>>

Map(w) ==
    /\ Goto(w, "map", "grown")
    /\ mapping' = 1
    /\ mmapwriter' = Free
    /\ UNCHANGED <<rwlock, metalock, mmapwait, mmapreaders, opened, slot,
                   reading, writing>>

(* Mutant of RollbackRW: the writer lock is not released.                  *)
RollbackRWLocked(w) ==
    /\ \/ Goto(w, "work", "idle")
       \/ Goto(w, "grown", "idle")
    /\ wtxid' = 0
    /\ UNCHANGED <<locks, opened, mapping, slot, reading, released, committed>>

(* tx.Rollback, tx.close.                                                  *)
RollbackRW(w) ==
    /\ \/ Goto(w, "work", "idle")
       \/ Goto(w, "grown", "idle")
    /\ rwlock' = Free
    /\ wtxid' = 0
    /\ UNCHANGED <<metalock, mmapwait, mmapwriter, mmapreaders, opened,
                   mapping, slot, reading, released, committed>>

(* meta.write: the meta pages take turns.                                  *)
MetaSlot(txid) == txid % 2

(* tx.writeMeta: while writeAt copies the page its checksum is wrong, and  *)
(* its txid may or may not be the new one already.                         *)
WriteMetaBegins(w) ==
    /\ wtxid < MaxTxid
    /\ \/ Goto(w, "work", "writing")
       \/ Goto(w, "grown", "writing")
    /\ \E id \in {slot[MetaSlot(wtxid)].txid, wtxid} :
         slot' = [slot EXCEPT ![MetaSlot(wtxid)] = [txid |-> id, ok |-> FALSE]]
    /\ UNCHANGED <<locks, opened, mapping, reading, writing>>

WriteMetaEnds(w) ==
    /\ Goto(w, "writing", "written")
    /\ slot' = [slot EXCEPT ![MetaSlot(wtxid)] = [txid |-> wtxid, ok |-> TRUE]]
    /\ UNCHANGED <<locks, opened, mapping, reading, writing>>

(* Mutant of CommitReturns: the writer lock is not released.               *)
CommitReturnsLocked(w) ==
    /\ Goto(w, "written", "idle")
    /\ committed' = wtxid
    /\ wtxid' = 0
    /\ UNCHANGED <<locks, opened, mapping, slot, reading, released>>

(* tx.close, and Commit returns.                                           *)
CommitReturns(w) ==
    /\ Goto(w, "written", "idle")
    /\ committed' = wtxid
    /\ wtxid' = 0
    /\ rwlock' = Free
    /\ UNCHANGED <<metalock, mmapwait, mmapwriter, mmapreaders, opened,
                   mapping, slot, reading, released>>

-----------------------------------------------------------------------------
(* db.Close.                                                               *)

CallClose(c) ==
    /\ Goto(c, "idle", "close")
    /\ UNCHANGED <<locks, opened, mapping, slot, reading, writing>>

CloseRWLock(c) ==
    /\ Goto(c, "close", "rwlocked")
    /\ rwlock = Free
    /\ rwlock' = c
    /\ UNCHANGED <<metalock, mmapwait, mmapwriter, mmapreaders, opened,
                   mapping, slot, reading, writing>>

CloseMetaLock(c) ==
    /\ Goto(c, "rwlocked", "rlock")
    /\ metalock = Free
    /\ metalock' = c
    /\ UNCHANGED <<rwlock, mmapwait, mmapwriter, mmapreaders, opened, mapping,
                   slot, reading, writing>>

CloseRLock(c) ==
    /\ Goto(c, "rlock", "closing")
    /\ RLockable
    /\ RLock(c)
    /\ UNCHANGED <<rwlock, metalock, mmapwait, mmapwriter, opened, mapping,
                   slot, reading, writing>>

(* db.close: opened is cleared and the data file unmapped.                 *)
CloseUnmaps(c) ==
    /\ Goto(c, "closing", "unlock")
    /\ opened' = FALSE
    /\ mapping' = 0
    /\ UNCHANGED <<locks, slot, reading, writing>>

(* The deferred unlocks.                                                   *)
CloseReturns(c) ==
    /\ Goto(c, "unlock", "closed")
    /\ RUnlock(c)
    /\ metalock' = Free
    /\ rwlock' = Free
    /\ UNCHANGED <<mmapwait, mmapwriter, opened, mapping, slot, reading,
                   writing>>

-----------------------------------------------------------------------------
ReaderProceeds(r) ==
    \/ BeginNotOpen(r) \/ PickMeta(r) \/ ValidateMeta(r) \/ CopyMeta(r)
    \/ RegisterTx(r) \/ Unregister(r)

WriterProceeds(w) ==
    \/ BeginRWNotOpen(w) \/ InitRWTx(w) \/ CallMmap(w) \/ MmapLock(w)
    \/ Unmap(w) \/ Map(w) \/ RollbackRW(w)
    \/ WriteMetaBegins(w) \/ WriteMetaEnds(w) \/ CommitReturns(w)

CloserProceeds(c) == CloseRLock(c) \/ CloseUnmaps(c) \/ CloseReturns(c)

Next ==
    \/ \E r \in Readers :
         \/ CallBegin(r) \/ BeginMetaLock(r) \/ BeginRLock(r)
         \/ RemoveTx(r) \/ RemoveMetaLock(r) \/ ReaderProceeds(r)
    \/ \E w \in Writers :
         CallBeginRW(w) \/ RWLock(w) \/ RWMetaLock(w) \/ WriterProceeds(w)
    \/ \E c \in Closers :
         \/ CallClose(c) \/ CloseRWLock(c) \/ CloseMetaLock(c)
         \/ CloserProceeds(c)

Spec == Init /\ [][Next]_vars

(* Goroutines are scheduled; a read transaction is closed in the end, as   *)
(* the comment of Begin demands; a sync.Mutex starves no waiter.  At one   *)
(* place of a goroutine at most one of the actions joined here is enabled. *)
Fairness ==
    /\ \A r \in Readers :
         /\ WF_vars(ReaderProceeds(r) \/ RemoveTx(r) \/ BeginRLock(r))
         /\ SF_vars(BeginMetaLock(r) \/ RemoveMetaLock(r))
    /\ \A w \in Writers :
         WF_vars(WriterProceeds(w)) /\ SF_vars(RWLock(w) \/ RWMetaLock(w))
    /\ \A c \in Closers :
         WF_vars(CloserProceeds(c)) /\ SF_vars(CloseRWLock(c) \/ CloseMetaLock(c))

FairSpec == Spec /\ Fairness

-----------------------------------------------------------------------------
(* Properties.                                                             *)

Snapshots(r) == {held[r][i] : i \in 1 .. Len(held[r])}

(* A writer never releases pages a read transaction can still reach, not   *)
(* even of a reader that has copied the meta page and is not in db.txs     *)
(* yet: pages freed by transactions after its own stay pending             *)
(* (db.beginRWTx against db.beginTx).                                      *)
ReleaseSparesReaders ==
    \A r \in Readers : \A t \in Snapshots(r) : released <= t

(* A read transaction starts from a whole meta page, written by the last   *)
(* commit that had returned when Begin was called, or a later one, though  *)
(* a commit may be writing a meta page meanwhile (tx.init); and db.meta    *)
(* finds one: its panic "should never be reached".                         *)
SnapshotFresh ==
    \A r \in Readers :
        /\ pc[r] # "panicked"
        /\ pc[r] = "register" => held[r][Len(held[r])] >= asof[r]

(* Whatever looks at the mmap finds it mapped: read transactions from      *)
(* Begin to their close, until Close, which waits for no reader, and the   *)
(* write transaction except while it remaps.                               *)
ReadersMapped ==
    \A r \in Readers :
        opened /\ (held[r] # <<>> \/ pc[r] \in {"validate", "copy"})
            => mapping # 0

WriterMapped ==
    \A w \in Writers :
        pc[w] \in {"work", "grown", "writing", "written", "lockmmap"}
            => mapping # 0

(* Which goroutines must move before g can.                                *)
WaitsFor(g) ==
    CASE pc[g] \in {"begin", "close"} /\ g \in Writers \cup Closers -> {rwlock}
      [] pc[g] \in {"begin", "remove"} /\ g \in Readers -> {metalock}
      [] pc[g] = "rwlocked" -> {metalock}
      [] pc[g] = "rlock" -> {mmapwait, mmapwriter}
      [] pc[g] = "lockmmap" -> {h \in Procs : mmapreaders[h] > 0}
      [] OTHER -> {}

(* No goroutines wait for one another in a circle.  The order metalock     *)
(* before mmaplock in beginTx and mmaplock released before metalock is     *)
(* taken in removeTx see to it, also when a remap is pending.              *)
NoCircularWait ==
    \A waiting \in (SUBSET Procs) \ {{}} :
        \E g \in waiting : WaitsFor(g) \cap waiting = {}

(* Begin(false) always returns, whatever writers, remaps and Close do.     *)
BeginReturns == \A r \in Readers : pc[r] = "begin" ~> pc[r] = "idle"

(* A goroutine that called Begin(true) gets its turn and ends its          *)
(* transaction: neither Close, nor another writer, nor readers that come   *)
(* and go keep it from the locks or from remapping.                        *)
WriterEnds == \A w \in Writers : pc[w] = "begin" ~> pc[w] = "idle"

(* Close waits for the writer and returns.                                 *)
CloseEnds == \A c \in Closers : pc[c] = "close" ~> pc[c] = "closed"
=============================================================================
