---------------------------- MODULE DBAccounting ----------------------------
(***************************************************************************)
(* Every page is used or free, and none is both: what Tx.Check demands     *)
(* (CheckPasses), proved with the invariant of DBInvariant and statements  *)
(* about completeness, of the freelist in memory and of the one stored     *)
(* with each version the file may be opened with.  And the page allocated  *)
(* for the list always holds it (FreelistFits), whatever fails.            *)
(***************************************************************************)
EXTENDS DBDisk

(* The version the freelist in memory goes with.                           *)
Version == IF phase = "none" THEN Current ELSE wmeta

(* No page is lost from memory.                                            *)
MemoryComplete ==
    opened => Used(Version) \cup Listed(ids, pending) = 2 .. (HighWaterNow - 1)

(* No page is lost from the file.                                          *)
FileComplete ==
    Used(Current) \cup ListOnPage(file, slot) = 2 .. (Current.pgid - 1)

AInv == MemoryComplete /\ FileComplete

(* Nor is one lost when the power fails while a commit writes its meta     *)
(* page.                                                                   *)
DurableComplete ==
    Used(Durable) \cup file[Durable.flist.id].ids = 2 .. (Durable.pgid - 1)

CInv == DiskInv /\ AInv /\ DurableComplete

(* The stored list is shorter than the limit of the count in its header:   *)
(* from there on freelist.read leaves its last id out (ReadBack).          *)
ListShort == Cardinality(ListOnPage(file, slot)) < CountLimit

-----------------------------------------------------------------------------
(* The list of a short page is read back whole.                            *)
LEMMA ShortReadBack ==
    ASSUME TypeOK, ListShort
    PROVE  ReadBack(ListOnPage(file, slot)) = ListOnPage(file, slot)
<1>1. ListOnPage(file, slot) \subseteq Pages
  BY ListType DEF TypeOK
<1>2. Cardinality(ListOnPage(file, slot)) \in Nat
  BY <1>1, PagesFinite, FS_CardinalityType
<1> QED
  BY <1>2, FreelistAssumption DEF ReadBack, ListShort

(* A version of the file is never empty, so that its high water mark is    *)
(* above the meta pages.                                                   *)
LEMMA WriterAboveMetas ==
    ASSUME StoreInv, MemoryComplete, phase # "none"
    PROVE  /\ Used(wmeta) \cup Listed(ids, pending) = 2 .. (wmeta.pgid - 1)
           /\ wmeta \in Metas /\ wmeta.pgid \in Nat /\ wmeta.pgid > 2
<1>1. wmeta \in Metas /\ wmeta.pgid \in Nat /\ opened
  BY MetaFields DEF StoreInv, TypeOK, WriterSound
<1>2. Used(wmeta) \cup Listed(ids, pending) = 2 .. (wmeta.pgid - 1)
  BY <1>1 DEF MemoryComplete, Version, HighWaterNow
<1>3. wmeta.flist.id \in 2 .. (wmeta.pgid - 1)
  BY <1>1, <1>2, UsedType
<1> QED
  BY <1>1, <1>2, <1>3

(* db.allocate raises the high water mark over the pages it adds to the    *)
(* file, and over no other.                                                *)
LEMMA AllocatedCompletes ==
    ASSUME StoreInv, MemoryComplete, phase = "open", NEW id \in Pages,
           NEW len \in Nat \ {0}, id \in Allocated(len)
    PROVE  (2 .. (wmeta.pgid - 1)) \cup Run(id, len) = 2 .. (HighWater(id, len) - 1)
<1>1. /\ Used(wmeta) \cup Listed(ids, pending) = 2 .. (wmeta.pgid - 1)
      /\ wmeta.pgid \in Nat /\ wmeta.pgid > 2
  BY WriterAboveMetas
<1>2. id \in Nat
  BY DBAssumption DEF Pages
<1>3. CASE Run(id, len) \subseteq ids
  <2>1. Run(id, len) \subseteq 2 .. (wmeta.pgid - 1)
    BY <1>1, <1>3 DEF Listed
  <2>2. id \in Run(id, len)
    BY <1>2 DEF Run
  <2>3. id # wmeta.pgid
    BY <1>1, <2>1, <2>2
  <2>4. HighWater(id, len) = wmeta.pgid
    BY <2>3 DEF HighWater
  <2> QED
    BY <2>1, <2>4
<1>4. CASE id = wmeta.pgid
  <2>1. HighWater(id, len) = wmeta.pgid + len
    BY <1>4 DEF HighWater
  <2>2. Run(id, len) = wmeta.pgid .. (wmeta.pgid + len - 1)
    BY <1>4 DEF Run
  <2>3. \A g, l \in Nat : g > 2 =>
          (2 .. (g - 1)) \cup (g .. (g + l - 1)) = 2 .. (g + l - 1)
    OBVIOUS
  <2> QED
    BY <1>1, <2>1, <2>2, <2>3
<1>5. Run(id, len) \subseteq ids \/ id = wmeta.pgid
  BY DEF Allocated, LowestFit, Fits
<1> QED
  BY <1>3, <1>4, <1>5

-----------------------------------------------------------------------------
(* Steps of the write transaction on the freelist.                         *)

LEMMA SameComplete ==
    ASSUME AInv, UNCHANGED <<file, slot, ids, pending, phase, wmeta, opened>>
    PROVE  AInv'
<1>1. Current' = Current
  BY DEF Current
<1>2. Version' = Version /\ HighWaterNow' = HighWaterNow
  BY <1>1 DEF Version, HighWaterNow
<1> QED
  BY <1>1, <1>2 DEF AInv, MemoryComplete, FileComplete, ListOnPage

LEMMA FileSame ==
    ASSUME FileComplete, UNCHANGED <<file, slot>>
    PROVE  FileComplete' /\ Current' = Current
<1>1. Current' = Current
  BY DEF Current
<1> QED
  BY <1>1 DEF FileComplete, ListOnPage

(* Releasing pages moves them from the pending ones to the free ones.      *)
LEMMA BeginRWTxComplete ==
    ASSUME StoreInv, AInv, BeginRWTx
    PROVE  AInv'
<1>1. /\ UNCHANGED <<opened, file, slot>>
      /\ opened /\ phase = "none" /\ phase' = "open"
      /\ wmeta' = [Current EXCEPT !.txid = @ + 1, !.gen = gen']
      /\ ids' = ids \cup PendingPages(Releasable)
      /\ pending' = pending \ Releasable
      /\ Releasable \subseteq pending
  BY DEF BeginRWTx, storage, Current, Releasable
<1>2. FileComplete' /\ Current \in Metas
  BY <1>1, FileSame, CurrentSlot DEF AInv, StoreInv
<1>3. /\ wmeta'.pgid = Current.pgid
      /\ wmeta'.tree = Current.tree /\ wmeta'.flist = Current.flist
  BY <1>1, <1>2 DEF Metas
<1>4. Used(wmeta') = Used(Current)
  BY <1>3 DEF NodesOf, Used
<1>5. PendingPages(pending) = PendingPages(Releasable) \cup PendingPages(pending')
  BY <1>1, InPending
<1>6. Listed(ids', pending') = Listed(ids, pending)
  BY <1>1, <1>5 DEF Listed
<1>7. Used(Current) \cup Listed(ids, pending) = 2 .. (Current.pgid - 1)
  BY <1>1 DEF AInv, MemoryComplete, Version, HighWaterNow
<1>8. Version' = wmeta' /\ HighWaterNow' = wmeta'.pgid
  BY <1>1 DEF Version, HighWaterNow
<1>9. MemoryComplete'
  BY <1>3, <1>4, <1>6, <1>7, <1>8 DEF MemoryComplete
<1> QED
  BY <1>2, <1>9 DEF AInv

(* A page that leaves the tree becomes pending.                            *)
LEMMA FreeNodeComplete ==
    ASSUME StoreInv, AInv, StoreInv', phase = "open", NEW n \in wmeta.tree, FreeNode(n)
    PROVE  AInv'
<1>1. /\ wmeta \in Metas /\ phase' # "panicked" /\ Disjoint(wmeta)
      /\ Used(wmeta) \cup Listed(ids, pending) = 2 .. (wmeta.pgid - 1)
  BY WriterAboveMetas DEF StoreInv, WriterSound, AInv
<1>2. /\ UNCHANGED <<opened, file, slot, ids, phase>>
      /\ pending' = pending \cup FreedBy(wmeta.txid, NodePages(n))
      /\ wmeta' = [wmeta EXCEPT !.tree = @ \ {n}]
  BY <1>1 DEF FreeNode, storage
<1>3. /\ wmeta'.pgid = wmeta.pgid /\ wmeta'.flist = wmeta.flist
      /\ wmeta'.tree = wmeta.tree \ {n}
  BY <1>1, <1>2 DEF Metas
<1>4. Used(wmeta) = Used(wmeta') \cup NodePages(n)
  <2>1. NodesOf(wmeta) = NodesOf(wmeta') \cup {n}
    BY <1>3 DEF NodesOf
  <2> QED
    BY <2>1, InUsed
<1>5. PendingPages(pending') = PendingPages(pending) \cup NodePages(n)
  BY <1>2, PendingFreed
<1>6. Used(wmeta') \cup Listed(ids', pending') = 2 .. (wmeta'.pgid - 1)
  BY <1>1, <1>2, <1>3, <1>4, <1>5 DEF Listed
<1>7. MemoryComplete'
  BY <1>2, <1>6 DEF MemoryComplete, Version, HighWaterNow
<1> QED
  BY <1>2, <1>7, FileSame DEF AInv

LEMMA AllocNodeComplete ==
    ASSUME StoreInv, AInv, NEW len \in NodeLengths, NEW id \in Pages,
           AllocNode(len, id)
    PROVE  AInv'
<1> DEFINE new == [id |-> id, len |-> len, gen |-> wmeta.gen]
<1>1. phase = "open" /\ len \in Nat \ {0} /\ id \in Allocated(len)
  BY DBAssumption DEF AllocNode
<1>2. /\ UNCHANGED <<opened, file, slot, pending, phase>>
      /\ ids' = ids \ NodePages(new)
      /\ wmeta' = [wmeta EXCEPT !.tree = @ \cup {new}, !.pgid = HighWater(id, len)]
  BY DEF AllocNode, storage
<1>3. NodePages(new) = Run(id, len)
  BY DEF NodePages
<1>4. /\ wmeta \in Metas
      /\ Used(wmeta) \cup Listed(ids, pending) = 2 .. (wmeta.pgid - 1)
      /\ (2 .. (wmeta.pgid - 1)) \cup NodePages(new) = 2 .. (HighWater(id, len) - 1)
  BY <1>1, <1>3, WriterAboveMetas, AllocatedCompletes DEF AInv
<1> HIDE DEF new
<1>5. /\ wmeta'.pgid = HighWater(id, len) /\ wmeta'.flist = wmeta.flist
      /\ wmeta'.tree = wmeta.tree \cup {new}
  BY <1>2, <1>4 DEF Metas
<1>6. Used(wmeta') = Used(wmeta) \cup NodePages(new)
  <2>1. NodesOf(wmeta') = NodesOf(wmeta) \cup {new}
    BY <1>5 DEF NodesOf
  <2> QED
    BY <2>1, InUsed
<1>7. Used(wmeta') \cup Listed(ids', pending') = 2 .. (wmeta'.pgid - 1)
  BY <1>2, <1>4, <1>5, <1>6 DEF Listed
<1>8. MemoryComplete'
  BY <1>1, <1>2, <1>7 DEF MemoryComplete, Version, HighWaterNow
<1> QED
  BY <1>2, <1>8, FileSame DEF AInv

(* The pages of the old list become pending, those of the new one used.    *)
LEMMA CommitFreelistComplete ==
    ASSUME StoreInv, AInv, StoreInv', NEW id \in Pages, CommitFreelist(id)
    PROVE  AInv'
<1> DEFINE old == NodePages(wmeta.flist)
           freed == pending \cup FreedBy(wmeta.txid, old)
           len == ListPages(Cardinality(ids) + Cardinality(freed))
           new == [id |-> id, len |-> len, gen |-> wmeta.gen]
<1>1. /\ phase = "open" /\ phase' # "panicked" /\ id \in Allocated(len)
      /\ wmeta \in Metas
  BY DEF CommitFreelist, StoreInv, TypeOK
<1>2. len \in Nat \ {0}
  <2>1. old \subseteq Pages
    BY <1>1, MetaFields, NodePagesType
  <2>2. IsFiniteSet(FreedBy(wmeta.txid, old))
    BY <1>1, <2>1, MetaFields, FreedByType
  <2>3. IsFiniteSet(freed) /\ IsFiniteSet(ids)
    BY <2>2, FS_Union, PagesFinite DEF StoreInv, TypeOK
  <2> QED
    BY <2>3, FS_CardinalityType, ListPagesType
<1>3. /\ UNCHANGED <<opened, file, slot>>
      /\ phase' = "listed" /\ pending' = freed
      /\ ids' = ids \ NodePages(new)
      /\ wmeta' = [wmeta EXCEPT !.flist = new, !.pgid = HighWater(id, len)]
  BY <1>1 DEF CommitFreelist, storage
<1>4. NodePages(new) = Run(id, len)
  BY DEF NodePages
<1>5. PendingPages(freed) = PendingPages(pending) \cup old
  BY PendingFreed
<1> HIDE DEF len
<1>6. /\ Used(wmeta) \cup Listed(ids, pending) = 2 .. (wmeta.pgid - 1)
      /\ (2 .. (wmeta.pgid - 1)) \cup NodePages(new) = 2 .. (HighWater(id, len) - 1)
  BY <1>1, <1>2, <1>4, WriterAboveMetas, AllocatedCompletes DEF AInv
<1> HIDE DEF new, freed
<1>7. /\ wmeta'.pgid = HighWater(id, len) /\ wmeta'.flist = new
      /\ wmeta'.tree = wmeta.tree
  BY <1>1, <1>3 DEF Metas
<1>8. Used(wmeta') \cup old = Used(wmeta) \cup NodePages(new)
  <2>1. NodesOf(wmeta') \cup {wmeta.flist} = NodesOf(wmeta) \cup {new}
    BY <1>7 DEF NodesOf
  <2> QED
    BY <2>1, InUsed
<1> HIDE DEF old
<1>9. Used(wmeta') \cup Listed(ids', pending') = 2 .. (wmeta'.pgid - 1)
  BY <1>3, <1>5, <1>6, <1>7, <1>8 DEF Listed
<1>10. MemoryComplete'
  BY <1>3, <1>9 DEF MemoryComplete, Version, HighWaterNow
<1> QED
  BY <1>3, <1>10, FileSame DEF AInv

-----------------------------------------------------------------------------
(* Steps on the file.                                                      *)

LEMMA WritePagesComplete ==
    ASSUME StoreInv, AInv, WritePages
    PROVE  AInv'
<1>1. /\ UNCHANGED <<opened, slot, ids, pending, wmeta>>
      /\ phase = "listed" /\ phase' = "written" /\ file' = Written(dirty)
  BY DEF WritePages, freelist
<1>2. ListOnPage(file', slot) = ListOnPage(file, slot)
  BY <1>1, WrittenSpares
<1>3. Current' = Current
  BY <1>1 DEF Current
<1>4. FileComplete'
  BY <1>1, <1>2, <1>3 DEF AInv, FileComplete, ListOnPage
<1>5. MemoryComplete'
  BY <1>1 DEF AInv, MemoryComplete, Version, HighWaterNow
<1> QED
  BY <1>4, <1>5 DEF AInv

LEMMA SyncPagesComplete ==
    ASSUME AInv, SyncPages
    PROVE  AInv'
<1>1. /\ UNCHANGED <<opened, file, slot, ids, pending, wmeta>>
      /\ phase = "written" /\ phase' = "synced"
  BY DEF SyncPages, freelist
<1>2. MemoryComplete'
  BY <1>1 DEF AInv, MemoryComplete, Version, HighWaterNow
<1> QED
  BY <1>1, <1>2, FileSame DEF AInv

(* The freelist in memory is the one on the page of the new version.       *)
LEMMA WriteMetaComplete ==
    ASSUME StoreInv, AInv, StoreInv', WriteMeta
    PROVE  AInv'
<1>1. /\ phase = "synced" /\ phase' = "meta"
      /\ UNCHANGED <<opened, file, ids, pending, wmeta>>
  BY DEF WriteMeta, freelist, StoreInv
<1>2. Current' = wmeta
  BY <1>1 DEF StoreInv, WriterSound
<1>3. file[wmeta.flist.id].ids = Listed(ids, pending)
  BY <1>1 DEF StoreInv, WriterSound
<1>4. ListOnPage(file', slot') = Listed(ids, pending)
  BY <1>1, <1>2, <1>3 DEF ListOnPage, Current
<1>5. Used(wmeta) \cup Listed(ids, pending) = 2 .. (wmeta.pgid - 1)
  BY <1>1, WriterAboveMetas DEF AInv
<1>6. FileComplete'
  BY <1>2, <1>4, <1>5 DEF FileComplete
<1>7. MemoryComplete'
  BY <1>1, <1>5 DEF MemoryComplete, Version, HighWaterNow
<1> QED
  BY <1>6, <1>7 DEF AInv

LEMMA SyncMetaComplete ==
    ASSUME StoreInv, AInv, SyncMeta
    PROVE  AInv'
<1>1. /\ UNCHANGED <<opened, file, slot, ids, pending>>
      /\ phase = "meta" /\ phase' = "none"
  BY DEF SyncMeta, EndWriter, freelist
<1>2. Current' = Current /\ wmeta = Current
  BY <1>1 DEF Current, StoreInv, WriterSound
<1>3. MemoryComplete'
  BY <1>1, <1>2 DEF AInv, MemoryComplete, Version, HighWaterNow
<1> QED
  BY <1>1, <1>3, FileSame DEF AInv

(* freelist.reload finds every page: those the transaction freed are in    *)
(* the current version again, those it allocated are on the stored list,   *)
(* and what stays pending is not taken from the list twice.                *)
LEMMA RollbackComplete ==
    ASSUME StoreInv, AInv, ListShort,
           phase \in {"open", "listed", "written", "synced", "meta"},
           NEW f, NEW s, file' = f, slot' = s, RollbackTx(f, s),
           Current' = Current, ListOnPage(f, s) = ListOnPage(file, slot)
    PROVE  AInv'
<1> DEFINE kept == Without(pending, wmeta.txid)
           list == ListOnPage(file, slot)
<1>1. /\ pending' = kept /\ ids' = list \ PendingPages(kept) /\ phase' = "none"
  BY ShortReadBack DEF RollbackTx, Reloaded, EndWriter, StoreInv
<1>2. FileComplete'
  BY DEF AInv, FileComplete
<1>3. /\ opened /\ Current \in Metas /\ Current.pgid \in Nat
      /\ Current.txid \in Nat /\ wmeta.pgid \in Nat
      /\ phase # "meta" => wmeta.txid = Current.txid + 1
      /\ Used(wmeta) \cup Listed(ids, pending) = 2 .. (wmeta.pgid - 1)
  BY CurrentSlot, MetaFields, WriterAboveMetas DEF StoreInv, WriterSound, AInv
<1>4. ASSUME NEW pr \in kept PROVE pr[2] \in 2 .. (Current.pgid - 1)
  <2>1. /\ pr \in pending /\ pr[1] # wmeta.txid /\ pr[1] \in Nat
        /\ pr[2] \in Nat
    BY DBAssumption DEF Without, StoreInv, TypeOK, Pages
  <2>2. pr[1] <= Current.txid
    <3>1. CASE phase = "meta"
      BY <2>1, <3>1 DEF StoreInv, FreelistSound
    <3>2. CASE phase # "meta"
      BY <1>3, <2>1, <3>2 DEF StoreInv, FreelistSound
    <3> QED
      BY <3>1, <3>2
  <2>3. pr[2] < Current.pgid
    BY <2>1, <2>2 DEF StoreInv, FreelistSound
  <2>4. pr[2] \in 2 .. (wmeta.pgid - 1)
    BY <1>3, <2>1, InPending DEF Listed
  <2> QED
    BY <1>3, <2>1, <2>3, <2>4
<1>5. PendingPages(kept) \subseteq 2 .. (Current.pgid - 1)
  BY <1>4, InPending
<1>6. Used(Current) \cup list = 2 .. (Current.pgid - 1)
  BY DEF AInv, FileComplete
<1> HIDE DEF kept, list
<1>7. Used(Current) \cup Listed(ids', pending') = 2 .. (Current.pgid - 1)
  BY <1>1, <1>5, <1>6 DEF Listed
<1>8. MemoryComplete'
  BY <1>1, <1>7 DEF MemoryComplete, Version, HighWaterNow
<1> QED
  BY <1>2, <1>8 DEF AInv

LEMMA OpenComplete ==
    ASSUME StoreInv, AInv, ListShort, Open
    PROVE  AInv'
<1>1. /\ UNCHANGED <<file, slot, phase>>
      /\ ids' = ListOnPage(file, slot) /\ pending' = {} /\ phase = "none"
  BY ShortReadBack DEF Open, StoreInv, ClosedSound, storage, rwtx
<1>2. Current' = Current /\ FileComplete'
  BY <1>1, FileSame DEF AInv
<1>3. Listed(ids', pending') = ListOnPage(file, slot)
  BY <1>1, InPending DEF Listed
<1>4. MemoryComplete'
  BY <1>1, <1>2, <1>3 DEF AInv, FileComplete, MemoryComplete, Version, HighWaterNow
<1> QED
  BY <1>2, <1>4 DEF AInv

-----------------------------------------------------------------------------
LEMMA AInvInit == Init => AInv
<1> SUFFICES ASSUME Init PROVE AInv
  OBVIOUS
<1>1. /\ StoreInv /\ file = InitialFile /\ ids = {} /\ pending = {} /\ opened
      /\ phase = "none"
  BY StoreInit DEF Init, NoWriter
<1>2. /\ slot \in [{0, 1} -> Metas] /\ slot[0] = InitialMeta(0)
      /\ slot[1] = InitialMeta(1)
  BY <1>1 DEF Init, StoreInv, TypeOK
<1>3. Current = InitialMeta(1)
  BY <1>2, MetaIs DEF InitialMeta, Current
<1>4. /\ Current.pgid = 4 /\ Current.flist = [id |-> 2, len |-> 1, gen |-> 1]
      /\ Current.tree = {[id |-> 3, len |-> 1, gen |-> 1]}
  BY <1>3 DEF InitialMeta
<1>5. NodePages(Current.flist) = {2} /\ \A n \in Current.tree : NodePages(n) = {3}
  BY <1>4 DEF NodePages, Run
<1>6. Used(Current) = {2, 3}
  <2>1. NodesOf(Current) = Current.tree \cup {Current.flist} /\ Current.tree # {}
    BY <1>4 DEF NodesOf
  <2>2. \A p : p \in {2, 3} <=> \E n \in NodesOf(Current) : p \in NodePages(n)
    BY <1>5, <2>1
  <2> QED
    BY <2>2, InUsed
<1>7. ListOnPage(file, slot) = {}
  <2>1. file[2].ids = {}
    BY <1>1, DBAssumption DEF InitialFile, Pages
  <2>2. Meta(slot).flist.id = 2
    BY <1>4 DEF Current
  <2> QED
    BY <2>1, <2>2 DEF ListOnPage
<1>8. Listed(ids, pending) = {}
  BY <1>1, InPending DEF Listed
<1>9. {2, 3} = 2 .. (4 - 1)
  OBVIOUS
<1> QED
  BY <1>1, <1>4, <1>6, <1>7, <1>8, <1>9
  DEF AInv, MemoryComplete, FileComplete, Version, HighWaterNow

LEMMA AInvNext ==
    ASSUME StoreInv, StoreInv', AInv, ListShort, [Next]_vars, ~ PowerFails
    PROVE  AInv'
<1>1. CASE UNCHANGED vars
  BY <1>1, SameComplete DEF vars, storage, freelist, rwtx
<1>2. CASE Next
  <2>1. ASSUME NEW r \in Readers, BeginTx(r) \/ CloseTx(r) PROVE AInv'
    BY <2>1, SameComplete DEF BeginTx, CloseTx, storage, freelist, rwtx
  <2>2. CASE BeginRWTx
    BY <2>2, BeginRWTxComplete
  <2>3. CASE phase = "open" /\ \E n \in wmeta.tree : FreeNode(n)
    BY <2>3, FreeNodeComplete
  <2>4. ASSUME NEW len \in NodeLengths, NEW id \in Pages, AllocNode(len, id)
        PROVE  AInv'
    BY <2>4, AllocNodeComplete
  <2>5. ASSUME NEW id \in Pages, CommitFreelist(id) PROVE AInv'
    BY <2>5, CommitFreelistComplete
  <2>6. CASE WritePages
    BY <2>6, WritePagesComplete
  <2>7. CASE SyncPages
    BY <2>7, SyncPagesComplete
  <2>8. CASE WriteMeta
    BY <2>8, WriteMetaComplete
  <2>9. CASE SyncMeta
    BY <2>9, SyncMetaComplete
  <2>10. CASE Rollback \/ AllocFails \/ SyncFails \/ MetaSyncFails
    <3>1. /\ phase \in {"open", "listed", "written", "synced", "meta"}
          /\ UNCHANGED <<file, slot>> /\ RollbackTx(file, slot)
      BY <2>10 DEF Rollback, AllocFails, SyncFails, MetaSyncFails, storage
    <3>2. Current' = Current
      BY <3>1 DEF Current
    <3> QED
      BY <3>1, <3>2, RollbackComplete
  <2>11. CASE WriteFails
    <3>1. PICK n \in dirty :
            /\ file' = Written({m \in dirty : m.id < n.id})
            /\ RollbackTx(file', slot)
      BY <2>11 DEF WriteFails
    <3>2. phase = "listed" /\ slot' = slot
      BY <2>11 DEF WriteFails
    <3>3. Current' = Current
      BY <3>2 DEF Current
    <3>4. ListOnPage(file', slot) = ListOnPage(file, slot)
      BY <3>1, <3>2, WrittenSpares
    <3> QED
      BY <3>1, <3>2, <3>3, <3>4, RollbackComplete
  <2>12. CASE MetaWriteFails
    <3>1. phase = "synced" /\ file' = file /\ RollbackTx(file, slot')
      BY <2>12 DEF MetaWriteFails
    <3>2. Current' = Current
      BY <2>12, MetaWriteFailsCurrent DEF StoreInv
    <3>3. ListOnPage(file, slot') = ListOnPage(file, slot)
      BY <3>2 DEF ListOnPage, Current
    <3> QED
      BY <3>1, <3>2, <3>3, RollbackComplete
  <2>13. CASE Open
    BY <2>13, OpenComplete
  <2>14. CASE Close \/ Kill
    <3>1. opened' = FALSE /\ UNCHANGED <<file, slot>>
      BY <2>14 DEF Close, Kill, ProcessGone, storage
    <3> QED
      BY <3>1, FileSame DEF AInv, MemoryComplete
  <2> QED
    BY <1>2, <2>1, <2>2, <2>3, <2>4, <2>5, <2>6, <2>7, <2>8, <2>9, <2>10,
       <2>11, <2>12, <2>13, <2>14 DEF Next
<1> QED
  BY <1>1, <1>2

(* Between commits there is one version to lose pages of.                  *)
LEMMA OneVersionComplete ==
    ASSUME FileComplete', phase' # "meta"
    PROVE  DurableComplete'
  BY DEF FileComplete, DurableComplete, Durable, ListOnPage, Current

LEMMA DurableNext ==
    ASSUME StoreInv, AInv, DurableComplete, StoreInv', AInv', [Next]_vars,
           ~ PowerFails
    PROVE  DurableComplete'
<1>1. CASE phase' # "meta"
  BY <1>1, OneVersionComplete DEF AInv
<1>2. CASE UNCHANGED <<file, slot, phase, wmeta>>
  <2>1. Durable' = Durable
    BY <1>2 DEF Durable, Current
  <2> QED
    BY <1>2, <2>1 DEF DurableComplete
<1>3. CASE WriteMeta /\ phase' = "meta"
  <2>1. /\ UNCHANGED <<file, wmeta>> /\ wmeta \in Metas
        /\ slot' = [slot EXCEPT ![MetaSlot(wmeta)] = wmeta]
        /\ wmeta.txid = Current.txid + 1 /\ slot \in [{0, 1} -> Metas]
    BY <1>3 DEF WriteMeta, StoreInv, TypeOK, WriterSound
  <2>2. PICK i \in {0, 1} :
          /\ Current = slot[i]
          /\ \A m \in Metas : m.txid = Current.txid + 1 => MetaSlot(m) = 1 - i
    BY CurrentSlot DEF StoreInv
  <2>3. MetaSlot(wmeta) = 1 - i /\ 1 - (1 - i) = i /\ i # 1 - i
    BY <2>1, <2>2
  <2>4. Durable' = Current
    BY <1>3, <2>1, <2>2, <2>3 DEF Durable
  <2> QED
    BY <2>1, <2>4 DEF DurableComplete, AInv, FileComplete, ListOnPage, Current
<1>4. phase' # "meta" \/ UNCHANGED <<file, slot, phase, wmeta>> \/ WriteMeta
  BY DEF Next, vars, storage, rwtx, BeginTx, CloseTx, BeginRWTx, FreeNode,
     AllocNode, CommitFreelist, WritePages, SyncPages, SyncMeta, EndWriter,
     Rollback, AllocFails, WriteFails, SyncFails, MetaWriteFails,
     MetaSyncFails, RollbackTx, Open, Close, Kill, ProcessGone
<1> QED
  BY <1>1, <1>2, <1>3, <1>4

(* The list of the version that is left is in the file.                    *)
LEMMA PowerFailsComplete ==
    ASSUME DiskInv, AInv, DurableComplete, TypeOK', PowerFails
    PROVE  AInv' /\ DurableComplete'
<1>1. /\ \A p \in Pages : file'[p] = file[p] \/ file'[p] = disk[p]
      /\ opened' = FALSE /\ phase' = "none"
  BY DEF PowerFails, ProcessGone, EndWriter
<1>2. /\ StoreInv /\ DiskSound /\ Current' \in {Durable, Current}
      /\ Current \in Metas /\ Durable \in Metas
  BY PowerFailsKeeps, CurrentSlot, DurableSlot DEF DiskInv, PowerFails, StoreInv
<1>3. CASE Current' = Durable
  <2>1. file'[Durable.flist.id] = file[Durable.flist.id]
    BY <1>1, <1>2, UsedType DEF DiskSound
  <2> QED
    BY <1>1, <1>3, <2>1, OneVersionComplete
    DEF AInv, MemoryComplete, FileComplete, DurableComplete, ListOnPage, Current
<1>4. CASE Current' = Current
  <2>1. file'[Current.flist.id] = file[Current.flist.id]
    <3>1. phase # "meta" => Durable = Current
      BY DEF Durable
    <3> QED
      BY <1>1, <1>2, <3>1, UsedType DEF DiskSound
  <2> QED
    BY <1>1, <1>4, <2>1, OneVersionComplete
    DEF AInv, MemoryComplete, FileComplete, ListOnPage, Current
<1> QED
  BY <1>2, <1>3, <1>4

LEMMA CInvInit == Init => CInv
<1>1. Init => DiskInv /\ AInv /\ phase = "none"
  BY DiskInit, AInvInit DEF IInv, Init, NoWriter
<1> QED
  BY <1>1 DEF CInv, AInv, FileComplete, DurableComplete, Durable, ListOnPage, Current

LEMMA CInvNext ==
    ASSUME Recoverable, CInv, ListShort, [Next]_vars
    PROVE  CInv'
<1>1. DiskInv'
  BY DiskInvNext DEF CInv
<1>2. CASE PowerFails
  <2>1. TypeOK'
    BY <1>1 DEF DiskInv, StoreInv
  <2> QED
    BY <1>1, <1>2, <2>1, PowerFailsComplete DEF CInv
<1>3. CASE ~ PowerFails
  <2>1. StoreInv /\ StoreInv'
    BY <1>1 DEF CInv, DiskInv
  <2>2. AInv'
    BY <1>1, <1>3, <2>1, AInvNext DEF CInv
  <2> QED
    BY <1>1, <1>3, <2>1, <2>2, DurableNext DEF CInv
<1> QED
  BY <1>2, <1>3

(* Completeness, and the disjointness of the invariant of DBInvariant, are *)
(* what Tx.Check asks for.                                                 *)
LEMMA AccountedFor ==
    ASSUME StoreInv, AInv
    PROVE  CheckPasses
<1>1. ASSUME NEW m, Disjoint(m), NEW n1 \in NodesOf(m), NEW n2 \in NodesOf(m),
             n1 # n2
      PROVE  NodePages(n1) \cap NodePages(n2) = {}
  BY <1>1 DEF Disjoint, NodesOf
<1>2. ASSUME opened, phase = "none" PROVE Accounted(Current)
  <2>1. Used(Current) \cup Listed(ids, pending) = 2 .. (Current.pgid - 1)
    BY <1>2 DEF AInv, MemoryComplete, Version, HighWaterNow
  <2>2. Disjoint(Current) /\ ids \cap PendingPages(pending) = {}
    BY DEF StoreInv, CurrentSound, FreelistSound
  <2>3. Current.txid \in Nat
    BY CurrentSlot, MetaFields DEF StoreInv
  <2>4. Used(Current) \cap ids = {}
    BY DEF StoreInv, Protected
  <2>5. ASSUME NEW pr \in pending PROVE pr[2] \notin Used(Current)
    <3>1. pr[1] \in Nat /\ pr[1] <= Current.txid
      BY <1>2 DEF StoreInv, FreelistSound, TypeOK
    <3> QED
      BY <2>3, <3>1 DEF StoreInv, Protected
  <2>6. Used(Current) \cap PendingPages(pending) = {}
    BY <2>5, InPending
  <2>7. Used(Current) \cap {0, 1} = {}
    BY <2>1
  <2> QED
    BY <1>1, <2>1, <2>2, <2>4, <2>6, <2>7 DEF Accounted, Listed
<1>3. ASSUME phase \in {"written", "synced"} PROVE Accounted(wmeta)
  <2>1. Used(wmeta) \cup Listed(ids, pending) = 2 .. (wmeta.pgid - 1)
    BY <1>3, WriterAboveMetas DEF AInv
  <2>2. Disjoint(wmeta) /\ Used(wmeta) \cap (ids \cup PendingPages(pending)) = {}
    BY <1>3 DEF StoreInv, WriterSound
  <2>3. ids \cap PendingPages(pending) = {}
    BY DEF StoreInv, FreelistSound
  <2>4. Used(wmeta) \cap {0, 1} = {}
    BY <2>1
  <2> QED
    BY <1>1, <2>1, <2>2, <2>3, <2>4 DEF Accounted, Listed
<1> QED
  BY <1>2, <1>3 DEF CheckPasses, Current

(* Tx.Check finds nothing, between write transactions and in StrictMode    *)
(* before a commit, after any sequence of commits, failures and restarts,  *)
(* as long as the stored freelist is short of the limit of its count.      *)
THEOREM CheckAlwaysPasses ==
    ASSUME Recoverable
    PROVE  Spec /\ []ListShort => []CheckPasses
<1>1. CInv /\ ListShort /\ [Next]_vars => CInv'
  BY CInvNext
<1>2. CInv => CheckPasses
  BY AccountedFor DEF CInv, DiskInv
<1> QED
  BY <1>1, <1>2, CInvInit, PTL DEF Spec

(* No list is that long in a file of no more pages than the limit: 256 MB  *)
(* of pages of 4 KB.                                                       *)
THEOREM SmallFilesPassCheck ==
    ASSUME Recoverable, MaxPage <= CountLimit
    PROVE  Spec => []CheckPasses
<1>1. CInv => ListShort
  <2> SUFFICES ASSUME CInv PROVE ListShort
    OBVIOUS
  <2> DEFINE list == ListOnPage(file, slot)
  <2>1. StoreInv /\ list \subseteq Pages /\ list \subseteq 2 .. (Current.pgid - 1)
    BY ListType DEF CInv, DiskInv, StoreInv, TypeOK, AInv, FileComplete
  <2>2. Current.pgid \in Nat
    BY <2>1, CurrentSlot, MetaFields DEF StoreInv
  <2>3. list \subseteq 2 .. MaxPage
    BY <2>1, <2>2, DBAssumption DEF Pages
  <2>4. /\ IsFiniteSet(2 .. MaxPage) /\ Cardinality(2 .. MaxPage) = MaxPage - 1
    BY FS_Interval, DBAssumption
  <2>5. Cardinality(list) <= MaxPage - 1 /\ Cardinality(list) \in Nat
    BY <2>3, <2>4, FS_Subset, FS_CardinalityType
  <2> QED
    BY <2>5, DBAssumption, FreelistAssumption DEF ListShort
<1>2. CInv /\ [Next]_vars => CInv'
  BY <1>1, CInvNext
<1>3. CInv => CheckPasses
  BY AccountedFor DEF CInv, DiskInv
<1> QED
  BY <1>2, <1>3, CInvInit, PTL DEF Spec

-----------------------------------------------------------------------------
(* The size of the list.                                                   *)

(* A page freed twice would still be listed once.                          *)
LEMMA PendingPagesSize ==
    ASSUME NEW pend \in SUBSET (Nat \X Pages), IsFiniteSet(pend)
    PROVE  /\ IsFiniteSet(PendingPages(pend))
           /\ Cardinality(PendingPages(pend)) <= Cardinality(pend)
<1> DEFINE page == [pr \in pend |-> pr[2]]
<1>1. page \in Surjection(pend, PendingPages(pend))
  BY DEF Surjection, PendingPages
<1> QED
  BY <1>1, FS_Surjection

LEMMA ListedSize ==
    ASSUME NEW free \in SUBSET Pages,
           NEW pend \in SUBSET (Nat \X Pages), IsFiniteSet(pend)
    PROVE  /\ Cardinality(free) \in Nat /\ Cardinality(pend) \in Nat
           /\ Cardinality(Listed(free, pend)) \in Nat
           /\ Cardinality(Listed(free, pend)) <= Cardinality(free) + Cardinality(pend)
<1>1. IsFiniteSet(free) /\ IsFiniteSet(PendingPages(pend))
      /\ Cardinality(PendingPages(pend)) <= Cardinality(pend)
  BY PagesFinite, PendingPagesSize
<1>2. /\ Cardinality(free) \in Nat /\ Cardinality(pend) \in Nat
      /\ Cardinality(PendingPages(pend)) \in Nat
      /\ Cardinality(free \cap PendingPages(pend)) \in Nat
      /\ Cardinality(Listed(free, pend)) \in Nat
  <2>1. IsFiniteSet(free \cap PendingPages(pend)) /\ IsFiniteSet(Listed(free, pend))
    BY <1>1, FS_Subset, FS_Union DEF Listed
  <2> QED
    BY <1>1, <2>1, FS_CardinalityType
<1>3. Cardinality(Listed(free, pend)) =
        Cardinality(free) + Cardinality(PendingPages(pend))
          - Cardinality(free \cap PendingPages(pend))
  BY <1>1, FS_Union DEF Listed
<1> QED
  BY <1>1, <1>2, <1>3

(* A longer list is not smaller.                                           *)
LEMMA SizeGrows ==
    ASSUME NEW a \in Nat, NEW b \in Nat, a <= b
    PROVE  /\ SizeInIds(a) \in Nat /\ SizeInIds(b) \in Nat
           /\ SizeInIds(a) <= SizeInIds(b)
  BY FreelistAssumption DEF SizeInIds

(* One page more than the quotient is enough for the remainder.            *)
LEMMA QuotientAndOneMore ==
    ASSUME NEW size \in Nat, NEW page \in Nat \ {0}
    PROVE  size <= page * ((size \div page) + 1)
<1>1. /\ size \div page \in Nat
      /\ size = page * (size \div page) + (size % page)
      /\ size % page < page /\ size % page \in Nat
  OBVIOUS
<1>2. \A q \in Nat : page * (q + 1) = page * q + page
  OBVIOUS
<1> QED
  BY <1>1, <1>2

LEMMA ListFits ==
    ASSUME NEW a \in Nat, NEW b \in Nat, a <= b
    PROVE  SizeInIds(a) <= IdsPerPage * ListPages(b)
<1>1. SizeInIds(b) <= IdsPerPage * ListPages(b)
  BY SizeGrows, QuotientAndOneMore, FreelistAssumption DEF ListPages
<1>2. IdsPerPage * ListPages(b) \in Nat
  BY ListPagesType, FreelistAssumption
<1> QED
  BY <1>1, <1>2, SizeGrows

(* Taking the pages of the new list from the freelist after sizing it only *)
(* makes the list shorter; freeing those of the old one came before.       *)
LEMMA CommitFreelistFits ==
    ASSUME TypeOK, NEW id \in Pages, CommitFreelist(id), phase' = "listed"
    PROVE  FreelistFits'
<1> DEFINE old == NodePages(wmeta.flist)
           freed == pending \cup FreedBy(wmeta.txid, old)
           count == Cardinality(ids) + Cardinality(freed)
           new == [id |-> id, len |-> ListPages(count), gen |-> wmeta.gen]
<1>1. phase = "open" /\ wmeta \in Metas
  BY DEF CommitFreelist, TypeOK
<1>2. /\ pending' = freed /\ ids' = ids \ NodePages(new)
      /\ wmeta' = [wmeta EXCEPT !.flist = new, !.pgid = HighWater(id, ListPages(count))]
      /\ wlist' = Listed(ids', pending')
  BY <1>1 DEF CommitFreelist
<1>3. freed \in SUBSET (Nat \X Pages) /\ IsFiniteSet(freed)
  <2>1. old \subseteq Pages
    BY <1>1, MetaFields, NodePagesType
  <2>2. /\ FreedBy(wmeta.txid, old) \subseteq Nat \X Pages
        /\ IsFiniteSet(FreedBy(wmeta.txid, old))
    BY <1>1, <2>1, MetaFields, FreedByType
  <2> QED
    BY <2>2, FS_Union DEF TypeOK
<1> HIDE DEF freed
<1>4. ids \in SUBSET Pages /\ ids' \in SUBSET ids /\ ids' \in SUBSET Pages
      /\ IsFiniteSet(ids)
  BY <1>2, PagesFinite DEF TypeOK
<1>5. Cardinality(ids') <= Cardinality(ids)
  BY <1>4, FS_Subset
<1>6. /\ Cardinality(ids') \in Nat /\ Cardinality(ids) \in Nat
      /\ Cardinality(freed) \in Nat /\ Cardinality(wlist') \in Nat
      /\ Cardinality(wlist') <= Cardinality(ids') + Cardinality(freed)
  BY <1>2, <1>3, <1>4, ListedSize
<1>7. Cardinality(wlist') <= count /\ count \in Nat
  BY <1>5, <1>6
<1> HIDE DEF count
<1>8. wmeta'.flist.len = ListPages(count)
  BY <1>1, <1>2 DEF Metas
<1> QED
  BY <1>6, <1>7, <1>8, ListFits DEF FreelistFits

(* The page allocated for the freelist always holds what is written there, *)
(* whatever fails.                                                         *)
THEOREM ListAlwaysFits == Spec => []FreelistFits
<1>1. Init => TypeOK /\ FreelistFits
  BY TypeInit DEF Init, NoWriter, FreelistFits
<1>2. (TypeOK /\ FreelistFits) /\ [Next]_vars => (TypeOK /\ FreelistFits)'
  <2> SUFFICES ASSUME TypeOK, FreelistFits, [Next]_vars
               PROVE  TypeOK' /\ FreelistFits'
    OBVIOUS
  <2>1. TypeOK'
    BY TypeNext
  <2>2. CASE phase' # "listed"
    BY <2>1, <2>2 DEF FreelistFits
  <2>3. CASE UNCHANGED <<phase, wlist, wmeta>>
    BY <2>1, <2>3 DEF FreelistFits
  <2>4. CASE phase' = "listed" /\ ~ UNCHANGED <<phase, wlist, wmeta>>
    <3>1. \E id \in Pages : CommitFreelist(id)
      BY <2>4 DEF Next, vars, rwtx, BeginTx, CloseTx, BeginRWTx, FreeNode,
         AllocNode, WritePages, SyncPages, WriteMeta, SyncMeta, EndWriter,
         Rollback, AllocFails, WriteFails, SyncFails, MetaWriteFails,
         MetaSyncFails, RollbackTx, Open, Close, Kill, PowerFails, ProcessGone
    <3> QED
      BY <2>1, <2>4, <3>1, CommitFreelistFits
  <2> QED
    BY <2>2, <2>3, <2>4
<1> QED
  BY <1>1, <1>2, PTL DEF Spec

=============================================================================
