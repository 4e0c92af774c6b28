------------------------------ MODULE DBSafety ------------------------------
(***************************************************************************)
(* Type correctness of DB, and what every step of it but a failure of the  *)
(* power, which DBDisk adds, does to the file, the freelist and the        *)
(* versions transactions read.                                             *)
(***************************************************************************)
EXTENDS DBInvariant, FiniteSetTheorems, TLAPS

-----------------------------------------------------------------------------
(* Pages and nodes.                                                        *)

(* The pages of a node lie in the file, its first page among them.         *)
LEMMA NodePagesType ==
    ASSUME NEW n \in Nodes
    PROVE  NodePages(n) \subseteq Pages /\ n.id \in NodePages(n)
  BY DBAssumption DEF Nodes, NodePages, Run, Pages

(* A freelist never takes fewer than one page.                             *)
LEMMA ListPagesType ==
    ASSUME NEW count \in Nat
    PROVE  ListPages(count) \in Nat \ {0}
<1>1. SizeInIds(count) \in Nat
  BY FreelistAssumption DEF SizeInIds
<1>2. SizeInIds(count) \div IdsPerPage \in Nat
  BY <1>1, FreelistAssumption
<1> QED
  BY <1>2 DEF ListPages

(* The current meta page is one of the two.                                *)
LEMMA MetaType ==
    ASSUME NEW s \in [{0, 1} -> Metas]
    PROVE  Meta(s) \in Metas
  BY DEF Meta, Newer

LEMMA MetaFields ==
    ASSUME NEW m \in Metas
    PROVE  /\ m.ok \in BOOLEAN /\ m.txid \in Nat /\ m.pgid \in Nat
           /\ m.flist \in Nodes /\ m.tree \subseteq Nodes /\ m.gen \in Nat
           /\ m # NoMeta
  BY DBAssumption DEF Metas

LEMMA TornType ==
    ASSUME NEW m \in Metas
    PROVE  Torn(m) \in Metas
  BY DEF Torn, Metas

LEMMA PagesFinite == IsFiniteSet(Pages) /\ \A ps \in SUBSET Pages : IsFiniteSet(ps)
<1>1. IsFiniteSet(Pages)
  BY FS_Interval, DBAssumption DEF Pages
<1> QED
  BY <1>1, FS_Subset

(* What a transaction frees is a finite set of pairs.                      *)
LEMMA FreedByType ==
    ASSUME NEW t \in Nat, NEW ps \in SUBSET Pages
    PROVE  FreedBy(t, ps) \subseteq Nat \X Pages /\ IsFiniteSet(FreedBy(t, ps))
<1>2. IsFiniteSet(ps)
  BY PagesFinite
<1>3. IsFiniteSet({t})
  BY FS_Singleton
<1> QED
  BY <1>2, <1>3, FS_Product DEF FreedBy

(* Where db.allocate finds room.                                           *)
LEMMA AllocatedType ==
    ASSUME NEW n \in Nat \ {0}, NEW id \in Pages, id \in Allocated(n),
           id + n <= MaxPage + 1, NEW g \in Nat
    PROVE  [id |-> id, len |-> n, gen |-> g] \in Nodes
  BY DBAssumption DEF Nodes, Pages

LEMMA HighWaterType ==
    ASSUME NEW n \in Nat \ {0}, NEW id \in Pages, wmeta \in Metas
    PROVE  HighWater(id, n) \in Nat
  BY DBAssumption, MetaFields DEF HighWater, Pages

LEMMA PendingPagesType ==
    ASSUME NEW pend \in SUBSET (Nat \X Pages)
    PROVE  PendingPages(pend) \subseteq Pages
  BY DEF PendingPages

(* What freelist.reload and freelist.read find on a page of the file.      *)
LEMMA ListType ==
    ASSUME NEW f \in [Pages -> [gen : Nat, ids : SUBSET Pages]],
           NEW s \in [{0, 1} -> Metas]
    PROVE  ReadBack(ListOnPage(f, s)) \subseteq ListOnPage(f, s)
           /\ ListOnPage(f, s) \subseteq Pages
<1>1. Meta(s).flist.id \in Pages
  BY MetaType, MetaFields, NodePagesType
<1> QED
  BY <1>1 DEF ReadBack, ListOnPage

LEMMA WrittenType ==
    ASSUME TypeOK, phase # "none", NEW done
    PROVE  Written(done) \in [Pages -> [gen : Nat, ids : SUBSET Pages]]
<1>1. wmeta \in Metas
  BY DEF TypeOK
<1>2. \A p : Content(p) \in [gen : Nat, ids : SUBSET Pages]
  BY <1>1, MetaFields DEF Content, TypeOK
<1> QED
  BY <1>2 DEF Written, TypeOK

(* tx.rollback leaves a freelist of pages of the file.                     *)
LEMMA RollbackType ==
    ASSUME TypeOK, phase # "none",
           NEW f \in [Pages -> [gen : Nat, ids : SUBSET Pages]],
           NEW s \in [{0, 1} -> Metas],
           RollbackTx(f, s)
    PROVE  /\ ids' \subseteq Pages /\ cache' \subseteq Pages
           /\ pending' \subseteq pending
           /\ pending' \subseteq Nat \X Pages /\ IsFiniteSet(pending')
           /\ EndWriter
<1>1. pending' \subseteq pending
  BY DEF RollbackTx, Without
<1>2. pending' \subseteq Nat \X Pages /\ IsFiniteSet(pending')
  BY <1>1, FS_Subset DEF TypeOK
<1>3. PendingPages(pending') \subseteq Pages
  BY <1>2, PendingPagesType
<1> QED
  BY <1>1, <1>2, <1>3, ListType DEF RollbackTx, Reloaded

-----------------------------------------------------------------------------
(* Type correctness.                                                       *)

LEMMA TypeInit == Init => TypeOK
<1> SUFFICES ASSUME Init PROVE TypeOK
  OBVIOUS
<1>1. \A i \in {0, 1} : InitialMeta(i) \in Metas
  BY DBAssumption DEF InitialMeta, Metas, Nodes
<1>2. InitialFile \in [Pages -> [gen : Nat, ids : SUBSET Pages]]
  BY DEF InitialFile
<1>3. slot \in [{0, 1} -> Metas] /\ dslot \in [{0, 1} -> Metas]
  BY <1>1 DEF Init
<1>4. IsFiniteSet(pending)
  BY FS_EmptySet DEF Init
<1> QED
  BY <1>2, <1>3, <1>4 DEF Init, TypeOK, NoWriter

LEMMA TypeNext == TypeOK /\ [Next]_vars => TypeOK'
<1> SUFFICES ASSUME TypeOK, [Next]_vars PROVE TypeOK'
  OBVIOUS
<1> USE DEF TypeOK, storage, freelist, rwtx
<1>1. ASSUME NEW r \in Readers, BeginTx(r) PROVE TypeOK'
  BY <1>1, MetaType DEF BeginTx
<1>2. ASSUME NEW r \in Readers, CloseTx(r) PROVE TypeOK'
  BY <1>2 DEF CloseTx
<1>3. CASE BeginRWTx
  <2>1. Meta(slot) \in Metas
    BY MetaType
  <2>2. wmeta' \in Metas
    <3>1. /\ wmeta' = [Meta(slot) EXCEPT !.txid = @ + 1, !.gen = gen']
          /\ gen' = gen + 1 /\ gen \in Nat
      BY <1>3 DEF BeginRWTx
    <3>2. gen' \in Nat /\ Meta(slot).txid + 1 \in Nat
      BY <2>1, <3>1, MetaFields
    <3> QED
      BY <2>1, <3>1, <3>2 DEF Metas
  <2>3. ids' \subseteq Pages
    <3>1. PendingPages(Releasable) \subseteq Pages
      BY PendingPagesType DEF Releasable
    <3> QED
      BY <1>3, <3>1 DEF BeginRWTx
  <2>4. IsFiniteSet(pending') /\ pending' \subseteq Nat \X Pages
    BY <1>3, FS_Subset DEF BeginRWTx
  <2> QED
    BY <1>3, <2>2, <2>3, <2>4, DBAssumption DEF BeginRWTx
<1>4. ASSUME NEW n \in wmeta.tree, phase = "open", FreeNode(n) PROVE TypeOK'
  <2>1. wmeta \in Metas /\ n \in Nodes
    BY <1>4, MetaFields
  <2>2. CASE NodePages(n) \cap cache # {}
    BY <1>4, <2>1, <2>2 DEF FreeNode
  <2>3. CASE NodePages(n) \cap cache = {}
    <3>1. NodePages(n) \subseteq Pages
      BY <2>1, NodePagesType
    <3>2. /\ FreedBy(wmeta.txid, NodePages(n)) \subseteq Nat \X Pages
          /\ IsFiniteSet(FreedBy(wmeta.txid, NodePages(n)))
      BY <2>1, <3>1, MetaFields, FreedByType
    <3>3. pending' \subseteq Nat \X Pages /\ IsFiniteSet(pending')
      <4>1. pending' = pending \cup FreedBy(wmeta.txid, NodePages(n))
        BY <1>4, <2>3 DEF FreeNode
      <4> QED
        BY <3>2, <4>1, FS_Union
    <3>4. wmeta' \in Metas
      BY <1>4, <2>1, <2>3 DEF FreeNode, Metas
    <3> QED
      BY <1>4, <2>1, <2>3, <3>1, <3>3, <3>4, MetaFields DEF FreeNode
  <2> QED
    BY <2>2, <2>3
<1>5. ASSUME NEW len \in NodeLengths, NEW id \in Pages, AllocNode(len, id)
      PROVE  TypeOK'
  <2>1. wmeta \in Metas /\ len \in Nat \ {0}
    BY <1>5, DBAssumption DEF AllocNode
  <2> DEFINE new == [id |-> id, len |-> len, gen |-> wmeta.gen]
  <2>2. new \in Nodes
    BY <1>5, <2>1, MetaFields, AllocatedType DEF AllocNode
  <2>3. HighWater(id, len) \in Nat
    BY <2>1, HighWaterType
  <2>4. wmeta' \in Metas
    BY <1>5, <2>1, <2>2, <2>3 DEF AllocNode, Metas
  <2> QED
    BY <1>5, <2>1, <2>2, <2>4, MetaFields DEF AllocNode
<1>6. ASSUME NEW id \in Pages, CommitFreelist(id) PROVE TypeOK'
  <2> DEFINE old == NodePages(wmeta.flist)
             freed == pending \cup FreedBy(wmeta.txid, old)
             len == ListPages(Cardinality(ids) + Cardinality(freed))
             new == [id |-> id, len |-> len, gen |-> wmeta.gen]
  <2>1. wmeta \in Metas
    BY <1>6 DEF CommitFreelist
  <2>2. old \subseteq Pages
    BY <2>1, MetaFields, NodePagesType
  <2>3. /\ FreedBy(wmeta.txid, old) \subseteq Nat \X Pages
        /\ IsFiniteSet(FreedBy(wmeta.txid, old))
    BY <2>1, <2>2, MetaFields, FreedByType
  <2>4. freed \subseteq Nat \X Pages /\ IsFiniteSet(freed)
    BY <2>3, FS_Union
  <2>5. IsFiniteSet(ids)
    BY PagesFinite
  <2>6. Cardinality(ids) \in Nat /\ Cardinality(freed) \in Nat
    BY <2>4, <2>5, FS_CardinalityType
  <2>7. len \in Nat \ {0}
    BY <2>6, ListPagesType
  <2>8. CASE old \cap cache # {}
    BY <1>6, <2>1, <2>8 DEF CommitFreelist
  <2>9. CASE old \cap cache = {}
    <3>1. /\ phase' = "listed" /\ pending' = freed
          /\ ids' = ids \ NodePages(new)
          /\ cache' = (cache \cup old) \ NodePages(new)
          /\ dirty' = dirty \cup {new}
          /\ wmeta' = [wmeta EXCEPT !.flist = new, !.pgid = HighWater(id, len)]
          /\ wlist' = Listed(ids', pending')
          /\ id \in Allocated(len) /\ id + len <= MaxPage + 1
          /\ UNCHANGED <<opened, storage, rmeta, gen, acked>>
      BY <1>6, <2>9 DEF CommitFreelist
    <3>2. new \in Nodes
      <4> HIDE DEF len
      <4> QED BY <2>1, <2>7, <3>1, MetaFields, AllocatedType
    <3>3. HighWater(id, len) \in Nat
      <4> HIDE DEF len
      <4> QED BY <2>1, <2>7, HighWaterType
    <3> HIDE DEF new, len, freed, old
    <3>4. wmeta' \in Metas
      BY <2>1, <3>1, <3>2, <3>3 DEF Metas
    <3>5. wlist' \subseteq Pages
      BY <2>4, <3>1, PendingPagesType DEF Listed
    <3> QED
      BY <2>2, <2>4, <3>1, <3>2, <3>4, <3>5, MetaFields
  <2> QED
    BY <2>8, <2>9
<1>7. CASE WritePages
  <2>1. file' \in [Pages -> [gen : Nat, ids : SUBSET Pages]]
    BY <1>7, WrittenType DEF WritePages
  <2> QED
    BY <1>7, <2>1 DEF WritePages
<1>8. CASE SyncPages
  BY <1>8 DEF SyncPages
<1>9. CASE WriteMeta
  <2>1. wmeta \in Metas
    BY <1>9 DEF WriteMeta
  <2>2. slot' \in [{0, 1} -> Metas]
    BY <1>9, <2>1 DEF WriteMeta
  <2> QED
    BY <1>9, <2>1, <2>2, MetaFields DEF WriteMeta
<1>10. CASE SyncMeta
  <2>1. wmeta \in Metas
    BY <1>10 DEF SyncMeta
  <2> QED
    BY <1>10, <2>1, MetaFields DEF SyncMeta, EndWriter
<1>11. CASE Rollback \/ AllocFails \/ SyncFails \/ MetaSyncFails
  <2>1. RollbackTx(file, slot) /\ phase # "none"
        /\ UNCHANGED <<opened, storage, rmeta, gen, acked>>
    BY <1>11 DEF Rollback, AllocFails, SyncFails, MetaSyncFails
  <2> QED
    BY <2>1, RollbackType DEF EndWriter
<1>12. CASE WriteFails
  <2>1. PICK n \in dirty :
          LET f == Written({m \in dirty : m.id < n.id}) IN
            file' = f /\ RollbackTx(f, slot)
    BY <1>12 DEF WriteFails
  <2>2. file' \in [Pages -> [gen : Nat, ids : SUBSET Pages]]
    BY <1>12, <2>1, WrittenType DEF WriteFails
  <2> QED
    BY <1>12, <2>1, <2>2, RollbackType DEF WriteFails, EndWriter
<1>13. CASE MetaWriteFails
  <2>1. wmeta \in Metas
    BY <1>13 DEF MetaWriteFails
  <2>2. Torn(wmeta) \in Metas
    BY <2>1, TornType
  <2>3. slot' \in [{0, 1} -> Metas]
    BY <1>13, <2>2 DEF MetaWriteFails
  <2>4. RollbackTx(file, slot')
    BY <1>13 DEF MetaWriteFails
  <2> QED
    BY <1>13, <2>3, <2>4, RollbackType DEF MetaWriteFails, EndWriter
<1>14. CASE Open
  BY <1>14, ListType, FS_EmptySet DEF Open
<1>15. CASE Close
  BY <1>15, FS_EmptySet DEF Close, NoFreelist
<1>16. CASE Kill
  <2>1. slot' \in [{0, 1} -> Metas]
    BY <1>16 DEF Kill
  <2>2. Meta(slot').gen \in Nat
    BY <2>1, MetaType, MetaFields
  <2> QED
    BY <1>16, <2>2, FS_EmptySet DEF Kill, ProcessGone, NoFreelist, EndWriter
<1>17. CASE PowerFails
  <2>1. ASSUME NEW i \in {0, 1} PROVE Surviving(i) \subseteq Metas
    <3>1. slot[i] \in Metas /\ dslot[i] \in Metas
      OBVIOUS
    <3>2. Torn(slot[i]) \in Metas
      BY <3>1, TornType
    <3> QED
      BY <3>1, <3>2 DEF Surviving
  <2>2. slot' \in [{0, 1} -> Metas] /\ dslot' \in [{0, 1} -> Metas]
    BY <1>17, <2>1 DEF PowerFails
  <2>3. Meta(slot').gen \in Nat
    BY <2>2, MetaType, MetaFields
  <2>4. file' \in [Pages -> [gen : Nat, ids : SUBSET Pages]] /\ disk' = file'
    BY <1>17 DEF PowerFails
  <2> QED
    BY <1>17, <2>2, <2>3, <2>4, FS_EmptySet
    DEF PowerFails, ProcessGone, NoFreelist, EndWriter
<1>18. CASE UNCHANGED vars
  BY <1>18 DEF vars
<1> QED
  BY <1>1, <1>2, <1>3, <1>4, <1>5, <1>6, <1>7, <1>8, <1>9, <1>10, <1>11,
     <1>12, <1>13, <1>14, <1>15, <1>16, <1>17, <1>18 DEF Next

(* Every variable keeps its type in every behaviour, whatever fails: in    *)
(* particular no node ever reaches beyond the file (db.allocate).          *)
THEOREM TypeCorrect == Spec => []TypeOK
<1> QED
  BY TypeInit, TypeNext, PTL DEF Spec

-----------------------------------------------------------------------------
(* The sets of pages, element by element.                                  *)

LEMMA InUsed ==
    ASSUME NEW m, NEW p
    PROVE  p \in Used(m) <=> \E n \in NodesOf(m) : p \in NodePages(n)
  BY DEF Used, PagesOf

LEMMA InPagesOf ==
    ASSUME NEW nodes, NEW p
    PROVE  p \in PagesOf(nodes) <=> \E n \in nodes : p \in NodePages(n)
  BY DEF PagesOf

LEMMA InPending ==
    ASSUME NEW pend, NEW p
    PROVE  p \in PendingPages(pend) <=> \E pr \in pend : pr[2] = p
  BY DEF PendingPages

(* Freeing pages makes them pending, each in a pair of its own.            *)
LEMMA InFreed ==
    ASSUME NEW t, NEW pages
    PROVE  /\ \A pr \in FreedBy(t, pages) : pr[1] = t /\ pr[2] \in pages
           /\ \A p \in pages : <<t, p>> \in FreedBy(t, pages)
  BY DEF FreedBy

LEMMA PendingFreed ==
    ASSUME NEW pend, NEW t, NEW pages
    PROVE  PendingPages(pend \cup FreedBy(t, pages)) = PendingPages(pend) \cup pages
<1> SUFFICES ASSUME NEW p
             PROVE  p \in PendingPages(pend \cup FreedBy(t, pages))
                       <=> p \in PendingPages(pend) \cup pages
  OBVIOUS
<1>1. CASE p \in pages
  <2>1. <<t, p>> \in pend \cup FreedBy(t, pages) /\ <<t, p>>[2] = p
    BY <1>1, InFreed
  <2> QED
    BY <1>1, <2>1, InPending
<1>2. CASE p \notin pages
  BY <1>2, InFreed, InPending
<1> QED
  BY <1>1, <1>2

LEMMA UsedType ==
    ASSUME NEW m \in Metas
    PROVE  /\ Used(m) \subseteq Pages
           /\ NodesOf(m) \subseteq Nodes
           /\ m.flist.id \in Used(m) /\ m.flist.id \in Pages
<1>1. NodesOf(m) \subseteq Nodes /\ m.flist \in NodesOf(m)
  BY MetaFields DEF NodesOf
<1>2. m.flist.id \in NodePages(m.flist)
  BY <1>1, NodePagesType
<1> QED
  BY <1>1, <1>2, NodePagesType, InUsed

-----------------------------------------------------------------------------
(* The meta pages.                                                         *)

(* db.meta returns the valid page with the highest transaction id.         *)
LEMMA MetaIs ==
    ASSUME NEW s \in [{0, 1} -> Metas], NEW i \in {0, 1}, s[i].ok,
           s[1 - i].ok => s[1 - i].txid < s[i].txid
    PROVE  Meta(s) = s[i]
<1>1. s[0].txid \in Nat /\ s[1].txid \in Nat
  BY MetaFields
<1>2. CASE i = 0
  BY <1>1, <1>2 DEF Meta, Newer
<1>3. CASE i = 1
  BY <1>1, <1>3 DEF Meta, Newer
<1> QED
  BY <1>2, <1>3

(* The page of the current version, and the one the next commit writes.    *)
LEMMA CurrentSlot ==
    ASSUME TypeOK, SlotsAlternate
    PROVE  \E i \in {0, 1} :
             /\ Current = slot[i] /\ Current \in Metas /\ Current.ok
             /\ Current.txid % 2 = i
             /\ slot[1 - i].ok => slot[1 - i].txid < Current.txid
             /\ \A m \in Metas : m.txid = Current.txid + 1 => MetaSlot(m) = 1 - i
<1>1. PICK i \in {0, 1} :
        /\ slot[i].ok
        /\ slot[i].txid % 2 = i
        /\ slot[1 - i].ok => slot[1 - i].txid < slot[i].txid
  BY DEF SlotsAlternate
<1>2. slot \in [{0, 1} -> Metas]
  BY DEF TypeOK
<1>3. Current = slot[i] /\ Current \in Metas
  BY <1>1, <1>2, MetaIs DEF Current
<1>4. Current.txid \in Nat
  BY <1>3, MetaFields
<1>5. \A m \in Metas : m.txid = Current.txid + 1 => MetaSlot(m) = 1 - i
  BY <1>1, <1>3, <1>4 DEF MetaSlot
<1> QED
  BY <1>1, <1>3, <1>5

-----------------------------------------------------------------------------
(* Steps that leave the files and the freelist alone.                      *)

LEMMA BeginTxKeeps ==
    ASSUME StoreInv, TypeOK', NEW r \in Readers, BeginTx(r)
    PROVE  StoreInv' /\ \A m \in Metas : Protected(m) => Protected(m)'
<1> USE DEF StoreInv
<1>1. /\ UNCHANGED <<opened, file, slot, ids, pending, cache, phase, wmeta,
                     dirty, wlist, acked>>
      /\ opened /\ rmeta' = [rmeta EXCEPT ![r] = Current]
  BY DEF BeginTx, storage, freelist, rwtx, Current
<1>2. Current' = Current
  BY <1>1 DEF Current
<1>3. SlotsAlternate' /\ CurrentSound' /\ FreelistSound'
  BY <1>1, <1>2 DEF SlotsAlternate, CurrentSound, FreelistSound, PendingOnce,
     Intact, ListOnPage, HighWaterNow
<1>4. ASSUME NEW m \in Metas, Protected(m) PROVE Protected(m)'
  BY <1>1, <1>2, <1>4 DEF Protected, Intact
<1>5. Protected(Current)'
  BY <1>1, <1>2 DEF Protected, Intact
<1>6. (phase # "none" => WriterSound)'
  BY <1>1, <1>2 DEF WriterSound
<1> QED
  BY <1>1, <1>2, <1>3, <1>4, <1>5, <1>6

LEMMA CloseTxKeeps ==
    ASSUME StoreInv, TypeOK', NEW r \in Readers, CloseTx(r)
    PROVE  StoreInv' /\ \A m \in Metas : Protected(m) => Protected(m)'
<1> USE DEF StoreInv
<1>1. /\ UNCHANGED <<opened, file, slot, ids, pending, cache, phase, wmeta,
                     dirty, wlist, acked>>
      /\ opened /\ rmeta' = [rmeta EXCEPT ![r] = NoMeta]
  BY DEF CloseTx, storage, freelist, rwtx
<1>2. Current' = Current
  BY <1>1 DEF Current
<1>3. SlotsAlternate' /\ CurrentSound' /\ FreelistSound'
  BY <1>1, <1>2 DEF SlotsAlternate, CurrentSound, FreelistSound, PendingOnce,
     Intact, ListOnPage, HighWaterNow
<1>4. ASSUME NEW m \in Metas, Protected(m) PROVE Protected(m)'
  BY <1>1, <1>2, <1>4 DEF Protected, Intact
<1>5. Protected(Current)'
  BY <1>1, <1>2 DEF Protected, Intact
<1>6. (phase # "none" => WriterSound)'
  BY <1>1, <1>2 DEF WriterSound
<1> QED
  BY <1>1, <1>2, <1>3, <1>4, <1>5, <1>6

LEMMA SyncPagesKeeps ==
    ASSUME StoreInv, TypeOK', SyncPages
    PROVE  StoreInv' /\ \A m \in Metas : Protected(m) => Protected(m)'
<1> USE DEF StoreInv
<1>1. /\ UNCHANGED <<opened, file, slot, ids, pending, cache, rmeta, wmeta,
                     dirty, wlist, acked>>
      /\ phase = "written" /\ phase' = "synced"
  BY DEF SyncPages, freelist
<1>2. Current' = Current
  BY <1>1 DEF Current
<1>3. SlotsAlternate' /\ CurrentSound' /\ FreelistSound'
  BY <1>1, <1>2 DEF SlotsAlternate, CurrentSound, FreelistSound, PendingOnce,
     Intact, ListOnPage, HighWaterNow
<1>4. ASSUME NEW m \in Metas, Protected(m) PROVE Protected(m)'
  BY <1>1, <1>2, <1>4 DEF Protected, Intact
<1>5. Protected(Current)'
  BY <1>1, <1>2 DEF Protected, Intact
<1>6. WriterSound'
  BY <1>1, <1>2 DEF WriterSound
<1>7. opened'
  BY <1>1 DEF WriterSound
<1> QED
  BY <1>1, <1>2, <1>3, <1>4, <1>5, <1>6, <1>7

(* The version that was written becomes the current one.                   *)
LEMMA SyncMetaKeeps ==
    ASSUME StoreInv, TypeOK', SyncMeta
    PROVE  StoreInv' /\ \A m \in Metas : Protected(m) => Protected(m)'
<1> USE DEF StoreInv
<1>1. /\ UNCHANGED <<opened, file, slot, ids, pending, cache, rmeta>>
      /\ phase = "meta" /\ phase' = "none" /\ dirty' = {} /\ acked' = wmeta.gen
  BY DEF SyncMeta, EndWriter, freelist
<1>2. Current' = Current /\ wmeta = Current /\ opened /\ dirty = {}
  BY <1>1 DEF Current, WriterSound
<1>3. SlotsAlternate' /\ CurrentSound' /\ FreelistSound'
  BY <1>1, <1>2 DEF SlotsAlternate, CurrentSound, FreelistSound, PendingOnce,
     Intact, ListOnPage, HighWaterNow
<1>4. ASSUME NEW m \in Metas, Protected(m) PROVE Protected(m)'
  BY <1>1, <1>2, <1>4 DEF Protected, Intact
<1>5. Protected(Current)'
  BY <1>1, <1>2 DEF Protected, Intact
<1> QED
  BY <1>1, <1>2, <1>3, <1>4, <1>5

-----------------------------------------------------------------------------
(* The write transaction begins, frees and allocates.                      *)

(* What is pending for older transactions only is released: an open read   *)
(* transaction finds its pages pending for younger ones (Protected).       *)
LEMMA BeginRWTxKeeps ==
    ASSUME StoreInv, TypeOK', BeginRWTx
    PROVE  /\ StoreInv'
           /\ \A r \in OpenTxs : Protected(rmeta[r]) => Protected(rmeta[r])'
<1> USE DEF StoreInv
<1>1. /\ UNCHANGED <<opened, file, slot, cache, rmeta, dirty, acked>>
      /\ opened /\ phase = "none" /\ phase' = "open"
      /\ wmeta' = [Current EXCEPT !.txid = @ + 1, !.gen = gen']
      /\ ids' = ids \cup PendingPages(Releasable)
      /\ pending' = pending \ Releasable
      /\ Releasable \subseteq pending
  BY DEF BeginRWTx, storage, Current, Releasable
<1>2. Current' = Current /\ Current \in Metas /\ Current.ok
  BY <1>1, CurrentSlot DEF Current
<1>3. /\ wmeta'.txid = Current.txid + 1 /\ wmeta'.pgid = Current.pgid
      /\ wmeta'.tree = Current.tree /\ wmeta'.flist = Current.flist
      /\ wmeta'.ok = Current.ok
      /\ Current.txid \in Nat /\ Current.pgid \in Nat
  BY <1>1, <1>2, MetaFields DEF Metas
<1>4. NodesOf(wmeta') = NodesOf(Current) /\ Used(wmeta') = Used(Current)
  BY <1>3 DEF NodesOf, Used
<1>5. \A pr \in pending : pr[1] \in Nat /\ pr[2] \in Pages /\ pr[1] <= Current.txid
                          /\ pr[2] < Current.pgid
  BY <1>1, <1>2 DEF TypeOK, FreelistSound
<1>6. PendingPages(pending) = PendingPages(Releasable) \cup PendingPages(pending')
  BY <1>1, InPending
<1>7. PendingPages(Releasable) \cap PendingPages(pending') = {}
  <2> SUFFICES ASSUME NEW p1 \in Releasable, NEW p2 \in pending', p1[2] = p2[2]
               PROVE  FALSE
    BY InPending
  <2>1. p1[1] = p2[1]
    BY <1>1 DEF FreelistSound, PendingOnce
  <2> QED
    BY <1>1, <2>1 DEF Releasable
<1>8. SlotsAlternate' /\ CurrentSound'
  BY <1>1, <1>2 DEF SlotsAlternate, CurrentSound, Intact, ListOnPage
<1>9. FreelistSound'
  <2>1. cache' = Listed(ids', pending')
    BY <1>1, <1>6 DEF FreelistSound, Listed
  <2>2. ids' \cap PendingPages(pending') = {}
    BY <1>1, <1>6, <1>7 DEF FreelistSound
  <2>3. HighWaterNow' = Current.pgid /\ HighWaterNow = Current.pgid
    BY <1>1, <1>2, <1>3 DEF HighWaterNow
  <2>4. \A p \in ids' : p < Current.pgid
    BY <1>1, <1>5, <2>3, InPending DEF FreelistSound
  <2>5. PendingOnce'
    BY <1>1 DEF FreelistSound, PendingOnce
  <2>6. \A pr \in pending' : pr[1] <= Current.txid + 1
    BY <1>1, <1>3, <1>5
  <2> QED
    BY <1>1, <1>2, <1>5, <2>1, <2>2, <2>3, <2>4, <2>5, <2>6 DEF FreelistSound
<1>10. Used(Current) \cap (ids' \cup PendingPages(pending')) = {}
  <2>1. ASSUME NEW pr \in pending PROVE pr[2] \notin Used(Current)
    BY <1>3, <1>5 DEF Protected
  <2>2. Used(Current) \cap PendingPages(pending) = {}
    BY <2>1, InPending
  <2> QED
    BY <1>1, <1>6, <2>2 DEF Protected
<1>11. Protected(Current)'
  <2>1. \A pr \in pending' : pr[2] \in Used(Current) => pr[1] > Current.txid
    BY <1>1 DEF Protected
  <2> QED
    BY <1>1, <1>2, <1>10, <2>1 DEF Protected, Intact
<1>12. ASSUME NEW r \in OpenTxs, Protected(rmeta[r]) PROVE Protected(rmeta[r])'
  <2>1. rmeta'[r] = rmeta[r] /\ rmeta[r].txid \in Nat
    BY <1>1, MetaFields DEF OpenTxs, TypeOK
  <2>2. Protected(rmeta[r])
    BY <1>12
  <2>3. ASSUME NEW pr \in pending, pr[2] \in Used(rmeta[r])
        PROVE  pr \in pending'
    <3>1. pr[1] > rmeta[r].txid
      BY <2>2, <2>3 DEF Protected
    <3>2. pr \notin Releasable
      BY <1>5, <2>1, <3>1 DEF Releasable
    <3> QED
      BY <1>1, <3>2
  <2>4. Used(rmeta[r]) \cap ids' = {}
    <3>1. Used(rmeta[r]) \cap PendingPages(Releasable) = {}
      BY <1>1, <2>3, InPending
    <3> QED
      BY <1>1, <2>2, <3>1 DEF Protected
  <2>5. \A p \in Used(rmeta[r]) :
           p \in Used(Current) \/ \E pr \in pending' : pr[2] = p /\ pr[1] <= Current.txid
    BY <2>2, <2>3 DEF Protected
  <2> QED
    BY <1>1, <1>2, <2>1, <2>2, <2>4, <2>5 DEF Protected, Intact
<1>13. WriterSound'
  <2>1. Within(wmeta)' /\ Disjoint(wmeta)'
    BY <1>3, <1>4 DEF CurrentSound, Within, Disjoint
  <2>2. \A n \in NodesOf(Current) : \A p \in NodePages(n) : file[p].gen = n.gen
    BY DEF CurrentSound, Intact
  <2>3. dirty' = {} /\ phase' = "open"
    BY <1>1
  <2>4. \A n \in NodesOf(wmeta') : \A p \in NodePages(n) : file'[p].gen = n.gen
    BY <1>1, <1>4, <2>2
  <2>5. Used(wmeta') \cap (ids' \cup PendingPages(pending')) = {}
    BY <1>4, <1>10
  <2>6. /\ wmeta'.txid = Current'.txid + 1 /\ wmeta'.pgid >= Current'.pgid
        /\ Used(Current') \subseteq Used(wmeta') /\ wmeta'.ok /\ opened'
    BY <1>1, <1>2, <1>3, <1>4
  <2> QED
    BY <2>1, <2>3, <2>4, <2>5, <2>6 DEF WriterSound
<1> QED
  BY <1>1, <1>2, <1>8, <1>9, <1>11, <1>12, <1>13

LEMMA FreeNodeKeeps ==
    ASSUME StoreInv, TypeOK', phase = "open", NEW n \in wmeta.tree, FreeNode(n)
    PROVE  StoreInv' /\ \A m \in Metas : Protected(m) => Protected(m)'
<1> USE DEF StoreInv
<1>1. WriterSound /\ wmeta \in Metas /\ Current \in Metas
  BY CurrentSlot DEF TypeOK
<1>2. n \in NodesOf(wmeta) /\ NodePages(n) \subseteq Used(wmeta) /\ n \in Nodes
  BY <1>1, InUsed, UsedType DEF NodesOf
<1>3. NodePages(n) \cap cache = {}
  BY <1>1, <1>2 DEF WriterSound, FreelistSound, Listed
<1>4. /\ UNCHANGED <<opened, file, slot, ids, rmeta, phase, dirty, wlist, acked>>
      /\ pending' = pending \cup FreedBy(wmeta.txid, NodePages(n))
      /\ cache' = cache \cup NodePages(n)
      /\ wmeta' = [wmeta EXCEPT !.tree = @ \ {n}]
      /\ n.gen # wmeta.gen
  BY <1>3 DEF FreeNode, storage
<1>5. Current' = Current
  BY <1>4 DEF Current
<1>6. /\ wmeta'.txid = wmeta.txid /\ wmeta'.pgid = wmeta.pgid
      /\ wmeta'.tree = wmeta.tree \ {n} /\ wmeta'.flist = wmeta.flist
      /\ wmeta'.ok = wmeta.ok /\ wmeta'.gen = wmeta.gen
      /\ wmeta.txid = Current.txid + 1 /\ Current.txid \in Nat
  BY <1>1, <1>4, MetaFields DEF Metas, WriterSound
<1>7. /\ NodesOf(wmeta') \subseteq NodesOf(wmeta)
      /\ Used(wmeta') = Used(wmeta) \ NodePages(n)
  <2>1. NodesOf(wmeta') \subseteq NodesOf(wmeta)
    BY <1>6 DEF NodesOf
  <2>2. ASSUME NEW k \in NodesOf(wmeta') PROVE NodePages(k) \cap NodePages(n) = {}
    BY <1>1, <1>6 DEF WriterSound, Disjoint, NodesOf
  <2>3. \A k \in NodesOf(wmeta) : k = n \/ k \in NodesOf(wmeta')
    BY <1>6 DEF NodesOf
  <2> QED
    BY <2>1, <2>2, <2>3, InUsed
<1>8. \A pr \in pending' \ pending : pr[1] = Current.txid + 1 /\ pr[2] \in NodePages(n)
  BY <1>4, <1>6, InFreed
<1>9. PendingPages(pending') = PendingPages(pending) \cup NodePages(n)
  BY <1>4, PendingFreed
<1>10. SlotsAlternate' /\ CurrentSound'
  BY <1>4, <1>5 DEF SlotsAlternate, CurrentSound, Intact, ListOnPage
<1>11. FreelistSound'
  <2>1. cache' = Listed(ids', pending')
    BY <1>4, <1>9 DEF FreelistSound, Listed
  <2>2. ids' \cap PendingPages(pending') = {}
    BY <1>1, <1>2, <1>4, <1>9 DEF FreelistSound, WriterSound
  <2>3. PendingOnce'
    <3>1. \A pr1 \in pending, pr2 \in pending' \ pending : pr1[2] # pr2[2]
      BY <1>3, <1>8, InPending DEF FreelistSound, Listed
    <3> QED
      BY <1>8, <3>1 DEF FreelistSound, PendingOnce
  <2>4. HighWaterNow' = wmeta.pgid /\ HighWaterNow = wmeta.pgid
    BY <1>4, <1>6 DEF HighWaterNow
  <2>5. \A p \in NodePages(n) : p < wmeta.pgid
    BY <1>1, <1>2 DEF WriterSound, Within
  <2>6. \A pr \in pending' : /\ pr[2] < wmeta.pgid
                             /\ pr[1] <= Current.txid + 1
                             /\ pr[1] <= Current.txid => pr[2] < Current.pgid
    BY <1>6, <1>8, <2>4, <2>5 DEF FreelistSound
  <2> QED
    BY <1>4, <1>5, <2>1, <2>2, <2>3, <2>4, <2>6 DEF FreelistSound
<1>12. ASSUME NEW m \in Metas, Protected(m) PROVE Protected(m)'
  <2>1. m.txid \in Nat /\ m.txid <= Current.txid
    BY <1>12, MetaFields DEF Protected
  <2>2. \A pr \in pending' : pr[2] \in Used(m) => pr[1] > m.txid
    BY <1>6, <1>8, <1>12, <2>1 DEF Protected
  <2>3. \A p \in Used(m) :
          \/ p \in Used(Current)
          \/ \E pr \in pending' : pr[2] = p /\ pr[1] <= Current.txid
    BY <1>4, <1>12 DEF Protected
  <2> QED
    BY <1>4, <1>5, <1>12, <2>2, <2>3 DEF Protected, Intact
<1>13. Protected(Current)'
  BY <1>1, <1>5, <1>12 DEF Protected, Intact
<1>14. WriterSound'
  <2>1. Within(wmeta)' /\ Disjoint(wmeta)'
    BY <1>1, <1>6, <1>7 DEF WriterSound, Within, Disjoint
  <2>2. Used(wmeta') \cap (ids' \cup PendingPages(pending')) = {}
    BY <1>1, <1>4, <1>7, <1>9 DEF WriterSound
  <2>3. dirty' \subseteq NodesOf(wmeta')
    BY <1>1, <1>4, <1>6 DEF WriterSound, NodesOf
  <2>4. \A p \in Used(Current) : p \in Used(wmeta') \/ <<wmeta'.txid, p>> \in pending'
    <3>1. \A p \in NodePages(n) : <<wmeta'.txid, p>> \in pending'
      BY <1>4, <1>6, InFreed
    <3>2. \A p \in Used(Current) : p \in Used(wmeta) \/ <<wmeta.txid, p>> \in pending
      BY <1>1, <1>4 DEF WriterSound
    <3>3. pending \subseteq pending' /\ wmeta'.txid = wmeta.txid
      BY <1>4, <1>6
    <3>4. \A p \in Used(wmeta) : p \in Used(wmeta') \/ p \in NodePages(n)
      BY <1>7
    <3> HIDE DEF StoreInv
    <3> QED
      BY <3>1, <3>2, <3>3, <3>4
  <2>5. \A k \in NodesOf(wmeta') \ dirty' : \A p \in NodePages(k) : file'[p].gen = k.gen
    BY <1>1, <1>4, <1>7 DEF WriterSound
  <2>6. /\ wmeta'.txid = Current'.txid + 1 /\ wmeta'.pgid >= Current'.pgid
        /\ wmeta'.ok /\ opened' /\ wmeta'.flist \notin dirty'
        /\ \A k \in dirty' : k.gen = wmeta'.gen
    BY <1>1, <1>4, <1>5, <1>6 DEF WriterSound
  <2>7. phase' = "open"
    BY <1>4
  <2> QED
    BY <1>5, <2>1, <2>2, <2>3, <2>4, <2>5, <2>6, <2>7 DEF WriterSound
<1>15. opened'
  BY <1>1, <1>4 DEF WriterSound
<1> QED
  BY <1>4, <1>5, <1>10, <1>11, <1>13, <1>12, <1>14, <1>15

(* The pages db.allocate finds are used by no version and pending for no   *)
(* transaction: free, or beyond the high water mark.                       *)
LEMMA AllocatedFresh ==
    ASSUME StoreInv, phase = "open", NEW id \in Pages, NEW len \in Nat \ {0},
           id \in Allocated(len)
    PROVE  /\ HighWater(id, len) \in Nat /\ HighWater(id, len) >= wmeta.pgid
           /\ \A p \in Run(id, len) : p < HighWater(id, len)
           /\ id \in Run(id, len)
           /\ Run(id, len) \cap Used(wmeta) = {}
           /\ Run(id, len) \cap PendingPages(pending) = {}
           /\ \A m \in Metas : Protected(m) => Run(id, len) \cap Used(m) = {}
<1> USE DEF StoreInv
<1>1. /\ WriterSound /\ FreelistSound /\ wmeta \in Metas /\ Current \in Metas
      /\ HighWaterNow = wmeta.pgid
  BY CurrentSlot DEF TypeOK, HighWaterNow
<1>2. id \in Nat /\ wmeta.pgid \in Nat /\ Current.pgid \in Nat
      /\ wmeta.pgid >= Current.pgid
  BY <1>1, MetaFields, DBAssumption DEF Pages, WriterSound
<1>3. Run(id, len) \subseteq Nat /\ id \in Run(id, len)
      /\ \A p \in Run(id, len) : id <= p /\ p < id + len
  BY <1>2 DEF Run
<1>4. \A p \in Used(wmeta) : p < wmeta.pgid
  BY <1>1 DEF WriterSound, Within
<1>5. \A p \in PendingPages(pending) : p < wmeta.pgid
  BY <1>1, InPending DEF FreelistSound
<1>6. \A m \in Metas : Protected(m) => \A p \in Used(m) : p \in Nat /\ p < wmeta.pgid
  <2> SUFFICES ASSUME NEW m \in Metas, Protected(m), NEW p \in Used(m)
               PROVE  p \in Nat /\ p < wmeta.pgid
    OBVIOUS
  <2>1. p \in Nat /\ m.pgid \in Nat
    BY UsedType, MetaFields, DBAssumption DEF Pages
  <2>2. p < m.pgid /\ m.pgid <= Current.pgid
    BY DEF Protected, Within
  <2> QED
    BY <1>2, <2>1, <2>2
<1>7. CASE Run(id, len) \subseteq ids
  <2>1. HighWater(id, len) = wmeta.pgid /\ \A p \in Run(id, len) : p < wmeta.pgid
    BY <1>1, <1>2, <1>3, <1>7 DEF HighWater, FreelistSound
  <2>2. ids \cap Used(wmeta) = {} /\ ids \cap PendingPages(pending) = {}
    BY <1>1 DEF WriterSound, FreelistSound
  <2>3. \A m \in Metas : Protected(m) => ids \cap Used(m) = {}
    BY DEF Protected
  <2> QED
    BY <1>2, <1>3, <1>7, <2>1, <2>2, <2>3
<1>8. CASE id = wmeta.pgid
  <2>1. HighWater(id, len) = id + len
    BY <1>8 DEF HighWater
  <2>2. \A p \in Run(id, len) : ~(p < wmeta.pgid)
    BY <1>2, <1>3, <1>8
  <2> QED
    BY <1>2, <1>3, <1>4, <1>5, <1>6, <1>8, <2>1, <2>2
<1>9. Run(id, len) \subseteq ids \/ id = wmeta.pgid
  BY DEF Allocated, LowestFit, Fits
<1> QED
  BY <1>7, <1>8, <1>9

LEMMA AllocNodeKeeps ==
    ASSUME StoreInv, TypeOK', NEW len \in NodeLengths, NEW id \in Pages,
           AllocNode(len, id)
    PROVE  StoreInv' /\ \A m \in Metas : Protected(m) => Protected(m)'
<1> USE DEF StoreInv
<1> DEFINE new == [id |-> id, len |-> len, gen |-> wmeta.gen]
<1>1. /\ phase = "open" /\ len \in Nat \ {0} /\ wmeta \in Metas /\ Current \in Metas
      /\ WriterSound /\ id \in Allocated(len)
  BY DBAssumption, CurrentSlot DEF AllocNode, TypeOK
<1>2. /\ UNCHANGED <<opened, file, slot, pending, rmeta, phase, wlist, acked>>
      /\ ids' = ids \ NodePages(new) /\ cache' = cache \ NodePages(new)
      /\ dirty' = dirty \cup {new}
      /\ wmeta' = [wmeta EXCEPT !.tree = @ \cup {new}, !.pgid = HighWater(id, len)]
  BY DEF AllocNode, storage
<1>3. NodePages(new) = Run(id, len) /\ new.gen = wmeta.gen
  BY DEF NodePages
<1>4. /\ HighWater(id, len) \in Nat /\ HighWater(id, len) >= wmeta.pgid
      /\ \A p \in NodePages(new) : p < HighWater(id, len)
      /\ id \in NodePages(new)
      /\ NodePages(new) \cap Used(wmeta) = {}
      /\ NodePages(new) \cap PendingPages(pending) = {}
      /\ \A m \in Metas : Protected(m) => NodePages(new) \cap Used(m) = {}
  BY <1>1, <1>3, AllocatedFresh
<1> HIDE DEF new
<1>5. Current' = Current
  BY <1>2 DEF Current
<1>6. /\ wmeta'.txid = wmeta.txid /\ wmeta'.pgid = HighWater(id, len)
      /\ wmeta'.tree = wmeta.tree \cup {new} /\ wmeta'.flist = wmeta.flist
      /\ wmeta'.ok = wmeta.ok /\ wmeta'.gen = wmeta.gen
      /\ wmeta.pgid \in Nat /\ Current.pgid \in Nat /\ wmeta.flist \in Nodes
  BY <1>1, <1>2, MetaFields DEF Metas
<1>7. /\ NodesOf(wmeta') = NodesOf(wmeta) \cup {new}
      /\ Used(wmeta') = Used(wmeta) \cup NodePages(new)
  <2>1. NodesOf(wmeta') = NodesOf(wmeta) \cup {new}
    BY <1>6 DEF NodesOf
  <2> QED
    BY <2>1, InUsed
<1>8. SlotsAlternate' /\ CurrentSound'
  BY <1>2, <1>5 DEF SlotsAlternate, CurrentSound, Intact, ListOnPage
<1>9. FreelistSound'
  <2>1. cache' = Listed(ids', pending')
    BY <1>2, <1>4 DEF FreelistSound, Listed
  <2>2. ids' \cap PendingPages(pending') = {} /\ PendingOnce'
    BY <1>2 DEF FreelistSound, PendingOnce
  <2>3. HighWaterNow = wmeta.pgid /\ HighWaterNow' = HighWater(id, len)
    BY <1>1, <1>2, <1>6 DEF HighWaterNow
  <2>4. ids \subseteq Nat /\ \A pr \in pending : pr[2] \in Nat
    <3>1. ids \subseteq Pages /\ \A pr \in pending : pr[2] \in Pages
      BY DEF TypeOK
    <3> QED
      BY <3>1, DBAssumption DEF Pages
  <2>5. /\ \A p \in ids' : p < HighWater(id, len)
        /\ \A pr \in pending' : pr[2] < HighWater(id, len)
    BY <1>2, <1>4, <1>6, <2>3, <2>4 DEF FreelistSound
  <2> QED
    BY <1>2, <1>5, <2>1, <2>2, <2>3, <2>5 DEF FreelistSound
<1>10. ASSUME NEW m \in Metas, Protected(m) PROVE Protected(m)'
  <2>1. Used(m) \cap ids = {} /\ Used(m) \cap PagesOf(dirty) = {}
    BY <1>10 DEF Protected
  <2>2. PagesOf(dirty') = PagesOf(dirty) \cup NodePages(new)
    BY <1>2, InPagesOf
  <2>3. Used(m) \cap ids' = {} /\ Used(m) \cap PagesOf(dirty') = {}
    BY <1>2, <1>4, <1>10, <2>1, <2>2
  <2> QED
    BY <1>2, <1>5, <1>10, <2>3 DEF Protected, Intact
<1>11. Protected(Current)'
  BY <1>1, <1>5, <1>10 DEF Protected, Intact
<1>12. WriterSound'
  <2>1. Within(wmeta)'
    <3>1. \A p \in Used(wmeta) : p \in Nat /\ p < wmeta.pgid
      BY <1>1, UsedType, DBAssumption DEF WriterSound, Within, Pages
    <3> QED
      BY <1>4, <1>6, <1>7, <3>1 DEF Within
  <2>2. Disjoint(wmeta)'
    <3>1. \A k \in NodesOf(wmeta) : NodePages(k) \cap NodePages(new) = {}
      BY <1>4, InUsed
    <3> QED
      BY <1>1, <1>6, <3>1 DEF WriterSound, Disjoint, NodesOf
  <2>3. Used(wmeta') \cap (ids' \cup PendingPages(pending')) = {}
    BY <1>1, <1>2, <1>4, <1>7 DEF WriterSound
  <2>4. dirty' \subseteq NodesOf(wmeta') /\ \A k \in dirty' : k.gen = wmeta'.gen
    BY <1>1, <1>2, <1>3, <1>6, <1>7 DEF WriterSound
  <2>5. \A k \in NodesOf(wmeta') \ dirty' : \A p \in NodePages(k) : file'[p].gen = k.gen
    BY <1>1, <1>2, <1>7 DEF WriterSound
  <2>6. wmeta'.flist \notin dirty'
    <3>1. wmeta.flist # new
      BY <1>4, InUsed DEF NodesOf
    <3> QED
      BY <1>1, <1>2, <1>6, <3>1 DEF WriterSound
  <2>7. \A p \in Used(Current') : p \in Used(wmeta') \/ <<wmeta'.txid, p>> \in pending'
    <3>1. \A p \in Used(Current) : p \in Used(wmeta) \/ <<wmeta.txid, p>> \in pending
      BY <1>1 DEF WriterSound
    <3> QED
      BY <1>2, <1>5, <1>6, <1>7, <3>1
  <2>8. /\ wmeta'.txid = Current'.txid + 1 /\ wmeta'.pgid >= Current'.pgid
        /\ wmeta'.ok /\ opened' /\ phase' = "open"
    BY <1>1, <1>2, <1>4, <1>5, <1>6 DEF WriterSound
  <2> QED
    BY <2>1, <2>2, <2>3, <2>4, <2>5, <2>6, <2>7, <2>8 DEF WriterSound
<1>13. opened'
  BY <1>1, <1>2 DEF WriterSound
<1> QED
  BY <1>1, <1>2, <1>5, <1>8, <1>9, <1>10, <1>11, <1>12, <1>13

LEMMA CommitFreelistKeeps ==
    ASSUME StoreInv, TypeOK', NEW id \in Pages, CommitFreelist(id)
    PROVE  StoreInv' /\ \A m \in Metas : Protected(m) => Protected(m)'
<1> USE DEF StoreInv
<1> DEFINE old == NodePages(wmeta.flist)
           freed == pending \cup FreedBy(wmeta.txid, old)
           len == ListPages(Cardinality(ids) + Cardinality(freed))
           new == [id |-> id, len |-> len, gen |-> wmeta.gen]
<1>1. /\ phase = "open" /\ wmeta \in Metas /\ Current \in Metas /\ WriterSound
      /\ id \in Allocated(len)
  BY CurrentSlot DEF CommitFreelist, TypeOK
<1>2. len \in Nat \ {0}
  <2>1. old \subseteq Pages
    BY <1>1, MetaFields, NodePagesType
  <2>2. IsFiniteSet(FreedBy(wmeta.txid, old))
    BY <1>1, <2>1, MetaFields, FreedByType
  <2>3. IsFiniteSet(freed) /\ IsFiniteSet(ids)
    BY <2>2, FS_Union, PagesFinite DEF TypeOK
  <2> QED
    BY <2>3, FS_CardinalityType, ListPagesType
<1>3. wmeta.flist \in NodesOf(wmeta) /\ old \subseteq Used(wmeta)
  BY InUsed DEF NodesOf
<1>4. old \cap cache = {}
  BY <1>1, <1>3 DEF WriterSound, FreelistSound, Listed
<1>5. /\ UNCHANGED <<opened, file, slot, rmeta, acked>>
      /\ phase' = "listed" /\ pending' = freed
      /\ ids' = ids \ NodePages(new) /\ cache' = (cache \cup old) \ NodePages(new)
      /\ dirty' = dirty \cup {new}
      /\ wmeta' = [wmeta EXCEPT !.flist = new, !.pgid = HighWater(id, len)]
      /\ wlist' = Listed(ids', pending')
  BY <1>4 DEF CommitFreelist, storage
<1>6. NodePages(new) = Run(id, len) /\ new.gen = wmeta.gen
  BY DEF NodePages
<1> HIDE DEF len
<1>7. /\ HighWater(id, len) \in Nat /\ HighWater(id, len) >= wmeta.pgid
      /\ \A p \in NodePages(new) : p < HighWater(id, len)
      /\ id \in NodePages(new)
      /\ NodePages(new) \cap Used(wmeta) = {}
      /\ NodePages(new) \cap PendingPages(pending) = {}
      /\ \A m \in Metas : Protected(m) => NodePages(new) \cap Used(m) = {}
  BY <1>1, <1>2, <1>6, AllocatedFresh
<1>8. /\ \A pr \in freed \ pending : pr[1] = wmeta.txid /\ pr[2] \in old
      /\ \A p \in old : <<wmeta.txid, p>> \in freed
      /\ pending \subseteq freed
  BY InFreed
<1>9. PendingPages(freed) = PendingPages(pending) \cup old
  BY PendingFreed
<1> HIDE DEF new, freed, old
<1>10. Current' = Current
  BY <1>5 DEF Current
<1>11. /\ wmeta'.txid = wmeta.txid /\ wmeta'.pgid = HighWater(id, len)
       /\ wmeta'.tree = wmeta.tree /\ wmeta'.flist = new
       /\ wmeta'.ok = wmeta.ok /\ wmeta'.gen = wmeta.gen
       /\ wmeta.pgid \in Nat /\ Current.pgid \in Nat /\ Current.txid \in Nat
       /\ wmeta.txid = Current.txid + 1
  BY <1>1, <1>5, MetaFields DEF Metas, WriterSound
<1>12. /\ NodesOf(wmeta') = wmeta.tree \cup {new}
       /\ NodesOf(wmeta) = wmeta.tree \cup {wmeta.flist}
       /\ Used(wmeta') = (Used(wmeta) \ old) \cup NodePages(new)
  <2>1. /\ NodesOf(wmeta') = wmeta.tree \cup {new}
        /\ NodesOf(wmeta) = wmeta.tree \cup {wmeta.flist}
    BY <1>11 DEF NodesOf
  <2>2. \A k \in wmeta.tree : NodePages(k) \cap old = {}
    BY <1>1 DEF WriterSound, Disjoint, old
  <2> QED
    BY <2>1, <2>2, InUsed DEF old
<1>13. SlotsAlternate' /\ CurrentSound'
  BY <1>5, <1>10 DEF SlotsAlternate, CurrentSound, Intact, ListOnPage
<1>14. NodePages(new) \cap old = {}
  BY <1>3, <1>7
<1>15. old \cap ids = {} /\ old \cap PendingPages(pending) = {}
  BY <1>4 DEF FreelistSound, Listed
<1>16. FreelistSound'
  <2>1. cache' = Listed(ids', pending')
    BY <1>5, <1>7, <1>9, <1>14 DEF FreelistSound, Listed
  <2>2. ids' \cap PendingPages(pending') = {}
    BY <1>5, <1>9, <1>15 DEF FreelistSound
  <2>3. PendingOnce'
    <3>1. \A pr1 \in pending, pr2 \in freed \ pending : pr1[2] # pr2[2]
      BY <1>8, <1>15, InPending
    <3> QED
      BY <1>5, <1>8, <3>1 DEF FreelistSound, PendingOnce
  <2>4. HighWaterNow = wmeta.pgid /\ HighWaterNow' = HighWater(id, len)
    BY <1>1, <1>5, <1>11 DEF HighWaterNow
  <2>5. ids \subseteq Nat /\ \A pr \in pending : pr[2] \in Nat
    <3>1. ids \subseteq Pages /\ \A pr \in pending : pr[2] \in Pages
      BY DEF TypeOK
    <3> QED
      BY <3>1, DBAssumption DEF Pages
  <2>6. \A p \in old : p \in Nat /\ p < wmeta.pgid
    <3>1. Used(wmeta) \subseteq Nat
      BY <1>1, UsedType, DBAssumption DEF Pages
    <3> QED
      BY <1>1, <1>3, <3>1 DEF WriterSound, Within
  <2>7. \A p \in ids' : p < HighWater(id, len)
    BY <1>5, <1>7, <1>11, <2>4, <2>5 DEF FreelistSound
  <2>8. ASSUME NEW pr \in freed
        PROVE  /\ pr[2] < HighWater(id, len)
               /\ pr[1] <= Current.txid + 1
               /\ pr[1] <= Current.txid => pr[2] < Current.pgid
    <3>1. CASE pr \in pending
      BY <1>7, <1>11, <2>4, <2>5, <3>1 DEF FreelistSound
    <3>2. CASE pr \notin pending
      BY <1>7, <1>8, <1>11, <2>6, <3>2
    <3> QED
      BY <3>1, <3>2
  <2> QED
    BY <1>5, <1>10, <2>1, <2>2, <2>3, <2>4, <2>7, <2>8 DEF FreelistSound
<1>17. ASSUME NEW m \in Metas, Protected(m) PROVE Protected(m)'
  <2>1. Used(m) \cap ids = {} /\ Used(m) \cap PagesOf(dirty) = {}
    BY <1>17 DEF Protected
  <2>2. PagesOf(dirty') = PagesOf(dirty) \cup NodePages(new)
    BY <1>5, InPagesOf
  <2>3. m.txid \in Nat /\ m.txid <= Current.txid
    BY <1>17, MetaFields DEF Protected
  <2>4. \A pr \in freed : pr[2] \in Used(m) => pr[1] > m.txid
    <3>1. \A pr \in freed \ pending : pr[1] > m.txid
      BY <1>8, <1>11, <2>3
    <3> QED
      BY <1>17, <3>1 DEF Protected
  <2>5. \A p \in Used(m) :
           p \in Used(Current) \/ \E pr \in freed : pr[2] = p /\ pr[1] <= Current.txid
    BY <1>8, <1>17 DEF Protected
  <2>6. Used(m) \cap ids' = {} /\ Used(m) \cap PagesOf(dirty') = {}
    BY <1>5, <1>7, <1>17, <2>1, <2>2
  <2> QED
    BY <1>5, <1>10, <1>17, <2>4, <2>5, <2>6 DEF Protected, Intact
<1>18. Protected(Current)'
  BY <1>1, <1>10, <1>17 DEF Protected, Intact
<1>19. WriterSound'
  <2>1. Within(wmeta)'
    <3>1. \A p \in Used(wmeta) : p \in Nat /\ p < wmeta.pgid
      BY <1>1, UsedType, DBAssumption DEF WriterSound, Within, Pages
    <3> QED
      BY <1>7, <1>11, <1>12, <3>1 DEF Within
  <2>2. Disjoint(wmeta)'
    <3>1. \A k \in NodesOf(wmeta) : NodePages(k) \cap NodePages(new) = {}
      BY <1>7, InUsed
    <3> QED
      BY <1>1, <1>11, <1>12, <3>1 DEF WriterSound, Disjoint
  <2>3. Used(wmeta') \cap (ids' \cup PendingPages(pending')) = {}
    BY <1>1, <1>5, <1>7, <1>9, <1>12, <1>14 DEF WriterSound
  <2>4. dirty' \subseteq NodesOf(wmeta') /\ \A k \in dirty' : k.gen = wmeta'.gen
    BY <1>1, <1>5, <1>6, <1>11, <1>12 DEF WriterSound
  <2>5. \A k \in NodesOf(wmeta') \ dirty' : \A p \in NodePages(k) : file'[p].gen = k.gen
    BY <1>1, <1>5, <1>12 DEF WriterSound
  <2>6. wmeta'.flist \in dirty' /\ wlist' = Listed(ids', pending')
    BY <1>5, <1>11
  <2>7. \A p \in Used(Current') : p \in Used(wmeta') \/ <<wmeta'.txid, p>> \in pending'
    <3>1. \A p \in Used(Current) : p \in Used(wmeta) \/ <<wmeta.txid, p>> \in pending
      BY <1>1 DEF WriterSound
    <3> QED
      BY <1>5, <1>8, <1>10, <1>11, <1>12, <3>1
  <2>8. /\ wmeta'.txid = Current'.txid + 1 /\ wmeta'.pgid >= Current'.pgid
        /\ wmeta'.ok /\ opened' /\ phase' = "listed"
    BY <1>1, <1>5, <1>7, <1>10, <1>11 DEF WriterSound
  <2> QED
    BY <2>1, <2>2, <2>3, <2>4, <2>5, <2>6, <2>7, <2>8 DEF WriterSound
<1>20. opened'
  BY <1>1, <1>5 DEF WriterSound
<1> QED
  BY <1>1, <1>5, <1>10, <1>13, <1>16, <1>17, <1>18, <1>19, <1>20

-----------------------------------------------------------------------------
(* The write transaction reaches the file.                                 *)

(* Pages about to be written belong to nobody else, so that a write that   *)
(* stops halfway spoils no version.                                        *)
LEMMA WrittenSpares ==
    ASSUME StoreInv, phase # "none", NEW done \in SUBSET dirty
    PROVE  /\ \A m \in Metas : Protected(m) =>
                \A p \in Used(m) : Written(done)[p] = file[p]
           /\ ListOnPage(Written(done), slot) = ListOnPage(file, slot)
<1> USE DEF StoreInv
<1>1. ASSUME NEW m \in Metas, Protected(m), NEW p \in Used(m)
      PROVE  Written(done)[p] = file[p]
  <2>1. p \in Pages
    BY UsedType
  <2>2. p \notin PagesOf(dirty)
    BY <1>1 DEF Protected
  <2>3. p \notin PagesOf(done)
    BY <2>2, InPagesOf
  <2> QED
    BY <2>1, <2>3 DEF Written
<1>2. Current \in Metas /\ Current.flist.id \in Used(Current)
  BY CurrentSlot, UsedType
<1> QED
  BY <1>1, <1>2 DEF ListOnPage, Current

LEMMA WritePagesKeeps ==
    ASSUME StoreInv, TypeOK', WritePages
    PROVE  StoreInv' /\ \A m \in Metas : Protected(m) => Protected(m)'
<1> USE DEF StoreInv
<1>1. /\ UNCHANGED <<opened, slot, ids, pending, cache, rmeta, wmeta, wlist,
                     acked>>
      /\ phase = "listed" /\ phase' = "written" /\ dirty' = {}
      /\ file' = Written(dirty)
  BY DEF WritePages, freelist
<1>2. Current' = Current /\ Current \in Metas /\ wmeta \in Metas /\ WriterSound
  BY <1>1, CurrentSlot DEF Current, TypeOK
<1>3. /\ \A m \in Metas : Protected(m) => \A p \in Used(m) : file'[p] = file[p]
      /\ ListOnPage(file', slot) = ListOnPage(file, slot)
  BY <1>1, WrittenSpares
<1>4. ASSUME NEW m \in Metas, Protected(m)
      PROVE  \A n \in NodesOf(m) : \A p \in NodePages(n) : file'[p].gen = n.gen
  BY <1>3, <1>4, InUsed DEF Protected, Intact
<1>5. SlotsAlternate' /\ CurrentSound'
  BY <1>1, <1>2, <1>3, <1>4 DEF SlotsAlternate, CurrentSound, Intact, ListOnPage
<1>6. FreelistSound'
  BY <1>1, <1>2 DEF FreelistSound, PendingOnce, HighWaterNow
<1>7. PagesOf(dirty') = {}
  BY <1>1 DEF PagesOf
<1>8. ASSUME NEW m \in Metas, Protected(m) PROVE Protected(m)'
  BY <1>1, <1>2, <1>4, <1>7, <1>8 DEF Protected, Intact
<1>9. Protected(Current)'
  BY <1>1, <1>2, <1>4, <1>7 DEF Protected, Intact
<1>10. \A p \in PagesOf(dirty) :
          /\ file'[p].gen = wmeta.gen
          /\ p = wmeta.flist.id => file'[p].ids = wlist
  <2>1. PagesOf(dirty) \subseteq Pages
    BY InPagesOf, NodePagesType DEF TypeOK
  <2>2. \A p : Content(p).gen = wmeta.gen /\ (p = wmeta.flist.id => Content(p).ids = wlist)
    BY DEF Content
  <2>3. \A p \in PagesOf(dirty) : file'[p] = Content(p)
    BY <1>1, <2>1 DEF Written
  <2> QED
    BY <2>2, <2>3
<1>11. \A p \in Pages \ PagesOf(dirty) : file'[p] = file[p]
  BY <1>1 DEF Written
<1>12. ASSUME NEW n \in NodesOf(wmeta), NEW p \in NodePages(n)
       PROVE  file'[p].gen = n.gen
  <2>1. CASE n \in dirty
    <3>1. p \in PagesOf(dirty) /\ n.gen = wmeta.gen
      BY <1>2, <2>1, InPagesOf DEF WriterSound
    <3> QED
      BY <1>10, <3>1
  <2>2. CASE n \notin dirty
    <3>1. \A d \in dirty : NodePages(n) \cap NodePages(d) = {}
      BY <1>2, <2>2 DEF WriterSound, Disjoint, NodesOf
    <3>2. p \in Pages \ PagesOf(dirty)
      BY <1>2, <3>1, InPagesOf, UsedType, NodePagesType
    <3> QED
      BY <1>2, <1>11, <2>2, <3>2 DEF WriterSound
  <2> QED
    BY <2>1, <2>2
<1>13. file'[wmeta'.flist.id].ids = Listed(ids', pending')
  <2>1. wmeta.flist \in dirty /\ wlist = Listed(ids, pending)
    BY <1>1, <1>2 DEF WriterSound
  <2>2. wmeta.flist.id \in PagesOf(dirty)
    BY <1>2, <2>1, InPagesOf, NodePagesType, MetaFields
  <2> QED
    BY <1>1, <1>10, <2>1, <2>2
<1>14. WriterSound'
  BY <1>1, <1>2, <1>12, <1>13 DEF WriterSound, Within, Disjoint
<1>15. opened'
  BY <1>1, <1>2 DEF WriterSound
<1> QED
  BY <1>1, <1>2, <1>5, <1>6, <1>8, <1>9, <1>14, <1>15

(* The version written becomes visible: it is complete, its freelist page  *)
(* holds the freelist, and the meta page of the version before stays.      *)
LEMMA WriteMetaKeeps ==
    ASSUME StoreInv, TypeOK', WriteMeta
    PROVE  StoreInv' /\ \A m \in Metas : Protected(m) => Protected(m)'
<1> USE DEF StoreInv
<1>1. /\ phase = "synced" /\ WriterSound /\ wmeta \in Metas /\ dirty = {}
      /\ UNCHANGED <<opened, file, ids, pending, cache, rmeta, wmeta, dirty,
                     wlist, acked>>
  BY DEF WriteMeta, freelist, TypeOK, WriterSound
<1>2. ~ \E n \in NodesOf(wmeta) : n.id >= wmeta.pgid
  <2> SUFFICES ASSUME NEW n \in NodesOf(wmeta) PROVE ~(n.id >= wmeta.pgid)
    OBVIOUS
  <2>1. n.id \in Used(wmeta) /\ n.id \in Nat /\ wmeta.pgid \in Nat
    BY <1>1, InUsed, UsedType, NodePagesType, MetaFields DEF Nodes
  <2> QED
    BY <1>1, <2>1 DEF WriterSound, Within
<1>3. PICK i \in {0, 1} :
        /\ Current = slot[i] /\ Current \in Metas /\ Current.ok
        /\ Current.txid % 2 = i
        /\ slot[1 - i].ok => slot[1 - i].txid < Current.txid
        /\ \A m \in Metas : m.txid = Current.txid + 1 => MetaSlot(m) = 1 - i
  BY CurrentSlot
<1>4. /\ wmeta.txid = Current.txid + 1 /\ MetaSlot(wmeta) = 1 - i
      /\ Current.txid \in Nat /\ Current.pgid \in Nat /\ wmeta.pgid \in Nat
      /\ wmeta.pgid >= Current.pgid /\ wmeta.ok
  BY <1>1, <1>3, MetaFields DEF WriterSound
<1>5. phase' = "meta" /\ slot' = [slot EXCEPT ![1 - i] = wmeta]
  BY <1>2, <1>4 DEF WriteMeta
<1>6. slot \in [{0, 1} -> Metas] /\ slot' \in [{0, 1} -> Metas] /\ i \in {0, 1}
      /\ 1 - i \in {0, 1} /\ 1 - (1 - i) = i
  BY DEF TypeOK
<1>7. slot'[1 - i] = wmeta /\ slot'[i] = Current /\ i # 1 - i
  BY <1>3, <1>5, <1>6
<1>8. Current' = wmeta
  <2>1. slot'[1 - i].ok /\ slot'[i].txid < slot'[1 - i].txid
    BY <1>4, <1>7
  <2> QED
    BY <1>6, <1>7, <2>1, MetaIs DEF Current
<1>9. SlotsAlternate'
  <2>1. wmeta.txid % 2 = 1 - i
    BY <1>4 DEF MetaSlot
  <2> QED
    BY <1>4, <1>6, <1>7, <2>1 DEF SlotsAlternate
<1>10. \A n \in NodesOf(wmeta) : \A p \in NodePages(n) : file[p].gen = n.gen
  BY <1>1 DEF WriterSound
<1>11. ListOnPage(file', slot') = Listed(ids, pending)
  BY <1>1, <1>8 DEF ListOnPage, WriterSound, Current
<1>12. HighWaterNow' = wmeta.pgid /\ HighWaterNow = wmeta.pgid
  BY <1>1, <1>5, <1>8 DEF HighWaterNow
<1>13. \A p \in Listed(ids, pending) : p \notin Used(wmeta) /\ p < wmeta.pgid
  BY <1>1, <1>12, InPending DEF Listed, WriterSound, FreelistSound
<1>14. CurrentSound'
  <2>1. Within(wmeta) /\ Disjoint(wmeta)
    BY <1>1 DEF WriterSound
  <2> QED
    BY <1>1, <1>8, <1>10, <1>11, <1>13, <2>1
    DEF CurrentSound, Intact, Within, Disjoint
<1>15. \A pr \in pending : pr[1] \in Nat
  BY DEF TypeOK
<1>16. FreelistSound'
  <2>1. \A pr \in pending : pr[2] < wmeta.pgid /\ pr[1] <= wmeta.txid
    BY <1>4, <1>12 DEF FreelistSound
  <2>2. \A p \in ids : p < wmeta.pgid
    BY <1>12 DEF FreelistSound
  <2> QED
    BY <1>1, <1>4, <1>8, <1>12, <1>15, <2>1, <2>2 DEF FreelistSound, PendingOnce
<1>17. PagesOf(dirty) = {}
  BY <1>1 DEF PagesOf
<1>18. \A pr \in pending : pr[2] \notin Used(wmeta)
  BY <1>1, InPending DEF WriterSound
<1>19. Protected(Current)'
  <2>1. Used(wmeta) \cap ids = {} /\ Within(wmeta)
    BY <1>1 DEF WriterSound
  <2> QED
    BY <1>1, <1>4, <1>8, <1>10, <1>17, <1>18, <2>1 DEF Protected, Intact, Within
<1>20. ASSUME NEW m \in Metas, Protected(m) PROVE Protected(m)'
  <2>1. m.txid \in Nat /\ m.pgid \in Nat
    BY MetaFields
  <2>2. \A p \in Used(m) :
           p \in Used(wmeta) \/ \E pr \in pending : pr[2] = p /\ pr[1] <= wmeta.txid
    <3>1. \A p \in Used(Current) : p \in Used(wmeta) \/ <<wmeta.txid, p>> \in pending
      BY <1>1 DEF WriterSound
    <3>2. \A p \in Used(m) :
            p \in Used(Current) \/ \E pr \in pending : pr[2] = p /\ pr[1] <= Current.txid
      BY <1>20 DEF Protected
    <3>3. \A pr \in pending : pr[1] <= wmeta.txid
      BY <1>4 DEF FreelistSound
    <3> QED
      BY <3>1, <3>2, <3>3
  <2>3. m.txid <= wmeta.txid /\ m.pgid <= wmeta.pgid
    BY <1>4, <1>20, <2>1 DEF Protected
  <2> QED
    BY <1>1, <1>8, <1>20, <2>2, <2>3 DEF Protected, Intact
<1>21. WriterSound'
  BY <1>1, <1>5, <1>8 DEF WriterSound, Within, Disjoint
<1>22. opened'
  BY <1>1 DEF WriterSound
<1> QED
  BY <1>1, <1>5, <1>9, <1>14, <1>16, <1>19, <1>20, <1>21, <1>22

-----------------------------------------------------------------------------
(* The write transaction fails, or is rolled back.                         *)

(* freelist.rollback and reload free nothing a version still needs: its    *)
(* pages are used by the current version, or pending for a transaction     *)
(* that was committed.  After the failing fdatasync of a meta page, only   *)
(* the version of that page is safe.                                       *)
LEMMA RollbackTxKeeps ==
    ASSUME StoreInv, TypeOK',
           phase \in {"open", "listed", "written", "synced", "meta"},
           NEW f, NEW s, file' = f, slot' = s, RollbackTx(f, s),
           UNCHANGED opened, Current' = Current, SlotsAlternate',
           ListOnPage(f, s) = ListOnPage(file, slot),
           \A m \in Metas : Protected(m) => \A p \in Used(m) : f[p] = file[p]
    PROVE  /\ StoreInv'
           /\ phase # "meta" => \A m \in Metas : Protected(m) => Protected(m)'
<1> USE DEF StoreInv
<1> DEFINE kept == Without(pending, wmeta.txid)
           list == ListOnPage(file, slot)
<1>1. /\ pending' = kept /\ ids' = ReadBack(list) \ PendingPages(kept)
      /\ cache' = ids' \cup PendingPages(kept)
      /\ phase' = "none" /\ dirty' = {}
  BY DEF RollbackTx, Reloaded, EndWriter
<1>2. /\ opened /\ Current \in Metas /\ wmeta \in Metas
      /\ Current.txid \in Nat /\ wmeta.txid \in Nat
      /\ phase # "meta" => wmeta.txid = Current.txid + 1
  BY CurrentSlot, MetaFields DEF WriterSound, TypeOK
<1>3. \A pr \in kept : /\ pr \in pending /\ pr[1] \in Nat /\ pr[1] <= Current.txid
                       /\ pr[2] < Current.pgid
  <2> SUFFICES ASSUME NEW pr \in kept
               PROVE  /\ pr \in pending /\ pr[1] \in Nat /\ pr[1] <= Current.txid
                      /\ pr[2] < Current.pgid
    OBVIOUS
  <2>1. pr \in pending /\ pr[1] # wmeta.txid
    BY DEF Without
  <2>2. pr[1] \in Nat /\ pr[1] <= Current.txid + 1
    BY <2>1 DEF TypeOK, FreelistSound
  <2>3. pr[1] <= Current.txid
    <3>1. CASE phase = "meta"
      BY <2>1, <3>1 DEF FreelistSound
    <3>2. CASE phase # "meta"
      BY <1>2, <2>1, <2>2, <3>2
    <3> QED
      BY <3>1, <3>2
  <2> QED
    BY <2>1, <2>2, <2>3 DEF FreelistSound
<1>4. phase # "meta" => \A pr \in pending : pr[1] <= Current.txid => pr \in kept
  BY <1>2 DEF Without
<1>5. ids' \subseteq list /\ ids' \cap PendingPages(kept) = {}
  BY <1>1 DEF ReadBack
<1> HIDE DEF kept, list
<1>6. \A p \in list : p \notin Used(Current) /\ p < Current.pgid
  BY DEF CurrentSound, list
<1>7. PagesOf(dirty') = {}
  BY <1>1 DEF PagesOf
<1>8. ASSUME NEW m \in Metas, Protected(m)
      PROVE  \A n \in NodesOf(m) : \A p \in NodePages(n) : file'[p].gen = n.gen
  BY <1>8, InUsed DEF Protected, Intact
<1>9. CurrentSound'
  <2>1. Within(Current) /\ Disjoint(Current)
    BY DEF CurrentSound
  <2>2. ListOnPage(file', slot') = list
    BY DEF list
  <2> QED
    BY <1>2, <1>6, <1>8, <2>1, <2>2 DEF CurrentSound, Intact, Within, Disjoint
<1>10. FreelistSound'
  <2>1. HighWaterNow' = Current.pgid
    BY <1>1 DEF HighWaterNow
  <2>2. cache' = Listed(ids', pending')
    BY <1>1 DEF Listed
  <2>3. PendingOnce'
    BY <1>1, <1>3 DEF FreelistSound, PendingOnce
  <2>4. \A pr \in kept : pr[1] <= Current.txid + 1
    BY <1>2, <1>3
  <2> QED
    BY <1>1, <1>3, <1>5, <1>6, <2>1, <2>2, <2>3, <2>4 DEF FreelistSound
<1>11. Used(Current) \cap ids' = {}
  BY <1>5, <1>6
<1>12. Protected(Current)'
  BY <1>1, <1>2, <1>3, <1>7, <1>8, <1>11 DEF Protected, Intact
<1>13. ASSUME phase # "meta", NEW m \in Metas, Protected(m) PROVE Protected(m)'
  <2>1. \A p \in Used(m) :
          \/ p \in Used(Current)
          \/ \E pr \in kept : pr[2] = p /\ pr[1] <= Current.txid
    BY <1>4, <1>13 DEF Protected
  <2>2. Used(m) \cap ids' = {}
    BY <1>5, <1>6, <2>1, InPending
  <2>3. \A pr \in kept : pr[2] \in Used(m) => pr[1] > m.txid
    BY <1>3, <1>13 DEF Protected
  <2> QED
    BY <1>1, <1>7, <1>8, <1>13, <2>1, <2>2, <2>3 DEF Protected, Intact
<1> QED
  BY <1>1, <1>2, <1>9, <1>10, <1>12, <1>13

LEMMA RollbackKeeps ==
    ASSUME StoreInv, TypeOK', Rollback \/ AllocFails \/ SyncFails \/ MetaSyncFails
    PROVE  /\ StoreInv'
           /\ phase # "meta" => \A m \in Metas : Protected(m) => Protected(m)'
<1>1. /\ phase \in {"open", "listed", "written", "synced", "meta"}
      /\ UNCHANGED <<opened, file, slot>>
      /\ RollbackTx(file, slot)
  BY DEF Rollback, AllocFails, SyncFails, MetaSyncFails, storage
<1>2. Current' = Current /\ SlotsAlternate'
  BY <1>1 DEF Current, SlotsAlternate, StoreInv
<1> QED
  BY <1>1, <1>2, RollbackTxKeeps

LEMMA WriteFailsKeeps ==
    ASSUME StoreInv, TypeOK', WriteFails
    PROVE  StoreInv' /\ \A m \in Metas : Protected(m) => Protected(m)'
<1>1. PICK n \in dirty :
        /\ file' = Written({m \in dirty : m.id < n.id})
        /\ RollbackTx(file', slot)
  BY DEF WriteFails
<1>2. phase = "listed" /\ UNCHANGED <<opened, slot>>
  BY DEF WriteFails
<1>3. Current' = Current /\ SlotsAlternate'
  BY <1>2 DEF Current, SlotsAlternate, StoreInv
<1>4. /\ \A m \in Metas : Protected(m) => \A p \in Used(m) : file'[p] = file[p]
      /\ ListOnPage(file', slot) = ListOnPage(file, slot)
  BY <1>1, <1>2, WrittenSpares
<1> QED
  BY <1>1, <1>2, <1>3, <1>4, RollbackTxKeeps

(* The torn meta page is the other one.                                    *)
LEMMA MetaWriteFailsCurrent ==
    ASSUME StoreInv, TypeOK', MetaWriteFails
    PROVE  Current' = Current /\ SlotsAlternate'
<1>1. /\ phase = "synced"
      /\ slot' = slot \/ slot' = [slot EXCEPT ![MetaSlot(wmeta)] = Torn(wmeta)]
  BY DEF MetaWriteFails
<1>2. PICK i \in {0, 1} :
        /\ Current = slot[i] /\ Current \in Metas /\ Current.ok
        /\ Current.txid % 2 = i
        /\ slot[1 - i].ok => slot[1 - i].txid < Current.txid
        /\ \A m \in Metas : m.txid = Current.txid + 1 => MetaSlot(m) = 1 - i
  BY CurrentSlot DEF StoreInv
<1>3. wmeta \in Metas /\ wmeta.txid = Current.txid + 1
  BY <1>1 DEF StoreInv, TypeOK, WriterSound
<1>4. slot \in [{0, 1} -> Metas] /\ slot' \in [{0, 1} -> Metas]
      /\ 1 - i \in {0, 1} /\ i # 1 - i
  BY DEF StoreInv, TypeOK
<1>5. slot'[i] = Current /\ slot'[1 - i] \in {slot[1 - i], Torn(wmeta)}
  BY <1>1, <1>2, <1>3, <1>4
<1>6. slot'[1 - i].ok => slot'[1 - i].txid < Current.txid
  BY <1>2, <1>3, <1>5 DEF Torn, Metas
<1>7. Current' = Current
  BY <1>2, <1>4, <1>5, <1>6, MetaIs DEF Current
<1>8. SlotsAlternate'
  BY <1>2, <1>5, <1>6 DEF SlotsAlternate
<1> QED
  BY <1>7, <1>8

LEMMA MetaWriteFailsKeeps ==
    ASSUME StoreInv, TypeOK', MetaWriteFails
    PROVE  StoreInv' /\ \A m \in Metas : Protected(m) => Protected(m)'
<1>1. /\ phase = "synced" /\ UNCHANGED <<opened, file>>
      /\ RollbackTx(file, slot')
  BY DEF MetaWriteFails
<1>2. Current' = Current /\ SlotsAlternate'
  BY MetaWriteFailsCurrent
<1>3. ListOnPage(file, slot') = ListOnPage(file, slot)
  BY <1>2 DEF ListOnPage, Current
<1> QED
  BY <1>1, <1>2, <1>3, RollbackTxKeeps

-----------------------------------------------------------------------------
(* Opening, closing, and the end of the process.                           *)

LEMMA OpenKeeps ==
    ASSUME StoreInv, TypeOK', Open
    PROVE  StoreInv' /\ OpenTxs' = {}
<1> USE DEF StoreInv
<1> DEFINE list == ListOnPage(file, slot)
<1>1. /\ UNCHANGED <<file, slot, rmeta, phase, dirty, acked>>
      /\ opened' /\ ids' = ReadBack(list) /\ pending' = {} /\ cache' = ids'
      /\ OpenTxs = {} /\ phase = "none" /\ dirty = {}
  BY DEF Open, ClosedSound, storage, rwtx
<1>2. Current' = Current /\ Current \in Metas
  BY <1>1, CurrentSlot DEF Current
<1>3. SlotsAlternate' /\ CurrentSound'
  BY <1>1, <1>2 DEF SlotsAlternate, CurrentSound, Intact, ListOnPage
<1>4. ids' \subseteq list
  BY <1>1 DEF ReadBack
<1> HIDE DEF list
<1>5. \A p \in ids' : p \notin Used(Current) /\ p < Current.pgid
  BY <1>4 DEF CurrentSound, list
<1>6. PendingPages(pending') = {}
  BY <1>1, InPending
<1>7. FreelistSound'
  <2>1. HighWaterNow' = Current.pgid
    BY <1>1, <1>2 DEF HighWaterNow
  <2> QED
    BY <1>1, <1>5, <1>6, <2>1 DEF FreelistSound, PendingOnce, Listed
<1>8. Protected(Current)'
  BY <1>1, <1>2, <1>5 DEF Protected, Intact
<1>9. OpenTxs' = {}
  BY <1>1 DEF OpenTxs
<1> QED
  BY <1>1, <1>2, <1>3, <1>7, <1>8, <1>9

(* A closed database: only the file matters.                               *)
LEMMA ClosedIs ==
    ASSUME TypeOK', opened' = FALSE, NoFreelist, OpenTxs' = {}, phase' = "none",
           dirty' = {}, SlotsAlternate', CurrentSound'
    PROVE  StoreInv'
<1>1. Current' \in Metas /\ Current'.txid \in Nat /\ Current'.pgid \in Nat
  <2>1. Current' \in Metas
    BY MetaType DEF Current, TypeOK
  <2> QED
    BY <2>1, MetaFields
<1>2. ids' = {} /\ pending' = {} /\ cache' = {}
  BY DEF NoFreelist
<1>3. PendingPages(pending') = {} /\ PagesOf(dirty') = {}
  BY <1>2, InPending DEF PagesOf
<1>4. FreelistSound'
  BY <1>2, <1>3 DEF FreelistSound, PendingOnce, Listed
<1>5. Protected(Current)'
  BY <1>1, <1>2, <1>3 DEF Protected, CurrentSound
<1> QED
  BY <1>2, <1>4, <1>5 DEF StoreInv, ClosedSound

LEMMA CloseKeeps ==
    ASSUME StoreInv, TypeOK', Close
    PROVE  StoreInv' /\ OpenTxs' = {}
<1>1. /\ UNCHANGED <<file, slot, rmeta, phase, dirty>> /\ opened' = FALSE
      /\ NoFreelist /\ OpenTxs = {} /\ phase = "none"
  BY DEF Close, storage, rwtx
<1>2. OpenTxs' = {} /\ dirty' = {} /\ Current' = Current
  BY <1>1 DEF OpenTxs, StoreInv, Current
<1>3. SlotsAlternate' /\ CurrentSound'
  BY <1>1, <1>2 DEF StoreInv, SlotsAlternate, CurrentSound, Intact, ListOnPage
<1> QED
  BY <1>1, <1>2, <1>3, ClosedIs

LEMMA KillKeeps ==
    ASSUME StoreInv, TypeOK', Kill
    PROVE  StoreInv' /\ OpenTxs' = {}
<1>1. /\ UNCHANGED <<file, slot>> /\ opened' = FALSE /\ NoFreelist
      /\ rmeta' = [r \in Readers |-> NoMeta] /\ EndWriter
  BY DEF Kill, ProcessGone, storage
<1>2. OpenTxs' = {} /\ Current' = Current
  BY <1>1 DEF OpenTxs, Current
<1>3. SlotsAlternate' /\ CurrentSound'
  BY <1>1, <1>2 DEF StoreInv, SlotsAlternate, CurrentSound, Intact, ListOnPage
<1> QED
  BY <1>1, <1>2, <1>3, ClosedIs DEF EndWriter

-----------------------------------------------------------------------------
LEMMA StoreInit == Init => StoreInv /\ ReadersProtected /\ CurrentAcked
<1> SUFFICES ASSUME Init PROVE StoreInv /\ ReadersProtected /\ CurrentAcked
  OBVIOUS
<1> DEFINE m == InitialMeta(1)
<1>1. TypeOK
  BY TypeInit
<1>2. /\ slot[1] = m /\ slot[0] = InitialMeta(0) /\ m.ok /\ m.txid = 1
      /\ slot[0].txid = 0 /\ m.pgid = 4 /\ m.gen = 1
      /\ m.flist = [id |-> 2, len |-> 1, gen |-> 1]
      /\ m.tree = {[id |-> 3, len |-> 1, gen |-> 1]}
  BY DEF Init, InitialMeta
<1>3. Current = m
  BY <1>1, <1>2, MetaIs DEF Current, TypeOK
<1>4. SlotsAlternate
  BY <1>2 DEF SlotsAlternate
<1>5. NodePages(m.flist) = {2} /\ \A n \in m.tree : NodePages(n) = {3} /\ n.gen = 1
  BY <1>2 DEF NodePages, Run
<1>6. NodesOf(m) = m.tree \cup {m.flist}
  BY DEF NodesOf
<1>7. Used(m) = {2, 3}
  <2>1. m.tree # {} /\ \A p : p \in {2, 3} <=> \E n \in NodesOf(m) : p \in NodePages(n)
    BY <1>2, <1>5, <1>6
  <2> QED
    BY <2>1, InUsed
<1>8. /\ file = InitialFile /\ ids = {} /\ pending = {} /\ cache = {}
      /\ opened /\ phase = "none" /\ dirty = {} /\ acked = 1 /\ OpenTxs = {}
  BY DEF Init, NoWriter, OpenTxs
<1>9. 2 \in Pages /\ 3 \in Pages
  BY DBAssumption DEF Pages
<1> HIDE DEF m
<1>10. Within(m) /\ Disjoint(m)
  BY <1>2, <1>5, <1>7 DEF Within, Disjoint
<1>11. file[2].gen = 1 /\ file[3].gen = 1 /\ file[2].ids = {}
  BY <1>8, <1>9 DEF InitialFile
<1>12. Intact(m)
  BY <1>2, <1>5, <1>6, <1>11 DEF Intact
<1>13. ListOnPage(file, slot) = {}
  BY <1>2, <1>3, <1>11 DEF ListOnPage, Current
<1>14. CurrentSound
  BY <1>3, <1>10, <1>12, <1>13 DEF CurrentSound
<1>15. PendingPages(pending) = {} /\ PagesOf(dirty) = {}
  BY <1>8, InPending DEF PagesOf
<1>16. FreelistSound
  BY <1>8, <1>15 DEF FreelistSound, PendingOnce, Listed
<1>17. Protected(Current)
  BY <1>2, <1>3, <1>8, <1>10, <1>12, <1>15 DEF Protected
<1> QED
  BY <1>1, <1>2, <1>3, <1>4, <1>8, <1>14, <1>16, <1>17
  DEF StoreInv, ReadersProtected, CurrentAcked

(* Nothing changed.                                                        *)
LEMMA Stuttering ==
    ASSUME UNCHANGED vars
    PROVE  /\ StoreInv => StoreInv'
           /\ ReadersProtected => ReadersProtected'
           /\ CurrentAcked => CurrentAcked'
<1> USE DEF vars, storage, freelist, rwtx, Current
<1>1. ReadersProtected => ReadersProtected'
  BY DEF ReadersProtected, Protected, Intact, OpenTxs
<1>2. StoreInv => StoreInv'
  BY DEF StoreInv, TypeOK, SlotsAlternate, CurrentSound, FreelistSound,
     PendingOnce, Protected, WriterSound, ClosedSound, HighWaterNow, Intact,
     ListOnPage, OpenTxs
<1> QED
  BY <1>1, <1>2 DEF CurrentAcked

(* A step of the database keeps the file and the freelist sound, whatever  *)
(* fails but the power.                                                    *)
LEMMA StoreStep ==
    ASSUME StoreInv, [Next]_vars, ~ PowerFails
    PROVE  StoreInv'
<1>1. TypeOK'
  BY TypeNext DEF StoreInv
<1>2. CASE UNCHANGED vars
  BY <1>2, Stuttering
<1>3. CASE Next
  <2>1. ASSUME NEW r \in Readers, BeginTx(r) \/ CloseTx(r) PROVE StoreInv'
    BY <1>1, <2>1, BeginTxKeeps, CloseTxKeeps
  <2>2. CASE BeginRWTx
    BY <1>1, <2>2, BeginRWTxKeeps
  <2>3. CASE phase = "open" /\ \E n \in wmeta.tree : FreeNode(n)
    BY <1>1, <2>3, FreeNodeKeeps
  <2>4. ASSUME NEW len \in NodeLengths, NEW id \in Pages, AllocNode(len, id)
        PROVE  StoreInv'
    BY <1>1, <2>4, AllocNodeKeeps
  <2>5. ASSUME NEW id \in Pages, CommitFreelist(id) PROVE StoreInv'
    BY <1>1, <2>5, CommitFreelistKeeps
  <2>6. CASE WritePages \/ SyncPages
    BY <1>1, <2>6, WritePagesKeeps, SyncPagesKeeps
  <2>7. CASE WriteMeta \/ SyncMeta
    BY <1>1, <2>7, WriteMetaKeeps, SyncMetaKeeps
  <2>8. CASE Rollback \/ AllocFails \/ SyncFails \/ MetaSyncFails
    BY <1>1, <2>8, RollbackKeeps
  <2>9. CASE WriteFails \/ MetaWriteFails
    BY <1>1, <2>9, WriteFailsKeeps, MetaWriteFailsKeeps
  <2>10. CASE Open \/ Close \/ Kill
    BY <1>1, <2>10, OpenKeeps, CloseKeeps, KillKeeps
  <2> QED
    BY <1>3, <2>1, <2>2, <2>3, <2>4, <2>5, <2>6, <2>7, <2>8, <2>9, <2>10
    DEF Next
<1> QED
  BY <1>2, <1>3

(* A step that begins and ends no read transaction, and keeps the versions *)
(* it finds protected.                                                     *)
LEMMA SameReaders ==
    ASSUME TypeOK, ReadersProtected, rmeta' = rmeta,
           \A m \in Metas : Protected(m) => Protected(m)'
    PROVE  ReadersProtected'
<1> SUFFICES ASSUME NEW r \in OpenTxs' PROVE Protected(rmeta[r])'
  BY DEF ReadersProtected
<1>1. r \in OpenTxs /\ rmeta'[r] = rmeta[r] /\ rmeta[r] \in Metas
  BY DEF OpenTxs, TypeOK
<1> QED
  BY <1>1 DEF ReadersProtected, Protected

(* Every step but a failing fdatasync of the meta page protects the        *)
(* versions of the open read transactions.                                 *)
LEMMA ReadersStep ==
    ASSUME StoreInv, ReadersProtected, [Next]_vars, ~ MetaSyncFails, ~ PowerFails
    PROVE  ReadersProtected'
<1>1. TypeOK /\ TypeOK'
  BY TypeNext DEF StoreInv
<1>2. CASE UNCHANGED vars
  BY <1>2, Stuttering
<1>3. CASE Next
  <2>1. ASSUME NEW q \in Readers, BeginTx(q) PROVE ReadersProtected'
    <3>1. rmeta' = [rmeta EXCEPT ![q] = Current] /\ Current' = Current
      BY <2>1 DEF BeginTx, storage, Current
    <3>2. StoreInv' /\ \A m \in Metas : Protected(m) => Protected(m)'
      BY <1>1, <2>1, BeginTxKeeps
    <3>3. ASSUME NEW r \in OpenTxs' PROVE Protected(rmeta[r])'
      <4>1. CASE r = q
        <5>1. rmeta'[r] = Current'
          BY <1>1, <3>1, <4>1 DEF TypeOK
        <5>2. Protected(Current)'
          BY <3>2 DEF StoreInv
        <5> QED
          BY <5>1, <5>2 DEF Protected
      <4>2. CASE r # q
        <5>1. rmeta'[r] = rmeta[r] /\ r \in OpenTxs /\ rmeta[r] \in Metas
          BY <1>1, <3>1, <4>2 DEF OpenTxs, TypeOK
        <5> QED
          BY <3>2, <5>1 DEF ReadersProtected, Protected
      <4> QED
        BY <4>1, <4>2
    <3> QED
      BY <3>3 DEF ReadersProtected
  <2>2. ASSUME NEW q \in Readers, CloseTx(q) PROVE ReadersProtected'
    <3>1. rmeta' = [rmeta EXCEPT ![q] = NoMeta]
      BY <2>2 DEF CloseTx
    <3>2. \A m \in Metas : Protected(m) => Protected(m)'
      BY <1>1, <2>2, CloseTxKeeps
    <3>3. ASSUME NEW r \in OpenTxs' PROVE Protected(rmeta[r])'
      <4>1. rmeta'[r] = rmeta[r] /\ r \in OpenTxs /\ rmeta[r] \in Metas
        BY <1>1, <3>1 DEF OpenTxs, TypeOK
      <4> QED
        BY <3>2, <4>1 DEF ReadersProtected, Protected
    <3> QED
      BY <3>3 DEF ReadersProtected
  <2>3. CASE BeginRWTx
    <3>1. \A r \in OpenTxs : Protected(rmeta[r]) => Protected(rmeta[r])'
      BY <1>1, <2>3, BeginRWTxKeeps
    <3>2. OpenTxs' = OpenTxs
      BY <2>3 DEF BeginRWTx, OpenTxs
    <3> QED
      BY <3>1, <3>2 DEF ReadersProtected
  <2>4. CASE phase = "open" /\ \E n \in wmeta.tree : FreeNode(n)
    <3>1. rmeta' = rmeta
      BY <2>4 DEF FreeNode
    <3> QED
      BY <1>1, <2>4, <3>1, FreeNodeKeeps, SameReaders
  <2>5. ASSUME NEW len \in NodeLengths, NEW id \in Pages, AllocNode(len, id)
        PROVE  ReadersProtected'
    <3>1. rmeta' = rmeta
      BY <2>5 DEF AllocNode
    <3> QED
      BY <1>1, <2>5, <3>1, AllocNodeKeeps, SameReaders
  <2>6. ASSUME NEW id \in Pages, CommitFreelist(id) PROVE ReadersProtected'
    <3>1. rmeta' = rmeta
      BY <2>6 DEF CommitFreelist
    <3> QED
      BY <1>1, <2>6, <3>1, CommitFreelistKeeps, SameReaders
  <2>7. CASE WritePages \/ SyncPages
    <3>1. rmeta' = rmeta
      BY <2>7 DEF WritePages, SyncPages
    <3> QED
      BY <1>1, <2>7, <3>1, WritePagesKeeps, SyncPagesKeeps, SameReaders
  <2>8. CASE WriteMeta \/ SyncMeta
    <3>1. rmeta' = rmeta
      BY <2>8 DEF WriteMeta, SyncMeta
    <3> QED
      BY <1>1, <2>8, <3>1, WriteMetaKeeps, SyncMetaKeeps, SameReaders
  <2>9. CASE Rollback \/ AllocFails \/ SyncFails
    <3>1. rmeta' = rmeta /\ phase # "meta"
      BY <2>9 DEF Rollback, AllocFails, SyncFails
    <3> QED
      BY <1>1, <2>9, <3>1, RollbackKeeps, SameReaders
  <2>10. CASE WriteFails \/ MetaWriteFails
    <3>1. rmeta' = rmeta
      BY <2>10 DEF WriteFails, MetaWriteFails
    <3> QED
      BY <1>1, <2>10, <3>1, WriteFailsKeeps, MetaWriteFailsKeeps, SameReaders
  <2>11. CASE Open \/ Close \/ Kill
    <3>1. OpenTxs' = {}
      BY <1>1, <2>11, OpenKeeps, CloseKeeps, KillKeeps
    <3> QED
      BY <3>1 DEF ReadersProtected
  <2> QED
    BY <1>3, <2>1, <2>2, <2>3, <2>4, <2>5, <2>6, <2>7, <2>8, <2>9, <2>10,
       <2>11 DEF Next
<1> QED
  BY <1>2, <1>3

(* And what new transactions see is what was acknowledged.                 *)
LEMMA AckedStep ==
    ASSUME StoreInv, CurrentAcked, [Next]_vars, ~ MetaSyncFails, ~ PowerFails
    PROVE  CurrentAcked'
<1>1. TypeOK'
  BY TypeNext DEF StoreInv
<1>2. CASE UNCHANGED vars
  BY <1>2, Stuttering
<1>3. CASE MetaWriteFails
  <2>1. Current' = Current /\ phase = "synced" /\ acked' = acked
    BY <1>1, <1>3, MetaWriteFailsCurrent DEF MetaWriteFails
  <2> QED
    BY <2>1 DEF CurrentAcked
<1>4. CASE SyncMeta
  <2>1. acked' = wmeta.gen /\ wmeta = Current /\ Current' = Current
    BY <1>4 DEF SyncMeta, Current, StoreInv, WriterSound
  <2> QED
    BY <2>1 DEF CurrentAcked
<1>5. CASE Kill
  BY <1>5 DEF Kill, ProcessGone, CurrentAcked, Current
<1>6. CASE WriteMeta
  <2>1. acked' = acked /\ phase = "synced" /\ (phase' # "meta" => slot' = slot)
    BY <1>6 DEF WriteMeta
  <2> QED
    BY <2>1 DEF CurrentAcked, Current
<1>7. CASE Next /\ ~ MetaWriteFails /\ ~ SyncMeta /\ ~ Kill /\ ~ WriteMeta
  <2>1. slot' = slot /\ acked' = acked /\ (phase = "meta" => phase' = "meta")
    BY <1>7 DEF Next, BeginTx, CloseTx, BeginRWTx, FreeNode, AllocNode,
       CommitFreelist, WritePages, SyncPages, Rollback, AllocFails, WriteFails,
       SyncFails, Open, Close, storage, rwtx
  <2> QED
    BY <2>1 DEF CurrentAcked, Current
<1> QED
  BY <1>2, <1>3, <1>4, <1>5, <1>6, <1>7

=============================================================================
