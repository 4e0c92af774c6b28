------------------------------- MODULE DBDisk -------------------------------
(***************************************************************************)
(* The safety of the transactions of DB, power failures included: what is  *)
(* on the device (DiskSound) is enough for StoreInv to hold in whatever    *)
(* file a power failure leaves.  And, from it, that DB implements          *)
(* SnapshotStore, whatever fails but what Tolerated excludes: every step   *)
(* of the transactions is a step of the store or leaves it alone.          *)
(***************************************************************************)
EXTENDS DBSafety

-----------------------------------------------------------------------------
(* The meta page of the durable version, and the other one.                *)
LEMMA DurableSlot ==
    ASSUME StoreInv, DiskSound
    PROVE  \E i \in {0, 1} :
             /\ i = MetaSlot(Durable) /\ slot[i] = Durable /\ dslot[i] = Durable
             /\ Durable \in Metas /\ Durable.txid \in Nat
             /\ dslot[1 - i].ok => dslot[1 - i].txid < Durable.txid
             /\ phase # "meta" =>
                  /\ Current = Durable
                  /\ slot[1 - i].ok => slot[1 - i].txid < Durable.txid
             /\ phase = "meta" =>
                  /\ slot[1 - i] = Current /\ Current = wmeta
                  /\ MetaSlot(wmeta) = 1 - i
<1>1. PICK c \in {0, 1} :
        /\ Current = slot[c] /\ Current \in Metas /\ Current.ok
        /\ Current.txid % 2 = c
        /\ slot[1 - c].ok => slot[1 - c].txid < Current.txid
        /\ \A m \in Metas : m.txid = Current.txid + 1 => MetaSlot(m) = 1 - c
  BY CurrentSlot DEF StoreInv
<1>2. CASE phase # "meta"
  <2>1. Durable = Current /\ c = MetaSlot(Durable)
    BY <1>1, <1>2 DEF Durable, MetaSlot
  <2> QED
    BY <1>1, <1>2, <2>1, MetaFields DEF DiskSound
<1>3. CASE phase = "meta"
  <2>1. Current = wmeta /\ MetaSlot(wmeta) = c
    BY <1>1, <1>3 DEF StoreInv, WriterSound, MetaSlot
  <2>2. Durable = slot[1 - c] /\ Durable \in Metas
    BY <1>3, <2>1 DEF Durable, StoreInv, TypeOK
  <2>3. Durable.txid \in Nat /\ Current.txid \in Nat
    BY <1>1, <2>2, MetaFields
  <2>4. Current.txid = Durable.txid + 1
    BY <1>3, <2>1 DEF DiskSound
  <2>5. \A n \in Nat : (n + 1) % 2 = 1 - (n % 2) /\ n % 2 \in {0, 1}
    OBVIOUS
  <2>6. MetaSlot(Durable) = 1 - c
    BY <1>1, <2>3, <2>4, <2>5 DEF MetaSlot
  <2> DEFINE i == 1 - c
  <2>7. i \in {0, 1} /\ 1 - i = c
    OBVIOUS
  <2>8. /\ slot[i] = Durable /\ dslot[i] = Durable
        /\ dslot[1 - i].ok => dslot[1 - i].txid < Durable.txid
    BY <2>6 DEF DiskSound
  <2> HIDE DEF i
  <2>9. MetaSlot(Durable) = i /\ MetaSlot(wmeta) = 1 - i /\ slot[1 - i] = Current
    BY <1>1, <2>1, <2>6, <2>7 DEF i
  <2> QED
    BY <1>3, <2>1, <2>2, <2>3, <2>7, <2>8, <2>9
<1> QED
  BY <1>2, <1>3

(* The durable version is complete in the file, its list included.         *)
LEMMA DurableSound ==
    ASSUME StoreInv, DiskSound
    PROVE  /\ Within(Durable) /\ Disjoint(Durable) /\ Intact(Durable)
           /\ \A p \in file[Durable.flist.id].ids :
                p \notin Used(Durable) /\ p < Durable.pgid
<1>1. CASE phase # "meta"
  BY <1>1 DEF Durable, StoreInv, CurrentSound, ListOnPage, Current
<1>2. CASE phase = "meta"
  BY <1>2 DEF DiskSound
<1> QED
  BY <1>1, <1>2

(* Between commits the current version is the durable one.                 *)
LEMMA DiskSoundIs ==
    ASSUME TypeOK', phase' # "meta", NEW i \in {0, 1},
           slot'[i] = Current', dslot'[i] = Current', Current'.ok,
           Current'.txid % 2 = i,
           dslot'[1 - i].ok => dslot'[1 - i].txid < Current'.txid,
           Current'.gen = acked',
           \A p \in Used(Current') : disk'[p] = file'[p],
           phase' = "synced" => disk' = file'
    PROVE  DiskSound'
<1>1. Durable' = Current' /\ MetaSlot(Durable') = i
  BY DEF Durable, MetaSlot
<1> QED
  BY <1>1 DEF DiskSound

-----------------------------------------------------------------------------
(* Steps of the process.                                                   *)

(* The steps before a commit writes its meta page, and a rollback, leave   *)
(* the durable version on the device as it is.                             *)
LEMMA QuietKeepsDisk ==
    ASSUME StoreInv, DiskSound, StoreInv', phase # "meta", phase' # "meta",
           UNCHANGED <<disk, dslot>>, Current' = Current, acked' = acked,
           \A p \in Used(Current) : file'[p] = file[p],
           phase' = "synced" => disk' = file'
    PROVE  DiskSound'
<1>1. PICK i \in {0, 1} :
        /\ i = MetaSlot(Durable) /\ dslot[i] = Durable /\ Current = Durable
        /\ dslot[1 - i].ok => dslot[1 - i].txid < Durable.txid
  BY DurableSlot
<1>2. \E c \in {0, 1} : slot'[c] = Current' /\ Current'.ok /\ Current'.txid % 2 = c
  BY MetaIs DEF StoreInv, TypeOK, SlotsAlternate, Current
<1>3. slot'[i] = Current' /\ Current'.ok /\ Current'.txid % 2 = i
  BY <1>1, <1>2 DEF MetaSlot
<1>4. Current'.gen = acked' /\ \A p \in Used(Current') : disk'[p] = file'[p]
  BY <1>1 DEF DiskSound
<1>5. TypeOK'
  BY DEF StoreInv
<1> QED
  BY <1>1, <1>3, <1>4, <1>5, DiskSoundIs

LEMMA StillKeepsDisk ==
    ASSUME StoreInv, DiskSound, StoreInv', phase # "meta",
           UNCHANGED <<disk, dslot, file, slot, acked>>,
           phase' \in {phase, "none", "open", "listed"}
    PROVE  DiskSound'
<1>1. Current' = Current
  BY DEF Current
<1>2. phase' = "synced" => disk' = file'
  BY DEF DiskSound
<1> QED
  BY <1>1, <1>2, QuietKeepsDisk

LEMMA ReadersKeepDisk ==
    ASSUME DiskSound, UNCHANGED <<disk, dslot, file, slot, acked, phase, wmeta>>
    PROVE  DiskSound'
<1>1. Durable' = Durable
  BY DEF Durable, Current
<1> QED
  BY <1>1 DEF DiskSound, Intact

LEMMA WritePagesKeepDisk ==
    ASSUME StoreInv, DiskSound, StoreInv', WritePages
    PROVE  DiskSound'
<1>1. /\ UNCHANGED <<disk, dslot, slot, acked>> /\ file' = Written(dirty)
      /\ phase = "listed" /\ phase' = "written"
  BY DEF WritePages
<1>2. Current' = Current /\ Current \in Metas
  BY <1>1, CurrentSlot DEF Current, StoreInv
<1>3. \A p \in Used(Current) : file'[p] = file[p]
  BY <1>1, <1>2, WrittenSpares DEF StoreInv
<1> QED
  BY <1>1, <1>2, <1>3, QuietKeepsDisk

(* After the first fdatasync the device holds all of the new version but   *)
(* its meta page.                                                          *)
LEMMA SyncPagesKeepsDisk ==
    ASSUME StoreInv, DiskSound, StoreInv', SyncPages
    PROVE  DiskSound'
<1>1. /\ UNCHANGED <<file, slot, acked>> /\ disk' = file /\ dslot' = slot
      /\ phase = "written" /\ phase' = "synced"
  BY DEF SyncPages
<1>2. PICK i \in {0, 1} :
        /\ i = MetaSlot(Durable) /\ slot[i] = Durable /\ Current = Durable
        /\ slot[1 - i].ok => slot[1 - i].txid < Durable.txid
  BY <1>1, DurableSlot
<1>3. Current' = Current /\ Current.ok /\ Current.gen = acked /\ TypeOK'
  BY <1>1, <1>2 DEF Current, DiskSound, StoreInv
<1> QED
  BY <1>1, <1>2, <1>3, DiskSoundIs DEF MetaSlot

(* The new meta page does not replace that of the durable version.         *)
LEMMA WriteMetaKeepsDisk ==
    ASSUME StoreInv, DiskSound, StoreInv', WriteMeta
    PROVE  DiskSound'
<1>1. /\ phase = "synced" /\ phase' = "meta"
      /\ slot' = [slot EXCEPT ![MetaSlot(wmeta)] = wmeta]
      /\ UNCHANGED <<file, disk, dslot, wmeta, acked>>
  BY DEF WriteMeta, StoreInv
<1>2. PICK i \in {0, 1} :
        /\ i = MetaSlot(Durable) /\ slot[i] = Durable /\ dslot[i] = Durable
        /\ Current = Durable /\ Durable \in Metas /\ Durable.txid \in Nat
        /\ dslot[1 - i].ok => dslot[1 - i].txid < Durable.txid
  BY <1>1, DurableSlot
<1>3. wmeta.txid = Durable.txid + 1 /\ slot \in [{0, 1} -> Metas]
  BY <1>1, <1>2 DEF StoreInv, WriterSound, TypeOK
<1>4. MetaSlot(wmeta) = 1 - i /\ 1 - (1 - i) = i /\ i # 1 - i /\ 1 - i \in {0, 1}
  <2>1. \A n \in Nat : (n + 1) % 2 = 1 - (n % 2)
    OBVIOUS
  <2> QED
    BY <1>2, <1>3, <2>1 DEF MetaSlot
<1>5. Durable' = Durable /\ slot'[i] = Durable
  BY <1>1, <1>2, <1>3, <1>4 DEF Durable
<1>6. /\ Within(Durable) /\ Disjoint(Durable) /\ Intact(Durable)
      /\ \A p \in file[Durable.flist.id].ids :
           p \notin Used(Durable) /\ p < Durable.pgid
  BY DurableSound
<1>7. Durable.ok /\ Durable.gen = acked /\ disk = file
  BY <1>1 DEF DiskSound
<1> QED
  BY <1>1, <1>2, <1>3, <1>5, <1>6, <1>7 DEF DiskSound, Intact

(* After the second fdatasync the new version is the durable one.          *)
LEMMA SyncMetaKeepsDisk ==
    ASSUME StoreInv, DiskSound, StoreInv', SyncMeta
    PROVE  DiskSound'
<1>1. /\ phase = "meta" /\ phase' = "none" /\ acked' = wmeta.gen
      /\ disk' = file /\ dslot' = slot /\ UNCHANGED <<file, slot>>
  BY DEF SyncMeta, EndWriter
<1>2. PICK c \in {0, 1} :
        /\ Current = slot[c] /\ Current.ok /\ Current.txid % 2 = c
        /\ slot[1 - c].ok => slot[1 - c].txid < Current.txid
  BY CurrentSlot DEF StoreInv
<1>3. Current' = Current /\ wmeta = Current /\ TypeOK'
  BY <1>1 DEF Current, StoreInv, WriterSound
<1> QED
  BY <1>1, <1>2, <1>3, DiskSoundIs

-----------------------------------------------------------------------------
(* The power fails.                                                        *)

(* Either the durable version is current afterwards, or the meta page that *)
(* was not synced survived, and then nothing else was unsynced.            *)
LEMMA PowerFailsKeeps ==
    ASSUME StoreInv, DiskSound, TypeOK', PowerFails
    PROVE  /\ StoreInv' /\ DiskSound'
           /\ Current' \in {Durable, Current}
           /\ OpenTxs' = {} /\ acked' = Current'.gen
<1>1. /\ \A p \in Pages : file'[p] = file[p] \/ file'[p] = disk[p]
      /\ disk' = file' /\ dslot' = slot'
      /\ \A i \in {0, 1} : slot'[i] \in Surviving(i)
      /\ opened' = FALSE /\ NoFreelist /\ OpenTxs' = {}
      /\ phase' = "none" /\ dirty' = {} /\ acked' = Current'.gen
  BY DEF PowerFails, ProcessGone, EndWriter, OpenTxs, Current
<1>2. PICK i \in {0, 1} :
        /\ i = MetaSlot(Durable) /\ slot[i] = Durable /\ dslot[i] = Durable
        /\ Durable \in Metas /\ Durable.txid \in Nat
        /\ dslot[1 - i].ok => dslot[1 - i].txid < Durable.txid
        /\ phase # "meta" => (slot[1 - i].ok => slot[1 - i].txid < Durable.txid)
        /\ phase = "meta" =>
             /\ slot[1 - i] = Current /\ Current = wmeta
             /\ MetaSlot(wmeta) = 1 - i
  BY DurableSlot
<1>3. /\ slot'[i] = Durable /\ Durable.ok /\ Durable.txid % 2 = i
      /\ slot' \in [{0, 1} -> Metas]
  <2>1. Surviving(i) = {Durable}
    BY <1>2 DEF Surviving
  <2> QED
    BY <1>1, <1>2, <2>1 DEF DiskSound, MetaSlot, TypeOK
<1>4. slot'[1 - i] \in {slot[1 - i], dslot[1 - i], Torn(slot[1 - i])}
  BY <1>1 DEF Surviving
<1>5. ASSUME SlotsAlternate', CurrentSound', Current'.ok, NEW c \in {0, 1},
             slot'[c] = Current', Current'.txid % 2 = c,
             slot'[1 - c].ok => slot'[1 - c].txid < Current'.txid
      PROVE  StoreInv' /\ DiskSound'
  <2>1. StoreInv'
    BY <1>1, <1>5, ClosedIs
  <2>2. DiskSound'
    BY <1>1, <1>5, DiskSoundIs
  <2> QED
    BY <2>1, <2>2
<1>6. ASSUME slot'[1 - i].ok => slot'[1 - i].txid < Durable.txid
      PROVE  StoreInv' /\ DiskSound' /\ Current' = Durable
  <2>1. Current' = Durable
    BY <1>3, <1>6, MetaIs DEF Current
  <2>2. SlotsAlternate'
    BY <1>3, <1>6 DEF SlotsAlternate
  <2>3. \A p \in Used(Durable) : file'[p] = file[p]
    BY <1>1, <1>2, UsedType DEF DiskSound
  <2>4. ListOnPage(file', slot') = file[Durable.flist.id].ids
    BY <1>2, <2>1, <2>3, UsedType DEF ListOnPage, Current
  <2>5. \A n \in NodesOf(Durable) : \A p \in NodePages(n) : file'[p].gen = n.gen
    BY <2>3, InUsed, DurableSound DEF Intact
  <2>6. CurrentSound'
    BY <2>1, <2>4, <2>5, DurableSound DEF CurrentSound, Intact, Within, Disjoint
  <2> QED
    BY <1>3, <1>5, <1>6, <2>1, <2>2, <2>6
<1>7. ASSUME ~(slot'[1 - i].ok => slot'[1 - i].txid < Durable.txid)
      PROVE  StoreInv' /\ DiskSound' /\ Current' = Current
  <2>1. slot'[1 - i] = slot[1 - i]
    <3>1. slot[1 - i] \in Metas
      BY DEF StoreInv, TypeOK
    <3>2. ~ Torn(slot[1 - i]).ok
      BY <3>1 DEF Torn, Metas
    <3> QED
      BY <1>2, <1>4, <1>7, <3>2
  <2>2. phase = "meta"
    BY <1>2, <1>7, <2>1
  <2>3. /\ slot'[1 - i] = Current /\ Current = wmeta /\ Current.ok
        /\ Current.txid = Durable.txid + 1 /\ Current.txid % 2 = 1 - i
    BY <1>2, <1>7, <2>1, <2>2 DEF DiskSound, MetaSlot
  <2>4. /\ 1 - i \in {0, 1} /\ 1 - (1 - i) = i
        /\ slot'[i].ok => slot'[i].txid < Current.txid
    BY <1>2, <1>3, <2>3
  <2>5. Current' = Current
    BY <1>3, <2>3, <2>4, MetaIs DEF Current
  <2>6. file' = file
    <3>1. disk = file
      BY <2>2 DEF DiskSound
    <3>2. file \in [Pages -> [gen : Nat, ids : SUBSET Pages]]
          /\ file' \in [Pages -> [gen : Nat, ids : SUBSET Pages]]
      BY DEF StoreInv, TypeOK
    <3> QED
      BY <1>1, <3>1, <3>2
  <2>7. SlotsAlternate'
    BY <2>3, <2>4 DEF SlotsAlternate
  <2>8. CurrentSound'
    BY <2>5, <2>6 DEF StoreInv, CurrentSound, Intact, ListOnPage, Current
  <2> QED
    BY <1>5, <2>3, <2>4, <2>5, <2>7, <2>8
<1> QED
  BY <1>1, <1>6, <1>7

-----------------------------------------------------------------------------
LEMMA DiskInit == Init => IInv
<1> SUFFICES ASSUME Init PROVE IInv
  OBVIOUS
<1>1. /\ StoreInv /\ ReadersProtected /\ CurrentAcked
      /\ disk = file /\ dslot = slot /\ phase = "none" /\ acked = 1
  BY StoreInit DEF Init, NoWriter
<1>2. /\ slot \in [{0, 1} -> Metas]
      /\ slot[1] = InitialMeta(1) /\ slot[0].txid = 0 /\ slot[1].ok
      /\ slot[1].txid = 1 /\ slot[1].gen = 1
  BY <1>1 DEF Init, InitialMeta, StoreInv, TypeOK
<1>3. Current = slot[1]
  BY <1>2, MetaIs DEF Current
<1>4. Durable = slot[1] /\ MetaSlot(Durable) = 1
  BY <1>1, <1>2, <1>3 DEF Durable, MetaSlot
<1>5. DiskSound
  BY <1>1, <1>2, <1>4 DEF DiskSound
<1> QED
  BY <1>1, <1>5 DEF IInv, DiskInv

(* Where processes are not killed and meta pages are synced without        *)
(* failure, the device keeps what a power failure needs.                   *)
LEMMA DiskNext ==
    ASSUME "kill" \notin Faults, "metasync" \notin Faults,
           StoreInv, DiskSound, StoreInv', [Next]_vars, ~ PowerFails
    PROVE  DiskSound'
<1>1. CASE \/ UNCHANGED vars
           \/ \E r \in Readers : BeginTx(r) \/ CloseTx(r)
  BY <1>1, ReadersKeepDisk DEF vars, storage, rwtx, BeginTx, CloseTx
<1>2. CASE \/ BeginRWTx \/ Open \/ Close \/ Rollback \/ AllocFails \/ SyncFails
           \/ phase = "open" /\ \E n \in wmeta.tree : FreeNode(n)
           \/ \E len \in NodeLengths, id \in Pages : AllocNode(len, id)
           \/ \E id \in Pages : CommitFreelist(id)
  <2>1. /\ UNCHANGED <<disk, dslot, file, slot, acked>> /\ phase # "meta"
        /\ phase' \in {phase, "none", "open", "listed"}
    BY <1>2 DEF BeginRWTx, Open, Close, Rollback, AllocFails, SyncFails, FreeNode,
       AllocNode, CommitFreelist, RollbackTx, EndWriter, storage, rwtx, StoreInv,
       ClosedSound
  <2> QED
    BY <2>1, StillKeepsDisk
<1>3. CASE WritePages \/ SyncPages \/ WriteMeta \/ SyncMeta
  BY <1>3, WritePagesKeepDisk, SyncPagesKeepsDisk, WriteMetaKeepsDisk,
     SyncMetaKeepsDisk
<1>4. CASE WriteFails
  <2>1. /\ phase = "listed" /\ phase' = "none"
        /\ UNCHANGED <<disk, dslot, slot, acked>>
        /\ \E n \in dirty : file' = Written({m \in dirty : m.id < n.id})
    BY <1>4 DEF WriteFails, RollbackTx, EndWriter
  <2>2. Current' = Current /\ Current \in Metas
    BY <2>1, CurrentSlot DEF Current, StoreInv
  <2>3. \A p \in Used(Current) : file'[p] = file[p]
    BY <2>1, <2>2, WrittenSpares DEF StoreInv
  <2> QED
    BY <2>1, <2>2, <2>3, QuietKeepsDisk
<1>5. CASE MetaWriteFails
  <2>1. /\ phase = "synced" /\ phase' = "none"
        /\ UNCHANGED <<disk, dslot, file, acked>>
    BY <1>5 DEF MetaWriteFails, RollbackTx, EndWriter
  <2>2. Current' = Current
    BY <1>5, MetaWriteFailsCurrent DEF StoreInv
  <2> QED
    BY <2>1, <2>2, QuietKeepsDisk
<1> QED
  BY <1>1, <1>2, <1>3, <1>4, <1>5 DEF Next, Kill, MetaSyncFails

LEMMA DiskInvNext ==
    ASSUME Recoverable
    PROVE  DiskInv /\ [Next]_vars => DiskInv'
<1> SUFFICES ASSUME DiskInv, [Next]_vars PROVE DiskInv'
  OBVIOUS
<1>1. TypeOK'
  BY TypeNext DEF DiskInv, StoreInv
<1>2. CASE PowerFails
  <2>1. "power" \in Faults
    BY <1>2 DEF PowerFails
  <2> QED
    BY <1>1, <1>2, <2>1, PowerFailsKeeps DEF DiskInv
<1>3. CASE ~ PowerFails
  <2>1. StoreInv'
    BY <1>1, <1>3, StoreStep DEF DiskInv
  <2>2. CASE "power" \in Faults
    BY <1>3, <2>1, <2>2, DiskNext DEF DiskInv, Recoverable
  <2>3. CASE "power" \notin Faults
    BY <2>1, <2>3 DEF DiskInv
  <2> QED
    BY <2>2, <2>3
<1> QED
  BY <1>2, <1>3

LEMMA IInvNext ==
    ASSUME Tolerated
    PROVE  IInv /\ [Next]_vars => IInv'
<1> SUFFICES ASSUME IInv, [Next]_vars PROVE IInv'
  OBVIOUS
<1>1. DiskInv' /\ TypeOK' /\ ~ MetaSyncFails
  BY DiskInvNext, TypeNext
  DEF IInv, DiskInv, StoreInv, MetaSyncFails, Tolerated
<1>2. CASE PowerFails
  <2>1. OpenTxs' = {} /\ acked' = Current'.gen
    BY <1>1, <1>2, PowerFailsKeeps DEF IInv, DiskInv, PowerFails
  <2> QED
    BY <1>1, <2>1 DEF IInv, ReadersProtected, CurrentAcked
<1>3. CASE ~ PowerFails
  BY <1>1, <1>3, ReadersStep, AckedStep DEF IInv, DiskInv
<1> QED
  BY <1>2, <1>3

-----------------------------------------------------------------------------
(* The file and the freelist stay sound whatever fails, where a version    *)
(* whose meta page is not synced is never built upon before the power      *)
(* fails (Recoverable).                                                    *)
THEOREM StoreStaysSound ==
    ASSUME Recoverable
    PROVE  Spec => []DiskInv
<1>1. Init => DiskInv
  BY DiskInit DEF IInv
<1>2. DiskInv /\ [Next]_vars => DiskInv'
  BY DiskInvNext
<1> QED
  BY <1>1, <1>2, PTL DEF Spec

(* "page already freed" and the assertions of meta.write never fire, and   *)
(* freelist.cache is exactly the free and pending pages.                   *)
THEOREM NothingPanics ==
    ASSUME Recoverable
    PROVE  Spec => []NoPanic
<1>1. DiskInv => NoPanic
  BY DEF DiskInv, StoreInv, NoPanic, FreelistSound, Listed
<1> QED
  BY <1>1, StoreStaysSound, PTL

(* Whenever the process dies or the power fails, the file that is left has *)
(* a valid meta page and every page of the version that page names.        *)
THEOREM FileStaysUsable ==
    ASSUME Recoverable
    PROVE  Spec => []ClosedFileIsUsable
<1>1. DiskInv => ClosedFileIsUsable
  BY CurrentSlot DEF DiskInv, StoreInv, ClosedFileIsUsable, CurrentSound, Current
<1> QED
  BY <1>1, StoreStaysSound, PTL

(* Where the fdatasync of a meta page does not fail either, the versions   *)
(* open read transactions see stay protected, and the current one is the   *)
(* one acknowledged.                                                       *)
THEOREM InvariantHolds ==
    ASSUME Tolerated
    PROVE  Spec => []IInv
<1>1. Init => IInv
  BY DiskInit
<1>2. IInv /\ [Next]_vars => IInv'
  BY IInvNext
<1> QED
  BY <1>1, <1>2, PTL DEF Spec

(* No page of the version an open read transaction began with is ever      *)
(* overwritten (freelist.release, freelist.rollback, tx.write).            *)
THEOREM SnapshotsStayIntact ==
    ASSUME Tolerated
    PROVE  Spec => []SnapshotsIntact
<1>1. IInv => SnapshotsIntact
  BY DEF IInv, ReadersProtected, SnapshotsIntact, Protected
<1> QED
  BY <1>1, InvariantHolds, PTL

(* Nor can the writer allocate one.                                        *)
THEOREM SnapshotsStayReserved ==
    ASSUME Tolerated
    PROVE  Spec => []SnapshotsNotAllocatable
<1>1. IInv => SnapshotsNotAllocatable
  BY DEF IInv, ReadersProtected, SnapshotsNotAllocatable, Protected
<1> QED
  BY <1>1, InvariantHolds, PTL

(* Between write transactions everybody sees the last version whose commit *)
(* returned nil, or that was recovered.                                    *)
THEOREM VisibleStaysAcked ==
    ASSUME Tolerated
    PROVE  Spec => []VisibleIsAcked
<1>1. IInv => VisibleIsAcked
  BY DEF IInv, CurrentAcked, VisibleIsAcked, Current
<1> QED
  BY <1>1, InvariantHolds, PTL


-----------------------------------------------------------------------------
(* A power failure leaves the version last acknowledged, or the one that   *)
(* was visible.                                                            *)
LEMMA PowerFailsTo ==
    ASSUME DiskInv, PowerFails, TypeOK'
    PROVE  Current'.gen \in {acked, Current.gen}
<1>1. DiskSound
  BY DEF DiskInv, PowerFails
<1>2. Current' \in {Durable, Current}
  BY <1>1, PowerFailsKeeps DEF DiskInv
<1> QED
  BY <1>1, <1>2 DEF DiskSound

(* The steps that begin a write transaction or give its version a number.  *)
LEMMA NumberedNext ==
    ASSUME Tolerated, DiskInv, DiskInv', Numbered, [Next]_vars
    PROVE  Numbered'
<1> USE DEF Numbered, DiskInv, StoreInv
<1>1. /\ Current \in Metas /\ Current.gen \in Nat /\ gen \in Nat /\ acked \in Nat
      /\ wmeta \in Metas \cup {NoMeta}
      /\ phase # "none" => wmeta \in Metas /\ wmeta.gen \in Nat
  BY CurrentSlot, MetaFields DEF TypeOK
<1>2. CASE BeginRWTx
  <2>1. gen' = gen + 1 /\ phase' = "open" /\ wmeta'.gen = gen' /\ Current' = Current
        /\ acked' = acked
    BY <1>1, <1>2 DEF BeginRWTx, storage, Current, Metas
  <2> QED
    BY <1>1, <2>1
<1>3. CASE WriteMeta
  <2>1. phase' = "meta" /\ UNCHANGED <<wmeta, gen, acked>> /\ phase = "synced"
    BY <1>3 DEF WriteMeta, freelist
  <2>2. Current' = wmeta
    BY <2>1 DEF WriterSound
  <2> QED
    BY <1>1, <2>1, <2>2
<1>4. CASE \/ \E r \in Readers : BeginTx(r) \/ CloseTx(r)
           \/ WritePages \/ SyncPages \/ UNCHANGED vars
  <2>1. UNCHANGED <<slot, gen, wmeta, acked>> /\ (phase' = phase \/
          (phase \in {"listed", "written"} /\ phase' \in {"written", "synced"}))
    BY <1>4 DEF BeginTx, CloseTx, WritePages, SyncPages, vars, storage, rwtx
  <2> QED
    BY <2>1 DEF Current
<1>5. CASE \/ phase = "open" /\ \E n \in wmeta.tree : FreeNode(n)
           \/ \E len \in NodeLengths, id \in Pages : AllocNode(len, id)
           \/ \E id \in Pages : CommitFreelist(id)
  <2>1. UNCHANGED <<slot, gen, acked>> /\ wmeta'.gen = wmeta.gen
        /\ phase = "open" /\ phase' # "none"
    BY <1>1, <1>5 DEF FreeNode, AllocNode, CommitFreelist, storage, Metas
  <2> QED
    BY <2>1 DEF Current
<1>6. CASE Open \/ Close \/ Kill \/ SyncMeta
  <2>1. UNCHANGED <<slot, gen>> /\ phase' = "none"
    BY <1>6 DEF Open, Close, Kill, SyncMeta, ProcessGone, EndWriter, storage, rwtx,
       ClosedSound
  <2>2. Current' = Current
    BY <2>1 DEF Current
  <2>3. acked' \in {acked, Current.gen}
    <3>1. CASE SyncMeta
      BY <3>1 DEF SyncMeta, WriterSound
    <3>2. CASE Open \/ Close \/ Kill
      BY <2>2, <3>2 DEF Open, Close, Kill, ProcessGone, Current
    <3> QED
      BY <1>6, <3>1, <3>2
  <2> QED
    BY <1>1, <2>1, <2>2, <2>3
<1>7. CASE Rollback \/ AllocFails \/ SyncFails \/ WriteFails
  <2>1. UNCHANGED <<slot, gen, acked>> /\ phase' = "none"
    BY <1>7 DEF Rollback, AllocFails, SyncFails, WriteFails, RollbackTx, EndWriter,
       storage
  <2> QED
    BY <2>1 DEF Current
<1>8. CASE MetaWriteFails
  <2>1. UNCHANGED <<gen, acked>> /\ phase' = "none" /\ phase = "synced"
    BY <1>8 DEF MetaWriteFails, RollbackTx, EndWriter
  <2>2. Current' = Current
    BY <1>8, MetaWriteFailsCurrent
  <2> QED
    BY <2>1, <2>2
<1>9. CASE PowerFails
  <2>1. gen' = gen /\ phase' = "none" /\ acked' = Current'.gen
    BY <1>9 DEF PowerFails, ProcessGone, EndWriter, Current
  <2>2. Current'.gen \in {acked, Current.gen}
    BY <1>9, PowerFailsTo
  <2> QED
    BY <1>1, <2>1, <2>2
<1> QED
  BY <1>2, <1>3, <1>4, <1>5, <1>6, <1>7, <1>8, <1>9
     DEF Next, MetaSyncFails, Tolerated

-----------------------------------------------------------------------------
(* Every step is a step of the store or a stutter.                         *)

LEMMA InitImplements == Init => Store!Init
<1> SUFFICES ASSUME Init PROVE Store!Init
  OBVIOUS
<1>1. StoreInv /\ Current \in Metas
  BY StoreInit, CurrentSlot DEF StoreInv
<1>2. Current = slot[1]
  <2>1. slot[1].ok /\ slot[0].txid = 0 /\ slot[1].txid = 1
    BY DEF Init, InitialMeta
  <2> QED
    BY <1>1, <2>1, MetaIs DEF Current, StoreInv, TypeOK
<1>3. Current.gen = 1 /\ opened = TRUE /\ acked = 1 /\ gen = 1 /\ Prepared = NoMeta
  BY <1>2 DEF Init, InitialMeta, NoWriter, Prepared
<1>4. Seen = [r \in Readers |-> NoMeta]
  BY DEF Init, Seen
<1> QED
  BY <1>3, <1>4 DEF Store!Init, Current

(* Nobody sees a corrupt page.                                             *)
LEMMA SeenIs ==
    ASSUME IInv, NEW r \in Readers
    PROVE  /\ Seen[r] = NoMeta <=> rmeta[r] = NoMeta
           /\ rmeta[r] # NoMeta => Seen[r] = rmeta[r].gen /\ Seen[r] \in Nat
<1>1. rmeta[r] # NoMeta => Intact(rmeta[r]) /\ rmeta[r].gen \in Nat
  BY MetaFields DEF IInv, DiskInv, StoreInv, ReadersProtected, OpenTxs, Protected,
     TypeOK
<1> QED
  BY <1>1, DBAssumption DEF Seen

LEMMA StepImplements ==
    ASSUME Tolerated, RInv, RInv', [Next]_vars
    PROVE  [Store!Next]_Store!vars
<1>1. /\ Current \in Metas /\ Current.gen \in Nat /\ gen \in Nat
      /\ phase # "none" => wmeta \in Metas /\ wmeta.gen \in Nat
      /\ rmeta \in [Readers -> Metas \cup {NoMeta}]
      /\ NoMeta \notin Metas /\ NoMeta \notin Nat
  BY CurrentSlot, MetaFields, DBAssumption DEF RInv, IInv, DiskInv, StoreInv, TypeOK
<1>2. \A r \in Readers : rmeta'[r] # NoMeta => Intact(rmeta[r])'
  BY DEF RInv, IInv, ReadersProtected, OpenTxs, Protected
<1>3. Seen' = [r \in Readers |->
                  IF rmeta'[r] = NoMeta THEN NoMeta ELSE rmeta'[r].gen]
  BY <1>2 DEF Seen
<1>4. Seen = [r \in Readers |->
                  IF rmeta[r] = NoMeta THEN NoMeta ELSE rmeta[r].gen]
  BY DEF RInv, IInv, ReadersProtected, OpenTxs, Protected, Seen
<1>5. rmeta' = rmeta => Seen' = Seen
  BY <1>3, <1>4
<1>6. phase # "none" => opened /\ Prepared = wmeta.gen /\ Prepared # NoMeta
  BY <1>1 DEF RInv, IInv, DiskInv, StoreInv, WriterSound, Prepared
<1>7. Meta(slot) = Current /\ Meta(slot') = Current'
  BY DEF Current
<1>8. ASSUME NEW r \in Readers, BeginTx(r) PROVE Store!BeginRead(r)
  <2>1. UNCHANGED <<opened, slot, acked, phase, wmeta, gen>> /\ opened
        /\ rmeta[r] = NoMeta /\ rmeta' = [rmeta EXCEPT ![r] = Current]
    BY <1>8 DEF BeginTx, storage, rwtx, Current
  <2>2. Seen' = [Seen EXCEPT ![r] = Current.gen] /\ Seen[r] = NoMeta
    BY <1>1, <1>3, <1>4, <2>1
  <2>3. Prepared' = Prepared
    BY <2>1 DEF Prepared
  <2> QED
    BY <1>7, <2>1, <2>2, <2>3 DEF Store!BeginRead
<1>9. ASSUME NEW r \in Readers, CloseTx(r) PROVE Store!EndRead(r)
  <2>1. UNCHANGED <<opened, slot, acked, phase, wmeta, gen>> /\ opened
        /\ rmeta[r] # NoMeta /\ rmeta' = [rmeta EXCEPT ![r] = NoMeta]
    BY <1>9 DEF CloseTx, storage, rwtx
  <2>2. Seen' = [Seen EXCEPT ![r] = NoMeta]
    BY <1>1, <1>3, <1>4, <2>1
  <2>3. Seen[r] # NoMeta
    BY <2>1, SeenIs DEF RInv
  <2>4. Prepared' = Prepared
    BY <2>1 DEF Prepared
  <2> QED
    BY <2>1, <2>2, <2>3, <2>4 DEF Store!EndRead
<1>10. ASSUME BeginRWTx PROVE Store!BeginWrite
  <2>1. /\ UNCHANGED <<opened, slot, acked, rmeta>> /\ opened /\ phase = "none"
        /\ phase' = "open" /\ gen' = gen + 1 /\ wmeta'.gen = gen'
    BY <1>1, <1>10 DEF BeginRWTx, storage, Current, Metas
  <2>2. Prepared = NoMeta /\ Prepared' = gen'
    BY <2>1 DEF Prepared
  <2> QED
    BY <1>5, <2>1, <2>2 DEF Store!BeginWrite
<1>11. CASE \/ phase = "open" /\ \E n \in wmeta.tree : FreeNode(n)
            \/ \E len \in NodeLengths, id \in Pages : AllocNode(len, id)
            \/ \E id \in Pages : CommitFreelist(id)
            \/ WritePages \/ SyncPages \/ UNCHANGED vars
  <2>1. UNCHANGED <<opened, slot, acked, rmeta, gen>>
    BY <1>11 DEF FreeNode, AllocNode, CommitFreelist, WritePages, SyncPages, vars,
       storage, freelist
  <2>2. Prepared' = Prepared
    <3>1. CASE UNCHANGED vars
      BY <3>1 DEF vars, rwtx, Prepared
    <3>2. CASE WritePages \/ SyncPages
      BY <3>2 DEF WritePages, SyncPages, Prepared
    <3>3. CASE \/ phase = "open" /\ \E n \in wmeta.tree : FreeNode(n)
               \/ \E len \in NodeLengths, id \in Pages : AllocNode(len, id)
               \/ \E id \in Pages : CommitFreelist(id)
      <4>1. wmeta'.gen = wmeta.gen /\ phase = "open" /\ phase' # "none"
        BY <1>1, <3>3 DEF FreeNode, AllocNode, CommitFreelist, Metas
      <4> QED
        BY <4>1 DEF Prepared
    <3> QED
      BY <1>11, <3>1, <3>2, <3>3
  <2> QED
    BY <1>5, <2>1, <2>2 DEF Store!vars
<1>12. ASSUME WriteMeta PROVE Store!Publish
  <2>1. UNCHANGED <<opened, acked, rmeta, gen, wmeta>> /\ phase = "synced"
        /\ phase' = "meta"
    BY <1>12 DEF WriteMeta, RInv, IInv, DiskInv, StoreInv, freelist
  <2>2. Current' = wmeta
    BY <2>1 DEF RInv, IInv, DiskInv, StoreInv, WriterSound
  <2>3. Prepared' = Prepared
    BY <2>1 DEF Prepared
  <2> QED
    BY <1>5, <1>6, <1>7, <2>1, <2>2, <2>3 DEF Store!Publish
<1>13. ASSUME SyncMeta PROVE Store!Acknowledge
  <2>1. UNCHANGED <<opened, slot, rmeta, gen>> /\ phase = "meta"
        /\ phase' = "none" /\ acked' = wmeta.gen
    BY <1>13 DEF SyncMeta, EndWriter
  <2>2. Current = wmeta
    BY <2>1 DEF RInv, IInv, DiskInv, StoreInv, WriterSound
  <2>3. Prepared' = NoMeta
    BY <2>1 DEF Prepared
  <2> QED
    BY <1>5, <1>6, <1>7, <2>1, <2>2, <2>3 DEF Store!Acknowledge
<1>14. ASSUME Rollback \/ AllocFails \/ SyncFails \/ WriteFails \/ MetaWriteFails
       PROVE  Store!Abort
  <2>1. UNCHANGED <<opened, acked, rmeta, gen>> /\ phase' = "none"
        /\ phase \in {"open", "listed", "written", "synced"}
    BY <1>14 DEF Rollback, AllocFails, SyncFails, WriteFails, MetaWriteFails,
       RollbackTx, EndWriter, storage
  <2>2. Current' = Current
    <3>1. CASE MetaWriteFails
      BY <3>1, MetaWriteFailsCurrent DEF RInv, IInv, DiskInv, StoreInv
    <3>2. CASE Rollback \/ AllocFails \/ SyncFails \/ WriteFails
      BY <3>2 DEF Rollback, AllocFails, SyncFails, WriteFails, storage, Current
    <3> QED
      BY <1>14, <3>1, <3>2
  <2>3. Current.gen # Prepared
    BY <1>1, <1>6, <2>1 DEF RInv, Numbered
  <2>4. Prepared' = NoMeta
    BY <2>1 DEF Prepared
  <2> QED
    BY <1>5, <1>6, <1>7, <2>1, <2>2, <2>3, <2>4 DEF Store!Abort
<1>15. ASSUME Open PROVE Store!Open
  <2>1. UNCHANGED <<slot, acked, rmeta, gen, phase, wmeta>> /\ ~opened
        /\ opened' = TRUE
    BY <1>15 DEF Open, storage, rwtx
  <2>2. Prepared' = Prepared
    BY <2>1 DEF Prepared
  <2> QED
    BY <1>5, <2>1, <2>2 DEF Store!Open
<1>16. ASSUME Close PROVE Store!Close
  <2>1. /\ UNCHANGED <<slot, acked, rmeta, gen, phase, wmeta>> /\ opened
        /\ opened' = FALSE /\ phase = "none" /\ OpenTxs = {}
    BY <1>16 DEF Close, storage, rwtx
  <2>2. Prepared' = Prepared /\ Prepared = NoMeta
    BY <2>1 DEF Prepared
  <2>3. \A r \in Readers : Seen[r] = NoMeta
    BY <2>1, SeenIs DEF OpenTxs, RInv
  <2> QED
    BY <1>5, <2>1, <2>2, <2>3 DEF Store!Close
<1>17. ASSUME Kill PROVE Store!Crash
  <2>1. /\ UNCHANGED <<slot, gen>> /\ opened' = FALSE /\ phase' = "none"
        /\ rmeta' = [r \in Readers |-> NoMeta] /\ acked' = Current'.gen
    BY <1>17 DEF Kill, ProcessGone, EndWriter, storage, Current
  <2>2. Seen' = [r \in Readers |-> NoMeta] /\ Prepared' = NoMeta
    BY <1>3, <2>1 DEF Prepared
  <2> QED
    BY <1>7, <2>1, <2>2 DEF Store!Crash
<1>18. ASSUME PowerFails PROVE Store!Crash
  <2>1. /\ gen' = gen /\ opened' = FALSE /\ phase' = "none"
        /\ rmeta' = [r \in Readers |-> NoMeta] /\ acked' = Current'.gen
    BY <1>18 DEF PowerFails, ProcessGone, EndWriter, Current
  <2>2. Current'.gen \in {acked, Current.gen}
    BY <1>18, PowerFailsTo DEF RInv, IInv, DiskInv, StoreInv
  <2>3. Seen' = [r \in Readers |-> NoMeta] /\ Prepared' = NoMeta
    BY <1>3, <2>1 DEF Prepared
  <2> QED
    BY <1>7, <2>1, <2>2, <2>3 DEF Store!Crash
<1> QED
  BY <1>8, <1>9, <1>10, <1>11, <1>12, <1>13, <1>14, <1>15, <1>16, <1>17, <1>18
     DEF Next, Store!Next, MetaSyncFails, Tolerated

(* Whatever transactions begin, read, commit, fail or are cut off: readers *)
(* see one version from beginning to end, a commit takes effect at once    *)
(* and a failed one not at all, and after a crash the version last         *)
(* acknowledged is there (Begin, Tx.Commit, Tx.Rollback, Open).            *)
THEOREM Implements ==
    ASSUME Tolerated
    PROVE  Spec => ImplementsStore
<1>1. Init => RInv /\ Store!Init
  <2>1. Init => Numbered
    <3> SUFFICES ASSUME Init PROVE Numbered
      OBVIOUS
    <3>1. Current = slot[0] \/ Current = slot[1]
      BY CurrentSlot, StoreInit DEF StoreInv
    <3> QED
      BY <3>1 DEF Init, InitialMeta, NoWriter, Numbered
  <2> QED
    BY <2>1, DiskInit, InitImplements DEF RInv
<1>2. RInv /\ [Next]_vars => RInv'
  BY IInvNext, NumberedNext DEF RInv, IInv
<1>3. RInv /\ RInv' /\ [Next]_vars => [Store!Next]_Store!vars
  BY StepImplements
<1> QED
  BY <1>1, <1>2, <1>3, PTL DEF Spec, ImplementsStore, Store!Spec
=============================================================================
