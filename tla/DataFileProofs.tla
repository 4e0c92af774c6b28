--------------------------- MODULE DataFileProofs ---------------------------
(***************************************************************************)
(* Proofs about DataFile: types, that a writer has the file to itself, that *)
(* nothing committed is taken back, and that maps and files are as large as *)
(* what is in them and no larger than a map can be.                         *)
(***************************************************************************)
EXTENDS DataFile, WellFoundedInduction, TLAPS

-----------------------------------------------------------------------------
(* The sizes of maps.                                                      *)

(* Rounding up to a multiple of a unit does not make a size smaller.       *)
LEMMA RoundUpGrows ==
    ASSUME NEW sz \in Nat, NEW unit \in Nat \ {0}
    PROVE  RoundUp(sz, unit) \in Nat /\ sz <= RoundUp(sz, unit)
<1>1. sz \in Int /\ unit \in Int /\ unit > 0
  OBVIOUS
<1>2. sz % unit \in Int /\ sz % unit >= 0 /\ sz % unit < unit
  BY <1>1
<1> QED
  BY <1>1, <1>2 DEF RoundUp

(* A set of natural numbers has a least element.                           *)
LEMMA LeastNatural ==
    ASSUME NEW S \in SUBSET Nat, S # {}
    PROVE  \E x \in S : \A y \in S : x <= y
<1>1. \E x \in S : \A y \in S : ~ (<<y, x>> \in OpToRel(<, Nat))
  BY NatLessThanWellFounded, WFMin
<1>2. \A x, y \in S : y < x => <<y, x>> \in OpToRel(<, Nat)
  BY DEF OpToRel
<1>3. \E x \in S : \A y \in S : ~ (y < x)
  BY <1>1, <1>2, Zenon
<1> QED
  BY <1>3

(* A map is at least as large as was asked and no larger than the largest. *)
LEMMA MapSizeFits ==
    ASSUME NEW sz \in Nat, mmapSize(sz) # TooLarge
    PROVE  mmapSize(sz) \in Nat /\ sz <= mmapSize(sz) /\ mmapSize(sz) <= maxMapSize
<1> DEFINE fits == {d \in Doubled : sz <= d}
           stepped == RoundUp(RoundUp(sz, maxMmapStep), pageSize)
<1>1. CASE fits # {}
  <2>1. \E d \in fits : \A e \in fits : d <= e
    BY <1>1, LeastNatural, SizesAssumption
  <2> QED
    BY <1>1, <2>1, SizesAssumption DEF mmapSize
<1>2. CASE fits = {}
  <2>1. stepped \in Nat /\ sz <= stepped
    BY RoundUpGrows, SizesAssumption
  <2> QED
    BY <1>2, <2>1, SizesAssumption DEF mmapSize
<1> QED
  BY <1>1, <1>2

(* Only what is larger than the largest map is refused (db.go:397-400).    *)
LEMMA MapSizeGiven ==
    ASSUME NEW sz \in Nat, sz <= maxMapSize
    PROVE  mmapSize(sz) # TooLarge
<1> DEFINE fits == {d \in Doubled : sz <= d}
           stepped == RoundUp(RoundUp(sz, maxMmapStep), pageSize)
<1>1. CASE fits # {}
  <2>1. \E d \in fits : \A e \in fits : d <= e
    BY <1>1, LeastNatural, SizesAssumption
  <2> DEFINE least == CHOOSE d \in fits : \A e \in fits : d <= e
  <2>2. least \in fits
    BY <2>1
  <2>3. mmapSize(sz) = least
    BY <1>1 DEF mmapSize
  <2>4. least \in Nat
    BY <2>2, SizesAssumption
  <2> HIDE DEF least
  <2> QED
    BY <2>3, <2>4 DEF TooLarge
<1>2. CASE fits = {}
  <2>1. stepped \in Nat
    BY RoundUpGrows, SizesAssumption
  <2> QED
    BY <1>2, <2>1, SizesAssumption DEF mmapSize, TooLarge
<1> QED
  BY <1>1, <1>2

(* The same, for the size db.mmap asks for.                                *)
LEMMA MapToFits ==
    ASSUME size \in Nat, NEW h, NEW minsz \in Nat, MapTo(h, minsz) # TooLarge
    PROVE  /\ MapTo(h, minsz) \in Nat /\ MapTo(h, minsz) <= maxMapSize
           /\ size <= MapTo(h, minsz) /\ minsz <= MapTo(h, minsz)
<1> DEFINE sz == Larger(size, minsz)
<1>1. sz \in Nat /\ size <= sz /\ minsz <= sz
  BY DEF Larger
<1> HIDE DEF sz
<1>2. mmapSize(sz) # TooLarge
  BY DEF MapTo, sz
<1>3. mmapSize(sz) \in Nat /\ sz <= mmapSize(sz) /\ mmapSize(sz) <= maxMapSize
  BY <1>1, <1>2, MapSizeFits
<1>4. mmapSize(sz) = MapTo(h, minsz)
  BY DEF MapTo, sz
<1> QED
  BY <1>1, <1>3, <1>4

-----------------------------------------------------------------------------
(* Types.                                                                  *)

LEMMA TypeInit == Init => TypeOK
  BY FileAssumption DEF Init, TypeOK

LEMMA TypeClosed ==
    ASSUME TypeOK, NEW h \in Handles, Closed(h),
           UNCHANGED <<platform, sizes, txs>>, opens' \in 0..MaxOpens, faults' \in 0..MaxFaults
    PROVE  TypeOK'
<1>1. Unlocked(h) \in [Handles -> {"none", "shared", "exclusive"}]
  BY DEF TypeOK, Unlocked
<1> QED
  BY <1>1 DEF TypeOK, Closed, Dropped, Locked, sizes, txs

LEMMA TypeMap ==
    ASSUME TypeOK, NEW h \in Handles, NEW minsz \in Nat, MapTo(h, minsz) # TooLarge,
           Map(h, MapTo(h, minsz))
    PROVE  size' \in Nat /\ datasz' \in [Handles -> Nat]
  BY MapToFits DEF TypeOK, Map

LEMMA TypeStep ==
    ASSUME TypeOK, [Next]_vars
    PROVE  TypeOK'
<1> USE FileAssumption DEF TypeOK, Locked, sizes, options, txs, counters
<1>1. ASSUME NEW h \in Handles, NEW ro \in BOOLEAN, NEW timeout \in BOOLEAN, OpenFile(h, ro, timeout)
      PROVE  TypeOK'
  BY <1>1 DEF OpenFile
<1>2. ASSUME NEW h \in Handles, Flock(h) PROVE TypeOK'
  BY <1>2 DEF Flock, Kind
<1>3. ASSUME NEW h \in Handles, FlockBusy(h) PROVE TypeOK'
  BY <1>3 DEF FlockBusy
<1>4. ASSUME NEW h \in Handles, FlockTimeout(h) PROVE TypeOK'
  BY <1>4, TypeClosed DEF FlockTimeout
<1>5. ASSUME NEW h \in Handles, NEW synced \in BOOLEAN, InitFile(h, synced) PROVE TypeOK'
  BY <1>5 DEF InitFile
<1>6. ASSUME NEW h \in Handles, InitFails(h) PROVE TypeOK'
  BY <1>6 DEF InitFails
<1>7. ASSUME NEW h \in Handles, Collected(h) PROVE TypeOK'
  BY <1>7 DEF Collected, Dropped, Unlocked
<1>8. ASSUME NEW h \in Handles, ReadMeta(h) PROVE TypeOK'
  BY <1>8 DEF ReadMeta
<1>9. ASSUME NEW h \in Handles, OpenMmap(h) PROVE TypeOK'
  <2>1. size' \in Nat /\ datasz' \in [Handles -> Nat]
    BY <1>9, TypeMap DEF OpenMmap
  <2> QED
    BY <1>9, <2>1 DEF OpenMmap
<1>11. ASSUME NEW h \in Handles, OpenMmapFails(h) PROVE TypeOK'
  BY <1>11, TypeClosed DEF OpenMmapFails
<1>12. ASSUME NEW h \in Handles, Begin(h) PROVE TypeOK'
  BY <1>12 DEF Begin
<1>13. ASSUME NEW h \in Handles, End(h) PROVE TypeOK'
  BY <1>13 DEF End
<1>14. ASSUME NEW h \in Handles, WriteTo(h) PROVE TypeOK'
  BY <1>14 DEF WriteTo
<1>15. ASSUME NEW h \in Handles, WriteToEnds(h) PROVE TypeOK'
  BY <1>15 DEF WriteToEnds, Unlocked
<1>16. ASSUME NEW h \in Handles, BeginRW(h) PROVE TypeOK'
  BY <1>16 DEF BeginRW
<1>17. ASSUME NEW h \in Handles, NEW count \in Counts, Allocate(h, count) PROVE TypeOK'
  <2> DEFINE minsz == hwm[h] + count + 1
  <2>1. minsz \in Nat /\ hwm[h] + count \in Nat
    OBVIOUS
  <2>2. size' \in Nat /\ datasz' \in [Handles -> Nat]
    BY <1>17, <2>1, TypeMap DEF Allocate
  <2> QED
    BY <1>17, <2>1, <2>2 DEF Allocate
<1>18. ASSUME NEW h \in Handles, RollbackRW(h) PROVE TypeOK'
  BY <1>18 DEF RollbackRW
<1>19. ASSUME NEW h \in Handles, NEW noGrowSync \in BOOLEAN, Grow(h, noGrowSync) PROVE TypeOK'
  BY <1>19 DEF Grow, Wrapped
<1>20. ASSUME NEW h \in Handles, Commit(h) PROVE TypeOK'
  BY <1>20 DEF Commit, Larger
<1>21. ASSUME NEW h \in Handles, Close(h) PROVE TypeOK'
  BY <1>21, TypeClosed DEF Close
<1>22. ASSUME NEW p, Kill(p) PROVE TypeOK'
  BY <1>22 DEF Kill
<1>23. CASE UNCHANGED vars
  BY <1>23 DEF vars
<1> QED
  BY <1>1, <1>2, <1>3, <1>4, <1>5, <1>6, <1>7, <1>8, <1>9, <1>11, <1>12, <1>13,
     <1>14, <1>15, <1>16, <1>17, <1>18, <1>19, <1>20, <1>21, <1>22, <1>23
  DEF Next, HandleStep, WaitForLock, Stopped

(* Type correctness, for every platform and any number of handles.         *)
THEOREM TypeCorrect == Spec => []TypeOK
  BY TypeInit, TypeStep, PTL DEF Spec

-----------------------------------------------------------------------------
(* The invariant.                                                          *)

(* A handle holds its kind of lock from flock to the close of the file.    *)
LocksHeld ==
    \A h \in Handles : lock[h] = IF pc[h] \in Locked THEN Kind(h) ELSE "none"

(* The marks of a handle's transactions against the committed one, its map *)
(* and its state.                                                          *)
HandleSound(h) ==
    /\ hwm[h] # 0 => pc[h] \in {"open", "grown"} /\ ~readOnly[h] /\ committed <= hwm[h]
    /\ snap[h] # 0 => pc[h] \in {"open", "grown"} /\ snap[h] <= committed
    /\ pc[h] \in {"open", "grown"} => committed <= datasz[h] /\ hwm[h] <= datasz[h]

FileInv ==
    /\ TypeOK
    /\ platform # "solaris"
    /\ LocksHeld
    /\ ExclusiveWriter
    /\ committed <= size
    /\ \A h \in Handles : HandleSound(h)

(* Who is past the lock and may write is alone.                            *)
LEMMA Alone ==
    ASSUME FileInv, NEW h \in Handles, pc[h] \in Locked, ~readOnly[h],
           NEW g \in Handles, g # h
    PROVE  pc[g] \notin Locked /\ hwm[g] = 0 /\ snap[g] = 0
<1>1. pc[g] \notin Locked
  BY DEF FileInv, ExclusiveWriter
<1> QED
  BY <1>1 DEF FileInv, HandleSound, Locked

(* Handles, their locks and the sizes stay sound when no lock is taken and *)
(* nobody's handle but h's changes.                                        *)
LEMMA LocksKept ==
    ASSUME FileInv, platform' = platform, lock' = lock, readOnly' = readOnly,
           \A h \in Handles : pc'[h] \in Locked <=> pc[h] \in Locked
    PROVE  platform' # "solaris" /\ LocksHeld' /\ ExclusiveWriter'
  BY DEF FileInv, LocksHeld, ExclusiveWriter, Kind, Locked

LEMMA InvClosed ==
    ASSUME FileInv, NEW h \in Handles, Closed(h), hwm[h] = 0, snap[h] = 0,
           UNCHANGED <<platform, sizes, txs>>, TypeOK'
    PROVE  FileInv'
<1> USE DEF FileInv, TypeOK
<1>1. CASE platform = "windows" /\ readOnly[h] /\ lock[h] # "none"
  <2>1. pc[h] \in Locked
    BY <1>1 DEF LocksHeld
  <2>2. platform' # "solaris" /\ LocksHeld' /\ ExclusiveWriter'
    BY <1>1, <2>1, LocksKept DEF Closed, Locked
  <2>3. \A g \in Handles : HandleSound(g)'
    BY <1>1 DEF HandleSound, Closed, txs, sizes
  <2> QED
    BY <2>2, <2>3 DEF sizes
<1>2. CASE ~(platform = "windows" /\ readOnly[h] /\ lock[h] # "none")
  <2>1. Dropped(h) /\ lock' = [g \in Handles |-> IF g = h THEN "none" ELSE lock[g]]
    BY <1>2 DEF Closed, Dropped, Unlocked
  <2>2. LocksHeld' /\ ExclusiveWriter'
    BY <2>1 DEF Dropped, LocksHeld, ExclusiveWriter, Kind, Locked
  <2>3. \A g \in Handles : HandleSound(g)'
    BY <2>1 DEF HandleSound, Dropped, Closed, txs, sizes
  <2> QED
    BY <2>2, <2>3 DEF sizes
<1> QED
  BY <1>1, <1>2

LEMMA InvInit == Init /\ "solaris" \notin Platforms => FileInv
<1> SUFFICES ASSUME Init, "solaris" \notin Platforms PROVE FileInv
  OBVIOUS
<1>1. TypeOK
  BY TypeInit
<1> QED
  BY <1>1 DEF Init, FileInv, LocksHeld, ExclusiveWriter, HandleSound, Locked

LEMMA InvFlock ==
    ASSUME FileInv, NEW h \in Handles, Flock(h), TypeOK'
    PROVE  FileInv'
<1> USE DEF FileInv, TypeOK
<1>1. pc[h] \notin Locked /\ lock[h] = "none" /\ hwm[h] = 0 /\ snap[h] = 0
  BY DEF Flock, LocksHeld, HandleSound, Locked
<1>2. LocksHeld'
  BY DEF Flock, LocksHeld, Kind, Locked
<1>3. \A g \in Handles : g # h /\ pc[g] \in Locked => readOnly[g] /\ readOnly[h]
  BY DEF Flock, Lockable, Conflicts, LocksHeld, Kind
<1>4. ExclusiveWriter'
  BY <1>3 DEF Flock, ExclusiveWriter, Locked
<1>5. \A g \in Handles : HandleSound(g)'
  BY <1>1 DEF Flock, HandleSound, sizes, txs
<1> QED
  BY <1>2, <1>4, <1>5 DEF Flock, sizes

LEMMA InvInitFile ==
    ASSUME FileInv, NEW h \in Handles, NEW synced \in BOOLEAN, InitFile(h, synced), TypeOK'
    PROVE  FileInv'
<1> USE DEF FileInv, TypeOK
<1>1. \A g \in Handles \ {h} : pc[g] \notin Locked /\ hwm[g] = 0 /\ snap[g] = 0
  BY Alone DEF InitFile, Locked
<1>2. hwm[h] = 0 /\ snap[h] = 0
  BY DEF InitFile, HandleSound
<1>3. platform' # "solaris" /\ LocksHeld' /\ ExclusiveWriter'
  BY LocksKept DEF InitFile, options, Locked
<1>4. \A g \in Handles : HandleSound(g)'
  BY <1>1, <1>2 DEF InitFile, HandleSound, txs, Locked, options
<1> QED
  BY <1>3, <1>4 DEF InitFile

LEMMA InvOpenMmap ==
    ASSUME FileInv, NEW h \in Handles, OpenMmap(h), TypeOK'
    PROVE  FileInv'
<1> USE DEF FileInv, TypeOK
<1> DEFINE sz == MapTo(h, InitialMmapSize)
<1>1. sz \in Nat /\ size <= sz
  BY MapToFits, FileAssumption DEF OpenMmap
<1>2. datasz' = [datasz EXCEPT ![h] = sz] /\ size' \in {size, sz} /\ pc' = [pc EXCEPT ![h] = "open"]
  BY DEF OpenMmap, Map
<1> HIDE DEF sz
<1>3. hwm[h] = 0 /\ snap[h] = 0
  BY DEF OpenMmap, HandleSound
<1>4. platform' # "solaris" /\ LocksHeld' /\ ExclusiveWriter'
  BY LocksKept DEF OpenMmap, options, Locked
<1>5. \A g \in Handles : HandleSound(g)'
  BY <1>1, <1>2, <1>3 DEF OpenMmap, HandleSound, txs, options
<1> QED
  BY <1>1, <1>2, <1>4, <1>5 DEF OpenMmap

LEMMA InvAllocate ==
    ASSUME FileInv, NEW h \in Handles, NEW count \in Counts, Allocate(h, count), TypeOK'
    PROVE  FileInv'
<1> USE DEF FileInv, TypeOK
<1> DEFINE minsz == hwm[h] + count + 1
           sz == MapTo(h, minsz)
<1>0. count \in Nat /\ minsz \in Nat
  BY FileAssumption
<1>1. /\ hwm[h] + count <= datasz'[h] /\ committed <= datasz'[h]
      /\ \A g \in Handles \ {h} : datasz'[g] = datasz[g]
      /\ size <= size'
  <2>1. CASE minsz < datasz[h]
    BY <1>0, <2>1 DEF Allocate, HandleSound
  <2>2. CASE ~(minsz < datasz[h])
    <3>1. sz # TooLarge /\ Map(h, sz)
      BY <2>2 DEF Allocate
    <3>2. sz \in Nat /\ size <= sz /\ minsz <= sz
      BY <1>0, <3>1, MapToFits
    <3> HIDE DEF sz
    <3> QED
      BY <1>0, <3>1, <3>2 DEF Map
  <2> QED
    BY <2>1, <2>2
<1>2. platform' # "solaris" /\ LocksHeld' /\ ExclusiveWriter'
  BY LocksKept DEF Allocate, options
<1>3. \A g \in Handles : HandleSound(g)'
  BY <1>0, <1>1 DEF Allocate, HandleSound, options
<1> QED
  BY <1>1, <1>2, <1>3 DEF Allocate

LEMMA InvGrow ==
    ASSUME FileInv, NEW h \in Handles, NEW noGrowSync \in BOOLEAN, Grow(h, noGrowSync), TypeOK'
    PROVE  FileInv'
<1> USE DEF FileInv, TypeOK
<1>1. committed <= size'
  BY FileAssumption DEF Grow, HandleSound
<1>2. platform' # "solaris" /\ LocksHeld' /\ ExclusiveWriter'
  BY LocksKept DEF Grow, options, Locked
<1>3. \A g \in Handles : HandleSound(g)'
  BY DEF Grow, HandleSound, options, txs
<1> QED
  BY <1>1, <1>2, <1>3 DEF Grow

(* A commit moves the mark of a writer that is alone with the file.        *)
LEMMA InvCommit ==
    ASSUME FileInv, NEW h \in Handles, Commit(h), TypeOK'
    PROVE  FileInv' /\ committed' >= committed
<1> USE DEF FileInv, TypeOK
<1>1. pc[h] \in Locked /\ ~readOnly[h] /\ committed <= hwm[h] /\ hwm[h] <= datasz[h]
  BY DEF Commit, HandleSound, Locked
<1>2. \A g \in Handles \ {h} : pc[g] \notin Locked /\ hwm[g] = 0 /\ snap[g] = 0
  BY <1>1, Alone
<1>3. committed' <= size' /\ committed' >= committed
  BY <1>1 DEF Commit, Larger
<1>4. platform' # "solaris" /\ LocksHeld' /\ ExclusiveWriter'
  BY LocksKept DEF Commit, options, Locked
<1>5. HandleSound(h)'
  BY <1>1 DEF Commit, HandleSound, options
<1>6. \A g \in Handles \ {h} : HandleSound(g)'
  BY <1>2 DEF Commit, HandleSound, options, Locked
<1> QED
  BY <1>3, <1>4, <1>5, <1>6

LEMMA InvKill ==
    ASSUME FileInv, NEW p, Kill(p), TypeOK'
    PROVE  FileInv'
<1> USE DEF FileInv, TypeOK
<1>1. \A g \in Handles :
         \/ pc'[g] = "closed" /\ lock'[g] = "none" /\ hwm'[g] = 0 /\ snap'[g] = 0
         \/ /\ pc'[g] = pc[g] /\ lock'[g] = lock[g] /\ readOnly'[g] = readOnly[g]
            /\ hwm'[g] = hwm[g] /\ snap'[g] = snap[g] /\ datasz'[g] = datasz[g]
  BY DEF Kill
<1>2. LocksHeld'
  BY <1>1 DEF LocksHeld, Kind, Locked
<1>3. ExclusiveWriter'
  BY <1>1 DEF ExclusiveWriter, Locked
<1>4. \A g \in Handles : HandleSound(g)'
  BY <1>1 DEF HandleSound, Kill, sizes
<1> QED
  BY <1>2, <1>3, <1>4 DEF Kill, sizes

LEMMA InvStep ==
    ASSUME FileInv, [Next]_vars
    PROVE  FileInv' /\ committed' >= committed
<1>0. TypeOK'
  BY TypeStep DEF FileInv
<1> DEFINE Good == FileInv' /\ committed' >= committed
<1>a. ASSUME committed' = committed, FileInv' PROVE Good
  BY <1>a DEF FileInv, TypeOK
<1>2. ASSUME NEW h \in Handles, Flock(h) PROVE Good
  BY <1>0, <1>2, <1>a, InvFlock DEF Flock, sizes
<1>4. ASSUME NEW h \in Handles,
             FlockTimeout(h) \/ OpenMmapFails(h) \/ Close(h)
      PROVE  Good
  <2>1. hwm[h] = 0 /\ snap[h] = 0
    BY <1>4 DEF FlockTimeout, OpenMmapFails, Close, FileInv, HandleSound
  <2>2. Closed(h) /\ UNCHANGED <<platform, sizes, txs>>
    BY <1>4 DEF FlockTimeout, OpenMmapFails, Close
  <2>3. FileInv'
    BY <1>0, <2>1, <2>2, InvClosed
  <2> QED
    BY <1>a, <2>2, <2>3 DEF sizes
<1>7. ASSUME NEW h \in Handles, OpenMmap(h) PROVE Good
  BY <1>0, <1>7, <1>a, InvOpenMmap DEF OpenMmap
<1>10. ASSUME NEW h \in Handles, NEW count \in Counts, Allocate(h, count) PROVE Good
  BY <1>0, <1>10, <1>a, InvAllocate DEF Allocate
<1>11. ASSUME NEW h \in Handles, NEW noGrowSync \in BOOLEAN, Grow(h, noGrowSync) PROVE Good
  BY <1>0, <1>11, <1>a, InvGrow DEF Grow
<1>12. ASSUME NEW h \in Handles, Commit(h) PROVE Good
  BY <1>0, <1>12, InvCommit
<1>13. ASSUME NEW p, Kill(p) PROVE Good
  BY <1>0, <1>13, <1>a, InvKill DEF Kill, sizes
<1>5. ASSUME NEW h \in Handles, NEW synced \in BOOLEAN, InitFile(h, synced) PROVE Good
  <2>1. FileInv'
    BY <1>0, <1>5, InvInitFile
  <2>2. committed = 0 /\ committed' = 4
    BY <1>5 DEF InitFile, FileInv, TypeOK
  <2> QED
    BY <2>1, <2>2
<1> USE <1>0 DEF FileInv, TypeOK
<1>1. ASSUME NEW h \in Handles, NEW ro \in BOOLEAN, NEW timeout \in BOOLEAN, OpenFile(h, ro, timeout)
      PROVE  Good
  <2>1. pc[h] \notin Locked /\ lock[h] = "none" /\ hwm[h] = 0 /\ snap[h] = 0
    BY <1>1 DEF OpenFile, LocksHeld, HandleSound, Locked
  <2>2. LocksHeld' /\ ExclusiveWriter'
    BY <1>1, <2>1 DEF OpenFile, LocksHeld, ExclusiveWriter, Kind, Locked
  <2>3. \A g \in Handles : HandleSound(g)'
    BY <1>1, <2>1 DEF OpenFile, HandleSound, sizes, txs
  <2> QED
    BY <1>1, <2>2, <2>3 DEF OpenFile, sizes
<1>3. ASSUME NEW h \in Handles, FlockBusy(h) \/ InitFails(h) \/ ReadMeta(h) PROVE Good
  <2>1. platform' # "solaris" /\ LocksHeld' /\ ExclusiveWriter'
    <3>1. CASE FlockBusy(h)
      BY <3>1, LocksKept DEF FlockBusy, options, Locked
    <3>2. CASE InitFails(h)
      BY <3>2, LocksKept DEF InitFails, options, Locked
    <3>3. CASE ReadMeta(h)
      BY <3>3, LocksKept DEF ReadMeta, options, Locked
    <3> QED
      BY <1>3, <3>1, <3>2, <3>3
  <2>2. \A g \in Handles : HandleSound(g)'
    BY <1>3 DEF FlockBusy, InitFails, ReadMeta, HandleSound, sizes, options, txs
  <2> QED
    BY <1>3, <2>1, <2>2 DEF FlockBusy, InitFails, ReadMeta, sizes
<1>6. ASSUME NEW h \in Handles, Collected(h) PROVE Good
  <2>1. hwm[h] = 0 /\ snap[h] = 0
    BY <1>6 DEF Collected, HandleSound
  <2>2. lock' = [lock EXCEPT ![h] = "none"]
    BY <1>6 DEF Collected, Dropped, Unlocked
  <2>3. LocksHeld' /\ ExclusiveWriter'
    BY <1>6, <2>2 DEF Collected, Dropped, LocksHeld, ExclusiveWriter, Kind, Locked
  <2>4. \A g \in Handles : HandleSound(g)'
    BY <1>6, <2>1 DEF Collected, Dropped, HandleSound, sizes, txs
  <2> QED
    BY <1>6, <2>3, <2>4 DEF Collected, sizes
<1>8. ASSUME NEW h \in Handles, Begin(h) \/ End(h) \/ BeginRW(h) \/ RollbackRW(h) PROVE Good
  <2>1. platform' # "solaris" /\ LocksHeld' /\ ExclusiveWriter'
    <3>1. CASE Begin(h) \/ End(h) \/ BeginRW(h)
      BY <3>1, LocksKept DEF Begin, End, BeginRW, options
    <3>2. CASE RollbackRW(h)
      BY <3>2, LocksKept DEF RollbackRW, options, Locked
    <3> QED
      BY <1>8, <3>1, <3>2
  <2>2. \A g \in Handles : HandleSound(g)'
    <3>1. CASE Begin(h) \/ End(h)
      BY <3>1 DEF Begin, End, HandleSound, sizes, options
    <3>2. CASE BeginRW(h) \/ RollbackRW(h)
      BY <3>2 DEF BeginRW, RollbackRW, HandleSound, sizes, options
    <3> QED
      BY <1>8, <3>1, <3>2
  <2> QED
    BY <1>8, <2>1, <2>2 DEF Begin, End, BeginRW, RollbackRW, sizes
<1>9. ASSUME NEW h \in Handles, WriteTo(h) \/ WriteToEnds(h) PROVE Good
  <2>1. platform' # "solaris" /\ LocksHeld' /\ ExclusiveWriter'
    BY <1>9, LocksKept DEF WriteTo, WriteToEnds, options
  <2>2. \A g \in Handles : HandleSound(g)'
    BY <1>9 DEF WriteTo, WriteToEnds, HandleSound, sizes, options
  <2> QED
    BY <1>9, <2>1, <2>2 DEF WriteTo, WriteToEnds, sizes
<1>14. CASE UNCHANGED vars
  BY <1>14 DEF vars, sizes, options, txs, LocksHeld, ExclusiveWriter, HandleSound, Kind
<1> QED
  BY <1>1, <1>2, <1>3, <1>4, <1>5, <1>6, <1>7, <1>8, <1>9, <1>10, <1>11, <1>12, <1>13, <1>14
  DEF Next, HandleStep, WaitForLock, Stopped

(* On a system whose locks belong to descriptors, with any number of       *)
(* handles and processes that may be killed:                               *)
THEOREM FileInvHolds ==
    ASSUME "solaris" \notin Platforms
    PROVE  Spec => []FileInv
<1>1. Init => FileInv
  BY InvInit
<1>2. FileInv /\ [Next]_vars => FileInv'
  BY InvStep
<1> QED
  BY <1>1, <1>2, PTL DEF Spec

(* A writer has the file to itself (db.go:228-238).                        *)
THEOREM WritersAreAlone ==
    ASSUME "solaris" \notin Platforms
    PROVE  Spec => []ExclusiveWriter
<1>1. FileInv => ExclusiveWriter
  BY DEF FileInv
<1> QED
  BY <1>1, FileInvHolds, PTL

(* What transactions reach is in their map and in the file.                *)
THEOREM PagesAreBacked ==
    ASSUME "solaris" \notin Platforms
    PROVE  Spec => []PagesBacked
<1>1. FileInv => PagesBacked
  BY DEF FileInv, HandleSound, PagesBacked, TypeOK
<1> QED
  BY <1>1, FileInvHolds, PTL

(* Nothing committed is taken back.                                        *)
THEOREM CommitsAreKept ==
    ASSUME "solaris" \notin Platforms
    PROVE  Spec => CommittedKept
<1>1. FileInv /\ [Next]_vars => [committed' >= committed]_vars
  BY InvStep
<1> QED
  BY <1>1, FileInvHolds, PTL DEF Spec, CommittedKept

-----------------------------------------------------------------------------
(* Where an int is no larger than a map may be (bolt_386.go, bolt_arm.go), *)
(* no file becomes too large to map.                                       *)

SizeInv ==
    /\ size <= maxMapSize
    /\ \A h \in Handles : datasz[h] <= maxMapSize

LEMMA SizeStep ==
    ASSUME FileInv, SizeInv, [Next]_vars, MaxInt <= maxMapSize, maxMapSize >= 4
    PROVE  SizeInv'
<1> USE SizesAssumption, FileAssumption DEF FileInv, SizeInv, TypeOK
<1>1. ASSUME NEW h \in Handles, NEW minsz \in Nat, MapTo(h, minsz) # TooLarge, Map(h, MapTo(h, minsz))
      PROVE  SizeInv'
  BY <1>1, MapToFits DEF Map
<1>2. ASSUME NEW h \in Handles, OpenMmap(h) PROVE SizeInv'
  BY <1>1, <1>2 DEF OpenMmap
<1>3. ASSUME NEW h \in Handles, NEW count \in Counts, Allocate(h, count) PROVE SizeInv'
  <2>1. hwm[h] + count + 1 \in Nat
    OBVIOUS
  <2>2. CASE hwm[h] + count + 1 < datasz[h]
    BY <1>3, <2>2 DEF Allocate
  <2>3. CASE ~(hwm[h] + count + 1 < datasz[h])
    BY <1>1, <1>3, <2>1, <2>3 DEF Allocate
  <2> QED
    BY <2>2, <2>3
<1>4. ASSUME NEW h \in Handles, NEW noGrowSync \in BOOLEAN, Grow(h, noGrowSync) PROVE SizeInv'
  BY <1>4 DEF Grow
<1>5. ASSUME NEW h \in Handles, Commit(h) PROVE SizeInv'
  BY <1>5 DEF Commit, Larger, HandleSound
<1>6. ASSUME NEW h \in Handles, Closed(h), UNCHANGED sizes PROVE SizeInv'
  BY <1>6 DEF Closed, sizes
<1>7. ASSUME NEW p, Kill(p) PROVE SizeInv'
  BY <1>7 DEF Kill, sizes
<1>8. ASSUME NEW h \in Handles, NEW synced \in BOOLEAN, InitFile(h, synced) PROVE SizeInv'
  BY <1>8 DEF InitFile
<1>9. ASSUME size' = size, datasz' = datasz PROVE SizeInv'
  BY <1>9
<1> QED
  BY <1>2, <1>3, <1>4, <1>5, <1>6, <1>7, <1>8, <1>9
  DEF Next, HandleStep, WaitForLock, Stopped, OpenFile, Flock, FlockBusy, FlockTimeout, InitFails,
      Collected, ReadMeta, OpenMmapFails, Begin, End, WriteTo, WriteToEnds, BeginRW,
      RollbackRW, Close, vars, sizes

(* Every file can be mapped by the next Open (db.go:385-421, 1019-1048),   *)
(* where no size an int can hold exceeds the largest map.                  *)
THEOREM FilesReopen ==
    ASSUME "solaris" \notin Platforms, MaxInt <= maxMapSize, maxMapSize >= 4,
           InitialMmapSize <= maxMapSize
    PROVE  Spec => []Reopens
<1>1. Init => SizeInv
  BY SizesAssumption DEF Init, SizeInv
<1>2. FileInv /\ SizeInv /\ [Next]_vars => SizeInv'
  BY SizeStep
<1>3. FileInv /\ SizeInv => Reopens
  <2> SUFFICES ASSUME FileInv, SizeInv, NEW h \in Handles PROVE MapTo(h, InitialMmapSize) # TooLarge
    BY DEF Reopens
  <2>1. Larger(size, InitialMmapSize) \in Nat /\ Larger(size, InitialMmapSize) <= maxMapSize
    BY FileAssumption DEF Larger, FileInv, SizeInv, TypeOK
  <2> QED
    BY <2>1, MapSizeGiven DEF MapTo
<1> QED
  BY <1>1, <1>2, <1>3, FileInvHolds, PTL DEF Spec

=============================================================================
