--------------------------- MODULE TxLocksProofs ---------------------------
(***************************************************************************)
(* Proofs about TxLocks: what the three locks of db.go guarantee for every *)
(* number of goroutines, whatever a commit writes while db.meta reads.     *)
(***************************************************************************)
EXTENDS TxLocks, WellFoundedInduction, SequenceTheorems, TLAPS

-----------------------------------------------------------------------------
(* The inductive invariant.                                                *)

ReaderSteps == {"idle", "begin", "rlock", "init", "validate", "copy",
                "register", "panicked", "remove", "unregister"}

WriterSteps == {"idle", "begin", "rwlocked", "init", "work", "lockmmap",
                "unmap", "map", "grown", "writing", "written"}

CloserSteps == {"idle", "close", "rwlocked", "rlock", "closing", "unlock",
                "closed"}

TypeOK ==
    /\ pc \in [Procs -> ReaderSteps \cup WriterSteps \cup CloserSteps]
    /\ \A r \in Readers : pc[r] \in ReaderSteps
    /\ \A w \in Writers : pc[w] \in WriterSteps
    /\ \A c \in Closers : pc[c] \in CloserSteps
    /\ {rwlock, metalock, mmapwait, mmapwriter} \subseteq Procs \cup {Free}
    /\ mmapreaders \in [Procs -> Nat]
    /\ opened \in BOOLEAN
    /\ mapping \in {0, 1}
    /\ slot \in [{0, 1} -> [txid : Nat, ok : BOOLEAN]]
    /\ picked \in [Readers -> {0, 1}]
    /\ held \in [Readers -> Seq(Nat)]
    /\ txs \subseteq [owner : Readers, nth : Nat, txid : Nat]
    /\ wtxid \in Nat /\ released \in Nat /\ committed \in Nat
    /\ asof \in [Readers -> Nat]

(* The steps between taking a lock and giving it back.                     *)
MetaSteps == {"rlock", "init", "validate", "copy", "register", "panicked",
              "unregister", "closing", "unlock"}

RWSteps == {"rwlocked", "rlock", "init", "work", "lockmmap", "unmap", "map",
            "grown", "writing", "written", "closing", "unlock"}

(* Each lock is held by the goroutine at a step that needs it, by no other.*)
LocksHeld ==
    \A g \in Procs :
        /\ metalock = g <=> pc[g] \in MetaSteps
        /\ rwlock = g <=> g \notin Readers /\ pc[g] \in RWSteps
        /\ mmapwait = g <=> pc[g] = "lockmmap"
        /\ mmapwriter = g <=> pc[g] \in {"unmap", "map"}

(* mmaplock is read-locked once for each open read transaction, and not at *)
(* all while a writer remaps.                                              *)
ReadLocked ==
    /\ \A r \in Readers :
         mmapreaders[r] = IF pc[r] \in {"init", "validate", "copy", "panicked"}
                            THEN Len(held[r]) + 1 ELSE Len(held[r])
    /\ \A w \in Writers : mmapreaders[w] = 0
    /\ \A c \in Closers :
         mmapreaders[c] = IF pc[c] \in {"closing", "unlock"} THEN 1 ELSE 0
    /\ mmapwriter # Free => \A g \in Procs : mmapreaders[g] = 0

(* How many read transactions a goroutine has open.                        *)
DepthKept ==
    \A r \in Readers :
        /\ Len(held[r]) <= Depth
        /\ pc[r] \notin {"idle", "register"} => Len(held[r]) < Depth
        /\ pc[r] = "register" => held[r] # <<>>

(* A write transaction whose transaction id is taken.                      *)
Begun(w) == pc[w] \in {"work", "lockmmap", "unmap", "map", "grown", "writing",
                       "written"}

(* The last commit is in one slot; the other is the one before it, or the  *)
(* one a commit is writing.                                                *)
SlotsSound ==
    /\ committed \in 1 .. MaxTxid
    /\ slot[MetaSlot(committed)] = [txid |-> committed, ok |-> TRUE]
    /\ (\A w \in Writers : pc[w] \notin {"writing", "written"}) =>
         slot[1 - MetaSlot(committed)] = [txid |-> committed - 1, ok |-> TRUE]
    /\ \A w \in Writers :
         /\ Begun(w) => wtxid = committed + 1 /\ opened
         /\ pc[w] = "writing" =>
              /\ wtxid < MaxTxid
              /\ ~slot[1 - MetaSlot(committed)].ok
              /\ slot[1 - MetaSlot(committed)].txid \in {committed - 1, committed + 1}
         /\ pc[w] = "written" =>
              /\ wtxid < MaxTxid
              /\ slot[1 - MetaSlot(committed)] = [txid |-> committed + 1, ok |-> TRUE]

(* What a reader in db.meta picked is the last commit, or one that is just *)
(* ending, or the last but one, of before it got metalock's turn to a      *)
(* commit: then no write transaction can begin until it has released it.   *)
OneCommitAgo(r) ==
    /\ asof[r] < committed
    /\ released < committed
    /\ \A w \in Writers : ~Begun(w)

PickSound ==
    \A r \in Readers :
        /\ asof[r] \in 1 .. committed
        /\ pc[r] = "validate" =>
             \/ picked[r] = MetaSlot(committed)
             \/ \E w \in Writers : pc[w] \in {"writing", "written"}
             \/ OneCommitAgo(r)
        /\ pc[r] = "copy" =>
             \/ picked[r] = MetaSlot(committed)
             \/ \E w \in Writers : pc[w] = "written"
             \/ OneCommitAgo(r)
        /\ pc[r] \in {"validate", "copy"} => opened

(* db.txs lists the open read transactions, but for one being registered.  *)
Listed(r, i) == [owner |-> r, nth |-> i, txid |-> held[r][i]] \in txs

TxsSound ==
    /\ \A t \in txs : t.txid \in 1 .. committed + 1
    /\ \A r \in Readers :
         /\ \A i \in 1 .. Len(held[r]) :
              /\ held[r][i] \in 1 .. committed + 1
              /\ ~(pc[r] = "register" /\ i = Len(held[r])) => Listed(r, i)
         /\ pc[r] \in {"remove", "unregister"} =>
              \E t \in txs : t.owner = r /\ t.nth = Len(held[r]) + 1

(* The data file is unmapped between Unmap and Map, and after Close.       *)
MapSound == opened /\ mapping = 0 => \E w \in Writers : pc[w] = "map"

IInv ==
    /\ TypeOK
    /\ LocksHeld
    /\ ReadLocked
    /\ DepthKept
    /\ SlotsSound
    /\ PickSound
    /\ TxsSound
    /\ MapSound
    /\ released <= committed
    /\ ReleaseSparesReaders
    /\ SnapshotFresh
-----------------------------------------------------------------------------
(* Lemmas.                                                                 *)

(* Consecutive transactions write different meta pages.                    *)
LEMMA SlotsTakeTurns ==
    ASSUME NEW id \in Nat
    PROVE  MetaSlot(id) \in {0, 1} /\ MetaSlot(id + 1) = 1 - MetaSlot(id)
  BY DEF MetaSlot

(* A set of natural numbers has a least element.                           *)
LEMMA LeastNatural ==
    ASSUME NEW S \in SUBSET Nat, S # {}
    PROVE  \E x \in S : \A y \in S : x <= y
<1>1. \E x \in S : \A y \in S : ~ (<<y, x>> \in OpToRel(<, Nat))
  BY NatLessThanWellFounded, WFMin
<1>2. \A x, y \in S : y < x => <<y, x>> \in OpToRel(<, Nat)
  BY DEF OpToRel
<1>3. \E x \in S : \A y \in S : ~ (y < x)
  BY <1>1, <1>2, Zenon
<1> QED
  BY <1>3

LEMMA IntervalGrows ==
    ASSUME NEW m \in Nat, NEW n \in Nat, m <= n
    PROVE  \A x \in 1 .. m : x \in 1 .. n
  OBVIOUS

LEMMA OneMore ==
    ASSUME NEW m \in Nat, NEW n \in Nat, m <= n
    PROVE  m + 1 \in Nat /\ n + 1 \in Nat /\ m + 1 <= n + 1
  OBVIOUS

LEMMA OneBelow ==
    ASSUME NEW m \in Nat, NEW n \in Nat, m < n
    PROVE  m + 1 <= n /\ m + 1 # 0
  OBVIOUS

LEMMA OneLess ==
    ASSUME NEW n \in Nat \ {0}
    PROVE  /\ n - 1 \in Nat /\ n - 1 <= n /\ n - 1 < n /\ n - 1 + 1 = n
           /\ \A m \in Nat : m <= n => n - 1 < m \/ m <= n - 1
  OBVIOUS

LEMMA LengthSound ==
    ASSUME NEW s \in Seq(Nat)
    PROVE  Len(s) \in Nat /\ (s # <<>> => Len(s) \in Nat \ {0})
  OBVIOUS

(* What removeTx leaves of a goroutine's transactions.                     *)
LEMMA LastClosed ==
    ASSUME NEW s \in Seq(Nat), s # <<>>
    PROVE  /\ SubSeq(s, 1, Len(s) - 1) \in Seq(Nat)
           /\ Len(SubSeq(s, 1, Len(s) - 1)) = Len(s) - 1
           /\ \A i \in 1 .. Len(s) - 1 : SubSeq(s, 1, Len(s) - 1)[i] = s[i]
<1>1. Len(s) \in Nat \ {0} /\ \A i \in 1 .. Len(s) - 1 : s[i] \in Nat
  OBVIOUS
<1>2. /\ SubSeq(s, 1, Len(s) - 1) \in Seq(Nat)
      /\ Len(SubSeq(s, 1, Len(s) - 1)) = IF 1 <= Len(s) - 1 THEN Len(s) - 1 - 1 + 1 ELSE 0
      /\ \A i \in 1 .. Len(s) - 1 - 1 + 1 : SubSeq(s, 1, Len(s) - 1)[i] = s[1 + i - 1]
  BY <1>1, SubSeqProperties
<1>3. ASSUME NEW n \in Nat \ {0}
      PROVE  /\ (IF 1 <= n - 1 THEN n - 1 - 1 + 1 ELSE 0) = n - 1
             /\ n - 1 - 1 + 1 = n - 1
             /\ \A i \in 1 .. n - 1 : 1 + i - 1 = i
  OBVIOUS
<1> QED
  BY <1>1, <1>2, <1>3

(* Two goroutines never hold a lock together.                              *)
LEMMA OneWriter ==
    ASSUME IInv, NEW g \in Procs, g \notin Readers, pc[g] \in RWSteps
    PROVE  \A w \in Writers : w # g => pc[w] \notin RWSteps
  BY TxLocksAssumption DEF IInv, LocksHeld, Procs

LEMMA OneMetaHolder ==
    ASSUME IInv, NEW g \in Procs, pc[g] \in MetaSteps
    PROVE  metalock = g /\ \A h \in Procs : h # g => pc[h] \notin MetaSteps
  BY DEF IInv, LocksHeld

(* ReleaseSparesReaders, position by position.                             *)
LEMMA SparesEach ==
    ASSUME \A x \in Readers : \A i \in 1 .. Len(held'[x]) :
              released' <= held'[x][i]
    PROVE  ReleaseSparesReaders'
  BY DEF ReleaseSparesReaders, Snapshots

(* What steps that leave the meta pages alone keep.                        *)
LEMMA SlotsKept ==
    ASSUME SlotsSound, UNCHANGED <<slot, wtxid, committed, opened>>,
           \A w \in Writers :
              /\ Begun(w)' => Begun(w)
              /\ {pc[w], pc'[w]} \cap {"writing", "written"} # {} => pc'[w] = pc[w]
    PROVE  SlotsSound'
<1> DEFINE quiet == \A w \in Writers : pc[w] \notin {"writing", "written"}
<1>1. quiet' => quiet
  OBVIOUS
<1>2. \A w \in Writers : /\ pc'[w] = "writing" => pc[w] = "writing"
                        /\ pc'[w] = "written" => pc[w] = "written"
  OBVIOUS
<1> QED
  BY <1>1, <1>2 DEF SlotsSound

(* Without a commit under way the slots hold the last two.                 *)
LEMMA NewerSound ==
    ASSUME IInv
    PROVE  \/ NewerSlot(slot) = MetaSlot(committed)
           \/ \E w \in Writers : pc[w] \in {"writing", "written"}
<1>1. MetaSlot(committed) \in {0, 1}
  BY SlotsTakeTurns DEF IInv, TypeOK
<1>2. CASE \A w \in Writers : pc[w] \notin {"writing", "written"}
  <2>1. /\ slot[MetaSlot(committed)].txid = committed
        /\ slot[1 - MetaSlot(committed)].txid = committed - 1
        /\ committed \in Nat
    BY <1>2 DEF IInv, SlotsSound, TypeOK
  <2> QED
    BY <1>1, <2>1 DEF NewerSlot
<1> QED
  BY <1>2

(* The meta page that db.meta returns is whole, not older than the last    *)
(* commit before Begin, and not older than what was released.              *)
LEMMA CopiedSound ==
    ASSUME IInv, NEW r \in Readers, pc[r] = "copy"
    PROVE  /\ Copied(picked[r]) \in 1 .. committed + 1
           /\ asof[r] <= Copied(picked[r])
           /\ released <= Copied(picked[r])
<1>1. /\ MetaSlot(committed) \in {0, 1} /\ picked[r] \in {0, 1}
      /\ released \in Nat /\ released <= committed
      /\ committed \in Nat /\ asof[r] \in 1 .. committed
  BY SlotsTakeTurns DEF IInv, TypeOK, PickSound
<1>2. CASE picked[r] = MetaSlot(committed)
  <2>1. slot[picked[r]] = [txid |-> committed, ok |-> TRUE]
    BY <1>2 DEF IInv, SlotsSound
  <2> QED
    BY <1>1, <2>1 DEF Copied
<1>3. CASE picked[r] # MetaSlot(committed) /\ \E w \in Writers : pc[w] = "written"
  <2>1. picked[r] = 1 - MetaSlot(committed)
    BY <1>1, <1>3
  <2>2. slot[picked[r]] = [txid |-> committed + 1, ok |-> TRUE]
    BY <1>3, <2>1 DEF IInv, SlotsSound
  <2> QED
    BY <1>1, <2>2 DEF Copied
<1>4. CASE picked[r] # MetaSlot(committed) /\ OneCommitAgo(r)
  <2>1. picked[r] = 1 - MetaSlot(committed)
    BY <1>1, <1>4
  <2>2. slot[picked[r]] = [txid |-> committed - 1, ok |-> TRUE]
    BY <1>4, <2>1 DEF IInv, SlotsSound, OneCommitAgo, Begun
  <2> QED
    BY <1>1, <1>4, <2>2 DEF Copied, OneCommitAgo
<1> QED
  BY <1>2, <1>3, <1>4 DEF IInv, PickSound

(* What steps that open or close no read transaction keep.                 *)
LEMMA TxsKept ==
    ASSUME TypeOK, TxsSound, UNCHANGED <<held, txs>>,
           committed' \in Nat, committed <= committed',
           \A r \in Readers :
              /\ pc[r] = "register" => pc'[r] = "register"
              /\ pc'[r] \in {"remove", "unregister"} => pc[r] \in {"remove", "unregister"}
    PROVE  TxsSound'
<1>1. \A x \in 1 .. committed + 1 : x \in 1 .. committed' + 1
  <2>0. committed \in Nat
    BY DEF TypeOK
  <2>1. committed + 1 \in Nat /\ committed' + 1 \in Nat /\ committed + 1 <= committed' + 1
    BY <2>0, OneMore
  <2> QED
    BY <2>1, IntervalGrows
<1>2. \A r, i : Listed(r, i)' <=> Listed(r, i)
  BY DEF Listed
<1>3. \A t \in txs' : t.txid \in 1 .. committed' + 1
  BY <1>1 DEF TxsSound
<1>4. ASSUME NEW r \in Readers, NEW i \in 1 .. Len(held'[r])
      PROVE  /\ held'[r][i] \in 1 .. committed' + 1
             /\ ~(pc'[r] = "register" /\ i = Len(held'[r])) => Listed(r, i)'
  BY <1>1, <1>2 DEF TxsSound
<1>5. ASSUME NEW r \in Readers, pc'[r] \in {"remove", "unregister"}
      PROVE  \E t \in txs' : t.owner = r /\ t.nth = Len(held'[r]) + 1
  BY <1>5 DEF TxsSound
<1> QED
  BY <1>3, <1>4, <1>5 DEF TxsSound

(* The bound of a release: below every open read transaction, and no newer *)
(* than the last commit.                                                   *)
LEMMA BoundSound ==
    ASSUME IInv, \A w \in Writers : pc[w] \notin {"writing", "written"}
    PROVE  /\ Current = committed
           /\ ReleaseBound \in 0 .. committed
           /\ \A t \in txs : ReleaseBound < t.txid
<1>1. MetaSlot(committed) \in {0, 1} /\ committed \in Nat
  BY SlotsTakeTurns DEF IInv, TypeOK
<1>2. Current = committed
  <2>1. /\ slot[MetaSlot(committed)].txid = committed
        /\ slot[1 - MetaSlot(committed)].txid = committed - 1
    BY DEF IInv, SlotsSound
  <2> QED
    BY <1>1, <2>1 DEF Current, NewerSlot
<1>3. CASE txs = {}
  BY <1>1, <1>2, <1>3 DEF ReleaseBound
<1>4. CASE txs # {}
  <2> DEFINE Bound(n) == /\ \A t \in txs : n + 1 <= t.txid
                         /\ \E t \in txs : n + 1 = t.txid
  <2>1. \A t \in txs : t.txid \in 1 .. committed + 1
    BY DEF IInv, TxsSound
  <2>2. {t.txid : t \in txs} \in SUBSET Nat /\ {t.txid : t \in txs} # {}
    BY <1>1, <1>4, <2>1
  <2>3. PICK m \in {t.txid : t \in txs} : \A y \in {t.txid : t \in txs} : m <= y
    BY <2>2, LeastNatural
  <2>4. m \in 1 .. committed + 1 /\ committed <= MaxTxid
    BY <2>1, <2>3 DEF IInv, SlotsSound
  <2>5. m - 1 \in 0 .. MaxTxid /\ Bound(m - 1)
    BY <1>1, <2>1, <2>3, <2>4, TxLocksAssumption
  <2>6. ReleaseBound = CHOOSE n \in 0 .. MaxTxid : Bound(n)
    BY <1>4 DEF ReleaseBound
  <2>7. ReleaseBound \in 0 .. MaxTxid /\ Bound(ReleaseBound)
    <3> HIDE DEF Bound
    <3> QED
      BY <2>5, <2>6
  <2> QED
    BY <1>1, <1>2, <2>1, <2>7
<1> QED
  BY <1>3, <1>4

-----------------------------------------------------------------------------

LEMMA CallBeginStep ==
    ASSUME IInv, NEW r \in Readers, CallBegin(r)
    PROVE  IInv'
<1> USE TxLocksAssumption DEF IInv, TypeOK, Procs, CallBegin, Goto, locks, reading, writing, RLock, RUnlock, RLockable
<1>1. TypeOK'
  BY SMTT(30) DEF ReaderSteps, WriterSteps, CloserSteps, LocksHeld, ReadLocked, Copied, NewerSlot
<1>2. LocksHeld'
  BY SMTT(30) DEF LocksHeld, MetaSteps, RWSteps, ReaderSteps, WriterSteps, CloserSteps
<1>3. ReadLocked'
  BY SMTT(30) DEF ReadLocked, LocksHeld, ReaderSteps, WriterSteps, CloserSteps
<1>4. DepthKept'
  BY SMTT(30) DEF DepthKept, ReaderSteps, WriterSteps, CloserSteps
<1>5. SlotsSound'
  <2>1. \A w \in Writers : pc'[w] = pc[w]
    OBVIOUS
  <2> QED
    BY <2>1, SlotsKept DEF Begun
<1>6. PickSound'
  BY SMTT(30) DEF PickSound, OneCommitAgo, Begun, SlotsSound, LocksHeld, MetaSteps, RWSteps, ReaderSteps, WriterSteps, CloserSteps
<1>7. TxsSound'
  <2>1. \A x \in Readers :
           /\ pc[x] = "register" => pc'[x] = "register"
           /\ pc'[x] \in {"remove", "unregister"} => pc[x] \in {"remove", "unregister"}
    OBVIOUS
  <2> QED
    BY <2>1, TxsKept
<1>8. MapSound'
  BY SMTT(30) DEF MapSound, ReaderSteps, WriterSteps, CloserSteps
<1>9. (released <= committed)'
  BY SMTT(30) DEF SlotsSound, Begun
<1>10. ReleaseSparesReaders'
  BY SMTT(30) DEF ReleaseSparesReaders, Snapshots
<1>11. SnapshotFresh'
  BY SMTT(30) DEF SnapshotFresh
<1> QED
  BY <1>1, <1>2, <1>3, <1>4, <1>5, <1>6, <1>7, <1>8, <1>9, <1>10, <1>11

LEMMA BeginMetaLockStep ==
    ASSUME IInv, NEW r \in Readers, BeginMetaLock(r)
    PROVE  IInv'
<1> USE TxLocksAssumption DEF IInv, TypeOK, Procs, BeginMetaLock, Goto, locks, reading, writing, RLock, RUnlock, RLockable
<1>1. TypeOK'
  BY SMTT(30) DEF ReaderSteps, WriterSteps, CloserSteps, LocksHeld, ReadLocked, Copied, NewerSlot
<1>2. LocksHeld'
  BY SMTT(30) DEF LocksHeld, MetaSteps, RWSteps, ReaderSteps, WriterSteps, CloserSteps
<1>3. ReadLocked'
  BY SMTT(30) DEF ReadLocked, LocksHeld, ReaderSteps, WriterSteps, CloserSteps
<1>4. DepthKept'
  BY SMTT(30) DEF DepthKept, ReaderSteps, WriterSteps, CloserSteps
<1>5. SlotsSound'
  <2>1. \A w \in Writers : pc'[w] = pc[w]
    OBVIOUS
  <2> QED
    BY <2>1, SlotsKept DEF Begun
<1>6. PickSound'
  BY SMTT(30) DEF PickSound, OneCommitAgo, Begun, SlotsSound, LocksHeld, MetaSteps, RWSteps, ReaderSteps, WriterSteps, CloserSteps
<1>7. TxsSound'
  <2>1. \A x \in Readers :
           /\ pc[x] = "register" => pc'[x] = "register"
           /\ pc'[x] \in {"remove", "unregister"} => pc[x] \in {"remove", "unregister"}
    OBVIOUS
  <2> QED
    BY <2>1, TxsKept
<1>8. MapSound'
  BY SMTT(30) DEF MapSound, ReaderSteps, WriterSteps, CloserSteps
<1>9. (released <= committed)'
  BY SMTT(30) DEF SlotsSound, Begun
<1>10. ReleaseSparesReaders'
  BY SMTT(30) DEF ReleaseSparesReaders, Snapshots
<1>11. SnapshotFresh'
  BY SMTT(30) DEF SnapshotFresh
<1> QED
  BY <1>1, <1>2, <1>3, <1>4, <1>5, <1>6, <1>7, <1>8, <1>9, <1>10, <1>11

LEMMA BeginRLockStep ==
    ASSUME IInv, NEW r \in Readers, BeginRLock(r)
    PROVE  IInv'
<1> USE TxLocksAssumption DEF IInv, TypeOK, Procs, BeginRLock, Goto, locks, reading, writing, RLock, RUnlock, RLockable
<1>1. TypeOK'
  BY SMTT(30) DEF ReaderSteps, WriterSteps, CloserSteps, LocksHeld, ReadLocked, Copied, NewerSlot
<1>2. LocksHeld'
  BY SMTT(30) DEF LocksHeld, MetaSteps, RWSteps, ReaderSteps, WriterSteps, CloserSteps
<1>3. ReadLocked'
  BY SMTT(30) DEF ReadLocked, LocksHeld, ReaderSteps, WriterSteps, CloserSteps
<1>4. DepthKept'
  BY SMTT(30) DEF DepthKept, ReaderSteps, WriterSteps, CloserSteps
<1>5. SlotsSound'
  <2>1. \A w \in Writers : pc'[w] = pc[w]
    OBVIOUS
  <2> QED
    BY <2>1, SlotsKept DEF Begun
<1>6. PickSound'
  BY SMTT(30) DEF PickSound, OneCommitAgo, Begun, SlotsSound, LocksHeld, MetaSteps, RWSteps, ReaderSteps, WriterSteps, CloserSteps
<1>7. TxsSound'
  <2>1. \A x \in Readers :
           /\ pc[x] = "register" => pc'[x] = "register"
           /\ pc'[x] \in {"remove", "unregister"} => pc[x] \in {"remove", "unregister"}
    OBVIOUS
  <2> QED
    BY <2>1, TxsKept
<1>8. MapSound'
  BY SMTT(30) DEF MapSound, ReaderSteps, WriterSteps, CloserSteps
<1>9. (released <= committed)'
  BY SMTT(30) DEF SlotsSound, Begun
<1>10. ReleaseSparesReaders'
  BY SMTT(30) DEF ReleaseSparesReaders, Snapshots
<1>11. SnapshotFresh'
  BY SMTT(30) DEF SnapshotFresh
<1> QED
  BY <1>1, <1>2, <1>3, <1>4, <1>5, <1>6, <1>7, <1>8, <1>9, <1>10, <1>11

LEMMA BeginNotOpenStep ==
    ASSUME IInv, NEW r \in Readers, BeginNotOpen(r)
    PROVE  IInv'
<1> USE TxLocksAssumption DEF IInv, TypeOK, Procs, BeginNotOpen, Goto, locks, reading, writing, RLock, RUnlock, RLockable
<1>1. TypeOK'
  BY SMTT(30) DEF ReaderSteps, WriterSteps, CloserSteps, LocksHeld, ReadLocked, Copied, NewerSlot
<1>2. LocksHeld'
  BY SMTT(30) DEF LocksHeld, MetaSteps, RWSteps, ReaderSteps, WriterSteps, CloserSteps
<1>3. ReadLocked'
  BY SMTT(30) DEF ReadLocked, LocksHeld, ReaderSteps, WriterSteps, CloserSteps
<1>4. DepthKept'
  BY SMTT(30) DEF DepthKept, ReaderSteps, WriterSteps, CloserSteps
<1>5. SlotsSound'
  <2>1. \A w \in Writers : pc'[w] = pc[w]
    OBVIOUS
  <2> QED
    BY <2>1, SlotsKept DEF Begun
<1>6. PickSound'
  BY SMTT(30) DEF PickSound, OneCommitAgo, Begun, SlotsSound, LocksHeld, MetaSteps, RWSteps, ReaderSteps, WriterSteps, CloserSteps
<1>7. TxsSound'
  <2>1. \A x \in Readers :
           /\ pc[x] = "register" => pc'[x] = "register"
           /\ pc'[x] \in {"remove", "unregister"} => pc[x] \in {"remove", "unregister"}
    OBVIOUS
  <2> QED
    BY <2>1, TxsKept
<1>8. MapSound'
  BY SMTT(30) DEF MapSound, ReaderSteps, WriterSteps, CloserSteps
<1>9. (released <= committed)'
  BY SMTT(30) DEF SlotsSound, Begun
<1>10. ReleaseSparesReaders'
  BY SMTT(30) DEF ReleaseSparesReaders, Snapshots
<1>11. SnapshotFresh'
  BY SMTT(30) DEF SnapshotFresh
<1> QED
  BY <1>1, <1>2, <1>3, <1>4, <1>5, <1>6, <1>7, <1>8, <1>9, <1>10, <1>11

LEMMA PickMetaStep ==
    ASSUME IInv, NEW r \in Readers, PickMeta(r)
    PROVE  IInv'
<1> USE TxLocksAssumption DEF IInv, TypeOK, Procs, PickMeta, Goto, locks, reading, writing, RLock, RUnlock, RLockable
<1>0. MetaSlot(committed) \in {0, 1} /\ MetaSlot(committed + 1) = 1 - MetaSlot(committed)
  BY SlotsTakeTurns
<1>1. TypeOK'
  BY <1>0, SMTT(30) DEF ReaderSteps, WriterSteps, CloserSteps, LocksHeld, ReadLocked, Copied, NewerSlot
<1>2. LocksHeld'
  BY SMTT(30) DEF LocksHeld, MetaSteps, RWSteps, ReaderSteps, WriterSteps, CloserSteps
<1>3. ReadLocked'
  BY SMTT(30) DEF ReadLocked, LocksHeld, ReaderSteps, WriterSteps, CloserSteps
<1>4. DepthKept'
  BY SMTT(30) DEF DepthKept, ReaderSteps, WriterSteps, CloserSteps
<1>5. SlotsSound'
  <2>1. \A w \in Writers : pc'[w] = pc[w]
    OBVIOUS
  <2> QED
    BY <2>1, SlotsKept DEF Begun
<1>6. PickSound'
  <2>1. \A x \in Readers : OneCommitAgo(x)' <=> OneCommitAgo(x)
    BY DEF OneCommitAgo, Begun
  <2> QED
    BY <2>1, NewerSound DEF PickSound
<1>7. TxsSound'
  <2>1. \A x \in Readers :
           /\ pc[x] = "register" => pc'[x] = "register"
           /\ pc'[x] \in {"remove", "unregister"} => pc[x] \in {"remove", "unregister"}
    OBVIOUS
  <2> QED
    BY <2>1, TxsKept
<1>8. MapSound'
  BY SMTT(30) DEF MapSound, ReaderSteps, WriterSteps, CloserSteps
<1>9. (released <= committed)'
  BY <1>0, SMTT(30) DEF SlotsSound, Begun
<1>10. ReleaseSparesReaders'
  BY <1>0, SMTT(30) DEF ReleaseSparesReaders, Snapshots
<1>11. SnapshotFresh'
  BY <1>0, SMTT(30) DEF SnapshotFresh
<1> QED
  BY <1>1, <1>2, <1>3, <1>4, <1>5, <1>6, <1>7, <1>8, <1>9, <1>10, <1>11

LEMMA ValidateMetaStep ==
    ASSUME IInv, NEW r \in Readers, ValidateMeta(r)
    PROVE  IInv'
<1> USE TxLocksAssumption DEF IInv, TypeOK, Procs, ValidateMeta, Goto, locks, reading, writing, RLock, RUnlock, RLockable
<1>0. MetaSlot(committed) \in {0, 1} /\ MetaSlot(committed + 1) = 1 - MetaSlot(committed)
  BY SlotsTakeTurns
<1>1. TypeOK'
  BY <1>0, SMTT(30) DEF ReaderSteps, WriterSteps, CloserSteps, LocksHeld, ReadLocked, Copied, NewerSlot
<1>2. LocksHeld'
  BY SMTT(30) DEF LocksHeld, MetaSteps, RWSteps, ReaderSteps, WriterSteps, CloserSteps
<1>3. ReadLocked'
  BY SMTT(30) DEF ReadLocked, LocksHeld, ReaderSteps, WriterSteps, CloserSteps
<1>4. DepthKept'
  BY SMTT(30) DEF DepthKept, ReaderSteps, WriterSteps, CloserSteps
<1>5. SlotsSound'
  <2>1. \A w \in Writers : pc'[w] = pc[w]
    OBVIOUS
  <2> QED
    BY <2>1, SlotsKept DEF Begun
<1>6. PickSound'
  BY <1>0, SMTT(30) DEF PickSound, OneCommitAgo, Begun, SlotsSound, LocksHeld, MetaSteps, RWSteps, ReaderSteps, WriterSteps, CloserSteps
<1>7. TxsSound'
  <2>1. \A x \in Readers :
           /\ pc[x] = "register" => pc'[x] = "register"
           /\ pc'[x] \in {"remove", "unregister"} => pc[x] \in {"remove", "unregister"}
    OBVIOUS
  <2> QED
    BY <2>1, TxsKept
<1>8. MapSound'
  BY SMTT(30) DEF MapSound, ReaderSteps, WriterSteps, CloserSteps
<1>9. (released <= committed)'
  BY <1>0, SMTT(30) DEF SlotsSound, Begun
<1>10. ReleaseSparesReaders'
  BY <1>0, SMTT(30) DEF ReleaseSparesReaders, Snapshots
<1>11. SnapshotFresh'
  <2>1. slot[MetaSlot(committed)].ok
    BY DEF SlotsSound
  <2> QED
    BY <1>0, <2>1 DEF SnapshotFresh
<1> QED
  BY <1>1, <1>2, <1>3, <1>4, <1>5, <1>6, <1>7, <1>8, <1>9, <1>10, <1>11

LEMMA CopyMetaStep ==
    ASSUME IInv, NEW r \in Readers, CopyMeta(r)
    PROVE  IInv'
<1> USE TxLocksAssumption DEF IInv, TypeOK, Procs, CopyMeta, Goto, locks, reading, writing, RLock, RUnlock, RLockable
<1>0. MetaSlot(committed) \in {0, 1} /\ MetaSlot(committed + 1) = 1 - MetaSlot(committed)
  BY SlotsTakeTurns
<1>a. /\ Copied(picked[r]) \in 1 .. committed + 1
      /\ asof[r] <= Copied(picked[r])
      /\ released <= Copied(picked[r])
  BY CopiedSound
<1> DEFINE v == Copied(picked[r])
<1>b. \A x \in Readers :
        /\ held'[x] \in Seq(Nat)
        /\ Len(held'[x]) = IF x = r THEN Len(held[x]) + 1 ELSE Len(held[x])
        /\ \A i \in 1 .. Len(held[x]) : held'[x][i] = held[x][i]
        /\ x = r => held'[x][Len(held[x]) + 1] = v
  <2>1. v \in Nat
    BY <1>a
  <2>2. held' = [held EXCEPT ![r] = Append(held[r], v)]
    OBVIOUS
  <2> HIDE DEF v, CopyMeta
  <2> TAKE x \in Readers
  <2>3. held[x] \in Seq(Nat)
    OBVIOUS
  <2>4. /\ Append(held[x], v) \in Seq(Nat)
        /\ Len(Append(held[x], v)) = Len(held[x]) + 1
        /\ \A i \in 1 .. Len(held[x]) : Append(held[x], v)[i] = held[x][i]
        /\ Append(held[x], v)[Len(held[x]) + 1] = v
    BY <2>1, <2>3, AppendProperties
  <2> QED
    BY <2>2, <2>3, <2>4
<1>1. TypeOK'
  BY <1>0, SMTT(30) DEF ReaderSteps, WriterSteps, CloserSteps, LocksHeld, ReadLocked, Copied, NewerSlot
<1>2. LocksHeld'
  BY SMTT(30) DEF LocksHeld, MetaSteps, RWSteps, ReaderSteps, WriterSteps, CloserSteps
<1>3. ReadLocked'
  BY SMTT(30) DEF ReadLocked, LocksHeld, ReaderSteps, WriterSteps, CloserSteps
<1>4. DepthKept'
  <2> SUFFICES ASSUME NEW x \in Readers
               PROVE  /\ Len(held'[x]) <= Depth
                      /\ pc'[x] \notin {"idle", "register"} => Len(held'[x]) < Depth
                      /\ pc'[x] = "register" => held'[x] # <<>>
    BY DEF DepthKept
  <2>1. CASE x = r
    <3>0. pc[r] = "copy" /\ pc'[r] = "register" /\ held[r] \in Seq(Nat)
      OBVIOUS
    <3>1. Len(held[r]) \in Nat /\ Len(held[r]) < Depth
      <4> HIDE DEF IInv, TypeOK, CopyMeta
      <4>1. DepthKept
        BY DEF IInv
      <4>2. Len(held[r]) < Depth
        BY <3>0, <4>1 DEF DepthKept
      <4> QED
        BY <3>0, <4>2, LengthSound
    <3>2. Len(held'[x]) = Len(held[r]) + 1
      BY <1>b, <2>1
    <3>3. Len(held'[x]) <= Depth /\ Len(held'[x]) # 0
      <4> HIDE DEF IInv, TypeOK, CopyMeta
      <4> QED
        BY <3>1, <3>2, OneBelow, TxLocksAssumption
    <3> QED
      BY <2>1, <3>0, <3>3
  <2>2. CASE x # r
    BY <2>2 DEF DepthKept
  <2> QED
    BY <2>1, <2>2
<1>5. SlotsSound'
  <2>1. \A w \in Writers : pc'[w] = pc[w]
    OBVIOUS
  <2> QED
    BY <2>1, SlotsKept DEF Begun
<1>6. PickSound'
  BY <1>0, SMTT(30) DEF PickSound, OneCommitAgo, Begun, SlotsSound, LocksHeld, MetaSteps, RWSteps, ReaderSteps, WriterSteps, CloserSteps
<1>7. TxsSound'
  <2>1. ASSUME NEW x \in Readers, NEW i \in 1 .. Len(held'[x])
        PROVE  /\ held'[x][i] \in 1 .. committed' + 1
               /\ ~(pc'[x] = "register" /\ i = Len(held'[x])) => Listed(x, i)'
    <3>1. CASE x = r /\ i = Len(held[r]) + 1
      BY <1>a, <1>b, <3>1
    <3>2. CASE ~(x = r /\ i = Len(held[r]) + 1)
      <4>1. i \in 1 .. Len(held[x]) /\ held'[x][i] = held[x][i]
        BY <1>b, <3>2
      <4>2. ~(pc'[x] = "register" /\ i = Len(held'[x])) => ~(pc[x] = "register" /\ i = Len(held[x]))
        BY <1>b, <3>2
      <4> QED
        BY <4>1, <4>2 DEF TxsSound, Listed
    <3> QED
      BY <3>1, <3>2
  <2>2. ASSUME NEW x \in Readers, pc'[x] \in {"remove", "unregister"}
        PROVE  \E t \in txs' : t.owner = x /\ t.nth = Len(held'[x]) + 1
    BY <1>b, <2>2 DEF TxsSound
  <2>3. \A t \in txs' : t.txid \in 1 .. committed' + 1
    BY DEF TxsSound
  <2> QED
    BY <2>1, <2>2, <2>3 DEF TxsSound
<1>8. MapSound'
  BY SMTT(30) DEF MapSound, ReaderSteps, WriterSteps, CloserSteps
<1>9. (released <= committed)'
  BY <1>0, SMTT(30) DEF SlotsSound, Begun
<1>10. ReleaseSparesReaders'
  <2> SUFFICES ASSUME NEW x \in Readers, NEW i \in 1 .. Len(held'[x])
               PROVE  released' <= held'[x][i]
    BY SparesEach
  <2>1. CASE x = r /\ i = Len(held[r]) + 1
    BY <1>a, <1>b, <2>1
  <2>2. CASE ~(x = r /\ i = Len(held[r]) + 1)
    <3>1. i \in 1 .. Len(held[x]) /\ held'[x][i] = held[x][i]
      BY <1>b, <2>2
    <3>2. held[x][i] \in Snapshots(x)
      BY <3>1 DEF Snapshots
    <3> QED
      BY <3>1, <3>2 DEF ReleaseSparesReaders
  <2> QED
    BY <2>1, <2>2
<1>11. SnapshotFresh'
  BY <1>a, <1>b DEF SnapshotFresh
<1> QED
  BY <1>1, <1>2, <1>3, <1>4, <1>5, <1>6, <1>7, <1>8, <1>9, <1>10, <1>11

LEMMA RegisterTxStep ==
    ASSUME IInv, NEW r \in Readers, RegisterTx(r)
    PROVE  IInv'
<1> USE TxLocksAssumption DEF IInv, TypeOK, Procs, RegisterTx, Goto, locks, reading, writing, RLock, RUnlock, RLockable
<1>a. Len(held[r]) \in 1 .. Len(held[r]) /\ held[r][Len(held[r])] \in 1 .. committed + 1
  <2>1. Len(held[r]) \in 1 .. Len(held[r])
    BY DEF DepthKept
  <2> QED
    BY <2>1 DEF TxsSound
<1>1. TypeOK'
  BY <1>a, SMTT(30) DEF ReaderSteps, WriterSteps, CloserSteps, LocksHeld, ReadLocked, Copied, NewerSlot
<1>2. LocksHeld'
  BY SMTT(30) DEF LocksHeld, MetaSteps, RWSteps, ReaderSteps, WriterSteps, CloserSteps
<1>3. ReadLocked'
  BY SMTT(30) DEF ReadLocked, LocksHeld, ReaderSteps, WriterSteps, CloserSteps
<1>4. DepthKept'
  BY SMTT(30) DEF DepthKept, ReaderSteps, WriterSteps, CloserSteps
<1>5. SlotsSound'
  <2>1. \A w \in Writers : pc'[w] = pc[w]
    OBVIOUS
  <2> QED
    BY <2>1, SlotsKept DEF Begun
<1>6. PickSound'
  BY SMTT(30) DEF PickSound, OneCommitAgo, Begun, SlotsSound, LocksHeld, MetaSteps, RWSteps, ReaderSteps, WriterSteps, CloserSteps
<1>7. TxsSound'
  <2>1. ASSUME NEW x \in Readers, NEW i \in 1 .. Len(held'[x])
        PROVE  /\ held'[x][i] \in 1 .. committed' + 1
               /\ ~(pc'[x] = "register" /\ i = Len(held'[x])) => Listed(x, i)'
    <3>1. CASE x = r /\ i = Len(held[r])
      BY <1>a, <3>1 DEF Listed
    <3>2. CASE ~(x = r /\ i = Len(held[r]))
      <4>1. ~(pc'[x] = "register" /\ i = Len(held'[x])) => ~(pc[x] = "register" /\ i = Len(held[x]))
        BY <3>2
      <4> QED
        BY <4>1 DEF TxsSound, Listed
    <3> QED
      BY <3>1, <3>2
  <2>2. ASSUME NEW x \in Readers, pc'[x] \in {"remove", "unregister"}
        PROVE  \E t \in txs' : t.owner = x /\ t.nth = Len(held'[x]) + 1
    BY <2>2 DEF TxsSound
  <2>3. \A t \in txs' : t.txid \in 1 .. committed' + 1
    BY <1>a DEF TxsSound
  <2> QED
    BY <2>1, <2>2, <2>3 DEF TxsSound
<1>8. MapSound'
  BY SMTT(30) DEF MapSound, ReaderSteps, WriterSteps, CloserSteps
<1>9. (released <= committed)'
  BY SMTT(30) DEF SlotsSound, Begun
<1>10. ReleaseSparesReaders'
  BY SMTT(30) DEF ReleaseSparesReaders, Snapshots
<1>11. SnapshotFresh'
  BY SMTT(30) DEF SnapshotFresh
<1> QED
  BY <1>1, <1>2, <1>3, <1>4, <1>5, <1>6, <1>7, <1>8, <1>9, <1>10, <1>11

LEMMA RemoveTxStep ==
    ASSUME IInv, NEW r \in Readers, RemoveTx(r)
    PROVE  IInv'
<1> USE TxLocksAssumption DEF IInv, TypeOK, Procs, RemoveTx, Goto, locks, reading, writing, RLock, RUnlock, RLockable
<1> DEFINE rest == SubSeq(held[r], 1, Len(held[r]) - 1)
<1>b. /\ rest \in Seq(Nat) /\ Len(rest) = Len(held[r]) - 1
      /\ \A i \in 1 .. Len(rest) : rest[i] = held[r][i]
  BY LastClosed
<1>c. held' = [held EXCEPT ![r] = rest]
  OBVIOUS
<1>e. \A x \in Readers :
        /\ Len(held'[x]) \in Nat
        /\ \A i \in 1 .. Len(held'[x]) : i \in 1 .. Len(held[x]) /\ held'[x][i] = held[x][i]
        /\ Len(held'[x]) = IF x = r THEN Len(held[x]) - 1 ELSE Len(held[x])
  <2> TAKE x \in Readers
  <2>0. Len(held[x]) \in Nat /\ held[r] # <<>> /\ held[r] \in Seq(Nat)
    OBVIOUS
  <2> HIDE DEF RemoveTx, rest
  <2>1. CASE x = r
    <3>1. held'[x] = rest
      BY <1>c, <2>1
    <3>2. Len(rest) \in Nat /\ Len(rest) = Len(held[x]) - 1 /\ Len(rest) <= Len(held[x])
      <4> DEFINE n == Len(held[x])
      <4>1. n \in Nat \ {0} /\ Len(rest) = n - 1
        BY <1>b, <2>0, <2>1, LengthSound
      <4> HIDE DEF n
      <4>2. Len(rest) \in Nat /\ Len(rest) = n - 1 /\ Len(rest) <= n
        BY <4>1, OneLess
      <4> QED
        BY <4>2 DEF n
    <3>3. \A i \in 1 .. Len(rest) : i \in 1 .. Len(held[x])
      BY <2>0, <3>2, IntervalGrows
    <3> QED
      BY <1>b, <2>0, <2>1, <3>1, <3>2, <3>3
  <2>2. CASE x # r
    BY <1>c, <2>2
  <2> QED
    BY <2>1, <2>2
<1> HIDE DEF RemoveTx, rest
<1>d. /\ held[r] # <<>>
      /\ Goto(r, "idle", "remove")
      /\ RUnlock(r)
      /\ UNCHANGED <<rwlock, metalock, mmapwait, mmapwriter, opened, mapping,
                     slot, picked, txs, asof, writing>>
  BY DEF RemoveTx
<1>1. TypeOK'
  <2>1. mmapreaders[r] \in Nat \ {0}
    BY <1>d DEF ReadLocked
  <2>2. mmapreaders[r] - 1 \in Nat
    BY <2>1, OneLess
  <2>3. mmapreaders' \in [Procs -> Nat]
    BY <1>d, <2>2
  <2>4. /\ pc' \in [Procs -> ReaderSteps \cup WriterSteps \cup CloserSteps]
        /\ \A x \in Readers : pc'[x] \in ReaderSteps
        /\ \A w \in Writers : pc'[w] \in WriterSteps
        /\ \A c \in Closers : pc'[c] \in CloserSteps
    BY <1>d DEF ReaderSteps
  <2>5. held' \in [Readers -> Seq(Nat)]
    BY <1>b, <1>c
  <2> QED
    BY <1>d, <2>3, <2>4, <2>5
<1>2. LocksHeld'
  <2> SUFFICES ASSUME NEW g \in Procs
               PROVE  /\ metalock' = g <=> pc'[g] \in MetaSteps
                      /\ rwlock' = g <=> g \notin Readers /\ pc'[g] \in RWSteps
                      /\ mmapwait' = g <=> pc'[g] = "lockmmap"
                      /\ mmapwriter' = g <=> pc'[g] \in {"unmap", "map"}
    BY DEF LocksHeld
  <2>1. CASE g = r
    BY <1>d, <2>1 DEF LocksHeld, MetaSteps, RWSteps
  <2>2. CASE g # r
    BY <1>d, <2>2 DEF LocksHeld
  <2> QED
    BY <2>1, <2>2
<1>3. ReadLocked'
  BY <1>b, <1>c, <1>d, SMTT(30) DEF ReadLocked, LocksHeld, ReaderSteps, WriterSteps, CloserSteps
<1>4. DepthKept'
  BY <1>b, <1>c, <1>d, SMTT(30) DEF DepthKept, ReaderSteps, WriterSteps, CloserSteps
<1>5. SlotsSound'
  <2>1. \A w \in Writers : pc'[w] = pc[w]
    BY <1>d
  <2> QED
    BY <1>d, <2>1, SlotsKept DEF Begun
<1>6. PickSound'
  BY <1>d, SMTT(30) DEF PickSound, OneCommitAgo, Begun, SlotsSound, LocksHeld, MetaSteps, RWSteps, ReaderSteps, WriterSteps, CloserSteps
<1>7. TxsSound'
  <2>1. ASSUME NEW x \in Readers, NEW i \in 1 .. Len(held'[x])
        PROVE  /\ held'[x][i] \in 1 .. committed' + 1
               /\ ~(pc'[x] = "register" /\ i = Len(held'[x])) => Listed(x, i)'
    <3>1. i \in 1 .. Len(held[x]) /\ held'[x][i] = held[x][i]
      BY <1>e
    <3>2. held[x][i] \in 1 .. committed + 1
      BY <3>1 DEF TxsSound
    <3>3. ~(pc[x] = "register" /\ i = Len(held[x])) => Listed(x, i)
      BY <3>1 DEF TxsSound
    <3>4. ~(pc'[x] = "register" /\ i = Len(held'[x])) => ~(pc[x] = "register" /\ i = Len(held[x]))
      BY <1>b, <1>c, <1>d
    <3> QED
      BY <1>d, <3>1, <3>2, <3>3, <3>4 DEF Listed
  <2>2. ASSUME NEW x \in Readers, pc'[x] \in {"remove", "unregister"}
        PROVE  \E t \in txs' : t.owner = x /\ t.nth = Len(held'[x]) + 1
    <3>1. CASE x = r
      <4>1. Len(held[r]) \in 1 .. Len(held[r]) /\ pc[r] = "idle"
        BY <1>d
      <4>2. Listed(r, Len(held[r]))
        BY <4>1 DEF TxsSound
      <4> QED
        <5>0. held[r] \in Seq(Nat)
          OBVIOUS
        <5>1. Len(held'[r]) = Len(held[r]) - 1 /\ Len(held[r]) \in Nat \ {0}
          BY <1>d, <1>e, <5>0, LengthSound
        <5>2. Len(held'[r]) + 1 = Len(held[r])
          BY <5>1, OneLess
        <5> QED
          BY <1>d, <3>1, <4>2, <5>2 DEF Listed
    <3>2. CASE x # r
      BY <1>c, <1>d, <2>2, <3>2 DEF TxsSound
    <3> QED
      BY <3>1, <3>2
  <2>3. \A t \in txs' : t.txid \in 1 .. committed' + 1
    BY <1>d DEF TxsSound
  <2> QED
    BY <2>1, <2>2, <2>3 DEF TxsSound
<1>8. MapSound'
  BY <1>b, <1>c, <1>d, SMTT(30) DEF MapSound, ReaderSteps, WriterSteps, CloserSteps
<1>9. (released <= committed)'
  BY <1>b, <1>c, <1>d, SMTT(30) DEF SlotsSound, Begun
<1>10. ReleaseSparesReaders'
  <2> SUFFICES ASSUME NEW x \in Readers, NEW i \in 1 .. Len(held'[x])
               PROVE  released' <= held'[x][i]
    BY SparesEach
  <2>1. i \in 1 .. Len(held[x]) /\ held'[x][i] = held[x][i]
    BY <1>e
  <2>2. held[x][i] \in Snapshots(x)
    BY <2>1 DEF Snapshots
  <2> QED
    BY <1>d, <2>1, <2>2 DEF ReleaseSparesReaders
<1>11. SnapshotFresh'
  BY <1>b, <1>c, <1>d, SMTT(30) DEF SnapshotFresh
<1> QED
  BY <1>1, <1>2, <1>3, <1>4, <1>5, <1>6, <1>7, <1>8, <1>9, <1>10, <1>11

LEMMA RemoveMetaLockStep ==
    ASSUME IInv, NEW r \in Readers, RemoveMetaLock(r)
    PROVE  IInv'
<1> USE TxLocksAssumption DEF IInv, TypeOK, Procs, RemoveMetaLock, Goto, locks, reading, writing, RLock, RUnlock, RLockable
<1>1. TypeOK'
  BY SMTT(30) DEF ReaderSteps, WriterSteps, CloserSteps, LocksHeld, ReadLocked, Copied, NewerSlot
<1>2. LocksHeld'
  BY SMTT(30) DEF LocksHeld, MetaSteps, RWSteps, ReaderSteps, WriterSteps, CloserSteps
<1>3. ReadLocked'
  BY SMTT(30) DEF ReadLocked, LocksHeld, ReaderSteps, WriterSteps, CloserSteps
<1>4. DepthKept'
  BY SMTT(30) DEF DepthKept, ReaderSteps, WriterSteps, CloserSteps
<1>5. SlotsSound'
  <2>1. \A w \in Writers : pc'[w] = pc[w]
    OBVIOUS
  <2> QED
    BY <2>1, SlotsKept DEF Begun
<1>6. PickSound'
  BY SMTT(30) DEF PickSound, OneCommitAgo, Begun, SlotsSound, LocksHeld, MetaSteps, RWSteps, ReaderSteps, WriterSteps, CloserSteps
<1>7. TxsSound'
  <2>1. \A x \in Readers :
           /\ pc[x] = "register" => pc'[x] = "register"
           /\ pc'[x] \in {"remove", "unregister"} => pc[x] \in {"remove", "unregister"}
    OBVIOUS
  <2> QED
    BY <2>1, TxsKept
<1>8. MapSound'
  BY SMTT(30) DEF MapSound, ReaderSteps, WriterSteps, CloserSteps
<1>9. (released <= committed)'
  BY SMTT(30) DEF SlotsSound, Begun
<1>10. ReleaseSparesReaders'
  BY SMTT(30) DEF ReleaseSparesReaders, Snapshots
<1>11. SnapshotFresh'
  BY SMTT(30) DEF SnapshotFresh
<1> QED
  BY <1>1, <1>2, <1>3, <1>4, <1>5, <1>6, <1>7, <1>8, <1>9, <1>10, <1>11

LEMMA UnregisterStep ==
    ASSUME IInv, NEW r \in Readers, Unregister(r)
    PROVE  IInv'
<1> USE TxLocksAssumption DEF IInv, TypeOK, Procs, Unregister, Goto, locks, reading, writing, RLock, RUnlock, RLockable
<1>1. TypeOK'
  BY SMTT(30) DEF ReaderSteps, WriterSteps, CloserSteps, LocksHeld, ReadLocked, Copied, NewerSlot
<1>2. LocksHeld'
  BY SMTT(30) DEF LocksHeld, MetaSteps, RWSteps, ReaderSteps, WriterSteps, CloserSteps
<1>3. ReadLocked'
  BY SMTT(30) DEF ReadLocked, LocksHeld, ReaderSteps, WriterSteps, CloserSteps
<1>4. DepthKept'
  BY SMTT(30) DEF DepthKept, ReaderSteps, WriterSteps, CloserSteps
<1>5. SlotsSound'
  <2>1. \A w \in Writers : pc'[w] = pc[w]
    OBVIOUS
  <2> QED
    BY <2>1, SlotsKept DEF Begun
<1>6. PickSound'
  BY SMTT(30) DEF PickSound, OneCommitAgo, Begun, SlotsSound, LocksHeld, MetaSteps, RWSteps, ReaderSteps, WriterSteps, CloserSteps
<1>7. TxsSound'
  <2>1. LastTx(r).owner = r /\ LastTx(r).nth = Len(held[r]) + 1
    <3>1. \E t \in txs : t.owner = r /\ t.nth = Len(held[r]) + 1
      BY DEF TxsSound
    <3> QED
      BY <3>1 DEF LastTx
  <2>2. \A t \in txs : ~(t.owner = r /\ t.nth = Len(held[r]) + 1) => t \in txs'
    BY <2>1
  <2>3. ASSUME NEW x \in Readers, NEW i \in 1 .. Len(held'[x])
        PROVE  /\ held'[x][i] \in 1 .. committed' + 1
               /\ ~(pc'[x] = "register" /\ i = Len(held'[x])) => Listed(x, i)'
    <3>1. Listed(x, i) => Listed(x, i)'
      BY <2>2 DEF Listed
    <3> QED
      BY <3>1 DEF TxsSound
  <2>4. ASSUME NEW x \in Readers, pc'[x] \in {"remove", "unregister"}
        PROVE  \E t \in txs' : t.owner = x /\ t.nth = Len(held'[x]) + 1
    <3>1. x # r
      BY <2>4
    <3> QED
      BY <2>2, <2>4, <3>1 DEF TxsSound
  <2>5. \A t \in txs' : t.txid \in 1 .. committed' + 1
    BY DEF TxsSound
  <2> QED
    BY <2>3, <2>4, <2>5 DEF TxsSound
<1>8. MapSound'
  BY SMTT(30) DEF MapSound, ReaderSteps, WriterSteps, CloserSteps
<1>9. (released <= committed)'
  BY SMTT(30) DEF SlotsSound, Begun
<1>10. ReleaseSparesReaders'
  BY SMTT(30) DEF ReleaseSparesReaders, Snapshots
<1>11. SnapshotFresh'
  BY SMTT(30) DEF SnapshotFresh
<1> QED
  BY <1>1, <1>2, <1>3, <1>4, <1>5, <1>6, <1>7, <1>8, <1>9, <1>10, <1>11

LEMMA CallBeginRWStep ==
    ASSUME IInv, NEW w \in Writers, CallBeginRW(w)
    PROVE  IInv'
<1> USE TxLocksAssumption DEF IInv, TypeOK, Procs, CallBeginRW, Goto, locks, reading, writing, RLock, RUnlock, RLockable
<1>1. TypeOK'
  BY SMTT(30) DEF ReaderSteps, WriterSteps, CloserSteps, LocksHeld, ReadLocked, Copied, NewerSlot
<1>2. LocksHeld'
  <2> SUFFICES ASSUME NEW g \in Procs
               PROVE  /\ metalock' = g <=> pc'[g] \in MetaSteps
                      /\ rwlock' = g <=> g \notin Readers /\ pc'[g] \in RWSteps
                      /\ mmapwait' = g <=> pc'[g] = "lockmmap"
                      /\ mmapwriter' = g <=> pc'[g] \in {"unmap", "map"}
    BY DEF LocksHeld
  <2>1. CASE g = w
    BY <2>1 DEF LocksHeld, MetaSteps, RWSteps
  <2>2. CASE g # w
    BY <2>2 DEF LocksHeld
  <2> QED
    BY <2>1, <2>2
<1>3. ReadLocked'
  BY SMTT(30) DEF ReadLocked, LocksHeld, ReaderSteps, WriterSteps, CloserSteps
<1>4. DepthKept'
  BY SMTT(30) DEF DepthKept, ReaderSteps, WriterSteps, CloserSteps
<1>5. SlotsSound'
  <2>1. \A v \in Writers :
           /\ Begun(v)' => Begun(v)
           /\ {pc[v], pc'[v]} \cap {"writing", "written"} # {} => pc'[v] = pc[v]
    BY DEF Begun
  <2> QED
    BY <2>1, SlotsKept
<1>6. PickSound'
  BY SMTT(30) DEF PickSound, OneCommitAgo, Begun, SlotsSound, LocksHeld, MetaSteps, RWSteps, ReaderSteps, WriterSteps, CloserSteps
<1>7. TxsSound'
  <2>1. \A r \in Readers : pc'[r] = pc[r]
    BY TxLocksAssumption DEF Procs
  <2>2. committed' \in Nat /\ committed <= committed'
    BY DEF TypeOK
  <2> QED
    BY <2>1, <2>2, TxsKept
<1>8. MapSound'
  BY SMTT(30) DEF MapSound, ReaderSteps, WriterSteps, CloserSteps
<1>9. (released <= committed)'
  BY SMTT(30) DEF SlotsSound, Begun
<1>10. ReleaseSparesReaders'
  BY SMTT(30) DEF ReleaseSparesReaders, Snapshots
<1>11. SnapshotFresh'
  BY SMTT(30) DEF SnapshotFresh
<1> QED
  BY <1>1, <1>2, <1>3, <1>4, <1>5, <1>6, <1>7, <1>8, <1>9, <1>10, <1>11

LEMMA RWLockStep ==
    ASSUME IInv, NEW w \in Writers, RWLock(w)
    PROVE  IInv'
<1> USE TxLocksAssumption DEF IInv, TypeOK, Procs, RWLock, Goto, locks, reading, writing, RLock, RUnlock, RLockable
<1>1. TypeOK'
  BY SMTT(30) DEF ReaderSteps, WriterSteps, CloserSteps, LocksHeld, ReadLocked, Copied, NewerSlot
<1>2. LocksHeld'
  BY SMTT(30) DEF LocksHeld, MetaSteps, RWSteps, ReaderSteps, WriterSteps, CloserSteps
<1>3. ReadLocked'
  BY SMTT(30) DEF ReadLocked, LocksHeld, ReaderSteps, WriterSteps, CloserSteps
<1>4. DepthKept'
  BY SMTT(30) DEF DepthKept, ReaderSteps, WriterSteps, CloserSteps
<1>5. SlotsSound'
  BY SMTT(30) DEF NewerSlot, SlotsSound, Begun, LocksHeld, MetaSteps, RWSteps, ReaderSteps, WriterSteps, CloserSteps
<1>6. PickSound'
  BY SMTT(30) DEF PickSound, OneCommitAgo, Begun, SlotsSound, LocksHeld, MetaSteps, RWSteps, ReaderSteps, WriterSteps, CloserSteps
<1>7. TxsSound'
  <2>1. \A r \in Readers : pc'[r] = pc[r]
    BY TxLocksAssumption DEF Procs
  <2>2. committed' \in Nat /\ committed <= committed'
    BY DEF TypeOK
  <2> QED
    BY <2>1, <2>2, TxsKept
<1>8. MapSound'
  BY SMTT(30) DEF MapSound, ReaderSteps, WriterSteps, CloserSteps
<1>9. (released <= committed)'
  BY SMTT(30) DEF SlotsSound, Begun
<1>10. ReleaseSparesReaders'
  BY SMTT(30) DEF ReleaseSparesReaders, Snapshots
<1>11. SnapshotFresh'
  BY SMTT(30) DEF SnapshotFresh
<1> QED
  BY <1>1, <1>2, <1>3, <1>4, <1>5, <1>6, <1>7, <1>8, <1>9, <1>10, <1>11

LEMMA RWMetaLockStep ==
    ASSUME IInv, NEW w \in Writers, RWMetaLock(w)
    PROVE  IInv'
<1> USE TxLocksAssumption DEF IInv, TypeOK, Procs, RWMetaLock, Goto, locks, reading, writing, RLock, RUnlock, RLockable
<1>1. TypeOK'
  BY SMTT(30) DEF ReaderSteps, WriterSteps, CloserSteps, LocksHeld, ReadLocked, Copied, NewerSlot
<1>2. LocksHeld'
  BY SMTT(30) DEF LocksHeld, MetaSteps, RWSteps, ReaderSteps, WriterSteps, CloserSteps
<1>3. ReadLocked'
  BY SMTT(30) DEF ReadLocked, LocksHeld, ReaderSteps, WriterSteps, CloserSteps
<1>4. DepthKept'
  BY SMTT(30) DEF DepthKept, ReaderSteps, WriterSteps, CloserSteps
<1>5. SlotsSound'
  BY SMTT(30) DEF NewerSlot, SlotsSound, Begun, LocksHeld, MetaSteps, RWSteps, ReaderSteps, WriterSteps, CloserSteps
<1>6. PickSound'
  BY SMTT(30) DEF PickSound, OneCommitAgo, Begun, SlotsSound, LocksHeld, MetaSteps, RWSteps, ReaderSteps, WriterSteps, CloserSteps
<1>7. TxsSound'
  <2>1. \A r \in Readers : pc'[r] = pc[r]
    BY TxLocksAssumption DEF Procs
  <2>2. committed' \in Nat /\ committed <= committed'
    BY DEF TypeOK
  <2> QED
    BY <2>1, <2>2, TxsKept
<1>8. MapSound'
  BY SMTT(30) DEF MapSound, ReaderSteps, WriterSteps, CloserSteps
<1>9. (released <= committed)'
  BY SMTT(30) DEF SlotsSound, Begun
<1>10. ReleaseSparesReaders'
  BY SMTT(30) DEF ReleaseSparesReaders, Snapshots
<1>11. SnapshotFresh'
  BY SMTT(30) DEF SnapshotFresh
<1> QED
  BY <1>1, <1>2, <1>3, <1>4, <1>5, <1>6, <1>7, <1>8, <1>9, <1>10, <1>11

LEMMA BeginRWNotOpenStep ==
    ASSUME IInv, NEW w \in Writers, BeginRWNotOpen(w)
    PROVE  IInv'
<1> USE TxLocksAssumption DEF IInv, TypeOK, Procs, BeginRWNotOpen, Goto, locks, reading, writing, RLock, RUnlock, RLockable
<1>1. TypeOK'
  BY SMTT(30) DEF ReaderSteps, WriterSteps, CloserSteps, LocksHeld, ReadLocked, Copied, NewerSlot
<1>2. LocksHeld'
  BY SMTT(30) DEF LocksHeld, MetaSteps, RWSteps, ReaderSteps, WriterSteps, CloserSteps
<1>3. ReadLocked'
  BY SMTT(30) DEF ReadLocked, LocksHeld, ReaderSteps, WriterSteps, CloserSteps
<1>4. DepthKept'
  BY SMTT(30) DEF DepthKept, ReaderSteps, WriterSteps, CloserSteps
<1>5. SlotsSound'
  BY SMTT(30) DEF NewerSlot, SlotsSound, Begun, LocksHeld, MetaSteps, RWSteps, ReaderSteps, WriterSteps, CloserSteps
<1>6. PickSound'
  BY SMTT(30) DEF PickSound, OneCommitAgo, Begun, SlotsSound, LocksHeld, MetaSteps, RWSteps, ReaderSteps, WriterSteps, CloserSteps
<1>7. TxsSound'
  <2>1. \A r \in Readers : pc'[r] = pc[r]
    BY TxLocksAssumption DEF Procs
  <2>2. committed' \in Nat /\ committed <= committed'
    BY DEF TypeOK
  <2> QED
    BY <2>1, <2>2, TxsKept
<1>8. MapSound'
  BY SMTT(30) DEF MapSound, ReaderSteps, WriterSteps, CloserSteps
<1>9. (released <= committed)'
  BY SMTT(30) DEF SlotsSound, Begun
<1>10. ReleaseSparesReaders'
  BY SMTT(30) DEF ReleaseSparesReaders, Snapshots
<1>11. SnapshotFresh'
  BY SMTT(30) DEF SnapshotFresh
<1> QED
  BY <1>1, <1>2, <1>3, <1>4, <1>5, <1>6, <1>7, <1>8, <1>9, <1>10, <1>11

LEMMA InitRWTxStep ==
    ASSUME IInv, NEW w \in Writers, InitRWTx(w)
    PROVE  IInv'
<1> USE TxLocksAssumption DEF IInv, TypeOK, Procs, InitRWTx, Goto, locks, reading, writing, RLock, RUnlock, RLockable
<1>0. MetaSlot(committed) \in {0, 1} /\ MetaSlot(committed + 1) = 1 - MetaSlot(committed)
  BY SlotsTakeTurns
<1>a. \A v \in Writers : v # w => pc[v] \notin RWSteps
  BY OneWriter DEF RWSteps
<1>b. \A v \in Writers : pc[v] \notin {"writing", "written"}
  BY <1>a DEF RWSteps
<1>c. /\ Current = committed
      /\ ReleaseBound \in 0 .. committed
      /\ \A t \in txs : ReleaseBound < t.txid
  BY <1>b, BoundSound
<1>d. \A x \in Readers : pc[x] # "register"
  BY OneMetaHolder DEF MetaSteps
<1>1. TypeOK'
  BY <1>c, SMTT(30) DEF ReaderSteps, WriterSteps, CloserSteps, LocksHeld, ReadLocked, Copied, NewerSlot
<1>2. LocksHeld'
  BY <1>a, SMTT(30) DEF LocksHeld, MetaSteps, RWSteps, ReaderSteps, WriterSteps, CloserSteps
<1>3. ReadLocked'
  BY SMTT(30) DEF ReadLocked, LocksHeld, ReaderSteps, WriterSteps, CloserSteps
<1>4. DepthKept'
  BY SMTT(30) DEF DepthKept, ReaderSteps, WriterSteps, CloserSteps
<1>5. SlotsSound'
  BY <1>0, <1>a, <1>c, SMTT(30) DEF NewerSlot, SlotsSound, Begun, LocksHeld, MetaSteps, RWSteps, ReaderSteps, WriterSteps, CloserSteps
<1>6. PickSound'
  BY <1>0, <1>a, <1>c, SMTT(30) DEF PickSound, OneCommitAgo, Begun, SlotsSound, LocksHeld, MetaSteps, RWSteps, ReaderSteps, WriterSteps, CloserSteps
<1>7. TxsSound'
  <2>1. \A r \in Readers : pc'[r] = pc[r]
    BY TxLocksAssumption DEF Procs
  <2>2. committed' \in Nat /\ committed <= committed'
    BY DEF TypeOK
  <2> QED
    BY <2>1, <2>2, TxsKept
<1>8. MapSound'
  BY <1>a, SMTT(30) DEF MapSound, ReaderSteps, WriterSteps, CloserSteps
<1>9. (released <= committed)'
  BY <1>c, SMTT(30) DEF SlotsSound, Begun
<1>10. ReleaseSparesReaders'
  <2> SUFFICES ASSUME NEW x \in Readers, NEW i \in 1 .. Len(held'[x])
               PROVE  released' <= held'[x][i]
    BY SparesEach
  <2>1. Listed(x, i)
    BY <1>d DEF TxsSound
  <2>2. ReleaseBound < held[x][i]
    BY <1>c, <2>1 DEF Listed
  <2>3. released <= held[x][i]
    <3>1. held[x][i] \in Snapshots(x)
      BY DEF Snapshots
    <3> QED
      BY <3>1 DEF ReleaseSparesReaders
  <2> QED
    BY <1>c, <2>2, <2>3
<1>11. SnapshotFresh'
  BY <1>0, SMTT(30) DEF SnapshotFresh
<1> QED
  BY <1>1, <1>2, <1>3, <1>4, <1>5, <1>6, <1>7, <1>8, <1>9, <1>10, <1>11

LEMMA CallMmapStep ==
    ASSUME IInv, NEW w \in Writers, CallMmap(w)
    PROVE  IInv'
<1> USE TxLocksAssumption DEF IInv, TypeOK, Procs, CallMmap, Goto, locks, reading, writing, RLock, RUnlock, RLockable
<1>a. \A v \in Writers : v # w => pc[v] \notin RWSteps
  BY OneWriter DEF RWSteps
<1>1. TypeOK'
  BY SMTT(30) DEF ReaderSteps, WriterSteps, CloserSteps, LocksHeld, ReadLocked, Copied, NewerSlot
<1>2. LocksHeld'
  <2> SUFFICES ASSUME NEW g \in Procs
               PROVE  /\ metalock' = g <=> pc'[g] \in MetaSteps
                      /\ rwlock' = g <=> g \notin Readers /\ pc'[g] \in RWSteps
                      /\ mmapwait' = g <=> pc'[g] = "lockmmap"
                      /\ mmapwriter' = g <=> pc'[g] \in {"unmap", "map"}
    BY DEF LocksHeld
  <2>1. CASE g = w
    BY <2>1 DEF LocksHeld, MetaSteps, RWSteps
  <2>2. CASE g # w
    <3>1. pc[g] # "lockmmap"
      BY <1>a, <2>2 DEF ReaderSteps, CloserSteps, RWSteps
    <3> QED
      BY <2>2, <3>1 DEF LocksHeld
  <2> QED
    BY <2>1, <2>2
<1>3. ReadLocked'
  BY SMTT(30) DEF ReadLocked, LocksHeld, ReaderSteps, WriterSteps, CloserSteps
<1>4. DepthKept'
  BY SMTT(30) DEF DepthKept, ReaderSteps, WriterSteps, CloserSteps
<1>5. SlotsSound'
  BY <1>a, SMTT(30) DEF NewerSlot, SlotsSound, Begun, LocksHeld, MetaSteps, RWSteps, ReaderSteps, WriterSteps, CloserSteps
<1>6. PickSound'
  BY <1>a, SMTT(30) DEF PickSound, OneCommitAgo, Begun, SlotsSound, LocksHeld, MetaSteps, RWSteps, ReaderSteps, WriterSteps, CloserSteps
<1>7. TxsSound'
  <2>1. \A r \in Readers : pc'[r] = pc[r]
    BY TxLocksAssumption DEF Procs
  <2>2. committed' \in Nat /\ committed <= committed'
    BY DEF TypeOK
  <2> QED
    BY <2>1, <2>2, TxsKept
<1>8. MapSound'
  BY <1>a, SMTT(30) DEF MapSound, ReaderSteps, WriterSteps, CloserSteps
<1>9. (released <= committed)'
  BY SMTT(30) DEF SlotsSound, Begun
<1>10. ReleaseSparesReaders'
  BY SMTT(30) DEF ReleaseSparesReaders, Snapshots
<1>11. SnapshotFresh'
  BY SMTT(30) DEF SnapshotFresh
<1> QED
  BY <1>1, <1>2, <1>3, <1>4, <1>5, <1>6, <1>7, <1>8, <1>9, <1>10, <1>11

LEMMA MmapLockStep ==
    ASSUME IInv, NEW w \in Writers, MmapLock(w)
    PROVE  IInv'
<1> USE TxLocksAssumption DEF IInv, TypeOK, Procs, MmapLock, Goto, locks, reading, writing, RLock, RUnlock, RLockable
<1>a. \A v \in Writers : v # w => pc[v] \notin RWSteps
  BY OneWriter DEF RWSteps
<1>1. TypeOK'
  BY SMTT(30) DEF ReaderSteps, WriterSteps, CloserSteps, LocksHeld, ReadLocked, Copied, NewerSlot
<1>2. LocksHeld'
  BY <1>a, SMTT(30) DEF LocksHeld, MetaSteps, RWSteps, ReaderSteps, WriterSteps, CloserSteps
<1>3. ReadLocked'
  BY SMTT(30) DEF ReadLocked, LocksHeld, ReaderSteps, WriterSteps, CloserSteps
<1>4. DepthKept'
  BY SMTT(30) DEF DepthKept, ReaderSteps, WriterSteps, CloserSteps
<1>5. SlotsSound'
  BY <1>a, SMTT(30) DEF NewerSlot, SlotsSound, Begun, LocksHeld, MetaSteps, RWSteps, ReaderSteps, WriterSteps, CloserSteps
<1>6. PickSound'
  BY <1>a, SMTT(30) DEF PickSound, OneCommitAgo, Begun, SlotsSound, LocksHeld, MetaSteps, RWSteps, ReaderSteps, WriterSteps, CloserSteps
<1>7. TxsSound'
  <2>1. \A r \in Readers : pc'[r] = pc[r]
    BY TxLocksAssumption DEF Procs
  <2>2. committed' \in Nat /\ committed <= committed'
    BY DEF TypeOK
  <2> QED
    BY <2>1, <2>2, TxsKept
<1>8. MapSound'
  BY <1>a, SMTT(30) DEF MapSound, ReaderSteps, WriterSteps, CloserSteps
<1>9. (released <= committed)'
  BY SMTT(30) DEF SlotsSound, Begun
<1>10. ReleaseSparesReaders'
  BY SMTT(30) DEF ReleaseSparesReaders, Snapshots
<1>11. SnapshotFresh'
  BY SMTT(30) DEF SnapshotFresh
<1> QED
  BY <1>1, <1>2, <1>3, <1>4, <1>5, <1>6, <1>7, <1>8, <1>9, <1>10, <1>11

LEMMA UnmapStep ==
    ASSUME IInv, NEW w \in Writers, Unmap(w)
    PROVE  IInv'
<1> USE TxLocksAssumption DEF IInv, TypeOK, Procs, Unmap, Goto, locks, reading, writing, RLock, RUnlock, RLockable
<1>a. \A v \in Writers : v # w => pc[v] \notin RWSteps
  BY OneWriter DEF RWSteps
<1>1. TypeOK'
  BY SMTT(30) DEF ReaderSteps, WriterSteps, CloserSteps, LocksHeld, ReadLocked, Copied, NewerSlot
<1>2. LocksHeld'
  BY <1>a, SMTT(30) DEF LocksHeld, MetaSteps, RWSteps, ReaderSteps, WriterSteps, CloserSteps
<1>3. ReadLocked'
  BY SMTT(30) DEF ReadLocked, LocksHeld, ReaderSteps, WriterSteps, CloserSteps
<1>4. DepthKept'
  BY SMTT(30) DEF DepthKept, ReaderSteps, WriterSteps, CloserSteps
<1>5. SlotsSound'
  BY <1>a, SMTT(30) DEF NewerSlot, SlotsSound, Begun, LocksHeld, MetaSteps, RWSteps, ReaderSteps, WriterSteps, CloserSteps
<1>6. PickSound'
  BY <1>a, SMTT(30) DEF PickSound, OneCommitAgo, Begun, SlotsSound, LocksHeld, MetaSteps, RWSteps, ReaderSteps, WriterSteps, CloserSteps
<1>7. TxsSound'
  <2>1. \A r \in Readers : pc'[r] = pc[r]
    BY TxLocksAssumption DEF Procs
  <2>2. committed' \in Nat /\ committed <= committed'
    BY DEF TypeOK
  <2> QED
    BY <2>1, <2>2, TxsKept
<1>8. MapSound'
  BY <1>a, SMTT(30) DEF MapSound, ReaderSteps, WriterSteps, CloserSteps
<1>9. (released <= committed)'
  BY SMTT(30) DEF SlotsSound, Begun
<1>10. ReleaseSparesReaders'
  BY SMTT(30) DEF ReleaseSparesReaders, Snapshots
<1>11. SnapshotFresh'
  BY SMTT(30) DEF SnapshotFresh
<1> QED
  BY <1>1, <1>2, <1>3, <1>4, <1>5, <1>6, <1>7, <1>8, <1>9, <1>10, <1>11

LEMMA MapStep ==
    ASSUME IInv, NEW w \in Writers, Map(w)
    PROVE  IInv'
<1> USE TxLocksAssumption DEF IInv, TypeOK, Procs, Map, Goto, locks, reading, writing, RLock, RUnlock, RLockable
<1>a. \A v \in Writers : v # w => pc[v] \notin RWSteps
  BY OneWriter DEF RWSteps
<1>1. TypeOK'
  BY SMTT(30) DEF ReaderSteps, WriterSteps, CloserSteps, LocksHeld, ReadLocked, Copied, NewerSlot
<1>2. LocksHeld'
  BY <1>a, SMTT(30) DEF LocksHeld, MetaSteps, RWSteps, ReaderSteps, WriterSteps, CloserSteps
<1>3. ReadLocked'
  BY SMTT(30) DEF ReadLocked, LocksHeld, ReaderSteps, WriterSteps, CloserSteps
<1>4. DepthKept'
  BY SMTT(30) DEF DepthKept, ReaderSteps, WriterSteps, CloserSteps
<1>5. SlotsSound'
  BY <1>a, SMTT(30) DEF NewerSlot, SlotsSound, Begun, LocksHeld, MetaSteps, RWSteps, ReaderSteps, WriterSteps, CloserSteps
<1>6. PickSound'
  BY <1>a, SMTT(30) DEF PickSound, OneCommitAgo, Begun, SlotsSound, LocksHeld, MetaSteps, RWSteps, ReaderSteps, WriterSteps, CloserSteps
<1>7. TxsSound'
  <2>1. \A r \in Readers : pc'[r] = pc[r]
    BY TxLocksAssumption DEF Procs
  <2>2. committed' \in Nat /\ committed <= committed'
    BY DEF TypeOK
  <2> QED
    BY <2>1, <2>2, TxsKept
<1>8. MapSound'
  BY <1>a, SMTT(30) DEF MapSound, ReaderSteps, WriterSteps, CloserSteps
<1>9. (released <= committed)'
  BY SMTT(30) DEF SlotsSound, Begun
<1>10. ReleaseSparesReaders'
  BY SMTT(30) DEF ReleaseSparesReaders, Snapshots
<1>11. SnapshotFresh'
  BY SMTT(30) DEF SnapshotFresh
<1> QED
  BY <1>1, <1>2, <1>3, <1>4, <1>5, <1>6, <1>7, <1>8, <1>9, <1>10, <1>11

LEMMA RollbackRWStep ==
    ASSUME IInv, NEW w \in Writers, RollbackRW(w)
    PROVE  IInv'
<1> USE TxLocksAssumption DEF IInv, TypeOK, Procs, RollbackRW, Goto, locks, reading, writing, RLock, RUnlock, RLockable
<1>a. \A v \in Writers : v # w => pc[v] \notin RWSteps
  BY OneWriter DEF RWSteps
<1>b. pc[w] \in {"work", "grown"} /\ pc' = [pc EXCEPT ![w] = "idle"]
  OBVIOUS
<1>c. /\ rwlock' = Free
      /\ wtxid' = 0
      /\ UNCHANGED <<metalock, mmapwait, mmapwriter, mmapreaders, opened,
                     mapping, slot, reading, released, committed>>
  OBVIOUS
<1> HIDE DEF RollbackRW
<1>1. TypeOK'
  BY <1>b, <1>c, SMTT(30) DEF ReaderSteps, WriterSteps, CloserSteps, LocksHeld, ReadLocked, Copied, NewerSlot
<1>2. LocksHeld'
  BY <1>a, <1>b, <1>c, SMTT(30) DEF LocksHeld, MetaSteps, RWSteps, ReaderSteps, WriterSteps, CloserSteps
<1>3. ReadLocked'
  BY <1>b, <1>c, SMTT(30) DEF ReadLocked, LocksHeld, ReaderSteps, WriterSteps, CloserSteps
<1>4. DepthKept'
  BY <1>b, <1>c, SMTT(30) DEF DepthKept, ReaderSteps, WriterSteps, CloserSteps
<1>5. SlotsSound'
  BY <1>a, <1>b, <1>c, SMTT(30) DEF NewerSlot, SlotsSound, Begun, LocksHeld, MetaSteps, RWSteps, ReaderSteps, WriterSteps, CloserSteps
<1>6. PickSound'
  BY <1>a, <1>b, <1>c, SMTT(30) DEF PickSound, OneCommitAgo, Begun, SlotsSound, LocksHeld, MetaSteps, RWSteps, ReaderSteps, WriterSteps, CloserSteps
<1>7. TxsSound'
  <2>1. \A r \in Readers : pc'[r] = pc[r]
    BY <1>b, <1>c, TxLocksAssumption DEF Procs
  <2>2. committed' \in Nat /\ committed <= committed'
    BY <1>b, <1>c DEF TypeOK
  <2> QED
    BY <1>b, <1>c, <2>1, <2>2, TxsKept
<1>8. MapSound'
  BY <1>a, <1>b, <1>c, SMTT(30) DEF MapSound, ReaderSteps, WriterSteps, CloserSteps
<1>9. (released <= committed)'
  BY <1>b, <1>c, SMTT(30) DEF SlotsSound, Begun
<1>10. ReleaseSparesReaders'
  BY <1>b, <1>c, SMTT(30) DEF ReleaseSparesReaders, Snapshots
<1>11. SnapshotFresh'
  BY <1>b, <1>c, SMTT(30) DEF SnapshotFresh
<1> QED
  BY <1>1, <1>2, <1>3, <1>4, <1>5, <1>6, <1>7, <1>8, <1>9, <1>10, <1>11

LEMMA WriteMetaBeginsStep ==
    ASSUME IInv, NEW w \in Writers, WriteMetaBegins(w)
    PROVE  IInv'
<1> USE TxLocksAssumption DEF IInv, TypeOK, Procs, WriteMetaBegins, Goto, locks, reading, writing, RLock, RUnlock, RLockable
<1>0. MetaSlot(committed) \in {0, 1} /\ MetaSlot(committed + 1) = 1 - MetaSlot(committed)
  BY SlotsTakeTurns
<1>a. \A v \in Writers : v # w => pc[v] \notin RWSteps
  BY OneWriter DEF RWSteps
<1>b. /\ wtxid < MaxTxid
      /\ pc[w] \in {"work", "grown"} /\ pc' = [pc EXCEPT ![w] = "writing"]
      /\ UNCHANGED <<locks, opened, mapping, reading, writing>>
  OBVIOUS
<1>c. /\ wtxid = committed + 1
      /\ slot[MetaSlot(committed)] = [txid |-> committed, ok |-> TRUE]
      /\ slot[1 - MetaSlot(committed)] = [txid |-> committed - 1, ok |-> TRUE]
  BY <1>a, <1>b DEF SlotsSound, Begun, RWSteps
<1>d. PICK id \in {committed - 1, committed + 1} :
        slot' = [slot EXCEPT ![1 - MetaSlot(committed)] = [txid |-> id, ok |-> FALSE]]
  <2>1. MetaSlot(wtxid) = 1 - MetaSlot(committed)
    BY <1>0, <1>c
  <2>2. slot[MetaSlot(wtxid)].txid = committed - 1
    BY <1>c, <2>1
  <2>3. PICK id \in {slot[MetaSlot(wtxid)].txid, wtxid} :
          slot' = [slot EXCEPT ![MetaSlot(wtxid)] = [txid |-> id, ok |-> FALSE]]
    BY Zenon
  <2>4. id \in {committed - 1, committed + 1}
    BY <1>c, <2>2, <2>3
  <2> QED
    BY <2>1, <2>3, <2>4
<1> HIDE DEF WriteMetaBegins
<1>1. TypeOK'
  BY <1>0, <1>b, <1>c, <1>d, SMTT(30) DEF ReaderSteps, WriterSteps, CloserSteps, LocksHeld, ReadLocked, Copied, NewerSlot
<1>2. LocksHeld'
  BY <1>a, <1>b, <1>c, SMTT(30) DEF LocksHeld, MetaSteps, RWSteps, ReaderSteps, WriterSteps, CloserSteps
<1>3. ReadLocked'
  BY <1>b, <1>c, SMTT(30) DEF ReadLocked, LocksHeld, ReaderSteps, WriterSteps, CloserSteps
<1>4. DepthKept'
  BY <1>b, <1>c, SMTT(30) DEF DepthKept, ReaderSteps, WriterSteps, CloserSteps
<1>5. SlotsSound'
  BY <1>0, <1>a, <1>b, <1>c, <1>d, SMTT(30) DEF NewerSlot, SlotsSound, Begun, LocksHeld, MetaSteps, RWSteps, ReaderSteps, WriterSteps, CloserSteps
<1>6. PickSound'
  BY <1>0, <1>a, <1>b, <1>c, <1>d, SMTT(30) DEF PickSound, OneCommitAgo, Begun, SlotsSound, LocksHeld, MetaSteps, RWSteps, ReaderSteps, WriterSteps, CloserSteps
<1>7. TxsSound'
  <2>1. \A r \in Readers : pc'[r] = pc[r]
    BY <1>b, <1>c, TxLocksAssumption DEF Procs
  <2>2. committed' \in Nat /\ committed <= committed'
    BY <1>b, <1>c DEF TypeOK
  <2> QED
    BY <1>b, <1>c, <2>1, <2>2, TxsKept
<1>8. MapSound'
  BY <1>a, <1>b, <1>c, SMTT(30) DEF MapSound, ReaderSteps, WriterSteps, CloserSteps
<1>9. (released <= committed)'
  BY <1>0, <1>b, <1>c, SMTT(30) DEF SlotsSound, Begun
<1>10. ReleaseSparesReaders'
  BY <1>0, <1>b, <1>c, SMTT(30) DEF ReleaseSparesReaders, Snapshots
<1>11. SnapshotFresh'
  BY <1>0, <1>b, <1>c, SMTT(30) DEF SnapshotFresh
<1> QED
  BY <1>1, <1>2, <1>3, <1>4, <1>5, <1>6, <1>7, <1>8, <1>9, <1>10, <1>11

LEMMA WriteMetaEndsStep ==
    ASSUME IInv, NEW w \in Writers, WriteMetaEnds(w)
    PROVE  IInv'
<1> USE TxLocksAssumption DEF IInv, TypeOK, Procs, WriteMetaEnds, Goto, locks, reading, writing, RLock, RUnlock, RLockable
<1>0. MetaSlot(committed) \in {0, 1} /\ MetaSlot(committed + 1) = 1 - MetaSlot(committed)
  BY SlotsTakeTurns
<1>a. \A v \in Writers : v # w => pc[v] \notin RWSteps
  BY OneWriter DEF RWSteps
<1>b. /\ pc[w] = "writing" /\ pc' = [pc EXCEPT ![w] = "written"]
      /\ UNCHANGED <<locks, opened, mapping, reading, writing>>
  OBVIOUS
<1>c. /\ wtxid = committed + 1
      /\ wtxid < MaxTxid
      /\ slot[MetaSlot(committed)] = [txid |-> committed, ok |-> TRUE]
  BY <1>b DEF SlotsSound, Begun
<1>d. slot' = [slot EXCEPT ![1 - MetaSlot(committed)] = [txid |-> committed + 1, ok |-> TRUE]]
  BY <1>0, <1>c
<1> HIDE DEF WriteMetaEnds
<1>1. TypeOK'
  BY <1>0, <1>b, <1>c, <1>d, SMTT(30) DEF ReaderSteps, WriterSteps, CloserSteps, LocksHeld, ReadLocked, Copied, NewerSlot
<1>2. LocksHeld'
  BY <1>a, <1>b, <1>c, SMTT(30) DEF LocksHeld, MetaSteps, RWSteps, ReaderSteps, WriterSteps, CloserSteps
<1>3. ReadLocked'
  BY <1>b, <1>c, SMTT(30) DEF ReadLocked, LocksHeld, ReaderSteps, WriterSteps, CloserSteps
<1>4. DepthKept'
  BY <1>b, <1>c, SMTT(30) DEF DepthKept, ReaderSteps, WriterSteps, CloserSteps
<1>5. SlotsSound'
  BY <1>0, <1>a, <1>b, <1>c, <1>d, SMTT(30) DEF NewerSlot, SlotsSound, Begun, LocksHeld, MetaSteps, RWSteps, ReaderSteps, WriterSteps, CloserSteps
<1>6. PickSound'
  BY <1>0, <1>a, <1>b, <1>c, <1>d, SMTT(30) DEF PickSound, OneCommitAgo, Begun, SlotsSound, LocksHeld, MetaSteps, RWSteps, ReaderSteps, WriterSteps, CloserSteps
<1>7. TxsSound'
  <2>1. \A r \in Readers : pc'[r] = pc[r]
    BY <1>b, <1>c, TxLocksAssumption DEF Procs
  <2>2. committed' \in Nat /\ committed <= committed'
    BY <1>b, <1>c DEF TypeOK
  <2> QED
    BY <1>b, <1>c, <2>1, <2>2, TxsKept
<1>8. MapSound'
  BY <1>a, <1>b, <1>c, SMTT(30) DEF MapSound, ReaderSteps, WriterSteps, CloserSteps
<1>9. (released <= committed)'
  BY <1>0, <1>b, <1>c, SMTT(30) DEF SlotsSound, Begun
<1>10. ReleaseSparesReaders'
  BY <1>0, <1>b, <1>c, SMTT(30) DEF ReleaseSparesReaders, Snapshots
<1>11. SnapshotFresh'
  BY <1>0, <1>b, <1>c, SMTT(30) DEF SnapshotFresh
<1> QED
  BY <1>1, <1>2, <1>3, <1>4, <1>5, <1>6, <1>7, <1>8, <1>9, <1>10, <1>11

LEMMA CommitReturnsStep ==
    ASSUME IInv, NEW w \in Writers, CommitReturns(w)
    PROVE  IInv'
<1> USE TxLocksAssumption DEF IInv, TypeOK, Procs, CommitReturns, Goto, locks, reading, writing, RLock, RUnlock, RLockable
<1>0. MetaSlot(committed) \in {0, 1} /\ MetaSlot(committed + 1) = 1 - MetaSlot(committed)
  BY SlotsTakeTurns
<1>a. \A v \in Writers : v # w => pc[v] \notin RWSteps
  BY OneWriter DEF RWSteps
<1>1. TypeOK'
  BY <1>0, SMTT(30) DEF ReaderSteps, WriterSteps, CloserSteps, LocksHeld, ReadLocked, Copied, NewerSlot
<1>2. LocksHeld'
  BY <1>a, SMTT(30) DEF LocksHeld, MetaSteps, RWSteps, ReaderSteps, WriterSteps, CloserSteps
<1>3. ReadLocked'
  BY SMTT(30) DEF ReadLocked, LocksHeld, ReaderSteps, WriterSteps, CloserSteps
<1>4. DepthKept'
  BY SMTT(30) DEF DepthKept, ReaderSteps, WriterSteps, CloserSteps
<1>5. SlotsSound'
  <2>1. /\ wtxid = committed + 1
        /\ wtxid < MaxTxid
        /\ slot[MetaSlot(committed)] = [txid |-> committed, ok |-> TRUE]
        /\ slot[1 - MetaSlot(committed)] = [txid |-> committed + 1, ok |-> TRUE]
    BY DEF SlotsSound, Begun
  <2>2. \A v \in Writers : ~Begun(v)'
    BY <1>a DEF Begun, RWSteps
  <2>3. committed' = committed + 1 /\ slot' = slot
    BY <2>1
  <2>4. MetaSlot(committed') = 1 - MetaSlot(committed)
    BY <1>0, <2>3
  <2>5. committed' \in 1 .. MaxTxid
    BY <2>1, <2>3 DEF SlotsSound
  <2>6. /\ slot'[MetaSlot(committed')] = [txid |-> committed', ok |-> TRUE]
        /\ slot'[1 - MetaSlot(committed')] = [txid |-> committed' - 1, ok |-> TRUE]
    BY <1>0, <2>1, <2>3, <2>4
  <2> QED
    BY <2>2, <2>5, <2>6 DEF SlotsSound, Begun
<1>6. PickSound'
  BY <1>0, <1>a, SMTT(30) DEF PickSound, OneCommitAgo, Begun, SlotsSound, LocksHeld, MetaSteps, RWSteps, ReaderSteps, WriterSteps, CloserSteps
<1>7. TxsSound'
  <2>1. \A r \in Readers : pc'[r] = pc[r]
    BY TxLocksAssumption DEF Procs
  <2>2. committed' \in Nat /\ committed <= committed'
    BY DEF TypeOK, SlotsSound, Begun
  <2> QED
    BY <2>1, <2>2, TxsKept
<1>8. MapSound'
  BY <1>a, SMTT(30) DEF MapSound, ReaderSteps, WriterSteps, CloserSteps
<1>9. (released <= committed)'
  BY <1>0, SMTT(30) DEF SlotsSound, Begun
<1>10. ReleaseSparesReaders'
  BY <1>0, SMTT(30) DEF ReleaseSparesReaders, Snapshots
<1>11. SnapshotFresh'
  BY <1>0, SMTT(30) DEF SnapshotFresh
<1> QED
  BY <1>1, <1>2, <1>3, <1>4, <1>5, <1>6, <1>7, <1>8, <1>9, <1>10, <1>11

LEMMA CallCloseStep ==
    ASSUME IInv, NEW c \in Closers, CallClose(c)
    PROVE  IInv'
<1> USE TxLocksAssumption DEF IInv, TypeOK, Procs, CallClose, Goto, locks, reading, writing, RLock, RUnlock, RLockable
<1>1. TypeOK'
  BY SMTT(30) DEF ReaderSteps, WriterSteps, CloserSteps, LocksHeld, ReadLocked, Copied, NewerSlot
<1>2. LocksHeld'
  <2> SUFFICES ASSUME NEW g \in Procs
               PROVE  /\ metalock' = g <=> pc'[g] \in MetaSteps
                      /\ rwlock' = g <=> g \notin Readers /\ pc'[g] \in RWSteps
                      /\ mmapwait' = g <=> pc'[g] = "lockmmap"
                      /\ mmapwriter' = g <=> pc'[g] \in {"unmap", "map"}
    BY DEF LocksHeld
  <2>1. CASE g = c
    BY <2>1 DEF LocksHeld, MetaSteps, RWSteps
  <2>2. CASE g # c
    BY <2>2 DEF LocksHeld
  <2> QED
    BY <2>1, <2>2
<1>3. ReadLocked'
  BY SMTT(30) DEF ReadLocked, LocksHeld, ReaderSteps, WriterSteps, CloserSteps
<1>4. DepthKept'
  BY SMTT(30) DEF DepthKept, ReaderSteps, WriterSteps, CloserSteps
<1>5. SlotsSound'
  <2>1. \A w \in Writers : pc'[w] = pc[w]
    OBVIOUS
  <2> QED
    BY <2>1, SlotsKept DEF Begun
<1>6. PickSound'
  BY SMTT(30) DEF PickSound, OneCommitAgo, Begun, SlotsSound, LocksHeld, MetaSteps, RWSteps, ReaderSteps, WriterSteps, CloserSteps
<1>7. TxsSound'
  <2>1. \A r \in Readers : pc'[r] = pc[r]
    BY TxLocksAssumption DEF Procs
  <2>2. committed' \in Nat /\ committed <= committed'
    BY DEF TypeOK
  <2> QED
    BY <2>1, <2>2, TxsKept
<1>8. MapSound'
  BY SMTT(30) DEF MapSound, ReaderSteps, WriterSteps, CloserSteps
<1>9. (released <= committed)'
  BY SMTT(30) DEF SlotsSound, Begun
<1>10. ReleaseSparesReaders'
  BY SMTT(30) DEF ReleaseSparesReaders, Snapshots
<1>11. SnapshotFresh'
  BY SMTT(30) DEF SnapshotFresh
<1> QED
  BY <1>1, <1>2, <1>3, <1>4, <1>5, <1>6, <1>7, <1>8, <1>9, <1>10, <1>11

LEMMA CloseRWLockStep ==
    ASSUME IInv, NEW c \in Closers, CloseRWLock(c)
    PROVE  IInv'
<1> USE TxLocksAssumption DEF IInv, TypeOK, Procs, CloseRWLock, Goto, locks, reading, writing, RLock, RUnlock, RLockable
<1>1. TypeOK'
  BY SMTT(30) DEF ReaderSteps, WriterSteps, CloserSteps, LocksHeld, ReadLocked, Copied, NewerSlot
<1>2. LocksHeld'
  BY SMTT(30) DEF LocksHeld, MetaSteps, RWSteps, ReaderSteps, WriterSteps, CloserSteps
<1>3. ReadLocked'
  BY SMTT(30) DEF ReadLocked, LocksHeld, ReaderSteps, WriterSteps, CloserSteps
<1>4. DepthKept'
  BY SMTT(30) DEF DepthKept, ReaderSteps, WriterSteps, CloserSteps
<1>5. SlotsSound'
  <2>1. \A w \in Writers : pc'[w] = pc[w]
    OBVIOUS
  <2> QED
    BY <2>1, SlotsKept DEF Begun
<1>6. PickSound'
  BY SMTT(30) DEF PickSound, OneCommitAgo, Begun, SlotsSound, LocksHeld, MetaSteps, RWSteps, ReaderSteps, WriterSteps, CloserSteps
<1>7. TxsSound'
  <2>1. \A r \in Readers : pc'[r] = pc[r]
    BY TxLocksAssumption DEF Procs
  <2>2. committed' \in Nat /\ committed <= committed'
    BY DEF TypeOK
  <2> QED
    BY <2>1, <2>2, TxsKept
<1>8. MapSound'
  BY SMTT(30) DEF MapSound, ReaderSteps, WriterSteps, CloserSteps
<1>9. (released <= committed)'
  BY SMTT(30) DEF SlotsSound, Begun
<1>10. ReleaseSparesReaders'
  BY SMTT(30) DEF ReleaseSparesReaders, Snapshots
<1>11. SnapshotFresh'
  BY SMTT(30) DEF SnapshotFresh
<1> QED
  BY <1>1, <1>2, <1>3, <1>4, <1>5, <1>6, <1>7, <1>8, <1>9, <1>10, <1>11

LEMMA CloseMetaLockStep ==
    ASSUME IInv, NEW c \in Closers, CloseMetaLock(c)
    PROVE  IInv'
<1> USE TxLocksAssumption DEF IInv, TypeOK, Procs, CloseMetaLock, Goto, locks, reading, writing, RLock, RUnlock, RLockable
<1>1. TypeOK'
  BY SMTT(30) DEF ReaderSteps, WriterSteps, CloserSteps, LocksHeld, ReadLocked, Copied, NewerSlot
<1>2. LocksHeld'
  BY SMTT(30) DEF LocksHeld, MetaSteps, RWSteps, ReaderSteps, WriterSteps, CloserSteps
<1>3. ReadLocked'
  BY SMTT(30) DEF ReadLocked, LocksHeld, ReaderSteps, WriterSteps, CloserSteps
<1>4. DepthKept'
  BY SMTT(30) DEF DepthKept, ReaderSteps, WriterSteps, CloserSteps
<1>5. SlotsSound'
  <2>1. \A w \in Writers : pc'[w] = pc[w]
    OBVIOUS
  <2> QED
    BY <2>1, SlotsKept DEF Begun
<1>6. PickSound'
  BY SMTT(30) DEF PickSound, OneCommitAgo, Begun, SlotsSound, LocksHeld, MetaSteps, RWSteps, ReaderSteps, WriterSteps, CloserSteps
<1>7. TxsSound'
  <2>1. \A r \in Readers : pc'[r] = pc[r]
    BY TxLocksAssumption DEF Procs
  <2>2. committed' \in Nat /\ committed <= committed'
    BY DEF TypeOK
  <2> QED
    BY <2>1, <2>2, TxsKept
<1>8. MapSound'
  BY SMTT(30) DEF MapSound, ReaderSteps, WriterSteps, CloserSteps
<1>9. (released <= committed)'
  BY SMTT(30) DEF SlotsSound, Begun
<1>10. ReleaseSparesReaders'
  BY SMTT(30) DEF ReleaseSparesReaders, Snapshots
<1>11. SnapshotFresh'
  BY SMTT(30) DEF SnapshotFresh
<1> QED
  BY <1>1, <1>2, <1>3, <1>4, <1>5, <1>6, <1>7, <1>8, <1>9, <1>10, <1>11

LEMMA CloseRLockStep ==
    ASSUME IInv, NEW c \in Closers, CloseRLock(c)
    PROVE  IInv'
<1> USE TxLocksAssumption DEF IInv, TypeOK, Procs, CloseRLock, Goto, locks, reading, writing, RLock, RUnlock, RLockable
<1>1. TypeOK'
  BY SMTT(30) DEF ReaderSteps, WriterSteps, CloserSteps, LocksHeld, ReadLocked, Copied, NewerSlot
<1>2. LocksHeld'
  BY SMTT(30) DEF LocksHeld, MetaSteps, RWSteps, ReaderSteps, WriterSteps, CloserSteps
<1>3. ReadLocked'
  BY SMTT(30) DEF ReadLocked, LocksHeld, ReaderSteps, WriterSteps, CloserSteps
<1>4. DepthKept'
  BY SMTT(30) DEF DepthKept, ReaderSteps, WriterSteps, CloserSteps
<1>5. SlotsSound'
  <2>1. \A w \in Writers : pc'[w] = pc[w]
    OBVIOUS
  <2> QED
    BY <2>1, SlotsKept DEF Begun
<1>6. PickSound'
  BY SMTT(30) DEF PickSound, OneCommitAgo, Begun, SlotsSound, LocksHeld, MetaSteps, RWSteps, ReaderSteps, WriterSteps, CloserSteps
<1>7. TxsSound'
  <2>1. \A r \in Readers : pc'[r] = pc[r]
    BY TxLocksAssumption DEF Procs
  <2>2. committed' \in Nat /\ committed <= committed'
    BY DEF TypeOK
  <2> QED
    BY <2>1, <2>2, TxsKept
<1>8. MapSound'
  BY SMTT(30) DEF MapSound, ReaderSteps, WriterSteps, CloserSteps
<1>9. (released <= committed)'
  BY SMTT(30) DEF SlotsSound, Begun
<1>10. ReleaseSparesReaders'
  BY SMTT(30) DEF ReleaseSparesReaders, Snapshots
<1>11. SnapshotFresh'
  BY SMTT(30) DEF SnapshotFresh
<1> QED
  BY <1>1, <1>2, <1>3, <1>4, <1>5, <1>6, <1>7, <1>8, <1>9, <1>10, <1>11

LEMMA CloseUnmapsStep ==
    ASSUME IInv, NEW c \in Closers, CloseUnmaps(c)
    PROVE  IInv'
<1> USE TxLocksAssumption DEF IInv, TypeOK, Procs, CloseUnmaps, Goto, locks, reading, writing, RLock, RUnlock, RLockable
<1>a. \A w \in Writers : pc[w] \notin RWSteps
  BY OneWriter DEF RWSteps
<1>1. TypeOK'
  <2>1. opened' \in BOOLEAN /\ mapping' \in {0, 1}
    OBVIOUS
  <2>2. /\ pc' \in [Procs -> ReaderSteps \cup WriterSteps \cup CloserSteps]
        /\ \A r \in Readers : pc'[r] \in ReaderSteps
        /\ \A w \in Writers : pc'[w] \in WriterSteps
        /\ \A x \in Closers : pc'[x] \in CloserSteps
    BY DEF CloserSteps
  <2> QED
    BY <2>1, <2>2
<1>2. LocksHeld'
  BY SMTT(30) DEF LocksHeld, MetaSteps, RWSteps, ReaderSteps, WriterSteps, CloserSteps
<1>3. ReadLocked'
  BY SMTT(30) DEF ReadLocked, LocksHeld, ReaderSteps, WriterSteps, CloserSteps
<1>4. DepthKept'
  BY SMTT(30) DEF DepthKept, ReaderSteps, WriterSteps, CloserSteps
<1>5. SlotsSound'
  <2>1. \A w \in Writers : pc'[w] = pc[w]
    OBVIOUS
  <2> QED
    BY <1>a, <2>1 DEF SlotsSound, Begun, RWSteps
<1>6. PickSound'
  BY OneMetaHolder, SMTT(30) DEF PickSound, OneCommitAgo, Begun, SlotsSound, LocksHeld, MetaSteps, RWSteps, ReaderSteps, WriterSteps, CloserSteps
<1>7. TxsSound'
  <2>1. \A r \in Readers : pc'[r] = pc[r]
    BY TxLocksAssumption DEF Procs
  <2>2. committed' \in Nat /\ committed <= committed'
    BY DEF TypeOK
  <2> QED
    BY <2>1, <2>2, TxsKept
<1>8. MapSound'
  BY SMTT(30) DEF MapSound, ReaderSteps, WriterSteps, CloserSteps
<1>9. (released <= committed)'
  BY SMTT(30) DEF SlotsSound, Begun
<1>10. ReleaseSparesReaders'
  BY SMTT(30) DEF ReleaseSparesReaders, Snapshots
<1>11. SnapshotFresh'
  BY SMTT(30) DEF SnapshotFresh
<1> QED
  BY <1>1, <1>2, <1>3, <1>4, <1>5, <1>6, <1>7, <1>8, <1>9, <1>10, <1>11

LEMMA CloseReturnsStep ==
    ASSUME IInv, NEW c \in Closers, CloseReturns(c)
    PROVE  IInv'
<1> USE TxLocksAssumption DEF IInv, TypeOK, Procs, CloseReturns, Goto, locks, reading, writing, RLock, RUnlock, RLockable
<1>1. TypeOK'
  BY SMTT(30) DEF ReaderSteps, WriterSteps, CloserSteps, LocksHeld, ReadLocked, Copied, NewerSlot
<1>2. LocksHeld'
  BY SMTT(30) DEF LocksHeld, MetaSteps, RWSteps, ReaderSteps, WriterSteps, CloserSteps
<1>3. ReadLocked'
  BY SMTT(30) DEF ReadLocked, LocksHeld, ReaderSteps, WriterSteps, CloserSteps
<1>4. DepthKept'
  BY SMTT(30) DEF DepthKept, ReaderSteps, WriterSteps, CloserSteps
<1>5. SlotsSound'
  <2>1. \A w \in Writers : pc'[w] = pc[w]
    OBVIOUS
  <2> QED
    BY <2>1, SlotsKept DEF Begun
<1>6. PickSound'
  BY SMTT(30) DEF PickSound, OneCommitAgo, Begun, SlotsSound, LocksHeld, MetaSteps, RWSteps, ReaderSteps, WriterSteps, CloserSteps
<1>7. TxsSound'
  <2>1. \A r \in Readers : pc'[r] = pc[r]
    BY TxLocksAssumption DEF Procs
  <2>2. committed' \in Nat /\ committed <= committed'
    BY DEF TypeOK
  <2> QED
    BY <2>1, <2>2, TxsKept
<1>8. MapSound'
  BY SMTT(30) DEF MapSound, ReaderSteps, WriterSteps, CloserSteps
<1>9. (released <= committed)'
  BY SMTT(30) DEF SlotsSound, Begun
<1>10. ReleaseSparesReaders'
  BY SMTT(30) DEF ReleaseSparesReaders, Snapshots
<1>11. SnapshotFresh'
  BY SMTT(30) DEF SnapshotFresh
<1> QED
  BY <1>1, <1>2, <1>3, <1>4, <1>5, <1>6, <1>7, <1>8, <1>9, <1>10, <1>11

-----------------------------------------------------------------------------
(* The inductive invariant holds in every state.                           *)

LEMMA InitHolds == Init => IInv
<1> SUFFICES ASSUME Init PROVE IInv
  OBVIOUS
<1> USE TxLocksAssumption DEF Init, Procs
<1>1. TypeOK
  BY DEF TypeOK, ReaderSteps, WriterSteps, CloserSteps
<1>2. LocksHeld
  BY DEF LocksHeld, MetaSteps, RWSteps
<1>3. ReadLocked /\ DepthKept
  BY DEF ReadLocked, DepthKept
<1>4. SlotsSound
  <2>1. MetaSlot(1) = 1 /\ committed = 1 /\ MaxTxid \in Nat \ {0}
    BY DEF MetaSlot
  <2>2. /\ slot[1] = [txid |-> 1, ok |-> TRUE]
        /\ slot[0] = [txid |-> 0, ok |-> TRUE]
    OBVIOUS
  <2>3. \A w \in Writers : pc[w] = "idle"
    OBVIOUS
  <2>4. 1 \in 1 .. MaxTxid /\ 1 - 1 = 0
    BY <2>1
  <2> QED
    BY <2>1, <2>2, <2>3, <2>4 DEF SlotsSound, Begun
<1>5. PickSound /\ TxsSound /\ MapSound
  BY DEF PickSound, TxsSound, MapSound
<1>6. released <= committed /\ ReleaseSparesReaders /\ SnapshotFresh
  BY DEF ReleaseSparesReaders, SnapshotFresh, Snapshots
<1> QED
  BY <1>1, <1>2, <1>3, <1>4, <1>5, <1>6 DEF IInv

LEMMA StutterStep ==
    ASSUME IInv, UNCHANGED vars
    PROVE  IInv'
<1> USE DEF vars, locks, reading, writing
<1>1. TypeOK' /\ LocksHeld' /\ ReadLocked' /\ DepthKept'
  BY DEF IInv, TypeOK, LocksHeld, ReadLocked, DepthKept
<1>2. SlotsSound'
  BY DEF IInv, SlotsSound, Begun
<1>3. PickSound'
  BY DEF IInv, PickSound, OneCommitAgo, Begun
<1>4. TxsSound'
  BY DEF IInv, TxsSound, Listed
<1>5. MapSound' /\ (released <= committed)'
  BY DEF IInv, MapSound
<1>6. ReleaseSparesReaders' /\ SnapshotFresh'
  BY DEF IInv, ReleaseSparesReaders, SnapshotFresh, Snapshots
<1> QED
  BY <1>1, <1>2, <1>3, <1>4, <1>5, <1>6 DEF IInv

LEMMA StepHolds == IInv /\ [Next]_vars => IInv'
<1> SUFFICES ASSUME IInv, [Next]_vars PROVE IInv'
  OBVIOUS
<1>1. ASSUME NEW r \in Readers,
             \/ CallBegin(r) \/ BeginMetaLock(r) \/ BeginRLock(r)
             \/ RemoveTx(r) \/ RemoveMetaLock(r) \/ ReaderProceeds(r)
      PROVE  IInv'
  BY <1>1, CallBeginStep, BeginMetaLockStep, BeginRLockStep, RemoveTxStep,
     RemoveMetaLockStep, BeginNotOpenStep, PickMetaStep, ValidateMetaStep,
     CopyMetaStep, RegisterTxStep, UnregisterStep DEF ReaderProceeds
<1>2. ASSUME NEW w \in Writers,
             CallBeginRW(w) \/ RWLock(w) \/ RWMetaLock(w) \/ WriterProceeds(w)
      PROVE  IInv'
  BY <1>2, CallBeginRWStep, RWLockStep, RWMetaLockStep, BeginRWNotOpenStep,
     InitRWTxStep, CallMmapStep, MmapLockStep, UnmapStep, MapStep,
     RollbackRWStep, WriteMetaBeginsStep, WriteMetaEndsStep,
     CommitReturnsStep DEF WriterProceeds
<1>3. ASSUME NEW c \in Closers,
             \/ CallClose(c) \/ CloseRWLock(c) \/ CloseMetaLock(c)
             \/ CloserProceeds(c)
      PROVE  IInv'
  BY <1>3, CallCloseStep, CloseRWLockStep, CloseMetaLockStep, CloseRLockStep,
     CloseUnmapsStep, CloseReturnsStep DEF CloserProceeds
<1>4. CASE UNCHANGED vars
  BY <1>4, StutterStep
<1> QED
  BY <1>1, <1>2, <1>3, <1>4 DEF Next

(* The locks are held by exactly the goroutines at the steps between       *)
(* taking and giving them back, the meta pages hold the last two commits,  *)
(* and db.txs lists what is open.                                          *)
THEOREM LocksInvariant == Spec => []IInv
<1>1. Init => IInv
  BY InitHolds
<1>2. IInv /\ [Next]_vars => IInv'
  BY StepHolds
<1> QED
  BY <1>1, <1>2, PTL DEF Spec

-----------------------------------------------------------------------------
(* What follows from it.                                                   *)

(* db.beginRWTx never releases the pages of an open read transaction, nor  *)
(* of one that has copied its meta page and is not in db.txs yet.          *)
THEOREM ReleaseSafe == Spec => []ReleaseSparesReaders
<1>1. IInv => ReleaseSparesReaders
  BY DEF IInv
<1> QED
  BY <1>1, LocksInvariant, PTL

(* db.meta finds a whole meta page, no older than the last commit that had *)
(* returned when Begin was called, though commits write meta pages while   *)
(* it looks.                                                               *)
THEOREM SnapshotsFresh == Spec => []SnapshotFresh
<1>1. IInv => SnapshotFresh
  BY DEF IInv
<1> QED
  BY <1>1, LocksInvariant, PTL

(* A write transaction finds the data file mapped, except in its remap.    *)
THEOREM WriterFindsMap == Spec => []WriterMapped
<1>1. IInv => WriterMapped
  <2> SUFFICES ASSUME IInv, NEW w \in Writers, mapping = 0,
                      pc[w] \in {"work", "grown", "writing", "written", "lockmmap"}
               PROVE  FALSE
    BY DEF WriterMapped
  <2>1. opened
    BY DEF IInv, SlotsSound, Begun
  <2>2. PICK v \in Writers : pc[v] = "map"
    BY <2>1 DEF IInv, MapSound
  <2>3. w \in Procs /\ w \notin Readers /\ pc[w] \in RWSteps
    BY TxLocksAssumption DEF Procs, RWSteps
  <2> QED
    BY <2>2, <2>3, OneWriter DEF RWSteps
<1> QED
  BY <1>1, LocksInvariant, PTL

(* Until Close, a reader finds the data file mapped from the choice of the *)
(* meta page to the close of its transaction: no remap takes it away.      *)
LEMMA OpenMapped == IInv => ReadersMapped
<1> SUFFICES ASSUME IInv, opened, NEW r \in Readers, mapping = 0,
                    held[r] # <<>> \/ pc[r] \in {"validate", "copy"}
             PROVE  FALSE
  BY DEF ReadersMapped
<1>1. PICK v \in Writers : pc[v] = "map"
  BY DEF IInv, MapSound
<1>2. mmapwriter = v /\ v \in Procs
  BY <1>1 DEF IInv, LocksHeld, Procs
<1>3. mmapreaders[r] = 0
  BY <1>2, TxLocksAssumption DEF IInv, ReadLocked, Procs
<1>4. Len(held[r]) \in Nat /\ (held[r] # <<>> => Len(held[r]) \in Nat \ {0})
  <2>1. held[r] \in Seq(Nat)
    BY DEF IInv, TypeOK
  <2> QED
    BY <2>1, LengthSound
<1>5. mmapreaders[r] = IF pc[r] \in {"init", "validate", "copy", "panicked"}
                         THEN Len(held[r]) + 1 ELSE Len(held[r])
  BY DEF IInv, ReadLocked
<1> QED
  BY <1>3, <1>4, <1>5

(* The mmap stays under every open read transaction, of any number of      *)
(* goroutines, until Close.                                                *)
THEOREM ReadersFindMap == Spec => []ReadersMapped
<1> QED
  BY OpenMapped, LocksInvariant, PTL

(* Goroutines that have one transaction open at a time (the comment of     *)
(* Begin warns of a transaction opened inside another) never wait for one  *)
(* another in a circle.                                                    *)
THEOREM NoDeadlock ==
    ASSUME Depth = 1
    PROVE  Spec => []NoCircularWait
<1>1. ASSUME IInv, NEW W \in SUBSET Procs,
             \A g \in W : WaitsFor(g) \cap W # {}
      PROVE  W = {}
  <2>1. \A g \in W : pc[g] # "lockmmap"
    <3> SUFFICES ASSUME NEW g \in W, pc[g] = "lockmmap" PROVE FALSE
      OBVIOUS
    <3>1. WaitsFor(g) = {h \in Procs : mmapreaders[h] > 0}
      BY DEF WaitsFor
    <3>2. PICK h \in W : mmapreaders[h] > 0
      BY <1>1, <3>1
    <3>3. WaitsFor(h) = {}
      <4>1. CASE h \in Writers
        BY <3>2, <4>1, <1>1 DEF IInv, ReadLocked
      <4>2. CASE h \in Closers
        <5>1. pc[h] \in {"closing", "unlock"}
          BY <3>2, <4>2, <1>1 DEF IInv, ReadLocked
        <5> QED
          BY <5>1 DEF WaitsFor
      <4>3. CASE h \in Readers
        <5>1. pc[h] \in {"init", "validate", "copy", "panicked"} \/ Len(held[h]) > 0
          BY <3>2, <4>3, <1>1 DEF IInv, ReadLocked
        <5>2. held[h] \in Seq(Nat)
          BY <4>3, <1>1 DEF IInv, TypeOK
        <5>3. Len(held[h]) > 0 => ~ (Len(held[h]) < Depth)
          BY <5>2, LengthSound
        <5>4. pc[h] \in {"init", "validate", "copy", "panicked", "idle", "register"}
          BY <4>3, <5>1, <5>3, <1>1 DEF IInv, DepthKept
        <5> QED
          BY <5>4 DEF WaitsFor
      <4> QED
        BY <4>1, <4>2, <4>3, <1>1 DEF Procs
    <3> QED
      BY <1>1, <3>3
  <2>2. \A g \in W : pc[g] # "rlock"
    <3> SUFFICES ASSUME NEW g \in W, pc[g] = "rlock" PROVE FALSE
      OBVIOUS
    <3>1. WaitsFor(g) = {mmapwait, mmapwriter}
      BY DEF WaitsFor
    <3>2. PICK h \in W : h = mmapwait \/ h = mmapwriter
      BY <1>1, <3>1
    <3>3. pc[h] \in {"lockmmap", "unmap", "map"}
      BY <1>1, <3>2 DEF IInv, LocksHeld
    <3>4. pc[h] \in {"unmap", "map"}
      BY <2>1, <3>3
    <3> QED
      BY <1>1, <3>4 DEF WaitsFor
  <2>3. \A g \in W : WaitsFor(g) # {metalock}
    <3> SUFFICES ASSUME NEW g \in W, WaitsFor(g) = {metalock} PROVE FALSE
      OBVIOUS
    <3>1. metalock \in W
      BY <1>1
    <3>2. pc[metalock] \in MetaSteps \ {"rlock"}
      BY <1>1, <2>2, <3>1 DEF IInv, LocksHeld
    <3> QED
      BY <1>1, <3>1, <3>2 DEF WaitsFor, MetaSteps
  <2>4. \A g \in W : WaitsFor(g) # {rwlock}
    <3> SUFFICES ASSUME NEW g \in W, WaitsFor(g) = {rwlock} PROVE FALSE
      OBVIOUS
    <3>1. rwlock \in W
      BY <1>1
    <3>2. pc[rwlock] \in RWSteps \ {"rlock", "lockmmap"}
      BY <1>1, <2>1, <2>2, <3>1 DEF IInv, LocksHeld
    <3>3. pc[rwlock] # "rwlocked"
      BY <2>3, <3>1 DEF WaitsFor
    <3> QED
      BY <1>1, <3>1, <3>2, <3>3 DEF WaitsFor, RWSteps
  <2>5. ASSUME NEW g \in W PROVE FALSE
    <3>1. pc[g] \notin {"lockmmap", "rlock", "rwlocked"}
      BY <2>1, <2>2, <2>3, <2>5 DEF WaitsFor
    <3>2. WaitsFor(g) \in {{rwlock}, {metalock}, {}}
      BY <3>1, <1>1 DEF WaitsFor, Procs
    <3> QED
      BY <1>1, <2>3, <2>4, <3>2
  <2> QED
    BY <2>5
<1>2. IInv => NoCircularWait
  <2> SUFFICES ASSUME IInv, NEW W \in (SUBSET Procs) \ {{}}
               PROVE  \E g \in W : WaitsFor(g) \cap W = {}
    BY DEF NoCircularWait
  <2>1. W \in SUBSET Procs /\ W # {}
    BY Zenon
  <2> QED
    BY <1>1, <2>1, Zenon
<1> QED
  BY <1>2, LocksInvariant, PTL
=============================================================================
