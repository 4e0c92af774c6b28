------------------------------ MODULE DataFile ------------------------------
(***************************************************************************)
(* Processes that open one data file (db.go, bolt_unix.go, bolt_windows.go, *)
(* bolt_unix_solaris.go, tx.go): the lock on the file, its initialisation,  *)
(* the map and its growth with the high water mark, and backups by WriteTo. *)
(*                                                                          *)
(* A handle is one call of Open and the DB it returns.  Sizes are in pages. *)
(* What is in the pages is left to DB, which page the freelist can serve to *)
(* Freelist: here an allocation may come from either side.                  *)
(***************************************************************************)
EXTENDS MmapSize

CONSTANTS
    Handles,          \* calls of Open
    Owner,            \* the process that makes each of them
    Platforms,        \* "unix", "windows", "solaris"
    Counts,           \* numbers of pages one allocation asks for
    AllocSize,        \* DB.AllocSize
    InitialMmapSize,  \* Options.InitialMmapSize
    MaxInt,           \* the largest int, which is maxMapSize where it has 32 bits
    MaxOpens,         \* bound on the calls of Open
    MaxFaults         \* bound on kills and failing system calls

ASSUME FileAssumption ==
    /\ pageSize = 1
    /\ Counts \subseteq Nat \ {0} /\ AllocSize \in Nat /\ InitialMmapSize \in Nat
    /\ MaxInt \in Nat /\ MaxOpens \in Nat /\ MaxFaults \in Nat
    /\ Platforms \subseteq {"unix", "windows", "solaris"}

VARIABLES
    platform,   \* what the processes run on
    size,       \* the file's size
    committed,  \* meta.pgid of the newest meta page, 0 in an empty file
    pc,         \* per handle: where its Open, or its DB, is
    readOnly,   \* per handle: Options.ReadOnly
    timed,      \* per handle: it waits for the lock with Options.Timeout
    lock,       \* per handle: "none", "shared" or "exclusive"
    datasz,     \* per handle: DB.datasz, the size of its map
    filesz,     \* per handle: DB.filesz
    hwm,        \* per handle: meta.pgid of its write transaction, 0 without one
    snap,       \* per handle: meta.pgid of its read transaction, 0 without one
    copying,    \* per handle: a WriteTo is under way
    opens, faults

sizes == <<size, committed>>
options == <<platform, readOnly, timed>>
txs == <<hwm, snap, copying>>
counters == <<opens, faults>>
vars == <<sizes, options, pc, lock, datasz, filesz, txs, counters>>

Init ==
    /\ platform \in Platforms
    /\ size = 0 /\ committed = 0
    /\ pc = [h \in Handles |-> "closed"]
    /\ readOnly = [h \in Handles |-> FALSE] /\ timed = [h \in Handles |-> FALSE]
    /\ lock = [h \in Handles |-> "none"]
    /\ datasz = [h \in Handles |-> 0] /\ filesz = [h \in Handles |-> 0]
    /\ hwm = [h \in Handles |-> 0] /\ snap = [h \in Handles |-> 0] /\ copying = [h \in Handles |-> FALSE]
    /\ opens = 0 /\ faults = 0

(***************************************************************************)
(* The lock of the operating system.  On Solaris it belongs to the process, *)
(* which loses it when it closes any descriptor of the file.                *)
(***************************************************************************)
Kind(h) == IF readOnly[h] THEN "shared" ELSE "exclusive"

(* Mutant of Conflicts: a writer does not wait for readers.                 *)
ConflictsWriters(g, h) == g # h /\ lock[g] = "exclusive"

Conflicts(g, h) ==
    /\ g # h /\ lock[g] # "none"
    /\ lock[g] = "exclusive" \/ Kind(h) = "exclusive"
    /\ platform = "solaris" => Owner[g] # Owner[h]

Lockable(h) == \A g \in Handles : ~Conflicts(g, h)

\* What a descriptor of handle h leaves of the locks when it is closed.
Unlocked(h) ==
    [g \in Handles |->
        IF g = h \/ (platform = "solaris" /\ Owner[g] = Owner[h]) THEN "none" ELSE lock[g]]

Dropped(h) ==
    /\ pc' = [pc EXCEPT ![h] = "closed"]
    /\ lock' = Unlocked(h)
    /\ readOnly' = [readOnly EXCEPT ![h] = FALSE]

\* DB.close, which the failing steps of Open call, too, except Stat and init.  It
\* does not call funlock for a read-only handle, which on Windows leaves the lock
\* file open until it is garbage collected.
Closed(h) ==
    /\ IF platform = "windows" /\ readOnly[h] /\ lock[h] # "none"
       THEN pc' = [pc EXCEPT ![h] = "garbage"] /\ UNCHANGED <<lock, readOnly>>
       ELSE Dropped(h)
    /\ datasz' = [datasz EXCEPT ![h] = 0]
    /\ filesz' = [filesz EXCEPT ![h] = 0]
    /\ timed' = [timed EXCEPT ![h] = FALSE]

(***************************************************************************)
(* Open.                                                                    *)
(***************************************************************************)
OpenFile(h, ro, timeout) ==
    /\ pc[h] = "closed" /\ opens < MaxOpens
    /\ pc' = [pc EXCEPT ![h] = "flock"]
    /\ readOnly' = [readOnly EXCEPT ![h] = ro]
    /\ timed' = [timed EXCEPT ![h] = timeout]
    /\ opens' = opens + 1
    /\ UNCHANGED <<platform, sizes, lock, datasz, filesz, txs, faults>>

Flock(h) ==
    /\ pc[h] \in {"flock", "again"} /\ Lockable(h)
    /\ pc' = [pc EXCEPT ![h] = "stat"]
    /\ lock' = [lock EXCEPT ![h] = Kind(h)]
    /\ timed' = [timed EXCEPT ![h] = FALSE]
    /\ UNCHANGED <<platform, readOnly, sizes, datasz, filesz, txs, counters>>

(* Mutant of FlockBusy: the time is taken anew before each attempt.         *)
FlockBusyRestarts(h) == pc[h] = "flock" /\ ~Lockable(h) /\ UNCHANGED vars

\* The lock is taken: try again in 50 milliseconds.
FlockBusy(h) ==
    /\ pc[h] = "flock" /\ ~Lockable(h)
    /\ pc' = [pc EXCEPT ![h] = "again"]
    /\ UNCHANGED <<sizes, options, lock, datasz, filesz, txs, counters>>

(* Mutant of FlockTimeout: Open goes on without the lock.                   *)
FlockTimeoutIgnored(h) ==
    /\ pc[h] = "again" /\ timed[h]
    /\ pc' = [pc EXCEPT ![h] = "stat"]
    /\ UNCHANGED <<sizes, options, lock, datasz, filesz, txs, counters>>

\* ErrTimeout, after at least one attempt.
FlockTimeout(h) ==
    /\ pc[h] = "again" /\ timed[h]
    /\ Closed(h)
    /\ UNCHANGED <<platform, sizes, txs, counters>>

\* A file of size 0 is initialised, once the lock is held: DB.init.  If its
\* fdatasync fails the file is written all the same, and Open fails.
InitFile(h, synced) ==
    /\ pc[h] = "stat" /\ size = 0 /\ ~readOnly[h]
    /\ ~synced => faults < MaxFaults
    /\ size' = 4 /\ committed' = 4
    /\ pc' = [pc EXCEPT ![h] = IF synced THEN "mmap" ELSE "garbage"]
    /\ faults' = IF synced THEN faults ELSE faults + 1
    /\ UNCHANGED <<options, lock, datasz, filesz, txs, opens>>

\* Stat fails, or the write of init, as it does for a read-only handle.  Here and
\* in InitFile, Open returns the error and does not close the DB, whose lock lasts
\* until the file is garbage collected.
InitFails(h) ==
    LET cannot == size = 0 /\ readOnly[h]
    IN  /\ pc[h] = "stat"
        /\ ~cannot => faults < MaxFaults
        /\ pc' = [pc EXCEPT ![h] = "garbage"]
        /\ faults' = IF cannot THEN faults ELSE faults + 1
        /\ UNCHANGED <<sizes, options, lock, datasz, filesz, txs, opens>>

\* The finalizer of an os.File closes it.
Collected(h) ==
    /\ pc[h] = "garbage"
    /\ Dropped(h)
    /\ UNCHANGED <<platform, timed, sizes, datasz, filesz, txs, counters>>

ReadMeta(h) ==
    /\ pc[h] = "stat" /\ size # 0
    /\ pc' = [pc EXCEPT ![h] = "mmap"]
    /\ UNCHANGED <<sizes, options, lock, datasz, filesz, txs, counters>>

Larger(a, b) == IF a < b THEN b ELSE a

(* Mutant of MapTo: the size of the file is not looked at.                  *)
MapToNeed(h, minsz) == mmapSize(minsz)

\* db.mmap(minsz): the new map's size; on Windows the file becomes as large.
MapTo(h, minsz) == mmapSize(Larger(size, minsz))

Map(h, sz) ==
    /\ datasz' = [datasz EXCEPT ![h] = sz]
    /\ size' = IF platform = "windows" /\ ~readOnly[h] THEN sz ELSE size

OpenMmap(h) ==
    LET sz == MapTo(h, InitialMmapSize)
    IN  /\ pc[h] = "mmap" /\ sz # TooLarge
        /\ Map(h, sz)
        /\ pc' = [pc EXCEPT ![h] = "open"]
        /\ UNCHANGED <<committed, options, lock, filesz, txs, counters>>

\* db.mmap fails, as the file is too large to map or as the system's mmap does,
\* and Open closes the DB again.
OpenMmapFails(h) ==
    LET tooLarge == MapTo(h, InitialMmapSize) = TooLarge
    IN  /\ pc[h] = "mmap"
        /\ ~tooLarge => faults < MaxFaults
        /\ Closed(h)
        /\ faults' = IF tooLarge THEN faults ELSE faults + 1
        /\ UNCHANGED <<platform, sizes, txs, opens>>

(***************************************************************************)
(* Transactions.                                                            *)
(***************************************************************************)
Begin(h) ==
    /\ pc[h] \in {"open", "grown"} /\ snap[h] = 0
    /\ snap' = [snap EXCEPT ![h] = committed]
    /\ UNCHANGED <<sizes, options, pc, lock, datasz, filesz, hwm, copying, counters>>

End(h) ==
    /\ snap[h] # 0 /\ ~copying[h]
    /\ snap' = [snap EXCEPT ![h] = 0]
    /\ UNCHANGED <<sizes, options, pc, lock, datasz, filesz, hwm, copying, counters>>

\* Tx.WriteTo opens a descriptor of its own, and closes it when it has copied
\* all tx.Size() bytes.
WriteTo(h) ==
    /\ snap[h] # 0 /\ ~copying[h]
    /\ copying' = [copying EXCEPT ![h] = TRUE]
    /\ UNCHANGED <<sizes, options, pc, lock, datasz, filesz, hwm, snap, counters>>

WriteToEnds(h) ==
    /\ copying[h]
    /\ copying' = [copying EXCEPT ![h] = FALSE]
    /\ lock' = IF platform = "solaris" THEN Unlocked(h) ELSE lock
    /\ UNCHANGED <<sizes, options, pc, datasz, filesz, hwm, snap, counters>>

BeginRW(h) ==
    /\ pc[h] = "open" /\ ~readOnly[h] /\ hwm[h] = 0
    /\ hwm' = [hwm EXCEPT ![h] = committed]
    /\ UNCHANGED <<sizes, options, pc, lock, datasz, filesz, snap, copying, counters>>

(* Mutant of Allocate: the error of mmapSize is not looked at.              *)
AllocateUnchecked(h, count) ==
    LET minsz == hwm[h] + count + 1
    IN  /\ pc[h] = "open" /\ hwm[h] # 0
        /\ IF minsz < datasz[h] THEN UNCHANGED <<size, datasz>>
           ELSE snap[h] = 0 /\ Map(h, MapTo(h, minsz))
        /\ hwm' = [hwm EXCEPT ![h] = @ + count]
        /\ UNCHANGED <<committed, options, pc, lock, filesz, snap, copying, counters>>

\* db.allocate past the high water mark.  A remap waits for the handle's
\* readers; a map that would be too large is refused before the old one goes.
Allocate(h, count) ==
    LET minsz == hwm[h] + count + 1
        sz == MapTo(h, minsz)
    IN  /\ pc[h] = "open" /\ hwm[h] # 0
        /\ IF minsz < datasz[h] THEN UNCHANGED <<size, datasz>>
           ELSE snap[h] = 0 /\ sz # TooLarge /\ Map(h, sz)
        /\ hwm' = [hwm EXCEPT ![h] = @ + count]
        /\ UNCHANGED <<committed, options, pc, lock, filesz, snap, copying, counters>>

\* Commit, or an allocation, gives up: tx.rollback.
RollbackRW(h) ==
    /\ pc[h] \in {"open", "grown"} /\ hwm[h] # 0
    /\ hwm' = [hwm EXCEPT ![h] = 0]
    /\ pc' = [pc EXCEPT ![h] = "open"]
    /\ UNCHANGED <<sizes, options, lock, datasz, filesz, snap, copying, counters>>

\* A size that overflows is negative, like 0 below every size there is.
Wrapped(sz) == IF sz > MaxInt THEN 0 ELSE sz

\* db.grow of a commit, if the freelist's own page moved the high water mark; a
\* mark that was moved by the spill alone is not noticed.  DB.NoGrowSync leaves
\* the file as it is.  Truncate refuses a size that has overflowed.
Grow(h, noGrowSync) ==
    LET need == hwm[h] + 1
        sz == IF datasz[h] < AllocSize THEN datasz[h] ELSE need + AllocSize
        resized == need > filesz[h]
        truncates == resized /\ platform # "windows" /\ ~noGrowSync
    IN  /\ pc[h] = "open" /\ hwm[h] > committed
        /\ truncates => sz <= MaxInt
        /\ size' = IF truncates THEN sz ELSE size
        /\ filesz' = [filesz EXCEPT ![h] = IF resized THEN Wrapped(sz) ELSE @]
        /\ pc' = [pc EXCEPT ![h] = "grown"]
        /\ UNCHANGED <<committed, options, lock, datasz, txs, counters>>

\* tx.write and tx.writeMeta: pages past the end of the file extend it.
Commit(h) ==
    /\ pc[h] \in {"open", "grown"} /\ hwm[h] # 0
    /\ size' = Larger(size, hwm[h])
    /\ committed' = hwm[h]
    /\ hwm' = [hwm EXCEPT ![h] = 0]
    /\ pc' = [pc EXCEPT ![h] = "open"]
    /\ UNCHANGED <<options, lock, datasz, filesz, snap, copying, counters>>

\* DB.Close, with no transaction open.
Close(h) ==
    /\ pc[h] = "open" /\ hwm[h] = 0 /\ snap[h] = 0
    /\ Closed(h)
    /\ UNCHANGED <<platform, sizes, txs, counters>>

\* A process is killed, or crashes because a remap failed after the old map was
\* gone (db.go:341-349): the system closes its descriptors.
Kill(p) ==
    LET gone == {h \in Handles : Owner[h] = p}
        zeroed(f) == [h \in Handles |-> IF h \in gone THEN 0 ELSE f[h]]
    IN  /\ faults < MaxFaults /\ \E h \in gone : pc[h] # "closed"
        /\ pc' = [h \in Handles |-> IF h \in gone THEN "closed" ELSE pc[h]]
        /\ lock' = [h \in Handles |-> IF h \in gone THEN "none" ELSE lock[h]]
        /\ datasz' = zeroed(datasz) /\ filesz' = zeroed(filesz)
        /\ hwm' = zeroed(hwm) /\ snap' = zeroed(snap)
        /\ copying' = [h \in Handles |-> copying[h] /\ h \notin gone]
        /\ readOnly' = [h \in Handles |-> readOnly[h] /\ h \notin gone]
        /\ timed' = [h \in Handles |-> timed[h] /\ h \notin gone]
        /\ faults' = faults + 1
        /\ UNCHANGED <<platform, sizes, opens>>

Stopped == opens = MaxOpens /\ (\A h \in Handles : pc[h] = "closed") /\ UNCHANGED vars

\* One turn of the loop in flock.
WaitForLock(h) == Flock(h) \/ FlockBusy(h) \/ FlockTimeout(h)

HandleStep(h) ==
    \/ \E ro, timeout \in BOOLEAN : OpenFile(h, ro, timeout)
    \/ WaitForLock(h)
    \/ \E synced \in BOOLEAN : InitFile(h, synced)
    \/ InitFails(h) \/ Collected(h) \/ ReadMeta(h)
    \/ OpenMmap(h) \/ OpenMmapFails(h)
    \/ Begin(h) \/ End(h) \/ WriteTo(h) \/ WriteToEnds(h)
    \/ BeginRW(h) \/ \E count \in Counts : Allocate(h, count)
    \/ RollbackRW(h) \/ Commit(h) \/ Close(h)
    \/ \E noGrowSync \in BOOLEAN : Grow(h, noGrowSync)

Next ==
    \/ \E h \in Handles : HandleStep(h)
    \/ \E h \in Handles : Kill(Owner[h])
    \/ Stopped

Spec == Init /\ [][Next]_vars

\* The loop of flock runs as long as its process does.
FairSpec == Spec /\ \A h \in Handles : WF_vars(WaitForLock(h))

-----------------------------------------------------------------------------
Locked == {"stat", "mmap", "open", "grown", "garbage"}

TypeOK ==
    /\ platform \in Platforms
    /\ size \in Nat /\ committed \in Nat
    /\ pc \in [Handles -> {"closed", "flock", "again"} \cup Locked]
    /\ readOnly \in [Handles -> BOOLEAN] /\ timed \in [Handles -> BOOLEAN]
    /\ lock \in [Handles -> {"none", "shared", "exclusive"}]
    /\ datasz \in [Handles -> Nat] /\ filesz \in [Handles -> Nat]
    /\ hwm \in [Handles -> Nat] /\ snap \in [Handles -> Nat] /\ copying \in [Handles -> BOOLEAN]
    /\ opens \in 0..MaxOpens /\ faults \in 0..MaxFaults

\* "Lock file so that other processes using Bolt in read-write mode cannot use
\* the database at the same time." (db.go:228-231)  Two handles that are past
\* the lock are both read-only.  (Not so on Solaris.)
ExclusiveWriter ==
    \A g, h \in Handles :
        g # h /\ pc[g] \in Locked /\ pc[h] \in Locked => readOnly[g] /\ readOnly[h]

\* What was committed stays: no step of any process, an initialisation of the
\* file it saw empty included, puts an older high water mark in the meta pages
\* (db.go:246-276, 428-480, tx.go:144-236).
CommittedKept == [][committed' >= committed]_vars

\* Every page a transaction can reach lies in the map of its handle, and every
\* page a reader or a backup reads is in the file, though maps come in steps and
\* the file is truncated to sizes computed from them (db.go:307-421, 987-1048,
\* tx.go:304-350).
PagesBacked ==
    /\ committed <= size
    /\ \A h \in Handles :
           /\ pc[h] \in {"open", "grown"} => committed <= datasz[h] /\ hwm[h] <= datasz[h]
           /\ snap[h] <= datasz[h] /\ snap[h] <= size

\* A file that was written can be mapped again: no growth, rounded up and ahead
\* of the need, takes it past the largest map (db.go:385-421, 1019-1048).
Reopens ==
    \A h \in Handles : pc[h] = "mmap" => MapTo(h, InitialMmapSize) # TooLarge

\* An Open with a timeout ends its wait for the lock, whatever the process that
\* holds it does (bolt_unix.go:14-40, bolt_windows.go:51-86).
TimedOpenReturns ==
    \A h \in Handles : pc[h] \in {"flock", "again"} /\ timed[h] ~> pc[h] \notin {"flock", "again"}
=============================================================================
