---------------------------- MODULE DBInvariant ----------------------------
(***************************************************************************)
(* The inductive invariants behind the safety of DB: why the file and the  *)
(* freelist stay sound (StoreInv) whatever fails but the power, why they   *)
(* survive that too (DiskInv), and why the pages of an open read           *)
(* transaction are never reused (IInv).                                    *)
(***************************************************************************)
EXTENDS DB

Current == Meta(slot)

(* One of the meta pages is valid and is the newest valid one, and the     *)
(* next commit goes to the other.                                          *)
SlotsAlternate ==
    \E i \in {0, 1} :
        /\ slot[i].ok
        /\ slot[i].txid % 2 = i
        /\ slot[1 - i].ok => slot[1 - i].txid < slot[i].txid

(* The nodes of a version do not overlap.                                  *)
Disjoint(m) ==
    /\ \A n1, n2 \in m.tree : n1 # n2 => NodePages(n1) \cap NodePages(n2) = {}
    /\ \A n \in m.tree : NodePages(n) \cap NodePages(m.flist) = {}

(* A version lies below its high water mark.                               *)
Within(m) == \A p \in Used(m) : p < m.pgid

(* The version new transactions see, and the freelist stored with it.      *)
CurrentSound ==
    /\ Within(Current)
    /\ Disjoint(Current)
    /\ Intact(Current)
    /\ \A p \in ListOnPage(file, slot) : p \notin Used(Current) /\ p < Current.pgid

HighWaterNow == IF phase = "none" THEN Current.pgid ELSE wmeta.pgid

(* A page is pending for one transaction only.                             *)
PendingOnce ==
    \A pr1, pr2 \in pending : pr1[2] = pr2[2] => pr1[1] = pr2[1]

(* The freelist in memory.                                                 *)
FreelistSound ==
    /\ cache = Listed(ids, pending)
    /\ ids \cap PendingPages(pending) = {}
    /\ PendingOnce
    /\ \A p \in ids : p < HighWaterNow
    /\ \A pr \in pending :
         /\ pr[2] < HighWaterNow
         /\ pr[1] <= Current.txid + 1
         /\ phase \in {"none", "meta"} => pr[1] <= Current.txid
         /\ pr[1] <= Current.txid => pr[2] < Current.pgid

(* What holds of every version somebody can read: its pages are not free,  *)
(* not about to be written, pending only for younger transactions, and     *)
(* still used or pending, so that a rollback does not free them either.    *)
Protected(m) ==
    /\ m.txid <= Current.txid
    /\ m.pgid <= Current.pgid
    /\ Within(m)
    /\ Intact(m)
    /\ Used(m) \cap ids = {}
    /\ Used(m) \cap PagesOf(dirty) = {}
    /\ \A pr \in pending : pr[2] \in Used(m) => pr[1] > m.txid
    /\ \A p \in Used(m) :
         \/ p \in Used(Current)
         \/ \E pr \in pending : pr[2] = p /\ pr[1] <= Current.txid

(* The version being written, until its meta page is.                      *)
WriterSound ==
    /\ opened
    /\ wmeta.ok
    /\ Within(wmeta)
    /\ Disjoint(wmeta)
    /\ Used(wmeta) \cap (ids \cup PendingPages(pending)) = {}
    /\ dirty \subseteq NodesOf(wmeta)
    /\ \A n \in dirty : n.gen = wmeta.gen
    /\ \A n \in NodesOf(wmeta) \ dirty :
         \A p \in NodePages(n) : file[p].gen = n.gen
    /\ phase = "open" => wmeta.flist \notin dirty
    /\ phase = "listed" => wmeta.flist \in dirty /\ wlist = Listed(ids, pending)
    /\ phase \in {"written", "synced"} =>
         file[wmeta.flist.id].ids = Listed(ids, pending)
    /\ phase \in {"written", "synced", "meta"} => dirty = {}
    /\ phase = "meta" => wmeta = Current
    /\ phase # "meta" =>
         /\ wmeta.txid = Current.txid + 1
         /\ wmeta.pgid >= Current.pgid
         /\ \A p \in Used(Current) :
              p \in Used(wmeta) \/ <<wmeta.txid, p>> \in pending

ClosedSound == OpenTxs = {} /\ phase = "none" /\ ids = {} /\ pending = {}

(* The file and the freelist, whoever reads.                               *)
StoreInv ==
    /\ TypeOK
    /\ phase # "panicked"
    /\ phase = "none" => dirty = {}
    /\ SlotsAlternate
    /\ CurrentSound
    /\ FreelistSound
    /\ Protected(Current)
    /\ phase # "none" => WriterSound
    /\ ~opened => ClosedSound

(* The version a power failure leaves at least: the current one, until its *)
(* meta page is written and not yet synced.                                *)
Durable == IF phase = "meta" THEN slot[1 - MetaSlot(wmeta)] ELSE Current

(* The meta page on the device is that of the durable version, all whose   *)
(* pages are there too; while two versions are valid in the file, all of   *)
(* it is on the device.                                                    *)
DiskSound ==
    LET i == MetaSlot(Durable) IN
    /\ Durable.ok
    /\ slot[i] = Durable /\ dslot[i] = Durable
    /\ dslot[1 - i].ok => dslot[1 - i].txid < Durable.txid
    /\ Durable.gen = acked
    /\ \A p \in Used(Durable) : disk[p] = file[p]
    /\ phase \in {"synced", "meta"} => disk = file
    /\ phase = "meta" =>
         /\ wmeta.txid = Durable.txid + 1
         /\ Within(Durable)
         /\ Disjoint(Durable)
         /\ Intact(Durable)
         /\ \A p \in file[Durable.flist.id].ids :
              p \notin Used(Durable) /\ p < Durable.pgid

DiskInv == StoreInv /\ ("power" \in Faults => DiskSound)

ReadersProtected == \A r \in OpenTxs : Protected(rmeta[r])

CurrentAcked == phase # "meta" => Current.gen = acked

IInv == DiskInv /\ ReadersProtected /\ CurrentAcked

(* The faults the proofs are about.  A version whose meta page was written *)
(* and not synced must not be built upon if the power may fail: that is    *)
(* what happens when a process is killed then, or the fdatasync fails.     *)
Recoverable == "power" \in Faults => Faults \cap {"kill", "metasync"} = {}

(* After a failing fdatasync open read transactions may lose their pages.  *)
Tolerated == Recoverable /\ "metasync" \notin Faults

(* Versions are numbered in the order their transactions began.            *)
Numbered ==
    /\ acked <= gen
    /\ Current.gen <= gen
    /\ phase # "none" => wmeta.gen <= gen
    /\ phase \notin {"none", "meta"} => Current.gen < wmeta.gen

RInv == IInv /\ Numbered
=============================================================================
