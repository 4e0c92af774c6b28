---------------------------- MODULE FreelistOps ----------------------------
(***************************************************************************)
(* What the freelist of freelist.go computes, on sets.                     *)
(*                                                                         *)
(* f.ids is the set of pages a writer may allocate; f.pending is a set of  *)
(* pairs <<txid, page>>: page was freed by transaction txid and may still  *)
(* be read by an open read transaction.  Freelist.tla models the same code *)
(* on the sorted slices it really uses and is checked against these.       *)
(***************************************************************************)
EXTENDS Naturals, FiniteSets

CONSTANTS
    IdsPerPage,   \* page ids (8 bytes each) that fit in a page: db.pageSize / 8
    CountLimit    \* 0xFFFF: from this many ids on, the count is stored as an id

ASSUME FreelistAssumption ==
    /\ IdsPerPage \in Nat \ {0}
    /\ CountLimit \in Nat \ {0}

-----------------------------------------------------------------------------

(* A page and its overflow pages. *)
Run(id, len) == id .. (id + len - 1)

PendingPages(pend) == {pr[2] : pr \in pend}

(* freelist.allocate takes the lowest block of n contiguous free pages. *)
Fits(free, n) == {s \in free : Run(s, n) \subseteq free}

LowestFit(free, n, s) ==
    /\ s \in Fits(free, n)
    /\ \A t \in Fits(free, n) : s <= t

(* Mutant of FreedBy: the overflow pages are forgotten.                    *)
FreedByHead(txid, pages) ==
    {<<txid, id>> : id \in {p \in pages : \A q \in pages : p <= q}}

(* freelist.free: the pages become pending for the transaction. *)
FreedBy(txid, pages) == {txid} \X pages

(* freelist.release moves the pairs of a transaction or older ones. *)
UpTo(pend, txid) == {pr \in pend : pr[1] <= txid}

(* Mutant of Without: nothing is forgotten.                                *)
WithoutNone(pend, txid) == pend

(* freelist.rollback forgets the pairs of one transaction. *)
Without(pend, txid) == {pr \in pend : pr[1] # txid}

(* freelist.copyall: what is saved on the freelist page.                   *)
Listed(free, pend) == free \cup PendingPages(pend)

(* freelist.size in units of an id: 16 bytes of page header are two of     *)
(* them, and one more holds the count when it does not fit the header.     *)
SizeInIds(count) == IF count >= CountLimit THEN count + 3 ELSE count + 2

(* Mutant of ListPages: the page header is not counted.                    *)
ListPagesNoHeader(count) == (count \div IdsPerPage) + 1

(* The pages Tx.Commit allocates for the list: size / pageSize + 1. *)
ListPages(count) == (SizeInIds(count) \div IdsPerPage) + 1

(* freelist.read: with the count stored as first element the slice taken   *)
(* is [1:count], which is one short of the ids that follow the count; the  *)
(* list is sorted, so the largest id is the one left out.                  *)
ReadBack(list) ==
    IF Cardinality(list) >= CountLimit
      THEN {id \in list : \E other \in list : id < other}
      ELSE list
=============================================================================
