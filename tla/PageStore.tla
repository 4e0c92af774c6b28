----------------------------- MODULE PageStore -----------------------------
(***************************************************************************)
(* The pages a write transaction works with, as a record t: t.pages maps a  *)
(* page to its content and its overflow, t.free holds what may be           *)
(* allocated, t.pending what the transaction freed, t.hwm is the high water *)
(* mark meta.pgid, and t.panic says that an assertion has failed.           *)
(***************************************************************************)
EXTENDS Integers

(* Mutant of Extent: the overflow pages are forgotten.                      *)
ExtentHead(t, pg) == {pg}

Extent(t, pg) == pg..pg + t.pages[pg].overflow

\* freelist.free, whose panic is a page that is already free.
FreePage(t, pg) ==
    IF Extent(t, pg) \cap (t.free \cup t.pending) # {}
    THEN [t EXCEPT !.panic = TRUE]
    ELSE [t EXCEPT !.pending = @ \cup Extent(t, pg)]

\* db.allocate: the first run of free pages that is long enough, else the end.
allocate(t, count) ==
    LET runs == {i \in t.free : i..i + count - 1 \subseteq t.free}
    IN  IF runs # {}
        THEN CHOOSE i \in runs : \A j \in runs : i <= j
        ELSE t.hwm

\* Page pg, just allocated, gets its content.
Place(t, pg, content) ==
    LET end == pg + content.overflow
    IN  [t EXCEPT !.free = @ \ (pg..end),
                  !.hwm = IF pg = t.hwm THEN end + 1 ELSE @,
                  !.pages = [q \in DOMAIN @ \cup {pg} |-> IF q = pg THEN content ELSE @[q]]]

\* The transaction ends with no reader open: what it freed may be allocated.
Released(t) ==
    [t EXCEPT !.pages = [pg \in DOMAIN @ \ t.pending |-> @[pg]],
              !.free = @ \cup t.pending,
              !.pending = {}]

\* The pages that have a content and are not freed.
Live(t) == DOMAIN t.pages \ t.pending

\* From page first to the high water mark each page is free, or pending, or in
\* one live extent, and no page is two of these.
PagesPartitioned(t, first) ==
    /\ t.free \cap t.pending = {}
    /\ \A pg \in Live(t) : Extent(t, pg) \cap (t.free \cup t.pending) = {}
    /\ \A pg, q \in Live(t) : pg # q => Extent(t, pg) \cap Extent(t, q) = {}
    /\ t.free \cup t.pending \cup UNION {Extent(t, pg) : pg \in Live(t)} = first..t.hwm - 1
=============================================================================
