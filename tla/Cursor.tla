------------------------------- MODULE Cursor -------------------------------
(***************************************************************************)
(* A cursor over the tree of BTree (cursor.go), in a transaction that also  *)
(* puts and deletes.  The stack holds one reference per level, to a page or *)
(* to a node, and keeps it while deletes turn pages into nodes.             *)
(*                                                                          *)
(* The caller repositions the cursor by First, Last or Seek after it has     *)
(* changed the bucket, as cursor.go:15-17 asks, with one exception: it may   *)
(* go on in one direction after a Delete under the cursor while that is on a *)
(* page.  A nil answer does not end the walk: the caller may turn round.     *)
(***************************************************************************)
EXTENDS BTree

CONSTANTS
    MaxCursorOps,  \* bound on the calls made before and between the cursor's moves
    MaxCursorTx    \* bound on the transactions in which there is a cursor

VARIABLES
    stack,  \* Cursor.stack; empty when the cursor is on no element
    said,   \* the last move, its answer, what an ordered map answers, and the
            \* place in it: 2k on key k, odd between two keys, 0 when off the front
    may     \* the moves the caller may make before it repositions the cursor

cursorVars == <<stack, said, may>>
vars == <<treeVars, cursorVars>>

count(ref) == Len(Elem(b, ref).inodes)
Top(st) == st[Len(st)]
Step(ref, d) == [ref EXCEPT !.index = @ + d]

\* The reference under the element a branch reference points at.
Below(ref) == pageNode(b, Elem(b, ref).inodes[ref.index].ref)

\* Cursor.first and last: down to the first or last leaf under the stack's top.
RECURSIVE first(_), last(_)
first(st) ==
    IF Elem(b, Top(st)).leaf THEN st ELSE first(Append(st, Below(Top(st)) @@ [index |-> 1]))
last(st) ==
    IF Elem(b, Top(st)).leaf THEN st
    ELSE LET ref == Below(Top(st)) IN last(Append(st, ref @@ [index |-> count(ref)]))

(* Mutant of next: it stops at an empty leaf.                               *)
nextStops(st) ==
    LET can == {i \in 1..Len(st) : st[i].index < count(st[i])}
        i == CHOOSE j \in can : \A m \in can : m <= j
    IN  IF can = {} THEN [st |-> st, end |-> TRUE]
        ELSE [st |-> first(Append(SubSeq(st, 1, i - 1), Step(st[i], 1))), end |-> FALSE]

\* Cursor.next, over any number of empty leaves; a stack that cannot move on
\* stays, and .end says so.
RECURSIVE next(_)
next(st) ==
    LET can == {i \in 1..Len(st) : st[i].index < count(st[i])}
        i == CHOOSE j \in can : \A m \in can : m <= j
        moved == first(Append(SubSeq(st, 1, i - 1), Step(st[i], 1)))
    IN  IF can = {} THEN [st |-> st, end |-> TRUE]
        ELSE IF count(Top(moved)) = 0 THEN next(moved)
        ELSE [st |-> moved, end |-> FALSE]

KeyAt(st) == keyValue(b, st).key
Least(S) == IF S = {} THEN NoKey ELSE CHOOSE k \in S : \A j \in S : k <= j
Greatest(S) == IF S = {} THEN NoKey ELSE CHOOSE k \in S : \A j \in S : j <= k
Present == {k \in AllKeys : want[k] # None}

CursorOpen == phase = "open" /\ ops <= MaxCursorOps /\ txs <= MaxCursorTx

PastAll == 2 * (CHOOSE k \in AllKeys : \A j \in AllKeys : j <= k) + 1

\* Where in the ordered map the cursor is with stack st.  After a nil answer it
\* is still on the last element (Next), before the key it left (Prev, at a leaf
\* that was emptied), off the front (Prev) or past all keys.
MapPlace(op, st, key) ==
    IF st = <<>> THEN 0
    ELSE IF key # NoKey THEN 2 * key
    ELSE IF op = "next" /\ KeyAt(st) # NoKey THEN said.at
    ELSE IF op = "prev" THEN 2 * ((said.at + 1) \div 2) - 1
    ELSE PastAll

Answer(op, st, key, due) ==
    /\ said' = [op |-> op, key |-> key, due |-> due, at |-> MapPlace(op, st, key)]
    /\ stack' = st
    /\ UNCHANGED treeVars

\* First, Last and Seek, from which the caller may go in either direction.
Position(op, st, key, due) == Answer(op, st, key, due) /\ may' = {"next", "prev"}

\* Next and Prev; the first move after a Delete settles the direction.
Move(op, st, key, due) ==
    /\ op \in may
    /\ Answer(op, st, key, due)
    /\ may' = IF said.op = "delete" THEN {op} ELSE may

Root(i) == pageNode(b, b.root) @@ [index |-> i]

First ==
    /\ CursorOpen
    /\ LET st == first(<<Root(1)>>)
           moved == IF count(Top(st)) = 0 THEN next(st).st ELSE st
       IN  Position("first", moved, KeyAt(moved), Least(Present))

LastKey ==
    /\ CursorOpen
    /\ LET st == last(<<Root(count(Root(0)))>>)
       IN  Position("last", st, KeyAt(st), Greatest(Present))

\* A cursor that Prev has moved off the front has no element to go on from.
NextKey ==
    /\ CursorOpen
    /\ LET n == next(stack)
           ahead == {k \in Present : 2 * k > said.at}
       IN  Move("next", n.st, IF n.end THEN NoKey ELSE KeyAt(n.st),
                IF said.at = 0 THEN NoKey ELSE Least(ahead))

Prev ==
    /\ CursorOpen
    /\ LET can == {i \in 1..Len(stack) : stack[i].index > 1}
           i == CHOOSE j \in can : \A m \in can : m <= j
           st == IF can = {} THEN <<>>
                 ELSE last(Append(SubSeq(stack, 1, i - 1), Step(stack[i], -1)))
       IN  Move("prev", st, IF can = {} THEN NoKey ELSE KeyAt(st),
                Greatest({k \in Present : 2 * k < said.at}))

Seek(key) ==
    /\ CursorOpen
    /\ LET st == search(b, key, b.root)
           n == next(st)
           past == Top(st).index > count(Top(st))
           found == IF ~past THEN KeyAt(st) ELSE IF n.end THEN NoKey ELSE KeyAt(n.st)
       IN  Position("seek", IF past THEN n.st ELSE st, found, Least({k \in Present : k >= key}))

\* Cursor.Delete of the key under the cursor, if there is one.  On a node the
\* elements move under the cursor, which must then be repositioned; a page stays
\* as it was.
DeleteCurrent ==
    /\ CursorOpen /\ stack # <<>> /\ may # {} /\ ops < MaxOps
    /\ LET c == cursorNode(b, stack)
           key == KeyAt(stack)
       IN  /\ b' = del(c.t, c.n, key)
           /\ want' = [k \in AllKeys |-> IF k = key THEN None ELSE want[k]]
           /\ said' = [said EXCEPT !.op = "delete", !.key = key, !.due = key]
    /\ may' = IF Top(stack).node THEN {} ELSE may
    /\ ops' = ops + 1
    /\ UNCHANGED <<phase, visit, txs, stack>>

Unplaced ==
    [stack |-> <<>>, may |-> {}, said |-> [op |-> "none", key |-> NoKey, due |-> NoKey, at |-> 0]]

CursorInit == Init /\ stack = Unplaced.stack /\ may = Unplaced.may /\ said = Unplaced.said

\* A step of the tree leaves the cursor to be repositioned.
TreeStep ==
    /\ Next
    /\ stack' = Unplaced.stack /\ may' = Unplaced.may /\ said' = Unplaced.said

CursorNext ==
    \/ TreeStep
    \/ First \/ LastKey \/ NextKey \/ Prev
    \/ \E key \in Keys : Seek(key)
    \/ DeleteCurrent

CursorSpec == CursorInit /\ [][CursorNext]_vars

-----------------------------------------------------------------------------
\* A move answers as an ordered map of what the transaction has put would: the
\* least key, the least not below the one sought, the next one or the previous
\* one, also across leaves that were emptied or became nodes, after a nil answer
\* and a turn, and when the cursor's own deletes have removed what it has passed.
\* Only Last and Prev may answer nil instead, when the leaf they have come to was
\* emptied (cursor.go:31-131, 193-250); NilOnlyAtEnds is about that.
CursorExact ==
    \/ said.key = said.due
    \/ /\ said.op \in {"last", "prev"} /\ said.key = NoKey
       /\ stack # <<>> /\ count(Top(stack)) = 0

\* "Last moves the cursor to the last item in the bucket [...] If the bucket is
\* empty then a nil key and value are returned", and Prev answers nil "at the
\* beginning of the bucket": not while a key is left there (cursor.go:52-53, 82-83).
NilOnlyAtEnds ==
    said.op \in {"last", "prev"} /\ said.key = NoKey => said.due = NoKey
=============================================================================
