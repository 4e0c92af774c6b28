------------------------------- MODULE Inodes -------------------------------
(***************************************************************************)
(* The inodes of one node of the B+tree: a sequence of records with a key   *)
(* and a ref, ordered by key (node.go; cursor.go for the descent).          *)
(***************************************************************************)
EXTENDS Integers, SequencesExt

CONSTANTS
    HeaderSize,  \* pageHeaderSize
    ElemSize     \* a page element's header and its key

minKeysPerPage == 2
minKeys(n) == IF n.leaf THEN 1 ELSE 2

\* The bytes a node's inodes take on a page.
size(n) ==
    LET add(s, e) == s + ElemSize + (IF n.leaf THEN e.ref ELSE 0)
    IN  FoldLeft(add, HeaderSize, n.inodes)

\* sort.Search for the first inode whose key is not below key.
Search(inodes, key) ==
    CHOOSE i \in 1..Len(inodes) + 1 :
        /\ i <= Len(inodes) => inodes[i].key >= key
        /\ \A j \in 1..i - 1 : inodes[j].key < key

Found(inodes, i, key) == i <= Len(inodes) /\ inodes[i].key = key

put(inodes, oldKey, newKey, ref) ==
    LET i == Search(inodes, oldKey)
        e == [key |-> newKey, ref |-> ref]
    IN  IF Found(inodes, i, oldKey) THEN [inodes EXCEPT ![i] = e] ELSE InsertAt(inodes, i, e)

\* Cursor.searchNode and searchPage: the child to descend into.
Descend(inodes, key) ==
    LET i == Search(inodes, key)
    IN  IF Found(inodes, i, key) \/ i = 1 THEN i ELSE i - 1

\* node.splitIndex: how many inodes fill a page to the threshold.
splitIndex(n, threshold) ==
    LET fits(i) == size([n EXCEPT !.inodes = SubSeq(@, 1, i + 1)]) <= threshold
        last == Len(n.inodes) - minKeysPerPage - 1
    IN  CHOOSE i \in 0..last :
            /\ i = last \/ (i >= minKeysPerPage /\ ~fits(i))
            /\ \A j \in minKeysPerPage..i - 1 : fits(j)

\* node.splitTwo: what the node keeps and what its new right sibling gets, which
\* is not made if there are too few inodes for two pages or they fit in one.
splitTwo(n, pageSize, threshold) ==
    LET i == IF Len(n.inodes) <= 2 * minKeysPerPage \/ size(n) < pageSize
             THEN Len(n.inodes)
             ELSE splitIndex(n, threshold)
    IN  [left |-> SubSeq(n.inodes, 1, i), right |-> SubSeq(n.inodes, i + 1, Len(n.inodes))]
=============================================================================
