------------------------------ MODULE MmapSize ------------------------------
(***************************************************************************)
(* The size of the memory map for a file of a given size (db.go), with its  *)
(* limits as constants: in the code the map doubles from 2^15 to 2^30       *)
(* bytes, then grows by 2^30, and ends at maxMapSize.                       *)
(***************************************************************************)
EXTENDS Integers

CONSTANTS
    Doubled,      \* the sizes the map takes while it doubles
    maxMmapStep,  \* what it grows by after that
    maxMapSize,   \* the largest map
    pageSize

ASSUME SizesAssumption ==
    /\ Doubled \subseteq Nat /\ Doubled # {}
    /\ maxMmapStep \in Nat \ {0} /\ maxMapSize \in Nat /\ pageSize \in Nat \ {0}
    /\ \A d \in Doubled : d <= maxMapSize

RoundUp(sz, unit) == IF sz % unit = 0 THEN sz ELSE sz + unit - (sz % unit)

TooLarge == -1

(* Mutant of mmapSize: a size rounded up past the limit is refused.         *)
mmapSizeStrict(size) ==
    LET fits == {d \in Doubled : size <= d}
        stepped == RoundUp(RoundUp(size, maxMmapStep), pageSize)
    IN  IF fits # {} THEN CHOOSE d \in fits : \A e \in fits : d <= e
        ELSE IF stepped > maxMapSize THEN TooLarge ELSE stepped

\* db.mmapSize
mmapSize(size) ==
    LET fits == {d \in Doubled : size <= d}
        stepped == RoundUp(RoundUp(size, maxMmapStep), pageSize)
    IN  IF fits # {} THEN CHOOSE d \in fits : \A e \in fits : d <= e
        ELSE IF size > maxMapSize THEN TooLarge
        ELSE IF stepped > maxMapSize THEN maxMapSize ELSE stepped
=============================================================================
