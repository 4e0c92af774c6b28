------------------------------ MODULE MCCursor ------------------------------
EXTENDS Cursor

MCKeys == {2, 4, 5, 6, 8, 12}
MCLoads == {{2, 4, 6, 8}, {2 * i : i \in 1..11}}
=============================================================================
