------------------------------- MODULE MCDB -------------------------------
(* DB for TLC: readers are interchangeable, and the number of readers, of  *)
(* transactions and of pages is given by the configurations.               *)
EXTENDS DBInvariant, TLC

ReaderSymmetry == Permutations(Readers)
=============================================================================
