------------------------------ MODULE MCBlockMap ------------------------------
(***************************************************************************)
(* Instances of BlockMap for TLC: indirect blocks of two entries, so that  *)
(* a few positions use every depth, and two groups that fill up in the     *)
(* middle of an allocation.                                                *)
(***************************************************************************)
EXTENDS BlockMap, TLC

CONSTANTS f1, f2

\* The first blocks of each group; the last block is padding.
MCSystem == {1, 2, 6, 10}
\* One direct block, one single and one double indirect one, two triple ones.
MCPositions == {0, 1, 3, 8, 14}
\* Files are interchangeable.
MCSymmetry == Permutations(Files)
===============================================================================
