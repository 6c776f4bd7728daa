---------------------------- MODULE MCInodeCache ----------------------------
(***************************************************************************)
(* Instances of InodeCache for TLC: more inodes than slots, so that every  *)
(* request may have to recycle a slot.                                     *)
(***************************************************************************)
EXTENDS InodeCache

MCInos == 1..3
MCVals == 0..1
=============================================================================
