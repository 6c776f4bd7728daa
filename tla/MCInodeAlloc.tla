----------------------------- MODULE MCInodeAlloc -----------------------------
(***************************************************************************)
(* Instances of InodeAlloc for TLC: groups of a few inodes, of which two   *)
(* are reserved.                                                           *)
(***************************************************************************)
EXTENDS InodeAlloc
===============================================================================
