------------------------------- MODULE MCExtfs -------------------------------
(***************************************************************************)
(* Instances of Extfs for TLC: the root directory, one other directory and *)
(* two or three free inodes; two names.                                    *)
(***************************************************************************)
EXTENDS Extfs

CONSTANTS a, b

All == {"create", "mknod", "mkdir", "lookup", "unlink", "rmdir", "rename", "chmod"}
===============================================================================
