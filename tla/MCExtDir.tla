------------------------------- MODULE MCExtDir -------------------------------
(***************************************************************************)
(* Instances of ExtDir for TLC: names of three lengths, in blocks that     *)
(* hold one to three records.                                              *)
(***************************************************************************)
EXTENDS ExtDir

CONSTANTS a, b, c

MCNeed == [n \in Names |-> CASE n = a -> 2 [] n = b -> 3 [] OTHER -> 4]
===============================================================================
