------------------------------- MODULE MCFileIO -------------------------------
(* Instances of FileIO: blocks of two bytes, so that a request may begin or end in the
   middle of a block and span several. *)
EXTENDS FileIO

OneTag == {10}
===============================================================================
