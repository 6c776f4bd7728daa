------------------------------ MODULE MCTableFs ------------------------------
(***************************************************************************)
(* A device table with two free nodes for three names, of two lengths; a   *)
(* boot image with a file of two bytes and a directory of one file in the  *)
(* root; two processes, with buffers that hold one record or two.          *)
(***************************************************************************)
EXTENDS TableFs

MCRecordSize == [null |-> 1, tty |-> 1, console |-> 2]

MCImage ==
  [i \in 0..3 |->
     CASE i = 0 -> [name |-> "", type |-> "dir", parent |-> 0, offset |-> 0, size |-> 0]
       [] i = 1 -> [name |-> "sysinit", type |-> "file", parent |-> 0, offset |-> 10, size |-> 2]
       [] i = 2 -> [name |-> "bin", type |-> "dir", parent |-> 0, offset |-> 0, size |-> 0]
       [] i = 3 -> [name |-> "sh", type |-> "file", parent |-> 2, offset |-> 12, size |-> 1]]

MCIfsRecordSize == [sysinit |-> 2, bin |-> 1, sh |-> 1]
==============================================================================
