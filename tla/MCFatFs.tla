-------------------------------- MODULE MCFatFs --------------------------------
(* A volume of six clusters: the file f, and the full directory d with file g. *)
EXTENDS FatFs, TLC

MCNames == {"f", "d", "g"}

File(nm, c, s) == [kind |-> "file", name |-> nm, first |-> c, size |-> s]
Dot(c)         == [kind |-> "dot", name |-> "", first |-> c, size |-> 0]

MCVolume ==
  [fat   |-> (2 :> EOC) @@ (3 :> EOC) @@ (4 :> 5) @@ (5 :> EOC) @@ (6 :> FREE) @@ (7 :> FREE),
   entry |-> [p \in Places |->
     CASE p = <<ROOT, 1>> -> File("f", 2, 2)
       [] p = <<ROOT, 2>> -> [kind |-> "dir", name |-> "d", first |-> 3, size |-> 0]
       [] p \in {<<3, 1>>, <<3, 2>>} -> Dot(EOC)
       [] p = <<3, 3>> -> File("g", 4, 3)
       [] OTHER -> Vacant]]
===============================================================================
