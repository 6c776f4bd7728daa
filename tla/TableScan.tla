------------------------------ MODULE TableScan ------------------------------
(***************************************************************************)
(* How devfs and ifs answer readdir: they walk their table of nodes from   *)
(* the cookie of the request and pack one record for each node to be       *)
(* listed, until the table ends or a record does not fit in the reply.     *)
(* The cookie of the reply is where the walk stopped.                      *)
(*                                                                         *)
(* need[i] is the length of the record of node i, 0 when it is not listed. *)
(***************************************************************************)
EXTENDS Integers, FiniteSets

\* The length of the records of the nodes from cookie to the one before.
Used(need, end, cookie) ==
  LET used[i \in cookie..end] == IF i = cookie THEN 0 ELSE used[i - 1] + need[i - 1]
  IN used

\* The node at which a walk from cookie stops: the first whose record does not fit in
\* what its predecessors leave of room.
StopsAt(need, end, cookie, room) ==
  LET used == Used(need, end, cookie)
  IN CHOOSE c \in cookie..end :
       /\ c < end => need[c] > 0 /\ used[c] + need[c] > room
       /\ \A i \in cookie..(c - 1) : need[i] > 0 => used[i] + need[i] <= room

\* The numbers in S from the least to the greatest.
InOrder(S) ==
  [k \in 1..Cardinality(S) |-> CHOOSE i \in S : Cardinality({j \in S : j < i}) = k - 1]

\* The nodes listed in one reply.
Listing(need, cookie, stop) == InOrder({i \in cookie..(stop - 1) : need[i] > 0})
==============================================================================
