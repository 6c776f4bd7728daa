------------------------------ MODULE InodeStore ------------------------------
(***************************************************************************)
(* What the inode cache promises to the request handlers: every inode has  *)
(* its attributes, whether or not it happens to be in memory.  A handler   *)
(* that pins an inode (get_inode) sees what the last handler left, and     *)
(* releasing an inode changes nothing unless it has no links left, when it *)
(* is freed.  The one reservation: a change made by a request for file     *)
(* data may stay unsaved (late), and pinning another inode may undo it;    *)
(* what is never undone is a link count.  InodeCache implements this with  *)
(* a few slots in front of the inode tables.                               *)
(***************************************************************************)
EXTENDS Integers

CONSTANTS Inos, Vals, MaxLinks

Attributes == [links : 0..MaxLinks, val : Vals]
Cleared    == [links |-> 0, val |-> 0]

VARIABLES
  attr,    \* the attributes of every inode
  pinned,  \* the inodes the current request holds
  late     \* the inodes with an unsaved change by a request for file data

Init == attr \in [Inos -> Attributes] /\ pinned = {} /\ late = {}

\* Pinning n may undo the late change of one other inode that is not pinned.
Undo(m) ==
  /\ \E v \in Vals : attr' = [attr EXCEPT ![m] = [attr[m] EXCEPT !.val = v]]
  /\ late' = late \ {m}

Pin(n) ==
  /\ pinned' = pinned \union {n}
  /\ \/ UNCHANGED <<attr, late>>
     \/ \E m \in late \ (pinned \union {n}) : Undo(m)

Change(n, a) ==
  /\ attr' = [attr EXCEPT ![n] = a]
  /\ UNCHANGED <<pinned, late>>

ChangeByData(n, v) ==
  /\ attr' = [attr EXCEPT ![n] = [attr[n] EXCEPT !.val = v]]
  /\ late' \in {late \union {n}, late \ {n}}
  /\ pinned' = pinned

Save(n) ==
  /\ late' = late \ {n}
  /\ UNCHANGED <<attr, pinned>>

Unpin(n) ==
  /\ n \in pinned
  /\ pinned' = pinned \ {n}
  /\ late' \in {late, late \ {n}}
  /\ attr' = IF attr[n].links = 0 THEN [attr EXCEPT ![n] = Cleared] ELSE attr

Next ==
  \E n \in Inos :
    \/ Pin(n) \/ Save(n) \/ Unpin(n)
    \/ \E a \in Attributes : Change(n, a)
    \/ \E v \in Vals : ChangeByData(n, v)

Spec == Init /\ [][Next]_<<attr, pinned, late>>
===============================================================================
