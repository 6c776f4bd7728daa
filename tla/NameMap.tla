------------------------------- MODULE NameMap -------------------------------
(***************************************************************************)
(* What a directory of the ext2 handler promises to the requests that use  *)
(* it: a collection of entries, each at a place of its own that it keeps   *)
(* until it is removed.  A name is bound only when it is free, so that the *)
(* entries are a finite map from names to inode numbers, unless rename     *)
(* binds it again; then the entry at the first place is the one that       *)
(* lookups find and unlink removes.  How entries are laid out in the       *)
(* records of directory blocks is ExtDir's business, and ExtDir is shown   *)
(* to implement this module.                                               *)
(***************************************************************************)
EXTENDS Integers

CONSTANTS Names,     \* file names
          Inos,      \* inode numbers a directory entry may hold
          Places,    \* positions of entries
          Unchecked  \* whether a name that is bound may be bound again

VARIABLE dir         \* the set of triples <<place, name, inode number>>

Bindings(n) == {d \in dir : d[2] = n}

Init == dir = {}

Enter(n, i) ==
  \E o \in Places :
    /\ \A d \in dir : d[1] # o
    /\ dir' = dir \union {<<o, n, i>>}

Bind(n, i) == Bindings(n) = {} /\ Enter(n, i)

BindAgain(n, i) == Unchecked /\ Enter(n, i)

Unbind(n) ==
  \E d \in Bindings(n) :
    /\ \A e \in Bindings(n) : d[1] <= e[1]
    /\ dir' = dir \ {d}

Next == \E n \in Names : Unbind(n) \/ \E i \in Inos : Bind(n, i) \/ BindAgain(n, i)

Spec == Init /\ [][Next]_dir
==============================================================================
