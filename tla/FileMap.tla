------------------------------- MODULE FileMap -------------------------------
(***************************************************************************)
(* What the block map of files promises to reads and writes: a map from    *)
(* positions in files to disk blocks.  A position is mapped to a block     *)
(* that no other position has and stays mapped to it, unless its file has  *)
(* unsaved changes, when it may lose positions, or begins anew.  BlockMap  *)
(* builds this out of direct and indirect blocks.                          *)
(***************************************************************************)
CONSTANTS Files, Positions, Blocks

VARIABLES
  map,     \* set of triples <<file, position, block>>
  unsaved  \* files with unsaved changes

Init == map = {} /\ unsaved = {}

Assign(f, p, b) ==
  /\ f \in Files /\ p \in Positions /\ b \in Blocks
  /\ \A x \in map : <<x[1], x[2]>> # <<f, p>> /\ x[3] # b
  /\ map' = map \union {<<f, p, b>>}
  /\ unsaved' \in {unsaved \union {f}, unsaved \ {f}}

\* An attempt to assign that fails leaves the map as it is.
Fail(f) == map' = map /\ unsaved' = unsaved \union {f}

Save(f) == map' = map /\ unsaved' = unsaved \ {f}

\* A file begins anew, with no positions.
Renew(f) == map' = {x \in map : x[1] # f} /\ unsaved' = unsaved \ {f}

\* Unsaved files F lose positions.
Forget(F) ==
  /\ F \subseteq unsaved
  /\ map' \subseteq map
  /\ \A x \in map \ map' : x[1] \in F
  /\ unsaved' = unsaved \ F

Next ==
  \/ \E x \in map' \ map : Assign(x[1], x[2], x[3])
  \/ \E f \in Files : Fail(f) \/ Save(f) \/ Renew(f)
  \/ \E F \in SUBSET Files : Forget(F)

Spec == Init /\ [][Next]_<<map, unsaved>>
===============================================================================
