---------------------------- MODULE BlockMapProofs ----------------------------
(***************************************************************************)
(* Theorems about BlockMap, for any geometry of groups and indirect        *)
(* blocks, any files and positions: no block has two owners, none leaks,   *)
(* the counts match, and the tree of indirect blocks implements FileMap.   *)
(***************************************************************************)
EXTENDS BlockMap, FiniteSetTheorems, WellFoundedInduction, NaturalsInduction, Sequences, TLAPS

-------------------------------------------------------------------------------
(* Places: a place in a file is a route, the indices from its inode to one *)
(* of its data blocks, and how far along it one has gone.                  *)

Nodes   == Files \union Blocks
Content == Blocks \union {NO_BLOCK}
Indices(n) == IF n \in Files THEN 0..(NDir + 2) ELSE 0..(Addr - 1)

\* The levels of the tree under index i of an inode.
Levels(i) == IF i < NDir THEN 1 ELSE i - NDir + 2

Routes == {s \in Seq(Nat) : /\ Len(s) \in 1..4
                            /\ s[1] <= NDir + 2
                            /\ Len(s) = Levels(s[1])
                            /\ \A j \in 2..Len(s) : s[j] < Addr}

\* The node after k steps of route s: the inode, an indirect block, the data block.
At(ent, f, s, k) ==
  LET n1 == Follow(ent, f, s[1])
      n2 == Follow(ent, n1, s[2])
      n3 == Follow(ent, n2, s[3])
  IN IF k = 0 THEN f ELSE IF k = 1 THEN n1 ELSE IF k = 2 THEN n2
     ELSE IF k = 3 THEN n3 ELSE Follow(ent, n3, s[4])

\* Routes s and t have the first k steps in common.
Agree(s, t, k) == k <= Len(s) /\ k <= Len(t) /\ \A j \in 1..k : s[j] = t[j]

EntryType(ent) ==
  /\ ent = [n \in Nodes |-> ent[n]]
  /\ \A n \in Nodes : ent[n] \in [Indices(n) -> Content]

Reached(ent, b) ==
  /\ b # NO_BLOCK
  /\ \E g \in Files, t \in Routes : \E k \in 1..Len(t) : At(ent, g, t, k) = b

\* No block is at two places.
OnePlace(ent) ==
  \A g, h \in Files, t, u \in Routes : \A k \in 1..Len(t), l \in 1..Len(u) :
    At(ent, g, t, k) = At(ent, h, u, l) /\ At(ent, g, t, k) # NO_BLOCK
      => g = h /\ k = l /\ Agree(t, u, k)

LEMMA Constants ==
  /\ Groups \in Nat \ {0} /\ PerGroup \in Nat \ {0} /\ FirstBlock \in {0, 1}
  /\ System \subseteq Blocks /\ (NO_BLOCK \in Blocks => NO_BLOCK \in System)
  /\ NDir \in Nat \ {0} /\ Addr \in Nat \ {0} /\ MaxRestarts \in Nat
  /\ NO_BLOCK \notin Files /\ (\A f \in Files : f \notin Blocks)
  /\ Blocks \subseteq Nat /\ NO_BLOCK = 0
  BY BlockAssumption DEF Blocks, NO_BLOCK

\* What a route is, index by index.
LEMMA RouteShape ==
  ASSUME NEW s \in Routes
  PROVE  /\ s \in Seq(Nat) /\ Len(s) \in 1..4 /\ s[1] \in 0..(NDir + 2)
         /\ Len(s) = Levels(s[1])
         /\ \A j \in 1..Len(s) : s[j] \in Nat
         /\ \A j \in 2..Len(s) : s[j] \in 0..(Addr - 1)
<1>1. s \in Seq(Nat) /\ Len(s) \in 1..4 /\ s[1] <= NDir + 2 /\ Len(s) = Levels(s[1])
      /\ \A j \in 2..Len(s) : s[j] < Addr
  BY DEF Routes
<1>2. \A j \in 1..Len(s) : s[j] \in Nat
  BY <1>1
<1>3. NDir \in Nat /\ Addr \in Nat
  BY Constants
<1>4. s[1] \in 0..(NDir + 2)
  BY <1>1, <1>2, <1>3
<1>5. \A j \in 2..Len(s) : s[j] \in 0..(Addr - 1)
  BY <1>1, <1>2, <1>3
<1> QED
  BY <1>1, <1>2, <1>4, <1>5

\* A route begins at the inode.
LEMMA AtStart ==
  ASSUME NEW ent, NEW f \in Files, NEW s \in Routes
  PROVE  At(ent, f, s, 0) = f
  BY DEF At

\* One step along a route.
LEMMA AtNext ==
  ASSUME NEW ent, NEW f, NEW s \in Routes, NEW k \in 1..Len(s)
  PROVE  At(ent, f, s, k) = Follow(ent, At(ent, f, s, k - 1), s[k])
<1>1. Len(s) \in 1..4
  BY RouteShape
<1>2. CASE k = 1
  BY <1>1, <1>2 DEF At
<1>3. CASE k = 2
  BY <1>1, <1>3 DEF At
<1>4. CASE k = 3
  BY <1>1, <1>4 DEF At
<1>5. CASE k = 4
  BY <1>1, <1>5 DEF At
<1> QED
  BY <1>1, <1>2, <1>3, <1>4, <1>5

LEMMA Bounds ==
  \A n \in 1..4 : \A k \in 0..n :
     k = 0 \/ k = 1 \/ (k = 2 /\ 2 <= n) \/ (k = 3 /\ 3 <= n) \/ (k = 4 /\ 4 <= n)
  OBVIOUS

\* Induction along a route.
LEMMA Along ==
  ASSUME NEW s \in Routes, NEW S, 0 \in S,
         \A k \in 1..Len(s) : k - 1 \in S => k \in S
  PROVE  \A k \in 0..Len(s) : k \in S
<1>1. Len(s) \in 1..4
  BY RouteShape
<1>2. 1 \in S
  BY <1>1
<1>3. 2 <= Len(s) => 2 \in S
  <2>1. 2 <= Len(s) => 2 \in 1..Len(s) /\ 2 - 1 = 1
    BY <1>1
  <2> QED
    BY <1>2, <2>1
<1>4. 3 <= Len(s) => 3 \in S
  <2>1. 3 <= Len(s) => 3 \in 1..Len(s) /\ 3 - 1 = 2 /\ 2 <= Len(s)
    BY <1>1
  <2> QED
    BY <1>3, <2>1
<1>5. 4 <= Len(s) => 4 \in S
  <2>1. 4 <= Len(s) => 4 \in 1..Len(s) /\ 4 - 1 = 3 /\ 3 <= Len(s)
    BY <1>1
  <2> QED
    BY <1>4, <2>1
<1>6. \A k \in 0..Len(s) : k = 0 \/ k = 1 \/ (k = 2 /\ 2 <= Len(s))
                           \/ (k = 3 /\ 3 <= Len(s)) \/ (k = 4 /\ 4 <= Len(s))
  BY <1>1, Bounds
<1> QED
  BY <1>2, <1>3, <1>4, <1>5, <1>6

\* Nodes along a route are blocks.
LEMMA AtContent ==
  ASSUME NEW ent, EntryType(ent), NEW f \in Files, NEW s \in Routes
  PROVE  \A k \in 1..Len(s) : At(ent, f, s, k) \in Content
<1> DEFINE S == {k \in 0..Len(s) : k = 0 \/ At(ent, f, s, k) \in Content}
<1>0. Len(s) \in 1..4
  BY RouteShape
<1>1. ASSUME NEW k \in 1..Len(s), k - 1 \in S
      PROVE  At(ent, f, s, k) \in Content
  <2> DEFINE x == At(ent, f, s, k - 1)
             y == At(ent, f, s, k)
  <2>1. y = Follow(ent, x, s[k])
    BY AtNext
  <2>2. k = 1 => x = f
    BY AtStart
  <2>3. k # 1 => x \in Content /\ k \in 2..Len(s)
    BY <1>0, <1>1
  <2> SUFFICES y \in Content
    OBVIOUS
  <2> HIDE DEF x, y
  <2>4. CASE x = NO_BLOCK
    BY <2>1, <2>4 DEF Follow, Content
  <2>5. CASE x # NO_BLOCK /\ k = 1
    <3>1. x \in Nodes /\ s[k] \in Indices(x)
      BY <2>2, <2>5, RouteShape DEF Nodes, Indices
    <3> QED
      BY <2>1, <2>5, <3>1 DEF Follow, EntryType
  <2>6. CASE x # NO_BLOCK /\ k # 1
    <3>1. x \in Blocks /\ x \notin Files
      BY <2>3, <2>6, Constants DEF Content
    <3>2. x \in Nodes /\ s[k] \in Indices(x)
      BY <2>3, <2>6, <3>1, RouteShape DEF Nodes, Indices
    <3> QED
      BY <2>1, <2>6, <3>2 DEF Follow, EntryType
  <2> QED
    BY <2>4, <2>5, <2>6
<1>2. 0 \in S
  BY <1>0
<1>3. \A k \in 1..Len(s) : k - 1 \in S => k \in S
  BY <1>0, <1>1
<1>4. \A k \in 0..Len(s) : k \in S
  <2> HIDE DEF S
  <2> QED
    BY <1>2, <1>3, Along
<1> QED
  BY <1>0, <1>4

\* A step from a node that is there is a look at one of its entries; there is
\* nothing beyond a hole.
LEMMA AtTyped ==
  ASSUME NEW ent, EntryType(ent), NEW f \in Files, NEW s \in Routes, NEW k \in 1..Len(s),
         NEW x, x = At(ent, f, s, k - 1)
  PROVE  /\ At(ent, f, s, k) = Follow(ent, x, s[k])
         /\ x = NO_BLOCK => At(ent, f, s, k) = NO_BLOCK
         /\ x # NO_BLOCK => /\ x \in Nodes
                            /\ s[k] \in Indices(x)
                            /\ At(ent, f, s, k) = ent[x][s[k]]
         /\ k = 1 => x = f
         /\ k # 1 => k - 1 \in 1..Len(s) /\ x \in Content
<1>0. Len(s) \in 1..4
  BY RouteShape
<1>1. At(ent, f, s, k) = Follow(ent, x, s[k])
  BY AtNext
<1>2. k = 1 => x = f
  BY AtStart
<1>3. k # 1 => k - 1 \in 1..Len(s) /\ k \in 2..Len(s)
  BY <1>0
<1>4. k # 1 => x \in Content
  BY <1>3, AtContent
<1>5. x # NO_BLOCK => x \in Nodes /\ s[k] \in Indices(x)
  <2>1. CASE k = 1
    BY <1>2, <2>1, RouteShape DEF Nodes, Indices
  <2>2. CASE k # 1 /\ x # NO_BLOCK
    <3>1. x \in Blocks /\ x \notin Files
      BY <1>4, <2>2, Constants DEF Content
    <3> QED
      BY <1>3, <2>2, <3>1, RouteShape DEF Nodes, Indices
  <2> QED
    BY <2>1, <2>2
<1> QED
  BY <1>1, <1>2, <1>3, <1>4, <1>5 DEF Follow

\* What is at a place depends on the route up to it only.
LEMMA AtPrefix ==
  ASSUME NEW ent, NEW f \in Files, NEW s \in Routes, NEW t \in Routes, NEW k \in 0..Len(s),
         Agree(s, t, k)
  PROVE  At(ent, f, s, k) = At(ent, f, t, k)
<1>1. Len(s) \in 1..4
  BY RouteShape
<1>2. \A j \in 1..k : s[j] = t[j]
  BY DEF Agree
<1>3. k = 0 \/ k = 1 \/ k = 2 \/ k = 3 \/ k = 4
  BY <1>1
<1>4. CASE k = 0
  BY <1>4 DEF At
<1>5. CASE k = 1
  BY <1>2, <1>5 DEF At
<1>6. CASE k = 2
  BY <1>2, <1>6 DEF At
<1>7. CASE k = 3
  BY <1>2, <1>7 DEF At
<1>8. CASE k = 4
  BY <1>2, <1>8 DEF At
<1> QED
  BY <1>3, <1>4, <1>5, <1>6, <1>7, <1>8

\* There is nothing beyond a hole.
LEMMA AtBeyond ==
  ASSUME NEW ent, EntryType(ent), NEW f \in Files, NEW s \in Routes,
         NEW k \in 0..Len(s), At(ent, f, s, k) = NO_BLOCK, NEW l \in k..Len(s)
  PROVE  At(ent, f, s, l) = NO_BLOCK
<1> DEFINE S == {j \in 0..Len(s) : j < k \/ At(ent, f, s, j) = NO_BLOCK}
<1>0. Len(s) \in 1..4
  BY RouteShape
<1>1. 0 \in S
  BY <1>0
<1>2. ASSUME NEW j \in 1..Len(s), j - 1 \in S
      PROVE  j \in S
  <2>1. At(ent, f, s, j - 1) = NO_BLOCK => At(ent, f, s, j) = NO_BLOCK
    BY AtTyped
  <2>2. j - 1 < k => j < k \/ j = k
    BY <1>0
  <2> QED
    BY <1>0, <1>2, <2>1, <2>2
<1>3. \A j \in 0..Len(s) : j \in S
  <2> HIDE DEF S
  <2> QED
    BY <1>1, <1>2, Along
<1>4. l \in 0..Len(s) /\ ~(l < k)
  BY <1>0
<1> QED
  BY <1>3, <1>4

\* The same node at two places: they are one place.
LEMMA SamePlace ==
  ASSUME NEW ent, EntryType(ent), OnePlace(ent), NEW g \in Files, NEW f \in Files,
         NEW t \in Routes, NEW s \in Routes, NEW k \in 0..Len(t), NEW m \in 0..Len(s),
         At(ent, g, t, k) = At(ent, f, s, m), At(ent, g, t, k) # NO_BLOCK
  PROVE  g = f /\ k = m /\ Agree(t, s, k)
<1>0. Len(s) \in 1..4 /\ Len(t) \in 1..4
  BY RouteShape
<1>1. k = 0 => At(ent, g, t, k) = g
  BY AtStart
<1>2. m = 0 => At(ent, f, s, m) = f
  BY AtStart
<1>3. k # 0 => k \in 1..Len(t)
  BY <1>0
<1>4. m # 0 => m \in 1..Len(s)
  BY <1>0
<1>5. k # 0 => At(ent, g, t, k) \in Blocks
  BY <1>3, AtContent DEF Content
<1>6. m # 0 => At(ent, f, s, m) \in Blocks
  BY <1>4, AtContent DEF Content
<1>7. CASE k = 0
  <2>1. m = 0 /\ g = f
    BY <1>1, <1>2, <1>6, <1>7, Constants
  <2> QED
    BY <1>0, <1>7, <2>1 DEF Agree
<1>8. CASE k # 0
  <2>1. m # 0
    BY <1>2, <1>5, <1>8, Constants
  <2> QED
    BY <1>3, <1>4, <1>8, <2>1 DEF OnePlace
<1> QED
  BY <1>7, <1>8

-------------------------------------------------------------------------------
(* Entering a block that is at no place yet, step m of route s of file f.  *)

\* Block b is entered in entry i of a node; it is cleared first unless it is data.
Entered(ent, ent2, node, i, b, data) ==
  /\ EntryType(ent2)
  /\ ent2[node][i] = b
  /\ \A n \in Nodes \ {b} : \A j \in Indices(n) :
       n # node \/ j # i => ent2[n][j] = ent[n][j]
  /\ data \/ \A j \in Indices(b) : ent2[b][j] = NO_BLOCK

\* The place k of route t of file g is where the block is entered.
IsNew(f, s, m, g, t, k) == g = f /\ k = m /\ Agree(s, t, m)

CanEnter(ent, f, s, m, b) ==
  /\ EntryType(ent) /\ OnePlace(ent)
  /\ f \in Files /\ s \in Routes /\ m \in 1..Len(s)
  /\ At(ent, f, s, m - 1) # NO_BLOCK /\ At(ent, f, s, m) = NO_BLOCK
  /\ b \in Blocks /\ b # NO_BLOCK /\ ~Reached(ent, b)

\* A node of the tree is not a block that is at no place.
LEMMA NotFresh ==
  ASSUME NEW ent, NEW b \in Blocks, b # NO_BLOCK, ~Reached(ent, b),
         NEW g \in Files, NEW t \in Routes, NEW k \in 0..Len(t)
  PROVE  At(ent, g, t, k) # b
<1>0. Len(t) \in 1..4
  BY RouteShape
<1>1. CASE k = 0
  BY <1>1, AtStart, Constants
<1>2. CASE k # 0
  <2>1. k \in 1..Len(t)
    BY <1>0, <1>2
  <2> QED
    BY <2>1 DEF Reached
<1> QED
  BY <1>1, <1>2

\* Routes with a common step have the same length.
LEMMA AgreeLength ==
  ASSUME NEW s \in Routes, NEW t \in Routes, NEW m \in 1..Len(s), Agree(s, t, m)
  PROVE  Len(s) = Len(t) /\ m \in 1..Len(t)
<1>0. Len(s) \in 1..4 /\ Len(t) \in 1..4
  BY RouteShape
<1>1. s[1] = t[1]
  BY <1>0 DEF Agree
<1>2. Len(s) = Len(t)
  BY <1>1, RouteShape
<1> QED
  BY <1>2

\* At the new place and beyond there was nothing.
LEMMA NewWasEmpty ==
  ASSUME NEW ent, NEW f, NEW s, NEW m, NEW b, CanEnter(ent, f, s, m, b),
         NEW t \in Routes, Agree(s, t, m), NEW k \in m..Len(t)
  PROVE  At(ent, f, t, k) = NO_BLOCK
<1>1. /\ EntryType(ent) /\ f \in Files /\ s \in Routes /\ m \in 1..Len(s)
      /\ At(ent, f, s, m) = NO_BLOCK
  BY DEF CanEnter
<1>2. m \in 1..Len(t) /\ m \in 0..Len(s) /\ m \in 0..Len(t)
  BY <1>1, AgreeLength, RouteShape
<1>3. At(ent, f, t, m) = NO_BLOCK
  BY <1>1, <1>2, AtPrefix
<1> QED
  BY <1>1, <1>2, <1>3, AtBeyond

\* Nothing but the new place changes.
LEMMA AtAfter ==
  ASSUME NEW ent, NEW f, NEW s, NEW m, NEW b, CanEnter(ent, f, s, m, b), NEW ent2,
         Entered(ent, ent2, At(ent, f, s, m - 1), s[m], b, m = Len(s)),
         NEW g \in Files, NEW t \in Routes
  PROVE  \A k \in 0..Len(t) :
           At(ent2, g, t, k) = IF IsNew(f, s, m, g, t, k) THEN b ELSE At(ent, g, t, k)
<1> DEFINE S == {k \in 0..Len(t) :
                   At(ent2, g, t, k) = IF IsNew(f, s, m, g, t, k) THEN b ELSE At(ent, g, t, k)}
           node == At(ent, f, s, m - 1)
<1>0. /\ EntryType(ent) /\ OnePlace(ent) /\ f \in Files /\ s \in Routes /\ m \in 1..Len(s)
      /\ node # NO_BLOCK /\ At(ent, f, s, m) = NO_BLOCK
      /\ b \in Blocks /\ b # NO_BLOCK /\ ~Reached(ent, b)
  BY DEF CanEnter
<1>00. EntryType(ent2)
  BY DEF Entered
<1>a. Len(s) \in 1..4 /\ Len(t) \in 1..4
  BY <1>0, RouteShape
<1>b. m - 1 \in 0..Len(s) /\ m \in Nat
  BY <1>0, <1>a
<1>1. 0 \in S
  <2>1. At(ent2, g, t, 0) = g /\ At(ent, g, t, 0) = g
    BY AtStart
  <2>2. ~IsNew(f, s, m, g, t, 0)
    BY <1>0, <1>b DEF IsNew
  <2> QED
    BY <1>a, <2>1, <2>2
<1>2. ASSUME NEW k \in 1..Len(t), k - 1 \in S
      PROVE  k \in S
  <2> DEFINE x  == At(ent, g, t, k - 1)
             x2 == At(ent2, g, t, k - 1)
  <2>0. /\ k \in 0..Len(t) /\ k - 1 \in 0..Len(t) /\ k \in Nat
        /\ x2 = IF IsNew(f, s, m, g, t, k - 1) THEN b ELSE x
    BY <1>a, <1>2
  <2>1. /\ x2 = NO_BLOCK => At(ent2, g, t, k) = NO_BLOCK
        /\ x2 # NO_BLOCK => /\ x2 \in Nodes /\ t[k] \in Indices(x2)
                            /\ At(ent2, g, t, k) = ent2[x2][t[k]]
    BY <1>00, AtTyped
  <2>2. /\ x = NO_BLOCK => At(ent, g, t, k) = NO_BLOCK
        /\ x # NO_BLOCK => /\ x \in Nodes /\ t[k] \in Indices(x)
                           /\ At(ent, g, t, k) = ent[x][t[k]]
    BY <1>0, AtTyped
  <2>3. x # b
    BY <1>0, <2>0, NotFresh
  <2>4. CASE IsNew(f, s, m, g, t, k - 1)
    <3>1. k \in m..Len(t) /\ m # Len(s) /\ ~IsNew(f, s, m, g, t, k)
      <4>1. k - 1 = m /\ Agree(s, t, m)
        BY <2>4 DEF IsNew
      <4>2. Len(s) = Len(t)
        BY <1>0, <4>1, AgreeLength
      <4> QED
        BY <1>a, <1>b, <2>0, <4>1, <4>2 DEF IsNew
    <3>2. At(ent, g, t, k) = NO_BLOCK
      <4>1. g = f /\ Agree(s, t, m)
        BY <2>4 DEF IsNew
      <4> QED
        BY <3>1, <4>1, NewWasEmpty
    <3>3. x2 = b /\ b \in Nodes
      BY <1>0, <2>0, <2>4 DEF Nodes
    <3>4. At(ent2, g, t, k) = NO_BLOCK
      <4>1. t[k] \in Indices(b) /\ At(ent2, g, t, k) = ent2[b][t[k]]
        BY <1>0, <2>1, <3>3
      <4>2. \A j \in Indices(b) : ent2[b][j] = NO_BLOCK
        BY <3>1 DEF Entered
      <4> QED
        BY <4>1, <4>2
    <3> QED
      BY <2>0, <3>1, <3>2, <3>4
  <2>5. CASE ~IsNew(f, s, m, g, t, k - 1) /\ x = NO_BLOCK
    <3>1. x2 = NO_BLOCK
      BY <2>0, <2>5
    <3>2. ~IsNew(f, s, m, g, t, k)
      <4>1. SUFFICES ASSUME g = f, k = m, Agree(s, t, m)
                     PROVE  FALSE
        BY DEF IsNew
      <4>2. Agree(s, t, m - 1)
        BY <1>a, <1>b, <4>1 DEF Agree
      <4>3. node = x
        BY <1>0, <1>b, <4>1, <4>2, AtPrefix
      <4> QED
        BY <1>0, <2>5, <4>3
    <3> QED
      BY <2>0, <2>1, <2>2, <2>5, <3>1, <3>2
  <2>6. CASE ~IsNew(f, s, m, g, t, k - 1) /\ x # NO_BLOCK
    <3>1. x2 = x
      BY <2>0, <2>6
    <3>2. CASE x = node /\ t[k] = s[m]
      <4>1. g = f /\ k - 1 = m - 1 /\ Agree(t, s, k - 1)
        BY <1>0, <1>b, <2>0, <2>6, <3>2, SamePlace
      <4>2. k = m
        BY <1>b, <2>0, <4>1
      <4>3. Agree(s, t, m)
        <5>1. m <= Len(s) /\ m <= Len(t) /\ \A j \in 1..(m - 1) : t[j] = s[j]
          BY <1>0, <1>a, <1>b, <4>1, <4>2 DEF Agree
        <5>2. ASSUME NEW j \in 1..m
              PROVE  s[j] = t[j]
          <6>1. j = m \/ j \in 1..(m - 1)
            BY <1>b
          <6> QED
            BY <3>2, <4>2, <5>1, <6>1
        <5> QED
          BY <5>1, <5>2 DEF Agree
      <4>4. IsNew(f, s, m, g, t, k)
        BY <4>1, <4>2, <4>3 DEF IsNew
      <4>5. At(ent2, g, t, k) = b
        BY <2>1, <2>6, <3>1, <3>2 DEF Entered
      <4> QED
        BY <2>0, <4>4, <4>5
    <3>3. CASE ~(x = node /\ t[k] = s[m])
      <4>1. ent2[x][t[k]] = ent[x][t[k]]
        <5>1. x \in Nodes \ {b} /\ t[k] \in Indices(x)
          BY <2>2, <2>3, <2>6
        <5> QED
          BY <3>3, <5>1 DEF Entered
      <4>2. ~IsNew(f, s, m, g, t, k)
        <5>1. SUFFICES ASSUME g = f, k = m, Agree(s, t, m)
                       PROVE  FALSE
          BY DEF IsNew
        <5>2. Agree(s, t, m - 1) /\ s[m] = t[m]
          BY <1>0, <1>a, <1>b, <5>1 DEF Agree
        <5>3. node = x
          BY <1>0, <1>b, <5>1, <5>2, AtPrefix
        <5> QED
          BY <3>3, <5>1, <5>2, <5>3
      <4> QED
        BY <2>0, <2>1, <2>2, <2>6, <3>1, <4>1, <4>2
    <3> QED
      BY <3>2, <3>3
  <2> QED
    BY <2>4, <2>5, <2>6
<1>3. \A k \in 0..Len(t) : k \in S
  <2> HIDE DEF S
  <2> QED
    BY <1>1, <1>2, Along
<1> QED
  BY <1>3

\* After it every block is still at one place.
LEMMA OnePlaceAfter ==
  ASSUME NEW ent, NEW f, NEW s, NEW m, NEW b, CanEnter(ent, f, s, m, b), NEW ent2,
         Entered(ent, ent2, At(ent, f, s, m - 1), s[m], b, m = Len(s))
  PROVE  OnePlace(ent2)
<1>0. OnePlace(ent) /\ f \in Files /\ s \in Routes /\ m \in 1..Len(s)
      /\ b \in Blocks /\ b # NO_BLOCK /\ ~Reached(ent, b)
  BY DEF CanEnter
<1> SUFFICES ASSUME NEW g \in Files, NEW h \in Files, NEW t \in Routes, NEW u \in Routes,
                    NEW k \in 1..Len(t), NEW l \in 1..Len(u),
                    At(ent2, g, t, k) = At(ent2, h, u, l), At(ent2, g, t, k) # NO_BLOCK
             PROVE  g = h /\ k = l /\ Agree(t, u, k)
  BY DEF OnePlace
<1>a. Len(s) \in 1..4 /\ Len(t) \in 1..4 /\ Len(u) \in 1..4
  BY <1>0, RouteShape
<1>b. k \in 0..Len(t) /\ l \in 0..Len(u)
  BY <1>a
<1>1. At(ent2, g, t, k) = IF IsNew(f, s, m, g, t, k) THEN b ELSE At(ent, g, t, k)
  BY <1>b, AtAfter
<1>2. At(ent2, h, u, l) = IF IsNew(f, s, m, h, u, l) THEN b ELSE At(ent, h, u, l)
  BY <1>b, AtAfter
<1>3. At(ent, g, t, k) # b /\ At(ent, h, u, l) # b
  BY <1>0, <1>b, NotFresh
<1>4. CASE IsNew(f, s, m, g, t, k)
  <2>1. IsNew(f, s, m, h, u, l)
    BY <1>1, <1>2, <1>3, <1>4
  <2>2. g = f /\ h = f /\ k = m /\ l = m /\ Agree(s, t, m) /\ Agree(s, u, m)
    BY <1>4, <2>1 DEF IsNew
  <2> QED
    BY <1>0, <1>a, <2>2 DEF Agree
<1>5. CASE ~IsNew(f, s, m, g, t, k)
  <2>1. ~IsNew(f, s, m, h, u, l)
    BY <1>1, <1>2, <1>3, <1>5
  <2>2. At(ent, g, t, k) = At(ent, h, u, l) /\ At(ent, g, t, k) # NO_BLOCK
    BY <1>1, <1>2, <1>5, <2>1
  <2> QED
    BY <1>0, <2>2 DEF OnePlace
<1> QED
  BY <1>4, <1>5

\* It is reached, and no other block is that was not.
LEMMA ReachedAfter ==
  ASSUME NEW ent, NEW f, NEW s, NEW m, NEW b, CanEnter(ent, f, s, m, b), NEW ent2,
         Entered(ent, ent2, At(ent, f, s, m - 1), s[m], b, m = Len(s)), NEW x
  PROVE  Reached(ent2, x) <=> (Reached(ent, x) \/ x = b)
<1>0. /\ f \in Files /\ s \in Routes /\ m \in 1..Len(s)
      /\ b \in Blocks /\ b # NO_BLOCK /\ ~Reached(ent, b)
  BY DEF CanEnter
<1>a. Len(s) \in 1..4
  BY <1>0, RouteShape
<1>1. ASSUME NEW g \in Files, NEW t \in Routes, NEW k \in 1..Len(t)
      PROVE  At(ent2, g, t, k) = IF IsNew(f, s, m, g, t, k) THEN b ELSE At(ent, g, t, k)
  <2>1. k \in 0..Len(t)
    BY RouteShape
  <2> QED
    BY <2>1, AtAfter
<1>2. ASSUME Reached(ent2, x)
      PROVE  Reached(ent, x) \/ x = b
  <2>1. PICK g \in Files, t \in Routes : \E k \in 1..Len(t) : At(ent2, g, t, k) = x
    BY <1>2 DEF Reached
  <2>2. PICK k \in 1..Len(t) : At(ent2, g, t, k) = x
    BY <2>1
  <2>3. x # NO_BLOCK
    BY <1>2 DEF Reached
  <2>4. x = b \/ At(ent, g, t, k) = x
    BY <1>1, <2>2
  <2> QED
    BY <2>3, <2>4 DEF Reached
<1>3. ASSUME Reached(ent, x)
      PROVE  Reached(ent2, x)
  <2>1. PICK g \in Files, t \in Routes : \E k \in 1..Len(t) : At(ent, g, t, k) = x
    BY <1>3 DEF Reached
  <2>2. PICK k \in 1..Len(t) : At(ent, g, t, k) = x
    BY <2>1
  <2>3. x # NO_BLOCK
    BY <1>3 DEF Reached
  <2>4. ~IsNew(f, s, m, g, t, k)
    <3>1. SUFFICES ASSUME g = f, k = m, Agree(s, t, m)
                   PROVE  FALSE
      BY DEF IsNew
    <3>2. m \in m..Len(t)
      BY <1>0, <1>a, <3>1, RouteShape
    <3>3. At(ent, f, t, m) = NO_BLOCK
      BY <3>1, <3>2, NewWasEmpty
    <3> QED
      BY <2>2, <2>3, <3>1, <3>3
  <2>5. At(ent2, g, t, k) = x
    BY <1>1, <2>2, <2>4
  <2> QED
    BY <2>3, <2>5 DEF Reached
<1>4. Reached(ent2, b)
  <2>1. IsNew(f, s, m, f, s, m)
    BY <1>0, <1>a DEF IsNew, Agree
  <2>2. At(ent2, f, s, m) = b
    BY <1>0, <1>1, <2>1
  <2> QED
    BY <1>0, <2>2 DEF Reached
<1> QED
  BY <1>2, <1>3, <1>4

\* The entries in use of a file.
RefSet(ent, g) ==
  UNION {{<<At(ent, g, t, k - 1), t[k]>> : k \in {j \in 1..Len(t) : At(ent, g, t, j) # NO_BLOCK}} :
           t \in Routes}

LEMMA RefSetIs ==
  ASSUME NEW ent, NEW g, NEW r
  PROVE  r \in RefSet(ent, g) <=>
           \E t \in Routes : \E k \in 1..Len(t) :
             At(ent, g, t, k) # NO_BLOCK /\ r = <<At(ent, g, t, k - 1), t[k]>>
  BY DEF RefSet

\* Of the entries of files, that of file f with index and node ref comes into use.
Gains(ent, ent2, f, g, ref) ==
  /\ g # f => RefSet(ent2, g) = RefSet(ent, g)
  /\ ref \notin RefSet(ent, f)
  /\ RefSet(ent2, f) = RefSet(ent, f) \union {ref}

\* The entry of the new block comes into use, and no other.
LEMMA RefSetAfter ==
  ASSUME NEW ent, NEW f, NEW s, NEW m, NEW b, CanEnter(ent, f, s, m, b), NEW ent2,
         Entered(ent, ent2, At(ent, f, s, m - 1), s[m], b, m = Len(s)), NEW g \in Files
  PROVE  Gains(ent, ent2, f, g, <<At(ent, f, s, m - 1), s[m]>>)
<1> DEFINE ref == <<At(ent, f, s, m - 1), s[m]>>
<1>0. /\ EntryType(ent) /\ OnePlace(ent) /\ f \in Files /\ s \in Routes /\ m \in 1..Len(s)
      /\ At(ent, f, s, m - 1) # NO_BLOCK /\ At(ent, f, s, m) = NO_BLOCK
      /\ b \in Blocks /\ b # NO_BLOCK /\ ~Reached(ent, b)
  BY DEF CanEnter
<1>a. Len(s) \in 1..4
  BY <1>0, RouteShape
<1>1. ASSUME NEW h \in Files, NEW t \in Routes, NEW k \in 0..Len(t)
      PROVE  At(ent2, h, t, k) = IF IsNew(f, s, m, h, t, k) THEN b ELSE At(ent, h, t, k)
  BY AtAfter
<1>2. ASSUME NEW h \in Files, NEW t \in Routes, NEW k \in m..Len(t), h = f, Agree(s, t, m)
      PROVE  At(ent, h, t, k) = NO_BLOCK
  BY <1>2, NewWasEmpty
<1>3. ASSUME NEW h \in Files, NEW t \in Routes, NEW k \in 1..Len(t), At(ent, h, t, k) # NO_BLOCK
      PROVE  At(ent2, h, t, k) = At(ent, h, t, k) /\ At(ent2, h, t, k - 1) = At(ent, h, t, k - 1)
  <2>1. k \in 0..Len(t) /\ k - 1 \in 0..Len(t) /\ k \in Nat /\ m \in Nat /\ Len(t) \in Nat
    BY <1>0, <1>a, RouteShape
  <2>2. ~IsNew(f, s, m, h, t, k)
    BY <1>2, <1>3, <2>1 DEF IsNew
  <2>3. ~IsNew(f, s, m, h, t, k - 1)
    BY <1>2, <1>3, <2>1 DEF IsNew
  <2> QED
    BY <1>1, <2>1, <2>2, <2>3
<1>4. ASSUME NEW h \in Files, NEW r \in RefSet(ent, h)
      PROVE  r \in RefSet(ent2, h)
  <2>1. PICK t \in Routes : \E k \in 1..Len(t) :
               At(ent, h, t, k) # NO_BLOCK /\ r = <<At(ent, h, t, k - 1), t[k]>>
    BY <1>4, RefSetIs
  <2>2. PICK k \in 1..Len(t) : At(ent, h, t, k) # NO_BLOCK /\ r = <<At(ent, h, t, k - 1), t[k]>>
    BY <2>1
  <2>3. At(ent2, h, t, k) # NO_BLOCK /\ r = <<At(ent2, h, t, k - 1), t[k]>>
    BY <1>3, <2>2
  <2> QED
    BY <2>3, RefSetIs
<1>5. ASSUME NEW h \in Files, NEW r \in RefSet(ent2, h)
      PROVE  r \in RefSet(ent, h) \/ (h = f /\ r = ref)
  <2>1. PICK t \in Routes : \E k \in 1..Len(t) :
               At(ent2, h, t, k) # NO_BLOCK /\ r = <<At(ent2, h, t, k - 1), t[k]>>
    BY <1>5, RefSetIs
  <2>2. PICK k \in 1..Len(t) :
               At(ent2, h, t, k) # NO_BLOCK /\ r = <<At(ent2, h, t, k - 1), t[k]>>
    BY <2>1
  <2>3. k \in 0..Len(t) /\ k - 1 \in 0..Len(t) /\ k \in Nat /\ m \in Nat /\ Len(t) \in Nat
    BY <1>0, <1>a, RouteShape
  <2>4. CASE IsNew(f, s, m, h, t, k)
    <3>1. h = f /\ k = m /\ Agree(s, t, m)
      BY <2>4 DEF IsNew
    <3>2. ~IsNew(f, s, m, h, t, k - 1)
      BY <2>3, <3>1 DEF IsNew
    <3>3. At(ent2, h, t, k - 1) = At(ent, f, t, m - 1)
      BY <1>1, <2>3, <3>1, <3>2
    <3>4. Agree(s, t, m - 1) /\ t[m] = s[m] /\ m - 1 \in 0..Len(s)
      BY <1>0, <1>a, <2>3, <3>1 DEF Agree
    <3>5. At(ent, f, t, m - 1) = At(ent, f, s, m - 1)
      BY <1>0, <3>4, AtPrefix
    <3> QED
      BY <2>2, <3>1, <3>3, <3>4, <3>5
  <2>5. CASE ~IsNew(f, s, m, h, t, k)
    <3>1. At(ent, h, t, k) # NO_BLOCK
      BY <1>1, <2>2, <2>3, <2>5
    <3>2. At(ent2, h, t, k - 1) = At(ent, h, t, k - 1)
      BY <1>3, <3>1
    <3> QED
      BY <2>2, <3>1, <3>2, RefSetIs
  <2> QED
    BY <2>4, <2>5
<1>6. ref \in RefSet(ent2, f)
  <2>1. IsNew(f, s, m, f, s, m) /\ ~IsNew(f, s, m, f, s, m - 1)
        /\ m \in 0..Len(s) /\ m - 1 \in 0..Len(s)
    BY <1>0, <1>a DEF IsNew, Agree
  <2>2. At(ent2, f, s, m) = b /\ At(ent2, f, s, m - 1) = At(ent, f, s, m - 1)
    BY <1>0, <1>1, <2>1
  <2> QED
    BY <1>0, <2>2, RefSetIs
<1>7. ref \notin RefSet(ent, f)
  <2> SUFFICES ASSUME ref \in RefSet(ent, f)
               PROVE  FALSE
    OBVIOUS
  <2>1. PICK t \in Routes : \E k \in 1..Len(t) :
               At(ent, f, t, k) # NO_BLOCK /\ ref = <<At(ent, f, t, k - 1), t[k]>>
    BY RefSetIs
  <2>2. PICK k \in 1..Len(t) :
               At(ent, f, t, k) # NO_BLOCK /\ ref = <<At(ent, f, t, k - 1), t[k]>>
    BY <2>1
  <2>3. k \in 0..Len(t) /\ k - 1 \in 0..Len(t) /\ k \in Nat /\ m \in Nat /\ m - 1 \in 0..Len(s)
        /\ Len(t) \in 1..4
    BY <1>0, <1>a, RouteShape, SMTT(30)
  <2>4. At(ent, f, t, k - 1) = At(ent, f, s, m - 1) /\ t[k] = s[m]
    BY <2>2
  <2>5. k - 1 = m - 1 /\ Agree(t, s, k - 1)
    BY <1>0, <2>3, <2>4, SamePlace
  <2>6. k = m
    BY <2>3, <2>5
  <2>7. Agree(s, t, m)
    <3>1. ASSUME NEW j \in 1..m
          PROVE  s[j] = t[j]
      <4>1. j = m \/ j \in 1..(k - 1)
        BY <2>3, <2>6
      <4> QED
        BY <2>4, <2>5, <2>6, <4>1 DEF Agree
    <3> QED
      BY <1>0, <1>a, <2>3, <2>6, <3>1 DEF Agree
  <2>8. k \in m..Len(t)
    BY <2>3, <2>6
  <2> QED
    BY <1>0, <1>2, <2>2, <2>7, <2>8
<1>8. g # f => RefSet(ent2, g) = RefSet(ent, g)
  BY <1>4, <1>5
<1>9. RefSet(ent2, f) = RefSet(ent, f) \union {ref}
  BY <1>0, <1>4, <1>5, <1>6
<1> QED
  BY <1>7, <1>8, <1>9 DEF Gains

-------------------------------------------------------------------------------
(* The inductive invariant, in parts that are stated of a disk in the      *)
(* middle of an allocation: blocks X have been taken and not entered yet.  *)

DiskType(d) ==
  /\ d = [entry |-> d.entry, iblocks |-> d.iblocks, marked |-> d.marked,
          free |-> d.free, sfree |-> d.sfree, panicked |-> d.panicked]
  /\ EntryType(d.entry)
  /\ d.iblocks \in [Files -> Nat]
  /\ System \subseteq d.marked /\ d.marked \subseteq Blocks
  /\ d.free \in [GroupIds -> Nat]
  /\ d.sfree \in Nat
  /\ d.panicked \in BOOLEAN

\* Every block of the tree is at one place, marked and not one of the file system's.
Owned(d, X) ==
  /\ OnePlace(d.entry)
  /\ \A b \in Blocks : Reached(d.entry, b) => b \in d.marked \ System
  /\ X \subseteq d.marked \ System
  /\ \A b \in X : ~Reached(d.entry, b)

\* No block is marked in vain.
Tight(d, X) == \A b \in d.marked \ System : Reached(d.entry, b) \/ b \in X

Counted(d) ==
  \A g \in Files : IsFiniteSet(RefSet(d.entry, g)) /\ d.iblocks[g] = Cardinality(RefSet(d.entry, g))

FreeExact(d) ==
  /\ \A g \in GroupIds : d.free[g] = Cardinality(InGroup(g) \ d.marked)
  /\ d.sfree = Cardinality(Blocks \ d.marked)

\* What is in the inode table was in the inode, and has not changed since.
SavedSound ==
  /\ saved \in [Files -> [block : [0..(NDir + 2) -> Content], count : Nat]]
  /\ \A f \in Files : \A i \in 0..(NDir + 2) : saved[f].block[i] \in {NO_BLOCK, entry[f][i]}

FreeBounds ==
  /\ \A g \in GroupIds : free[g] <= FreeAtMount[g]
  /\ sfree <= Cardinality(Blocks \ System)

IInv ==
  /\ DiskType(Disk)
  /\ Owned(Disk, orphans)
  /\ SavedSound
  /\ FreeBounds
  /\ dropped \in BOOLEAN
  /\ restarts \in 0..MaxRestarts
  /\ ~panicked /\ ~dropped => Tight(Disk, orphans)
  /\ ~dropped => Counted(Disk)
  /\ restarts = 0 => ~panicked /\ FreeExact(Disk)

-------------------------------------------------------------------------------
(* Taking a block.                                                         *)

LEMMA SetsFinite ==
  /\ IsFiniteSet(Blocks)
  /\ \A S \in SUBSET Blocks : IsFiniteSet(S) /\ Cardinality(S) \in Nat
<1>1. /\ FirstBlock \in Int /\ Groups \in Nat /\ PerGroup \in Nat
  BY Constants
<1>2. FirstBlock + Groups * PerGroup - 1 \in Int
  BY <1>1
<1>3. IsFiniteSet(Blocks)
  BY <1>1, <1>2, FS_Interval DEF Blocks
<1> QED
  BY <1>3, FS_Subset, FS_CardinalityType

\* The first element that alloc_block comes to.
LEMMA FirstIn ==
  ASSUME NEW S \in SUBSET Nat, S # {}
  PROVE  First(S) \in S
<1> DEFINE R == OpToRel(<, Nat)
<1>1. IsWellFoundedOn(R, Nat)
  BY NatLessThanWellFounded
<1>2. \A x, y \in Nat : y < x => <<y, x>> \in R
  BY DEF OpToRel
<1> HIDE DEF R
<1>3. PICK x \in S : \A y \in S : ~(<<y, x>> \in R)
  BY <1>1, WFMin, Zenon
<1>4. \A y \in S : y \in Nat /\ x \in Nat /\ ~(y < x)
  BY <1>2, <1>3, Zenon
<1>5. \A y \in S : x <= y
  BY <1>4
<1> QED
  BY <1>5 DEF First

\* What one step of an allocation for file f does to a disk, and what it keeps.
Builds(d, X, e, Y, f) ==
  /\ DiskType(e) /\ Owned(e, Y)
  /\ \A g \in Files \ {f} : e.entry[g] = d.entry[g] /\ e.iblocks[g] = d.iblocks[g]
  /\ \A i \in 0..(NDir + 2) : d.entry[f][i] \in {NO_BLOCK, e.entry[f][i]}
  /\ \A g \in GroupIds : e.free[g] <= d.free[g]
  /\ e.sfree <= d.sfree
  /\ d.panicked => e.panicked
  /\ Counted(d) => Counted(e)
  /\ Tight(d, X) /\ ~e.panicked => Tight(e, Y)
  /\ FreeExact(d) /\ ~d.panicked => FreeExact(e) /\ ~e.panicked

LEMMA BuildsTrans ==
  ASSUME NEW d, NEW X, NEW e, NEW Y, NEW c, NEW Z, NEW f \in Files, DiskType(d),
         Builds(d, X, e, Y, f), Builds(e, Y, c, Z, f)
  PROVE  Builds(d, X, c, Z, f)
<1>1. /\ d.free \in [GroupIds -> Nat] /\ e.free \in [GroupIds -> Nat]
      /\ c.free \in [GroupIds -> Nat] /\ d.sfree \in Nat /\ e.sfree \in Nat /\ c.sfree \in Nat
  BY DEF Builds, DiskType
<1>2. \A g \in GroupIds : d.free[g] \in Nat /\ e.free[g] \in Nat /\ c.free[g] \in Nat
  BY <1>1
<1>3. \A g \in GroupIds : c.free[g] <= d.free[g]
  <2>1. \A g \in GroupIds : e.free[g] <= d.free[g] /\ c.free[g] <= e.free[g]
    BY DEF Builds
  <2> QED
    BY <1>2, <2>1
<1>4. c.sfree <= d.sfree
  BY <1>1 DEF Builds
<1>5. \A i \in 0..(NDir + 2) : d.entry[f][i] \in {NO_BLOCK, c.entry[f][i]}
  <2>1. \A i \in 0..(NDir + 2) : /\ d.entry[f][i] \in {NO_BLOCK, e.entry[f][i]}
                                 /\ e.entry[f][i] \in {NO_BLOCK, c.entry[f][i]}
    BY DEF Builds
  <2> QED
    BY <2>1
<1>6. \A g \in Files \ {f} : c.entry[g] = d.entry[g] /\ c.iblocks[g] = d.iblocks[g]
  BY DEF Builds
<1>7. /\ DiskType(c) /\ Owned(c, Z)
      /\ d.panicked => c.panicked
      /\ Counted(d) => Counted(c)
      /\ Tight(d, X) /\ ~c.panicked => Tight(c, Z)
      /\ FreeExact(d) /\ ~d.panicked => FreeExact(c) /\ ~c.panicked
  BY DEF Builds
<1> QED
  BY <1>3, <1>4, <1>5, <1>6, <1>7 DEF Builds

LEMMA BuildsSame ==
  ASSUME NEW d, NEW X, NEW f \in Files, DiskType(d), Owned(d, X)
  PROVE  Builds(d, X, d, X, f)
<1>1. \A g \in GroupIds : d.free[g] \in Nat
  BY DEF DiskType
<1>2. d.sfree \in Nat
  BY DEF DiskType
<1> QED
  BY <1>1, <1>2 DEF Builds

\* A block whose bit is clear, in a group that counts one at least.
CanTake(d, b) ==
  /\ b \in Blocks \ d.marked /\ GroupOf(b) \in GroupIds
  /\ d.free[GroupOf(b)] # 0 /\ d.sfree # 0

LEMMA TakeIs ==
  ASSUME NEW d, DiskType(d), NEW b, CanTake(d, b)
  PROVE  /\ DiskType(Take(d, b))
         /\ Take(d, b).entry = d.entry /\ Take(d, b).iblocks = d.iblocks
         /\ Take(d, b).marked = d.marked \union {b}
         /\ Take(d, b).sfree = d.sfree - 1
         /\ Take(d, b).free = [d.free EXCEPT ![GroupOf(b)] = @ - 1]
         /\ Take(d, b).panicked = d.panicked
<1> DEFINE e == Take(d, b)
<1>1. /\ e.entry = d.entry /\ e.iblocks = d.iblocks /\ e.marked = d.marked \union {b}
      /\ e.sfree = d.sfree - 1 /\ e.free = [d.free EXCEPT ![GroupOf(b)] = @ - 1]
      /\ e.panicked = d.panicked
      /\ e = [entry |-> e.entry, iblocks |-> e.iblocks, marked |-> e.marked,
              free |-> e.free, sfree |-> e.sfree, panicked |-> e.panicked]
  <2> DEFINE ff == [d.free EXCEPT ![GroupOf(b)] = @ - 1]
  <2>1. d = [entry |-> d.entry, iblocks |-> d.iblocks, marked |-> d.marked,
             free |-> d.free, sfree |-> d.sfree, panicked |-> d.panicked]
    BY DEF DiskType
  <2>2. e = [d EXCEPT !.marked = d.marked \union {b}, !.free = ff, !.sfree = d.sfree - 1]
    BY <2>1 DEF Take
  <2> HIDE DEF e, ff
  <2>3. e = [entry |-> d.entry, iblocks |-> d.iblocks, marked |-> d.marked \union {b},
             free |-> ff, sfree |-> d.sfree - 1, panicked |-> d.panicked]
    BY <2>1, <2>2
  <2> QED
    BY <2>3 DEF ff
<1> HIDE DEF e
<1>2. e.free \in [GroupIds -> Nat] /\ e.sfree \in Nat
  <2>1. d.free \in [GroupIds -> Nat] /\ d.sfree \in Nat
    BY DEF DiskType
  <2>2. d.free[GroupOf(b)] - 1 \in Nat /\ d.sfree - 1 \in Nat
    BY <2>1 DEF CanTake
  <2> QED
    BY <1>1, <2>1, <2>2
<1>3. DiskType(e)
  BY <1>1, <1>2 DEF DiskType, CanTake
<1> QED
  BY <1>1, <1>3 DEF e

LEMMA OneLess ==
  ASSUME NEW S, IsFiniteSet(S), NEW x \in S, NEW R, R = S \ {x}
  PROVE  Cardinality(R) = Cardinality(S) - 1
  BY FS_RemoveElement

LEMMA TakeExact ==
  ASSUME NEW d, DiskType(d), NEW b, CanTake(d, b), FreeExact(d)
  PROVE  FreeExact(Take(d, b))
<1> DEFINE e == Take(d, b)
<1>1. /\ e.marked = d.marked \union {b} /\ e.sfree = d.sfree - 1
      /\ e.free = [d.free EXCEPT ![GroupOf(b)] = @ - 1]
  BY TakeIs
<1> HIDE DEF e
<1>2. d.free \in [GroupIds -> Nat]
  BY DEF DiskType
<1>3. ASSUME NEW g \in GroupIds
      PROVE  e.free[g] = Cardinality(InGroup(g) \ e.marked)
  <2>0. d.free[g] = Cardinality(InGroup(g) \ d.marked)
    BY DEF FreeExact
  <2>1. CASE g = GroupOf(b)
    <3>1. InGroup(g) \ e.marked = (InGroup(g) \ d.marked) \ {b}
      BY <1>1
    <3>2. b \in InGroup(g) \ d.marked /\ IsFiniteSet(InGroup(g) \ d.marked)
      BY <2>1, SetsFinite DEF CanTake, InGroup
    <3>3. Cardinality(InGroup(g) \ e.marked) = Cardinality(InGroup(g) \ d.marked) - 1
      BY <3>1, <3>2, OneLess
    <3> QED
      BY <1>1, <1>2, <2>0, <2>1, <3>3
  <2>2. CASE g # GroupOf(b)
    <3>1. InGroup(g) \ e.marked = InGroup(g) \ d.marked
      BY <1>1, <2>2 DEF InGroup
    <3> QED
      BY <1>1, <1>2, <2>0, <2>2, <3>1
  <2> QED
    BY <2>1, <2>2
<1>4. e.sfree = Cardinality(Blocks \ e.marked)
  <2>1. Blocks \ e.marked = (Blocks \ d.marked) \ {b}
    BY <1>1
  <2>2. b \in Blocks \ d.marked /\ IsFiniteSet(Blocks \ d.marked)
    BY SetsFinite DEF CanTake
  <2>3. Cardinality(Blocks \ e.marked) = Cardinality(Blocks \ d.marked) - 1
    BY <2>1, <2>2, OneLess
  <2> QED
    BY <1>1, <2>3 DEF FreeExact
<1> QED
  BY <1>3, <1>4 DEF FreeExact, e

\* alloc_block takes a block that nothing refers to.
LEMMA TakeBuilds ==
  ASSUME NEW d, DiskType(d), NEW X, Owned(d, X), NEW b, CanTake(d, b), NEW f \in Files
  PROVE  /\ b # NO_BLOCK /\ b \notin System /\ b \notin X /\ ~Reached(d.entry, b)
         /\ Builds(d, X, Take(d, b), X \union {b}, f)
<1> DEFINE e == Take(d, b)
<1>1. /\ DiskType(e) /\ e.entry = d.entry /\ e.iblocks = d.iblocks
      /\ e.marked = d.marked \union {b} /\ e.sfree = d.sfree - 1
      /\ e.free = [d.free EXCEPT ![GroupOf(b)] = @ - 1] /\ e.panicked = d.panicked
  BY TakeIs
<1>2. /\ System \subseteq d.marked /\ d.marked \subseteq Blocks
      /\ d.free \in [GroupIds -> Nat] /\ d.sfree \in Nat
  BY DEF DiskType
<1>3. b # NO_BLOCK /\ b \notin System /\ b \notin X /\ ~Reached(d.entry, b)
  <2>1. b \in Blocks /\ b \notin d.marked
    BY DEF CanTake
  <2> QED
    BY <1>2, <2>1, Constants DEF Owned
<1>4. FreeExact(d) => FreeExact(e)
  BY TakeExact
<1> HIDE DEF e
<1>5. Owned(e, X \union {b})
  BY <1>1, <1>3 DEF Owned
<1>6. Tight(d, X) => Tight(e, X \union {b})
  BY <1>1 DEF Tight
<1>7. Counted(d) => Counted(e)
  BY <1>1 DEF Counted
<1>8. \A g \in GroupIds : e.free[g] <= d.free[g]
  <2>1. \A g \in GroupIds : d.free[g] \in Nat
    BY <1>2
  <2> QED
    BY <1>1, <1>2, <2>1
<1>9. e.sfree <= d.sfree
  BY <1>1, <1>2
<1>10. Builds(d, X, e, X \union {b}, f)
  BY <1>1, <1>4, <1>5, <1>6, <1>7, <1>8, <1>9 DEF Builds
<1> QED
  BY <1>3, <1>10 DEF e

LEMMA PanicIs ==
  ASSUME NEW d, DiskType(d)
  PROVE  /\ DiskType(Panic(d))
         /\ Panic(d).entry = d.entry /\ Panic(d).iblocks = d.iblocks
         /\ Panic(d).marked = d.marked /\ Panic(d).free = d.free
         /\ Panic(d).sfree = d.sfree /\ Panic(d).panicked = TRUE
<1> DEFINE e == Panic(d)
<1>1. d = [entry |-> d.entry, iblocks |-> d.iblocks, marked |-> d.marked,
           free |-> d.free, sfree |-> d.sfree, panicked |-> d.panicked]
  BY DEF DiskType
<1>2. e = [d EXCEPT !.panicked = TRUE]
  BY DEF Panic
<1> HIDE DEF e
<1>3. e = [entry |-> d.entry, iblocks |-> d.iblocks, marked |-> d.marked,
           free |-> d.free, sfree |-> d.sfree, panicked |-> TRUE]
  BY <1>1, <1>2
<1>4. DiskType(e)
  BY <1>3 DEF DiskType
<1> QED
  BY <1>3, <1>4 DEF e

\* Its outcomes; while the counts match the bitmaps it does not panic.
LEMMA AllocCases ==
  ASSUME NEW d, DiskType(d), NEW X, Owned(d, X), NEW f \in Files
  PROVE  \/ /\ AllocBlock(d).block = NO_BLOCK
            /\ Builds(d, X, AllocBlock(d).disk, X, f)
            /\ AllocBlock(d).disk.entry = d.entry
         \/ \E b \in Blocks : /\ CanTake(d, b)
                              /\ AllocBlock(d) = [disk |-> Take(d, b), block |-> b]
<1>0. /\ d.free \in [GroupIds -> Nat] /\ d.sfree \in Nat /\ GroupIds \subseteq Nat
      /\ Blocks \subseteq Nat
  BY Constants DEF DiskType, GroupIds
<1>1. CASE d.sfree = 0 \/ Tried(d) = {}
  <2>1. AllocBlock(d) = [disk |-> d, block |-> NO_BLOCK]
    BY <1>1 DEF AllocBlock
  <2> QED
    BY <2>1, BuildsSame
<1>2. CASE ~(d.sfree = 0 \/ Tried(d) = {}) /\ (Inconsistent(d) \/ HasBit(d) = {})
  <2>1. AllocBlock(d) = [disk |-> Panic(d), block |-> NO_BLOCK]
    BY <1>2 DEF AllocBlock
  <2>2. ~FreeExact(d)
    <3>1. SUFFICES ASSUME FreeExact(d)
                   PROVE  FALSE
      OBVIOUS
    <3>2. ASSUME NEW g \in Tried(d)
          PROVE  g \in HasBit(d)
      <4>1. g \in GroupIds /\ d.free[g] # 0
        BY DEF Tried
      <4>2. Cardinality(InGroup(g) \ d.marked) # 0
        BY <3>1, <4>1 DEF FreeExact
      <4>3. Clear(d, g) # {}
        BY <4>2, FS_EmptySet DEF Clear
      <4> QED
        BY <4>3 DEF HasBit
    <3> QED
      BY <1>2, <3>2 DEF Inconsistent
  <2>3. /\ DiskType(Panic(d)) /\ Panic(d).entry = d.entry /\ Panic(d).iblocks = d.iblocks
        /\ Panic(d).marked = d.marked /\ Panic(d).free = d.free
        /\ Panic(d).sfree = d.sfree /\ Panic(d).panicked = TRUE
    BY PanicIs
  <2>4. Owned(Panic(d), X) /\ (Counted(d) => Counted(Panic(d)))
    BY <2>3 DEF Owned, Counted
  <2>5. \A g \in GroupIds : Panic(d).free[g] <= d.free[g]
    <3>1. \A g \in GroupIds : d.free[g] \in Nat
      BY <1>0
    <3> QED
      BY <2>3, <3>1
  <2>6. Panic(d).sfree <= d.sfree
    BY <1>0, <2>3
  <2>7. Builds(d, X, Panic(d), X, f)
    BY <2>2, <2>3, <2>4, <2>5, <2>6 DEF Builds
  <2> QED
    BY <2>1, <2>3, <2>7
<1>3. CASE ~(d.sfree = 0 \/ Tried(d) = {}) /\ ~(Inconsistent(d) \/ HasBit(d) = {})
  <2> DEFINE g == First(HasBit(d))
             b == First(Clear(d, g))
  <2>1. AllocBlock(d) = [disk |-> Take(d, b), block |-> b]
    BY <1>3 DEF AllocBlock
  <2>2. g \in HasBit(d)
    BY <1>0, <1>3, FirstIn DEF HasBit, Tried
  <2> HIDE DEF g
  <2>3. g \in GroupIds /\ d.free[g] # 0 /\ Clear(d, g) # {}
    BY <2>2 DEF HasBit, Tried
  <2>4. b \in Clear(d, g)
    BY <1>0, <2>3, FirstIn DEF Clear, InGroup
  <2> HIDE DEF b
  <2>5. b \in Blocks /\ b \notin d.marked /\ GroupOf(b) = g
    BY <2>4 DEF Clear, InGroup
  <2>6. CanTake(d, b)
    BY <1>3, <2>3, <2>5 DEF CanTake
  <2> QED
    BY <2>1, <2>5, <2>6
<1> QED
  BY <1>1, <1>2, <1>3

-------------------------------------------------------------------------------
(* Entering a block in a node.                                             *)

\* Disk e is disk d with block b in entry i of a node of file f.
Sets(d, e, f, node, i, b, data) ==
  /\ DiskType(e)
  /\ Entered(d.entry, e.entry, node, i, b, data)
  /\ \A g \in Files \ {node} : e.entry[g] = d.entry[g]
  /\ e.iblocks = [d.iblocks EXCEPT ![f] = @ + 1]
  /\ e.marked = d.marked /\ e.free = d.free /\ e.sfree = d.sfree /\ e.panicked = d.panicked

LEMMA SetEntrySets ==
  ASSUME NEW d, DiskType(d), NEW f \in Files, NEW node \in Nodes, NEW i \in Indices(node),
         NEW b \in Blocks, NEW data, data = TRUE
  PROVE  /\ Sets(d, SetEntry(d, f, node, i, b), f, node, i, b, data)
         /\ \A n \in Nodes \ {node} : SetEntry(d, f, node, i, b).entry[n] = d.entry[n]
<1> DEFINE e == SetEntry(d, f, node, i, b)
           ent == d.entry
           ent2 == [ent EXCEPT ![node][i] = b]
           ibl == [d.iblocks EXCEPT ![f] = @ + 1]
<1>1. d = [entry |-> d.entry, iblocks |-> d.iblocks, marked |-> d.marked,
           free |-> d.free, sfree |-> d.sfree, panicked |-> d.panicked]
  BY DEF DiskType
<1>2. e = [d EXCEPT !.entry = ent2, !.iblocks = ibl]
  BY <1>1 DEF SetEntry
<1>3. /\ EntryType(ent) /\ d.iblocks \in [Files -> Nat]
  BY DEF DiskType
<1>4. ibl \in [Files -> Nat]
  BY <1>3
<1> HIDE DEF ent, e
<1>5. EntryType(ent2) /\ Entered(ent, ent2, node, i, b, data)
      /\ (\A g \in Files \ {node} : ent2[g] = ent[g])
      /\ \A n \in Nodes \ {node} : ent2[n] = ent[n]
  <2>1. ent = [n \in Nodes |-> ent[n]] /\ \A n \in Nodes : ent[n] \in [Indices(n) -> Content]
    BY <1>3 DEF EntryType
  <2>2. \A n \in Nodes : n # node => ent2[n] = ent[n]
    BY <2>1
  <2>3. ent2[node] = [ent[node] EXCEPT ![i] = b]
    BY <2>1
  <2>4. ent2 = [n \in Nodes |-> ent2[n]]
    BY <2>1
  <2> HIDE DEF ent2
  <2>5. b \in Content
    BY DEF Content
  <2>6. ent2[node] \in [Indices(node) -> Content]
    BY <2>1, <2>3, <2>5
  <2>7. EntryType(ent2)
    BY <2>1, <2>2, <2>4, <2>6 DEF EntryType
  <2>8. ent2[node][i] = b /\ \A j \in Indices(node) : j # i => ent2[node][j] = ent[node][j]
    BY <2>1, <2>3
  <2>9. Entered(ent, ent2, node, i, b, data)
    BY <2>2, <2>7, <2>8 DEF Entered
  <2>10. \A g \in Files \ {node} : ent2[g] = ent[g]
    BY <2>2 DEF Nodes
  <2> QED
    BY <2>2, <2>7, <2>9, <2>10
<1> HIDE DEF ent2, ibl
<1>6. e = [entry |-> ent2, iblocks |-> ibl, marked |-> d.marked,
           free |-> d.free, sfree |-> d.sfree, panicked |-> d.panicked]
  BY <1>1, <1>2
<1>7. DiskType(e)
  BY <1>4, <1>5, <1>6 DEF DiskType
<1>8. Sets(d, e, f, node, i, b, data)
  BY <1>5, <1>6, <1>7 DEF Sets, ent, ibl
<1>9. \A n \in Nodes \ {node} : e.entry[n] = d.entry[n]
  BY <1>5, <1>6 DEF ent
<1> QED
  BY <1>8, <1>9 DEF e

LEMMA AddIndirectSets ==
  ASSUME NEW d, DiskType(d), NEW f \in Files, NEW node \in Nodes, NEW i \in Indices(node),
         NEW b \in Blocks, node # b, NEW data
  PROVE  Sets(d, AddIndirect(d, f, node, i, b), f, node, i, b, data)
<1> DEFINE zeros == [j \in 0..(Addr - 1) |-> NO_BLOCK]
           ent0  == [d.entry EXCEPT ![b] = zeros]
           d0    == [d EXCEPT !.entry[b] = zeros]
           e     == SetEntry(d0, f, node, i, b)
<1>1. d = [entry |-> d.entry, iblocks |-> d.iblocks, marked |-> d.marked,
           free |-> d.free, sfree |-> d.sfree, panicked |-> d.panicked]
  BY DEF DiskType
<1>2. d0 = [d EXCEPT !.entry = ent0]
  BY <1>1
<1>3. AddIndirect(d, f, node, i, b) = e
  BY DEF AddIndirect
<1>4. EntryType(d.entry) /\ b \in Nodes /\ Indices(b) = 0..(Addr - 1)
  BY Constants DEF DiskType, Nodes, Indices
<1> HIDE DEF d0
<1>5. EntryType(ent0) /\ (\A n \in Nodes \ {b} : ent0[n] = d.entry[n])
      /\ \A j \in Indices(b) : ent0[b][j] = NO_BLOCK
  <2> DEFINE ent == d.entry
  <2>1. ent = [n \in Nodes |-> ent[n]] /\ \A n \in Nodes : ent[n] \in [Indices(n) -> Content]
    BY <1>4 DEF EntryType
  <2> HIDE DEF ent
  <2>2. zeros \in [Indices(b) -> Content] /\ \A j \in Indices(b) : zeros[j] = NO_BLOCK
    BY <1>4 DEF Content
  <2> HIDE DEF zeros
  <2>3. ent0 = [ent EXCEPT ![b] = zeros]
    BY DEF ent
  <2>4. /\ ent0[b] = zeros /\ \A n \in Nodes \ {b} : ent0[n] = ent[n]
        /\ ent0 = [n \in Nodes |-> ent0[n]]
    BY <1>4, <2>1, <2>3
  <2> HIDE DEF ent0
  <2>5. EntryType(ent0)
    BY <2>1, <2>2, <2>4 DEF EntryType
  <2> QED
    BY <2>2, <2>4, <2>5 DEF ent
<1> HIDE DEF ent0, zeros
<1>6. d0 = [entry |-> ent0, iblocks |-> d.iblocks, marked |-> d.marked,
            free |-> d.free, sfree |-> d.sfree, panicked |-> d.panicked]
  BY <1>1, <1>2
<1>7. DiskType(d0)
  BY <1>5, <1>6 DEF DiskType
<1>8. Sets(d0, e, f, node, i, b, TRUE) /\ \A n \in Nodes \ {node} : e.entry[n] = d0.entry[n]
  BY <1>7, SetEntrySets
<1> HIDE DEF e
<1>9. Entered(d.entry, e.entry, node, i, b, data)
  <2>1. Entered(ent0, e.entry, node, i, b, TRUE)
    BY <1>6, <1>8 DEF Sets
  <2>2. \A n \in Nodes \ {b} : \A j \in Indices(n) :
          n # node \/ j # i => e.entry[n][j] = d.entry[n][j]
    BY <1>5, <2>1 DEF Entered
  <2>3. \A j \in Indices(b) : e.entry[b][j] = NO_BLOCK
    <3>1. e.entry[b] = ent0[b]
      BY <1>4, <1>6, <1>8
    <3> QED
      BY <1>5, <3>1
  <2> QED
    BY <2>1, <2>2, <2>3 DEF Entered
<1>10. \A g \in Files \ {node} : e.entry[g] = d.entry[g]
  <2>1. \A g \in Files \ {node} : e.entry[g] = ent0[g] /\ g # b /\ g \in Nodes
    BY <1>6, <1>8, Constants DEF Sets, Nodes
  <2> QED
    BY <1>5, <2>1
<1> QED
  BY <1>3, <1>6, <1>8, <1>9, <1>10 DEF Sets

\* A pending block is entered at the end of what there is of a route.
LEMMA SetsBuilds ==
  ASSUME NEW d, DiskType(d), NEW X, Owned(d, X), NEW f \in Files, NEW s \in Routes,
         NEW m \in 1..Len(s), NEW b \in X, NEW e, NEW node, node = At(d.entry, f, s, m - 1),
         node # NO_BLOCK, At(d.entry, f, s, m) = NO_BLOCK,
         Sets(d, e, f, node, s[m], b, m = Len(s))
  PROVE  /\ CanEnter(d.entry, f, s, m, b)
         /\ Entered(d.entry, e.entry, At(d.entry, f, s, m - 1), s[m], b, m = Len(s))
         /\ Builds(d, X, e, X \ {b}, f)
<1>0. /\ EntryType(d.entry) /\ d.marked \subseteq Blocks /\ System \subseteq d.marked
      /\ d.iblocks \in [Files -> Nat] /\ d.free \in [GroupIds -> Nat] /\ d.sfree \in Nat
  BY DEF DiskType
<1>1. b \in Blocks /\ b # NO_BLOCK /\ ~Reached(d.entry, b) /\ b \in d.marked \ System
  BY <1>0, Constants DEF Owned
<1>2. CanEnter(d.entry, f, s, m, b)
  BY <1>0, <1>1 DEF CanEnter, Owned
<1>3. Entered(d.entry, e.entry, At(d.entry, f, s, m - 1), s[m], b, m = Len(s))
  BY DEF Sets
<1>4. /\ DiskType(e) /\ (\A g \in Files \ {node} : e.entry[g] = d.entry[g])
      /\ e.iblocks = [d.iblocks EXCEPT ![f] = @ + 1]
      /\ e.marked = d.marked /\ e.free = d.free /\ e.sfree = d.sfree
      /\ e.panicked = d.panicked
  BY DEF Sets
<1>5. /\ node \in Nodes /\ s[m] \in Indices(node) /\ d.entry[node][s[m]] = NO_BLOCK
      /\ m = 1 => node = f
      /\ m # 1 => node \in Blocks
  BY <1>0, AtTyped DEF Content
<1>6. OnePlace(e.entry)
  BY <1>2, <1>3, OnePlaceAfter
<1>7. \A x : Reached(e.entry, x) <=> (Reached(d.entry, x) \/ x = b)
  BY <1>2, <1>3, ReachedAfter
<1>8. Owned(e, X \ {b})
  BY <1>1, <1>4, <1>6, <1>7 DEF Owned
<1>9. Tight(d, X) => Tight(e, X \ {b})
  BY <1>4, <1>7 DEF Tight
<1>10. Counted(d) => Counted(e)
  <2> SUFFICES ASSUME Counted(d), NEW g \in Files
               PROVE  /\ IsFiniteSet(RefSet(e.entry, g))
                      /\ e.iblocks[g] = Cardinality(RefSet(e.entry, g))
    BY DEF Counted
  <2> DEFINE ref == <<At(d.entry, f, s, m - 1), s[m]>>
  <2>a. Gains(d.entry, e.entry, f, g, ref)
    BY <1>2, <1>3, RefSetAfter
  <2>1. /\ g # f => RefSet(e.entry, g) = RefSet(d.entry, g)
        /\ ref \notin RefSet(d.entry, f)
        /\ RefSet(e.entry, f) = RefSet(d.entry, f) \union {ref}
    BY <2>a DEF Gains
  <2>2. IsFiniteSet(RefSet(d.entry, g)) /\ d.iblocks[g] = Cardinality(RefSet(d.entry, g))
    BY DEF Counted
  <2> HIDE DEF ref
  <2>3. CASE g = f
    <3>1. /\ IsFiniteSet(RefSet(e.entry, f))
          /\ Cardinality(RefSet(e.entry, f)) = Cardinality(RefSet(d.entry, f)) + 1
      BY <2>1, <2>2, <2>3, FS_AddElement
    <3> QED
      BY <1>0, <1>4, <2>2, <2>3, <3>1
  <2>4. CASE g # f
    BY <1>0, <1>4, <2>1, <2>2, <2>4
  <2> QED
    BY <2>3, <2>4
<1>11. \A g \in Files \ {f} : e.entry[g] = d.entry[g] /\ e.iblocks[g] = d.iblocks[g]
  <2>1. \A g \in Files \ {f} : g # node
    BY <1>5, Constants
  <2> QED
    BY <1>0, <1>4, <2>1
<1>12. \A i \in 0..(NDir + 2) : d.entry[f][i] \in {NO_BLOCK, e.entry[f][i]}
  <2> SUFFICES ASSUME NEW i \in 0..(NDir + 2)
               PROVE  d.entry[f][i] \in {NO_BLOCK, e.entry[f][i]}
    OBVIOUS
  <2>1. f \in Nodes /\ i \in Indices(f) /\ f # b
    BY <1>1, Constants DEF Nodes, Indices
  <2>2. CASE f = node /\ i = s[m]
    BY <1>5, <2>2
  <2>3. CASE ~(f = node /\ i = s[m])
    BY <1>3, <2>1, <2>3 DEF Entered
  <2> QED
    BY <2>2, <2>3
<1>13. (\A g \in GroupIds : e.free[g] <= d.free[g]) /\ e.sfree <= d.sfree
  <2>1. \A g \in GroupIds : d.free[g] \in Nat
    BY <1>0
  <2> QED
    BY <1>0, <1>4, <2>1
<1>14. FreeExact(d) => FreeExact(e)
  BY <1>4 DEF FreeExact
<1>15. Builds(d, X, e, X \ {b}, f)
  BY <1>4, <1>8, <1>9, <1>10, <1>11, <1>12, <1>13, <1>14 DEF Builds
<1> QED
  BY <1>2, <1>3, <1>15

\* No position of a file is mapped otherwise.
SameLeaves(ent, ent2) ==
  \A g \in Files : \A t \in Routes : At(ent2, g, t, Len(t)) = At(ent, g, t, Len(t))

LEMMA SameLeavesAfter ==
  ASSUME NEW ent, NEW f, NEW s, NEW m, NEW b, CanEnter(ent, f, s, m, b), m # Len(s), NEW ent2,
         Entered(ent, ent2, At(ent, f, s, m - 1), s[m], b, m = Len(s))
  PROVE  SameLeaves(ent, ent2)
<1> SUFFICES ASSUME NEW g \in Files, NEW t \in Routes
             PROVE  At(ent2, g, t, Len(t)) = At(ent, g, t, Len(t))
  BY DEF SameLeaves
<1>1. s \in Routes /\ m \in 1..Len(s)
  BY DEF CanEnter
<1>2. ~IsNew(f, s, m, g, t, Len(t))
  BY <1>1, AgreeLength DEF IsNew
<1>3. Len(t) \in 0..Len(t)
  BY RouteShape
<1> QED
  BY <1>2, <1>3, AtAfter

LEMMA PlaceAfter ==
  ASSUME NEW ent, NEW f, NEW s, NEW m, NEW b, CanEnter(ent, f, s, m, b), NEW ent2,
         Entered(ent, ent2, At(ent, f, s, m - 1), s[m], b, m = Len(s))
  PROVE  At(ent2, f, s, m) = b
<1>1. f \in Files /\ s \in Routes /\ m \in 1..Len(s)
  BY DEF CanEnter
<1>2. m \in 0..Len(s) /\ IsNew(f, s, m, f, s, m)
  BY <1>1, RouteShape DEF IsNew, Agree
<1> QED
  BY <1>1, <1>2, AtAfter

\* One level of enter_map_entry: it ends at the next node of the route or nowhere.
LEMMA EnterBuilds ==
  ASSUME NEW d, DiskType(d), NEW X, Owned(d, X), NEW f \in Files, NEW s \in Routes,
         NEW m \in 1..(Len(s) - 1), NEW n, n = NO_BLOCK \/ n = At(d.entry, f, s, m - 1)
  PROVE  \E e, p : /\ Enter([disk |-> d, node |-> n], f, s[m]) = [disk |-> e, node |-> p]
                   /\ Builds(d, X, e, X, f)
                   /\ SameLeaves(d.entry, e.entry)
                   /\ p = NO_BLOCK \/ p = At(e.entry, f, s, m)
<1> DEFINE at == [disk |-> d, node |-> n]
           there == d.entry[n][s[m]]
<1>0. m \in 1..Len(s) /\ m # Len(s) /\ EntryType(d.entry)
  BY RouteShape DEF DiskType
<1>00. Builds(d, X, d, X, f) /\ SameLeaves(d.entry, d.entry)
  BY BuildsSame DEF SameLeaves
<1>1. CASE n = NO_BLOCK
  <2>1. Enter(at, f, s[m]) = [disk |-> d, node |-> NO_BLOCK]
    BY <1>1 DEF Enter
  <2> QED
    BY <1>00, <2>1
<1>2. CASE n # NO_BLOCK /\ there # NO_BLOCK
  <2>1. Enter(at, f, s[m]) = [disk |-> d, node |-> there]
    BY <1>2 DEF Enter
  <2>2. there = At(d.entry, f, s, m)
    BY <1>0, <1>2, AtTyped
  <2> QED
    BY <1>00, <2>1, <2>2
<1>3. CASE n # NO_BLOCK /\ there = NO_BLOCK
  <2>0. /\ n = At(d.entry, f, s, m - 1) /\ n \in Nodes /\ s[m] \in Indices(n)
        /\ At(d.entry, f, s, m) = NO_BLOCK
    BY <1>0, <1>3, AtTyped
  <2>1. CASE /\ AllocBlock(d).block = NO_BLOCK
             /\ Builds(d, X, AllocBlock(d).disk, X, f)
             /\ AllocBlock(d).disk.entry = d.entry
    <3>1. Enter(at, f, s[m]) = [disk |-> AllocBlock(d).disk, node |-> NO_BLOCK]
      BY <1>3, <2>1 DEF Enter
    <3>2. SameLeaves(d.entry, AllocBlock(d).disk.entry)
      BY <1>00, <2>1
    <3> QED
      BY <2>1, <3>1, <3>2
  <2>2. ASSUME NEW b \in Blocks, CanTake(d, b),
               AllocBlock(d) = [disk |-> Take(d, b), block |-> b]
        PROVE  \E e, p : /\ Enter(at, f, s[m]) = [disk |-> e, node |-> p]
                         /\ Builds(d, X, e, X, f)
                         /\ SameLeaves(d.entry, e.entry)
                         /\ p = NO_BLOCK \/ p = At(e.entry, f, s, m)
    <3> DEFINE c == Take(d, b)
               e == AddIndirect(c, f, n, s[m], b)
    <3>1. /\ b # NO_BLOCK /\ b \notin X /\ ~Reached(d.entry, b)
          /\ Builds(d, X, c, X \union {b}, f)
      BY <2>2, TakeBuilds
    <3>2. DiskType(c) /\ c.entry = d.entry
      BY <2>2, TakeIs
    <3>3. Enter(at, f, s[m]) = [disk |-> e, node |-> b]
      BY <1>3, <2>2, <3>1 DEF Enter
    <3> HIDE DEF c, e
    <3>4. Owned(c, X \union {b})
      BY <3>1 DEF Builds
    <3>5. n # b
      <4>1. m - 1 \in 0..Len(s)
        BY <1>0, RouteShape
      <4> QED
        BY <2>0, <3>1, <4>1, NotFresh
    <3>6. Sets(c, e, f, n, s[m], b, m = Len(s))
      BY <2>0, <3>2, <3>5, AddIndirectSets DEF e
    <3>7. /\ CanEnter(c.entry, f, s, m, b)
          /\ Entered(c.entry, e.entry, At(c.entry, f, s, m - 1), s[m], b, m = Len(s))
          /\ Builds(c, X \union {b}, e, (X \union {b}) \ {b}, f)
      <4> DEFINE Y == X \union {b}
      <4>1. b \in Y /\ n = At(c.entry, f, s, m - 1) /\ At(c.entry, f, s, m) = NO_BLOCK
        BY <2>0, <3>2
      <4>2. Owned(c, Y)
        BY <3>4
      <4> HIDE DEF Y
      <4>3. /\ CanEnter(c.entry, f, s, m, b)
            /\ Entered(c.entry, e.entry, At(c.entry, f, s, m - 1), s[m], b, m = Len(s))
            /\ Builds(c, Y, e, Y \ {b}, f)
        BY <1>0, <1>3, <3>2, <3>6, <4>1, <4>2, SetsBuilds
      <4> QED
        BY <4>3 DEF Y
    <3>8. (X \union {b}) \ {b} = X
      BY <3>1
    <3>9. Builds(d, X, e, X, f)
      <4> DEFINE Y == X \union {b}
      <4>1. Builds(d, X, c, Y, f) /\ Builds(c, Y, e, X, f)
        BY <3>1, <3>7, <3>8
      <4> HIDE DEF Y
      <4> QED
        BY <4>1, BuildsTrans
    <3>10. SameLeaves(d.entry, e.entry)
      BY <1>0, <3>2, <3>7, SameLeavesAfter
    <3>11. At(e.entry, f, s, m) = b
      BY <3>7, PlaceAfter
    <3> QED
      BY <3>3, <3>9, <3>10, <3>11
  <2> QED
    BY <2>1, <2>2, AllocCases
<1> QED
  BY <1>1, <1>2, <1>3

-------------------------------------------------------------------------------
(* Positions are routes.                                                   *)

LEMMA DivMod ==
  ASSUME NEW n \in Nat, NEW m \in Nat \ {0}
  PROVE  /\ n \div m \in Nat /\ n % m \in 0..(m - 1)
         /\ n = m * (n \div m) + (n % m)
  OBVIOUS

LEMMA DivModOnce ==
  ASSUME NEW x \in Nat, NEW y \in Nat, NEW m \in Nat \ {0},
         x \div m = y \div m, x % m = y % m
  PROVE  x = y
<1>1. x = m * (x \div m) + (x % m) /\ y = m * (y \div m) + (y % m)
  BY DivMod
<1> QED
  BY <1>1

LEMMA DivBelow ==
  ASSUME NEW n \in Nat, NEW m \in Nat \ {0}, NEW c \in Nat, n < m * c
  PROVE  n \div m < c
<1>1. n \div m \in Nat /\ n % m \in Nat /\ n = m * (n \div m) + (n % m)
  BY DivMod
<1> DEFINE q == n \div m
<1> HIDE DEF q
<1>2. m * q <= n /\ q \in Nat
  <2>1. m * q \in Nat /\ n = m * q + (n % m)
    BY <1>1 DEF q
  <2> QED
    BY <1>1, <2>1 DEF q
<1>3. SUFFICES ASSUME q >= c
               PROVE  FALSE
  BY <1>1, <1>2 DEF q
<1>4. m * q >= m * c
  BY <1>2, <1>3
<1>5. m * q \in Nat /\ m * c \in Nat
  BY <1>2
<1> QED
  BY <1>2, <1>4, <1>5

\* The four ranges of positions.
LEMMA Ranges ==
  /\ NDir \in Nat \ {0} /\ Addr \in Nat \ {0}
  /\ Addr * Addr \in Nat \ {0} /\ Addr * Addr * Addr = (Addr * Addr) * Addr
  /\ DoubInd = NDir + Addr /\ TripInd = NDir + Addr + Addr * Addr
  /\ DoubInd \in Nat /\ TripInd \in Nat
<1>1. NDir \in Nat \ {0} /\ Addr \in Nat \ {0}
  BY Constants
<1>2. Addr * Addr \in Nat \ {0}
  BY <1>1
<1>3. Addr * Addr * Addr = (Addr * Addr) * Addr
  BY <1>1
<1> HIDE DEF DoubInd, TripInd
<1>4. DoubInd = NDir + Addr /\ TripInd = NDir + Addr + Addr * Addr
  BY DEF DoubInd, TripInd
<1>5. DoubInd \in Nat /\ TripInd \in Nat
  BY <1>1, <1>2, <1>4
<1> QED
  BY <1>1, <1>2, <1>3, <1>4, <1>5

LEMMA PathIsRoute ==
  ASSUME NEW p \in Positions
  PROVE  Path(p) \in Routes /\ Len(Path(p)) = Depth(p) + 1 /\ Depth(p) \in 0..3 /\ p \in Nat
<1> DEFINE sq == Addr * Addr
<1>0. /\ NDir \in Nat \ {0} /\ Addr \in Nat \ {0} /\ sq \in Nat \ {0}
      /\ DoubInd = NDir + Addr /\ TripInd = NDir + Addr + sq
      /\ DoubInd \in Nat /\ TripInd \in Nat
  BY Ranges
<1>1. p \in 0..(NDir + Addr + sq + sq * Addr - 1)
  BY Ranges, BlockAssumption
<1>2. sq * Addr \in Nat
  BY <1>0
<1>3. p \in Nat /\ p < TripInd + sq * Addr
  BY <1>0, <1>1, <1>2
<1>4. Depth(p) \in 0..3
  BY DEF Depth
<1>5. CASE Depth(p) = 0
  <2>1. Path(p) = <<p>> /\ p < NDir
    BY <1>0, <1>3, <1>5 DEF Path, Depth
  <2>2. <<p>> \in Routes /\ Len(<<p>>) = 1
    BY <1>0, <1>3, <2>1 DEF Routes, Levels
  <2> QED
    BY <1>3, <1>5, <2>1, <2>2
<1>6. CASE Depth(p) = 1
  <2>1. Path(p) = <<NDir, p - NDir>> /\ p >= NDir /\ p < NDir + Addr
    BY <1>0, <1>3, <1>6 DEF Path, Depth
  <2> DEFINE a == p - NDir
  <2>2. a \in Nat /\ a < Addr
    BY <1>0, <1>3, <2>1
  <2> HIDE DEF a
  <2>3. <<NDir, a>> \in Routes /\ Len(<<NDir, a>>) = 2
    BY <1>0, <2>2 DEF Routes, Levels
  <2> QED
    BY <1>3, <1>6, <2>1, <2>3 DEF a
<1>7. CASE Depth(p) = 2
  <2> DEFINE q == p - DoubInd
             a == q \div Addr
             b == q % Addr
  <2>1. Path(p) = <<NDir + 1, a, b>> /\ p >= DoubInd /\ p < TripInd
    BY <1>0, <1>3, <1>7 DEF Path, Depth
  <2>2. q \in Nat /\ q < Addr * Addr
    BY <1>0, <1>3, <2>1
  <2> HIDE DEF q
  <2>3. a \in Nat /\ a < Addr /\ b \in Nat /\ b < Addr
    BY <1>0, <2>2, DivMod, DivBelow
  <2> HIDE DEF a, b
  <2>4. <<NDir + 1, a, b>> \in Routes /\ Len(<<NDir + 1, a, b>>) = 3
    BY <1>0, <2>3 DEF Routes, Levels
  <2> QED
    BY <1>3, <1>7, <2>1, <2>4
<1>8. CASE Depth(p) = 3
  <2> DEFINE q == p - TripInd
             r == q % sq
             a == q \div sq
             b == r \div Addr
             c == r % Addr
  <2>1. Path(p) = <<NDir + 2, a, b, c>> /\ p >= TripInd
    BY <1>0, <1>3, <1>8 DEF Path, Depth
  <2>2. q \in Nat /\ q < sq * Addr
    BY <1>0, <1>2, <1>3, <2>1
  <2> HIDE DEF q
  <2>3. a \in Nat /\ a < Addr /\ r \in Nat /\ r < sq
    <3> HIDE DEF sq
    <3> QED
      BY <1>0, <2>2, DivMod, DivBelow
  <2> HIDE DEF r
  <2>4. b \in Nat /\ b < Addr /\ c \in Nat /\ c < Addr
    <3>1. r < Addr * Addr
      BY <2>3
    <3>2. b < Addr
      BY <1>0, <2>3, <3>1, DivBelow
    <3>a. r \in Nat /\ Addr \in Nat \ {0}
      BY <1>0, <2>3
    <3>b. b \in Nat /\ c \in 0..(Addr - 1)
      BY <3>a, DivMod
    <3>3. b \in Nat /\ c \in Nat /\ c < Addr
      BY <3>a, <3>b
    <3> QED
      BY <3>2, <3>3
  <2> HIDE DEF a, b, c
  <2>5. <<NDir + 2, a, b, c>> \in Routes /\ Len(<<NDir + 2, a, b, c>>) = 4
    <3> DEFINE s == <<NDir + 2, a, b, c>>
    <3>1. s \in Seq(Nat) /\ Len(s) = 4 /\ s[1] = NDir + 2 /\ s[2] = a /\ s[3] = b /\ s[4] = c
      BY <1>0, <2>3, <2>4
    <3> HIDE DEF s
    <3>2. \A j \in 2..4 : j = 2 \/ j = 3 \/ j = 4
      OBVIOUS
    <3>3. \A j \in 2..4 : s[j] < Addr
      BY <2>3, <2>4, <3>1, <3>2
    <3>4. Levels(NDir + 2) = 4
      BY <1>0 DEF Levels
    <3>5. s \in Routes
      <4>1. Len(s) \in 1..4 /\ s[1] <= NDir + 2 /\ Len(s) = Levels(s[1])
        BY <1>0, <3>1, <3>4
      <4>2. \A j \in 2..Len(s) : s[j] < Addr
        BY <3>1, <3>3
      <4> QED
        BY <3>1, <4>1, <4>2 DEF Routes
    <3> QED
      BY <3>1, <3>5 DEF s
  <2> QED
    BY <1>3, <1>8, <2>1, <2>5
<1> QED
  BY <1>4, <1>5, <1>6, <1>7, <1>8

\* No two positions have one route.
LEMMA PathOnce ==
  ASSUME NEW p \in Positions, NEW q \in Positions, Path(p) = Path(q)
  PROVE  p = q
<1> DEFINE sq == Addr * Addr
<1>0. /\ NDir \in Nat \ {0} /\ Addr \in Nat \ {0} /\ sq \in Nat \ {0}
      /\ DoubInd = NDir + Addr /\ TripInd = NDir + Addr + sq
      /\ DoubInd \in Nat /\ TripInd \in Nat
  BY Ranges
<1>1. p \in Nat /\ q \in Nat /\ Depth(p) \in 0..3 /\ Depth(q) \in 0..3
      /\ Len(Path(p)) = Depth(p) + 1 /\ Len(Path(q)) = Depth(q) + 1
  BY PathIsRoute
<1>2. Depth(p) = Depth(q)
  BY <1>1
<1>3. CASE Depth(p) = 0
  BY <1>2, <1>3 DEF Path
<1>4. CASE Depth(p) = 1
  <2>1. p - NDir = q - NDir
    BY <1>2, <1>4 DEF Path
  <2> QED
    BY <1>0, <1>1, <2>1
<1>5. CASE Depth(p) = 2
  <2> DEFINE x == p - DoubInd
             y == q - DoubInd
  <2>1. x \in Nat /\ y \in Nat
    BY <1>0, <1>1, <1>2, <1>5 DEF Depth
  <2>2. x \div Addr = y \div Addr /\ x % Addr = y % Addr
    BY <1>2, <1>5 DEF Path
  <2> HIDE DEF x, y
  <2>4. x = y
    BY <1>0, <2>1, <2>2, DivModOnce
  <2> QED
    BY <1>0, <1>1, <2>4 DEF x, y
<1>6. CASE Depth(p) = 3
  <2> DEFINE x == p - TripInd
             y == q - TripInd
  <2>1. x \in Nat /\ y \in Nat
    BY <1>0, <1>1, <1>2, <1>6 DEF Depth
  <2>2. /\ x \div sq = y \div sq
        /\ (x % sq) \div Addr = (y % sq) \div Addr
        /\ (x % sq) % Addr = (y % sq) % Addr
    BY <1>2, <1>6 DEF Path
  <2> HIDE DEF x, y, sq
  <2>3. x % sq \in Nat /\ y % sq \in Nat
    BY <1>0, <2>1, DivMod
  <2>5. x % sq = y % sq
    BY <1>0, <2>2, <2>3, DivModOnce
  <2>6. x = y
    BY <1>0, <2>1, <2>2, <2>5, DivModOnce
  <2> QED
    BY <1>0, <1>1, <2>6 DEF x, y
<1> QED
  BY <1>1, <1>3, <1>4, <1>5, <1>6

\* What read_map_entry finds is at the end of the route.
LEMMA ReadMapIs ==
  ASSUME NEW ent, EntryType(ent), NEW f \in Files, NEW p \in Positions
  PROVE  ReadMap(ent, f, p) = At(ent, f, Path(p), Len(Path(p)))
<1>1. Len(Path(p)) = Depth(p) + 1 /\ Depth(p) \in 0..3
  BY PathIsRoute
<1>2. \A i : Follow(ent, f, i) = ent[f][i]
  BY Constants DEF Follow
<1>3. CASE Depth(p) = 0
  BY <1>1, <1>2, <1>3 DEF ReadMap, At
<1>4. CASE Depth(p) = 1
  BY <1>1, <1>2, <1>4 DEF ReadMap, At
<1>5. CASE Depth(p) = 2
  BY <1>1, <1>2, <1>5 DEF ReadMap, At
<1>6. CASE Depth(p) = 3
  BY <1>1, <1>2, <1>6 DEF ReadMap, At
<1> QED
  BY <1>1, <1>3, <1>4, <1>5, <1>6

-------------------------------------------------------------------------------
(* new_block.                                                              *)

LEMMA SameLeavesTrans ==
  ASSUME NEW ent, NEW ent2, NEW ent3, SameLeaves(ent, ent2), SameLeaves(ent2, ent3)
  PROVE  SameLeaves(ent, ent3)
  BY DEF SameLeaves

\* enter_map_entry ends at the last node of the route or nowhere.
LEMMA DescendBuilds ==
  ASSUME NEW d, DiskType(d), NEW X, Owned(d, X), NEW f \in Files, NEW p \in Positions
  PROVE  \E e, n : /\ Descend(d, f, p) = [disk |-> e, node |-> n]
                   /\ Builds(d, X, e, X, f)
                   /\ SameLeaves(d.entry, e.entry)
                   /\ n = NO_BLOCK \/ n = At(e.entry, f, Path(p), Depth(p))
<1> DEFINE s == Path(p)
           at0 == [disk |-> d, node |-> f]
           at1 == Enter(at0, f, s[1])
           at2 == Enter(at1, f, s[2])
           Good(at, m) == \E e, n : /\ at = [disk |-> e, node |-> n]
                                    /\ Builds(d, X, e, X, f)
                                    /\ SameLeaves(d.entry, e.entry)
                                    /\ n = NO_BLOCK \/ n = At(e.entry, f, s, m)
<1>1. s \in Routes /\ Len(s) = Depth(p) + 1 /\ Depth(p) \in 0..3
  BY PathIsRoute
<1>2. Descend(d, f, p) = CASE Depth(p) = 0 -> at0
                           [] Depth(p) = 1 -> at1
                           [] Depth(p) = 2 -> at2
                           [] Depth(p) = 3 -> Enter(at2, f, s[3])
  BY DEF Descend
<1> HIDE DEF s
<1>3. Good(at0, 0)
  <2>1. Builds(d, X, d, X, f) /\ SameLeaves(d.entry, d.entry)
    BY BuildsSame DEF SameLeaves
  <2>2. f = At(d.entry, f, s, 0)
    BY <1>1, AtStart
  <2> QED
    BY <2>1, <2>2
<1>4. ASSUME NEW at, NEW m \in 1..(Len(s) - 1), Good(at, m - 1)
      PROVE  Good(Enter(at, f, s[m]), m)
  <2>1. PICK e, n : /\ at = [disk |-> e, node |-> n]
                    /\ Builds(d, X, e, X, f)
                    /\ SameLeaves(d.entry, e.entry)
                    /\ n = NO_BLOCK \/ n = At(e.entry, f, s, m - 1)
    BY <1>4
  <2>2. DiskType(e) /\ Owned(e, X)
    BY <2>1 DEF Builds
  <2>3. PICK e2, n2 : /\ Enter([disk |-> e, node |-> n], f, s[m]) = [disk |-> e2, node |-> n2]
                      /\ Builds(e, X, e2, X, f)
                      /\ SameLeaves(e.entry, e2.entry)
                      /\ n2 = NO_BLOCK \/ n2 = At(e2.entry, f, s, m)
    BY <1>1, <2>1, <2>2, EnterBuilds, ZenonT(60)
  <2>4. Builds(d, X, e2, X, f)
    BY <2>1, <2>3, BuildsTrans
  <2>5. SameLeaves(d.entry, e2.entry)
    BY <2>1, <2>3, SameLeavesTrans
  <2> QED
    BY <2>1, <2>3, <2>4, <2>5
<1> HIDE DEF Good
<1>5. Depth(p) >= 1 => Good(at1, 1)
  <2>1. Depth(p) >= 1 => 1 \in 1..(Len(s) - 1) /\ 1 - 1 = 0
    BY <1>1
  <2> QED
    BY <1>3, <1>4, <2>1
<1> HIDE DEF at1
<1>6. Depth(p) >= 2 => Good(at2, 2)
  <2>1. Depth(p) >= 2 => 2 \in 1..(Len(s) - 1) /\ 2 - 1 = 1 /\ Depth(p) >= 1
    BY <1>1
  <2> QED
    BY <1>4, <1>5, <2>1
<1> HIDE DEF at2
<1>7. Depth(p) >= 3 => Good(Enter(at2, f, s[3]), 3)
  <2>1. Depth(p) >= 3 => 3 \in 1..(Len(s) - 1) /\ 3 - 1 = 2 /\ Depth(p) >= 2
    BY <1>1
  <2> QED
    BY <1>4, <1>6, <2>1
<1>8. Good(Descend(d, f, p), Depth(p))
  <2>1. Depth(p) = 0 \/ Depth(p) = 1 \/ Depth(p) = 2 \/ Depth(p) = 3
    BY <1>1
  <2> HIDE DEF at0
  <2>2. CASE Depth(p) = 0
    BY <1>2, <1>3, <2>2
  <2>3. CASE Depth(p) = 1
    BY <1>2, <1>5, <2>3
  <2>4. CASE Depth(p) = 2
    BY <1>2, <1>6, <2>4
  <2>5. CASE Depth(p) = 3
    BY <1>2, <1>7, <2>5
  <2> QED
    BY <2>1, <2>2, <2>3, <2>4, <2>5
<1> QED
  BY <1>8 DEF Good, s

\* The data block is given back when there is no space for an indirect block.
LEMMA FreeBuilds ==
  ASSUME NEW d, DiskType(d), NEW X, Owned(d, X), NEW f \in Files, NEW b, CanTake(d, b), NEW e,
         Builds(Take(d, b), X \union {b}, e, X \union {b}, f), ~e.panicked
  PROVE  /\ Builds(d, X, FreeBlock(e, b), X, f)
         /\ FreeBlock(e, b).entry = e.entry
<1> DEFINE c == Take(d, b)
           Y == X \union {b}
           g0 == GroupOf(b)
           r == FreeBlock(e, b)
           ff == [e.free EXCEPT ![g0] = @ + 1]
<1>1. /\ b # NO_BLOCK /\ b \notin System /\ b \notin X /\ ~Reached(d.entry, b)
      /\ Builds(d, X, c, Y, f)
  BY TakeBuilds
<1>2. /\ c.sfree = d.sfree - 1 /\ c.free = [d.free EXCEPT ![g0] = @ - 1]
      /\ c.panicked = d.panicked
  BY TakeIs
<1>3. /\ DiskType(e) /\ Owned(e, Y) /\ Builds(c, Y, e, Y, f)
  BY DEF Builds
<1>4. /\ e = [entry |-> e.entry, iblocks |-> e.iblocks, marked |-> e.marked,
              free |-> e.free, sfree |-> e.sfree, panicked |-> e.panicked]
      /\ e.free \in [GroupIds -> Nat] /\ e.sfree \in Nat
      /\ System \subseteq e.marked /\ e.marked \subseteq Blocks
  BY <1>3 DEF DiskType
<1>5. b \in e.marked /\ b \notin System /\ ~Reached(e.entry, b)
  BY <1>3 DEF Owned
<1>6. r = [e EXCEPT !.marked = e.marked \ {b}, !.free = ff, !.sfree = e.sfree + 1]
  BY <1>4, <1>5 DEF FreeBlock
<1>7. g0 \in GroupIds /\ b \in Blocks /\ d.free[g0] # 0 /\ d.sfree # 0
  BY DEF CanTake
<1>8. d.free \in [GroupIds -> Nat] /\ d.sfree \in Nat
  BY DEF DiskType
<1>9. Builds(d, X, e, Y, f)
  <2> HIDE DEF c, Y
  <2> QED
    BY <1>1, <1>3, BuildsTrans
<1>10. (\A g \in GroupIds : e.free[g] <= c.free[g]) /\ e.sfree <= c.sfree
  BY <1>3 DEF Builds
<1> HIDE DEF c, r, ff, g0
<1>11. r = [entry |-> e.entry, iblocks |-> e.iblocks, marked |-> e.marked \ {b},
            free |-> ff, sfree |-> e.sfree + 1, panicked |-> e.panicked]
  BY <1>4, <1>6
<1>12. /\ ff \in [GroupIds -> Nat] /\ ff[g0] = e.free[g0] + 1
       /\ \A g \in GroupIds \ {g0} : ff[g] = e.free[g]
  BY <1>4, <1>7 DEF ff
<1>13. DiskType(r)
  BY <1>3, <1>4, <1>5, <1>11, <1>12 DEF DiskType
<1>14. Owned(r, X)
  <2>1. OnePlace(e.entry) /\ \A x \in Blocks : Reached(e.entry, x) => x \in e.marked \ System
    BY <1>3 DEF Owned
  <2>2. X \subseteq e.marked \ System /\ \A x \in X : ~Reached(e.entry, x)
    BY <1>3 DEF Owned
  <2>3. X \subseteq r.marked \ System
    BY <1>1, <1>11, <2>2
  <2> QED
    BY <1>5, <1>11, <2>1, <2>2, <2>3 DEF Owned
<1>15. Tight(e, Y) => Tight(r, X)
  BY <1>11 DEF Tight
<1>16. Counted(e) => Counted(r)
  BY <1>11 DEF Counted
<1>17. \A g \in GroupIds : r.free[g] <= d.free[g]
  <2> SUFFICES ASSUME NEW g \in GroupIds
               PROVE  r.free[g] <= d.free[g]
    OBVIOUS
  <2>1. e.free[g] \in Nat /\ d.free[g] \in Nat /\ e.free[g] <= c.free[g]
    BY <1>4, <1>8, <1>10
  <2>2. CASE g = g0
    <3>1. c.free[g] = d.free[g] - 1 /\ r.free[g] = e.free[g] + 1
      BY <1>2, <1>8, <1>11, <1>12, <2>2
    <3> QED
      BY <2>1, <3>1
  <2>3. CASE g # g0
    <3>1. c.free[g] = d.free[g] /\ r.free[g] = e.free[g]
      BY <1>2, <1>8, <1>11, <1>12, <2>3
    <3> QED
      BY <2>1, <3>1
  <2> QED
    BY <2>2, <2>3
<1>18. r.sfree <= d.sfree
  BY <1>2, <1>4, <1>8, <1>10, <1>11
<1>19. FreeExact(e) => FreeExact(r)
  <2> SUFFICES ASSUME FreeExact(e)
               PROVE  FreeExact(r)
    OBVIOUS
  <2>1. ASSUME NEW g \in GroupIds
        PROVE  r.free[g] = Cardinality(InGroup(g) \ r.marked)
    <3>0. e.free[g] = Cardinality(InGroup(g) \ e.marked)
      BY DEF FreeExact
    <3>1. CASE g = g0
      <4>1. InGroup(g) \ r.marked = (InGroup(g) \ e.marked) \union {b}
        BY <1>7, <1>11, <3>1 DEF InGroup, g0
      <4>2. b \notin InGroup(g) \ e.marked /\ IsFiniteSet(InGroup(g) \ e.marked)
        BY <1>5, SetsFinite DEF InGroup
      <4>3. Cardinality(InGroup(g) \ r.marked) = Cardinality(InGroup(g) \ e.marked) + 1
        BY <4>1, <4>2, FS_AddElement
      <4> QED
        BY <1>11, <1>12, <3>0, <3>1, <4>3
    <3>2. CASE g # g0
      <4>1. InGroup(g) \ r.marked = InGroup(g) \ e.marked
        BY <1>11, <3>2 DEF InGroup, g0
      <4> QED
        BY <1>11, <1>12, <3>0, <3>2, <4>1
    <3> QED
      BY <3>1, <3>2
  <2>2. r.sfree = Cardinality(Blocks \ r.marked)
    <3>1. Blocks \ r.marked = (Blocks \ e.marked) \union {b}
      BY <1>7, <1>11
    <3>2. b \notin Blocks \ e.marked /\ IsFiniteSet(Blocks \ e.marked)
      BY <1>5, SetsFinite
    <3>3. Cardinality(Blocks \ r.marked) = Cardinality(Blocks \ e.marked) + 1
      BY <3>1, <3>2, FS_AddElement
    <3> QED
      BY <1>11, <3>3 DEF FreeExact
  <2> QED
    BY <2>1, <2>2 DEF FreeExact
<1>20. Builds(d, X, r, X, f)
  BY <1>9, <1>11, <1>13, <1>14, <1>15, <1>16, <1>17, <1>18, <1>19 DEF Builds
<1> QED
  BY <1>11, <1>20 DEF r

\* Position p of file f, and no other, is mapped to b, a block of its own.
Maps(ent, ent2, f, p, b) ==
  /\ b \in Blocks /\ b # NO_BLOCK /\ ~Reached(ent, b)
  /\ \A g \in Files : \A t \in Routes :
       At(ent2, g, t, Len(t)) = IF g = f /\ t = Path(p) THEN b ELSE At(ent, g, t, Len(t))

LEMMA MapsAfter ==
  ASSUME NEW ent, NEW f, NEW p \in Positions, NEW s, s = Path(p), NEW m, m = Len(s), NEW b,
         CanEnter(ent, f, s, m, b), NEW ent2,
         Entered(ent, ent2, At(ent, f, s, m - 1), s[m], b, m = Len(s))
  PROVE  Maps(ent, ent2, f, p, b)
<1>1. s \in Routes /\ m \in 1..Len(s) /\ b \in Blocks /\ b # NO_BLOCK /\ ~Reached(ent, b)
  BY DEF CanEnter
<1>2. ASSUME NEW g \in Files, NEW t \in Routes
      PROVE  At(ent2, g, t, Len(t)) = IF g = f /\ t = s THEN b ELSE At(ent, g, t, Len(t))
  <2>1. Len(t) \in 0..Len(t) /\ Len(t) \in 1..4 /\ Len(s) \in 1..4
        /\ t \in Seq(Nat) /\ s \in Seq(Nat)
    <3>1. Len(t) \in 1..4 /\ Len(s) \in 1..4
      BY <1>1, RouteShape
    <3>2. t \in Seq(Nat) /\ s \in Seq(Nat)
      BY <1>1 DEF Routes
    <3> QED
      BY <3>1, <3>2, SMTT(30)
  <2>2. IsNew(f, s, m, g, t, Len(t)) <=> (g = f /\ t = s)
    <3>1. ASSUME IsNew(f, s, m, g, t, Len(t))
          PROVE  g = f /\ t = s
      <4>1. g = f /\ Len(t) = Len(s) /\ \A j \in 1..Len(s) : s[j] = t[j]
        BY <3>1 DEF IsNew, Agree
      <4> QED
        BY <2>1, <4>1, SMTT(30)
    <3>2. ASSUME g = f, t = s
          PROVE  IsNew(f, s, m, g, t, Len(t))
      BY <2>1, <3>2 DEF IsNew, Agree
    <3> QED
      BY <3>1, <3>2
  <2>3. At(ent2, g, t, Len(t)) =
          IF IsNew(f, s, m, g, t, Len(t)) THEN b ELSE At(ent, g, t, Len(t))
    BY <2>1, AtAfter, SMTT(30)
  <2> QED
    BY <2>2, <2>3
<1> QED
  BY <1>1, <1>2 DEF Maps

\* new_block keeps the disk sound, and maps the position or none.
LEMMA NewBlockBuilds ==
  ASSUME NEW d, DiskType(d), NEW X, Owned(d, X), NEW f \in Files, NEW p \in Positions,
         ReadMap(d.entry, f, p) = NO_BLOCK
  PROVE  /\ Builds(d, X, NewBlock(d, f, p), X, f)
         /\ \/ SameLeaves(d.entry, NewBlock(d, f, p).entry)
            \/ \E b \in Blocks : Maps(d.entry, NewBlock(d, f, p).entry, f, p, b)
<1> DEFINE data == AllocBlock(d)
           last == Descend(data.disk, f, p)
           s    == Path(p)
           Good(e) == /\ Builds(d, X, e, X, f)
                      /\ \/ SameLeaves(d.entry, e.entry)
                         \/ \E b \in Blocks : Maps(d.entry, e.entry, f, p, b)
<1>0. /\ s \in Routes /\ Len(s) = Depth(p) + 1 /\ Depth(p) \in 0..3
      /\ EntryType(d.entry)
  BY PathIsRoute DEF DiskType
<1>00. At(d.entry, f, s, Len(s)) = NO_BLOCK
  BY <1>0, ReadMapIs
<1>1. CASE data.block = NO_BLOCK /\ Builds(d, X, data.disk, X, f) /\ data.disk.entry = d.entry
  <2>1. NewBlock(d, f, p) = data.disk
    BY <1>1 DEF NewBlock
  <2>2. SameLeaves(d.entry, data.disk.entry)
    BY <1>1 DEF SameLeaves
  <2> QED
    BY <1>1, <2>1, <2>2
<1>2. ASSUME NEW b \in Blocks, CanTake(d, b), data = [disk |-> Take(d, b), block |-> b]
      PROVE  Good(NewBlock(d, f, p))
  <2> DEFINE c == Take(d, b)
             Y == X \union {b}
  <2>1. b # NO_BLOCK /\ b \notin System /\ b \notin X /\ ~Reached(d.entry, b)
        /\ Builds(d, X, c, Y, f)
    BY <1>2, TakeBuilds
  <2>2. DiskType(c) /\ Owned(c, Y)
    BY <2>1 DEF Builds
  <2>3. c.entry = d.entry
    BY <1>2, TakeIs
  <2>4. PICK e, n : /\ Descend(c, f, p) = [disk |-> e, node |-> n]
                    /\ Builds(c, Y, e, Y, f)
                    /\ SameLeaves(c.entry, e.entry)
                    /\ n = NO_BLOCK \/ n = At(e.entry, f, s, Depth(p))
    <3> HIDE DEF c, s, Y
    <3> QED
      BY <2>2, DescendBuilds DEF s
  <2>5. Builds(d, X, e, Y, f)
    <3> HIDE DEF c, Y
    <3> QED
      BY <2>1, <2>4, BuildsTrans
  <2>6. SameLeaves(d.entry, e.entry)
    BY <2>3, <2>4
  <2>7. DiskType(e) /\ Owned(e, Y)
    BY <2>5 DEF Builds
  <2>8. NewBlock(d, f, p) = IF e.panicked THEN e
                            ELSE IF n = NO_BLOCK THEN FreeBlock(e, b)
                            ELSE SetEntry(e, f, n, s[Depth(p) + 1], b)
    <3>1. data.block = b /\ data.disk = c /\ last = [disk |-> e, node |-> n]
      BY <1>2, <2>4
    <3> HIDE DEF c, data, last
    <3>2. last.disk = e /\ last.node = n
      BY <3>1
    <3> QED
      BY <2>1, <3>1, <3>2 DEF NewBlock, data, last
  <2>9. CASE e.panicked
    <3>1. Owned(e, X)
      BY <2>7 DEF Owned
    <3>2. Builds(d, X, e, X, f)
      BY <2>5, <2>9, <3>1 DEF Builds
    <3> QED
      BY <2>6, <2>8, <2>9, <3>2
  <2>10. CASE ~e.panicked /\ n = NO_BLOCK
    <3>1. /\ Builds(d, X, FreeBlock(e, b), X, f)
          /\ FreeBlock(e, b).entry = e.entry
      BY <1>2, <2>4, <2>10, FreeBuilds
    <3> QED
      BY <2>6, <2>8, <2>10, <3>1
  <2>11. CASE ~e.panicked /\ n # NO_BLOCK
    <3> DEFINE m == Len(s)
               r == SetEntry(e, f, n, s[m], b)
    <3>1. NewBlock(d, f, p) = r
      BY <1>0, <2>8, <2>11
    <3>2. m \in 1..Len(s) /\ m - 1 = Depth(p)
      BY <1>0
    <3>3. n = At(e.entry, f, s, m - 1) /\ EntryType(e.entry)
      BY <2>4, <2>7, <2>11, <3>2 DEF DiskType
    <3>4. n \in Nodes /\ s[m] \in Indices(n)
      BY <1>0, <2>11, <3>2, <3>3, AtTyped
    <3>5. At(e.entry, f, s, m) = NO_BLOCK
      BY <1>0, <1>00, <2>6 DEF SameLeaves
    <3>6. Sets(e, r, f, n, s[m], b, m = Len(s))
      BY <2>7, <3>4, SetEntrySets
    <3> HIDE DEF r, s
    <3>7. /\ CanEnter(e.entry, f, s, m, b)
          /\ Entered(e.entry, r.entry, At(e.entry, f, s, m - 1), s[m], b, m = Len(s))
          /\ Builds(e, Y, r, Y \ {b}, f)
      <4>1. b \in Y /\ Owned(e, Y)
        BY <2>7
      <4> HIDE DEF Y, m
      <4> QED
        BY <1>0, <2>7, <2>11, <3>2, <3>3, <3>5, <3>6, <4>1, SetsBuilds, ZenonT(60)
    <3>8. Builds(d, X, r, X, f)
      <4> DEFINE Z == Y \ {b}
      <4>1. Builds(d, X, e, Y, f) /\ Builds(e, Y, r, Z, f) /\ Z = X
        BY <2>1, <2>5, <3>7
      <4> HIDE DEF Y, Z
      <4>2. Builds(d, X, r, Z, f)
        BY <4>1, BuildsTrans
      <4> QED
        BY <4>1, <4>2
    <3>9. Maps(e.entry, r.entry, f, p, b)
      BY <3>7, MapsAfter DEF s
    <3>10. Maps(d.entry, r.entry, f, p, b)
      BY <2>1, <2>6, <3>9 DEF Maps, SameLeaves
    <3> QED
      BY <3>1, <3>8, <3>10
  <2> QED
    BY <2>9, <2>10, <2>11
<1>3. Good(NewBlock(d, f, p))
  <2> HIDE DEF Good
  <2>1. \/ data.block = NO_BLOCK /\ Builds(d, X, data.disk, X, f) /\ data.disk.entry = d.entry
        \/ \E b \in Blocks : CanTake(d, b) /\ data = [disk |-> Take(d, b), block |-> b]
    BY AllocCases
  <2>2. CASE data.block = NO_BLOCK /\ Builds(d, X, data.disk, X, f) /\ data.disk.entry = d.entry
    BY <1>1, <2>2 DEF Good
  <2>3. CASE \E b \in Blocks : CanTake(d, b) /\ data = [disk |-> Take(d, b), block |-> b]
    BY <1>2, <2>3
  <2> QED
    BY <2>1, <2>2, <2>3
<1> QED
  BY <1>3

-------------------------------------------------------------------------------
(* Reading inodes again: what they lost is gone from the tree.             *)

\* Inodes lose some entries, everything else is as it was.
Pruned(ent, ent2) ==
  /\ EntryType(ent2)
  /\ \A n \in Blocks : ent2[n] = ent[n]
  /\ \A f \in Files : \A i \in 0..(NDir + 2) : ent2[f][i] \in {NO_BLOCK, ent[f][i]}

LEMMA AtPruned ==
  ASSUME NEW ent, EntryType(ent), NEW ent2, Pruned(ent, ent2),
         NEW g \in Files, NEW t \in Routes
  PROVE  \A k \in 0..Len(t) : At(ent2, g, t, k) \in {NO_BLOCK, At(ent, g, t, k)}
<1> DEFINE S == {k \in 0..Len(t) : At(ent2, g, t, k) \in {NO_BLOCK, At(ent, g, t, k)}}
<1>0. Len(t) \in 1..4
  BY RouteShape
<1>00. EntryType(ent2)
  BY DEF Pruned
<1>1. 0 \in S
  BY <1>0, AtStart
<1>2. ASSUME NEW k \in 1..Len(t), k - 1 \in S
      PROVE  k \in S
  <2> DEFINE x  == At(ent, g, t, k - 1)
             x2 == At(ent2, g, t, k - 1)
  <2>1. /\ x2 = NO_BLOCK => At(ent2, g, t, k) = NO_BLOCK
        /\ x2 # NO_BLOCK => At(ent2, g, t, k) = ent2[x2][t[k]]
    BY <1>00, AtTyped
  <2>2. /\ x # NO_BLOCK => x \in Nodes /\ t[k] \in Indices(x) /\ At(ent, g, t, k) = ent[x][t[k]]
        /\ k = 1 => x = g
        /\ k # 1 => x \in Content
    BY AtTyped
  <2>3. x2 \in {NO_BLOCK, x} /\ k \in 0..Len(t)
    BY <1>0, <1>2
  <2>4. CASE x2 = NO_BLOCK
    BY <2>1, <2>3, <2>4
  <2>5. CASE x2 # NO_BLOCK /\ k = 1
    <3>1. x = g /\ x2 = g /\ t[k] \in 0..(NDir + 2)
      BY <2>2, <2>3, <2>5, Constants DEF Indices
    <3>2. ent2[g][t[k]] \in {NO_BLOCK, ent[g][t[k]]}
      BY <3>1 DEF Pruned
    <3> QED
      BY <2>1, <2>2, <2>3, <2>5, <3>1, <3>2
  <2>6. CASE x2 # NO_BLOCK /\ k # 1
    <3>1. x2 = x /\ x \in Blocks
      BY <2>2, <2>3, <2>6 DEF Content
    <3>2. ent2[x] = ent[x]
      BY <3>1 DEF Pruned
    <3> QED
      BY <2>1, <2>2, <2>3, <2>6, <3>1, <3>2
  <2> QED
    BY <2>4, <2>5, <2>6
<1>3. \A k \in 0..Len(t) : k \in S
  <2> HIDE DEF S
  <2> QED
    BY <1>1, <1>2, Along
<1> QED
  BY <1>3

\* A file whose inode loses nothing is as it was.
LEMMA AtUnpruned ==
  ASSUME NEW ent, EntryType(ent), NEW ent2, Pruned(ent, ent2),
         NEW g \in Files, ent2[g] = ent[g], NEW t \in Routes
  PROVE  \A k \in 0..Len(t) : At(ent2, g, t, k) = At(ent, g, t, k)
<1> DEFINE S == {k \in 0..Len(t) : At(ent2, g, t, k) = At(ent, g, t, k)}
<1>0. Len(t) \in 1..4
  BY RouteShape
<1>00. EntryType(ent2)
  BY DEF Pruned
<1>1. 0 \in S
  BY <1>0, AtStart
<1>2. ASSUME NEW k \in 1..Len(t), k - 1 \in S
      PROVE  k \in S
  <2> DEFINE x == At(ent, g, t, k - 1)
  <2>1. At(ent2, g, t, k - 1) = x /\ k \in 0..Len(t)
    BY <1>0, <1>2
  <2>2. /\ At(ent2, g, t, k) = Follow(ent2, x, t[k])
        /\ At(ent, g, t, k) = Follow(ent, x, t[k])
    BY <2>1, AtNext
  <2>3. /\ k = 1 => x = g
        /\ k # 1 => x \in Content
    BY AtTyped
  <2>4. x = NO_BLOCK \/ ent2[x] = ent[x]
    BY <2>3 DEF Pruned, Content
  <2> QED
    BY <2>1, <2>2, <2>4 DEF Follow
<1>3. \A k \in 0..Len(t) : k \in S
  <2> HIDE DEF S
  <2> QED
    BY <1>1, <1>2, Along
<1> QED
  BY <1>3

NoEntries == [i \in 0..(NDir + 2) |-> NO_BLOCK]

\* A file whose inode has no entries in use has nothing along its routes.
LEMMA EmptyFile ==
  ASSUME NEW ent, EntryType(ent), NEW f \in Files, ent[f] = NoEntries,
         NEW s \in Routes
  PROVE  \A k \in 1..Len(s) : At(ent, f, s, k) = NO_BLOCK
<1> SUFFICES ASSUME NEW k \in 1..Len(s)
             PROVE  At(ent, f, s, k) = NO_BLOCK
  OBVIOUS
<1>1. Len(s) \in 1..4 /\ s[1] \in 0..(NDir + 2)
  BY RouteShape
<1>2. 1 \in 1..Len(s) /\ 1 - 1 = 0 /\ At(ent, f, s, 0) = f /\ f # NO_BLOCK
  BY <1>1, AtStart, Constants
<1>3. At(ent, f, s, 1) = ent[f][s[1]]
  <2>1. At(ent, f, s, 1) = Follow(ent, At(ent, f, s, 1 - 1), s[1])
    BY <1>2, AtNext
  <2> QED
    BY <1>2, <2>1 DEF Follow
<1>4. At(ent, f, s, 1) = NO_BLOCK
  BY <1>1, <1>3 DEF NoEntries
<1>5. 1 \in 0..Len(s) /\ k \in 1..Len(s)
  BY <1>1
<1> QED
  BY <1>4, <1>5, AtBeyond

LEMMA PrunedOwned ==
  ASSUME NEW d, DiskType(d), NEW X, Owned(d, X), NEW e, DiskType(e), e.marked = d.marked,
         Pruned(d.entry, e.entry)
  PROVE  Owned(e, X)
<1>0. EntryType(d.entry)
  BY DEF DiskType
<1>1. ASSUME NEW g \in Files, NEW t \in Routes, NEW k \in 1..Len(t),
             At(e.entry, g, t, k) # NO_BLOCK
      PROVE  At(e.entry, g, t, k) = At(d.entry, g, t, k)
  <2>1. k \in 0..Len(t)
    BY RouteShape
  <2>2. At(e.entry, g, t, k) \in {NO_BLOCK, At(d.entry, g, t, k)}
    BY <1>0, <2>1, AtPruned
  <2> QED
    BY <1>1, <2>2
<1>2. OnePlace(e.entry)
  <2> SUFFICES ASSUME NEW g \in Files, NEW h \in Files, NEW t \in Routes, NEW u \in Routes,
                      NEW k \in 1..Len(t), NEW l \in 1..Len(u),
                      At(e.entry, g, t, k) = At(e.entry, h, u, l), At(e.entry, g, t, k) # NO_BLOCK
               PROVE  g = h /\ k = l /\ Agree(t, u, k)
    BY DEF OnePlace
  <2>1. /\ At(d.entry, g, t, k) = At(d.entry, h, u, l)
        /\ At(d.entry, g, t, k) # NO_BLOCK
    BY <1>1
  <2> QED
    BY <2>1 DEF Owned, OnePlace
<1>3. ASSUME NEW b, Reached(e.entry, b)
      PROVE  Reached(d.entry, b)
  <2>1. PICK g \in Files, t \in Routes : \E k \in 1..Len(t) : At(e.entry, g, t, k) = b
    BY <1>3 DEF Reached
  <2>2. PICK k \in 1..Len(t) : At(e.entry, g, t, k) = b
    BY <2>1
  <2>3. b # NO_BLOCK
    BY <1>3 DEF Reached
  <2>4. At(d.entry, g, t, k) = b
    BY <1>1, <2>2, <2>3
  <2> QED
    BY <2>3, <2>4 DEF Reached
<1> QED
  BY <1>2, <1>3 DEF Owned

-------------------------------------------------------------------------------
(* The entries in use along routes are those that the properties list.     *)

LEMMA RoutesAre ==
  ASSUME NEW a \in 0..(Addr - 1), NEW b \in 0..(Addr - 1), NEW c \in 0..(Addr - 1)
  PROVE  /\ \A i \in 0..(NDir - 1) : <<i>> \in Routes
         /\ <<NDir, a>> \in Routes
         /\ <<NDir + 1, a, b>> \in Routes
         /\ <<NDir + 2, a, b, c>> \in Routes
<1>0. NDir \in Nat \ {0} /\ Addr \in Nat \ {0} /\ a \in Nat /\ b \in Nat /\ c \in Nat
      /\ a < Addr /\ b < Addr /\ c < Addr
  BY Constants
<1>1. \A i \in 0..(NDir - 1) : <<i>> \in Routes
  BY <1>0 DEF Routes, Levels
<1>2. <<NDir, a>> \in Routes
  BY <1>0 DEF Routes, Levels
<1>3. <<NDir + 1, a, b>> \in Routes
  BY <1>0 DEF Routes, Levels
<1>4. <<NDir + 2, a, b, c>> \in Routes
  <2> DEFINE s == <<NDir + 2, a, b, c>>
  <2>1. s \in Seq(Nat) /\ Len(s) = 4 /\ s[1] = NDir + 2 /\ s[2] = a /\ s[3] = b /\ s[4] = c
    BY <1>0
  <2> HIDE DEF s
  <2>2. \A j \in 2..4 : j = 2 \/ j = 3 \/ j = 4
    OBVIOUS
  <2>3. \A j \in 2..Len(s) : s[j] < Addr
    BY <1>0, <2>1, <2>2
  <2>4. Len(s) \in 1..4 /\ s[1] <= NDir + 2 /\ Len(s) = Levels(s[1])
    BY <1>0, <2>1 DEF Levels
  <2>5. s \in Routes
    BY <2>1, <2>3, <2>4 DEF Routes
  <2> QED
    BY <2>5 DEF s
<1> QED
  BY <1>1, <1>2, <1>3, <1>4

LEMMA TargetsAre ==
  ASSUME NEW S, NEW x
  PROVE  x \in Targets(S) <=> x # NO_BLOCK /\ \E r \in S : entry[r[1]][r[2]] = x
  BY DEF Targets, InUse

LEMMA KidsAre ==
  ASSUME NEW N, NEW x
  PROVE  x \in Kids(N) <=>
           x # NO_BLOCK /\ \E n \in N : \E i \in 0..(Addr - 1) : entry[n][i] = x
<1> DEFINE S == UNION {Below(n) : n \in N}
<1>1. \A r : r \in S <=> \E n \in N : \E i \in 0..(Addr - 1) : r = <<n, i>>
  BY DEF Below
<1> HIDE DEF S
<1>2. x \in Targets(S) <=> x # NO_BLOCK /\ \E r \in S : entry[r[1]][r[2]] = x
  BY TargetsAre
<1>3. (\E r \in S : entry[r[1]][r[2]] = x) <=>
        \E n \in N : \E i \in 0..(Addr - 1) : entry[n][i] = x
  <2>1. ASSUME NEW r \in S, entry[r[1]][r[2]] = x
        PROVE  \E n \in N : \E i \in 0..(Addr - 1) : entry[n][i] = x
    <3>1. PICK n \in N : \E i \in 0..(Addr - 1) : r = <<n, i>>
      BY <1>1, <2>1
    <3>2. PICK i \in 0..(Addr - 1) : r = <<n, i>>
      BY <3>1
    <3> QED
      BY <2>1, <3>2
  <2>2. ASSUME NEW n \in N, NEW i \in 0..(Addr - 1), entry[n][i] = x
        PROVE  \E r \in S : entry[r[1]][r[2]] = x
    <3>1. <<n, i>> \in S /\ entry[<<n, i>>[1]][<<n, i>>[2]] = x
      BY <1>1, <2>2
    <3> QED
      BY <3>1
  <2> QED
    BY <2>1, <2>2
<1> QED
  BY <1>2, <1>3 DEF Kids, S

LEMMA TopsAre ==
  ASSUME NEW f, NEW x
  PROVE  /\ x \in Single(f) <=> (x # NO_BLOCK /\ entry[f][NDir] = x)
         /\ x \in Double(f) <=> (x # NO_BLOCK /\ entry[f][NDir + 1] = x)
         /\ x \in Triple(f) <=> (x # NO_BLOCK /\ entry[f][NDir + 2] = x)
<1>1. ASSUME NEW i
      PROVE  x \in Targets({<<f, i>>}) <=> (x # NO_BLOCK /\ entry[f][i] = x)
  <2> DEFINE S == {<<f, i>>}
  <2>1. (\E r \in S : entry[r[1]][r[2]] = x) <=> entry[f][i] = x
    OBVIOUS
  <2> HIDE DEF S
  <2>2. x \in Targets(S) <=> x # NO_BLOCK /\ \E r \in S : entry[r[1]][r[2]] = x
    BY TargetsAre
  <2> QED
    BY <2>1, <2>2 DEF S
<1> QED
  BY <1>1 DEF Single, Double, Triple

\* The nodes inside the routes of a file are its indirect blocks.
LEMMA InnerNode ==
  ASSUME EntryType(entry), NEW f \in Files, NEW t \in Routes, NEW k \in 1..(Len(t) - 1),
         At(entry, f, t, k) # NO_BLOCK
  PROVE  At(entry, f, t, k) \in Indirect(f)
<1> DEFINE A(j) == At(entry, f, t, j)
<1>0. /\ Len(t) \in 1..4 /\ t[1] \in 0..(NDir + 2) /\ Len(t) = Levels(t[1])
      /\ \A j \in 2..Len(t) : t[j] \in 0..(Addr - 1)
      /\ NDir \in Nat \ {0}
  BY RouteShape, Constants
<1>1. /\ Len(t) = 2 => t[1] = NDir
      /\ Len(t) = 3 => t[1] = NDir + 1
      /\ Len(t) = 4 => t[1] = NDir + 2
  BY <1>0, SMTT(30) DEF Levels
<1>2. A(1) = entry[f][t[1]]
  <2>1. 1 \in 1..Len(t) /\ 1 - 1 = 0 /\ A(0) = f /\ f # NO_BLOCK
    BY <1>0, AtStart, Constants
  <2> QED
    BY <2>1, AtTyped
<1>3. \A j \in 2..Len(t) : A(j) # NO_BLOCK => A(j - 1) # NO_BLOCK /\ A(j) = entry[A(j - 1)][t[j]]
  <2> SUFFICES ASSUME NEW j \in 2..Len(t)
               PROVE  A(j) # NO_BLOCK => A(j - 1) # NO_BLOCK /\ A(j) = entry[A(j - 1)][t[j]]
    OBVIOUS
  <2>1. j \in 1..Len(t)
    BY <1>0
  <2> QED
    BY <2>1, AtTyped
<1> HIDE DEF A
<1>4. k = 1 \/ (k = 2 /\ Len(t) = 3) \/ (k = 2 /\ Len(t) = 4) \/ (k = 3 /\ Len(t) = 4)
  BY <1>0
<1>5. A(k) # NO_BLOCK
  BY DEF A
<1>6. CASE k = 1
  <2>1. A(1) \in Single(f) \/ A(1) \in Double(f) \/ A(1) \in Triple(f)
    BY <1>0, <1>1, <1>2, <1>5, <1>6, TopsAre
  <2> QED
    BY <1>6, <2>1 DEF Indirect, A
<1>7. CASE k = 2 /\ Len(t) = 3
  <2>1. A(1) # NO_BLOCK /\ A(2) = entry[A(1)][t[2]] /\ t[2] \in 0..(Addr - 1)
    <3>1. 2 \in 2..Len(t) /\ 2 - 1 = 1
      BY <1>7
    <3> QED
      BY <1>0, <1>3, <1>5, <1>7, <3>1
  <2>2. A(1) \in Double(f)
    BY <1>1, <1>2, <1>7, <2>1, TopsAre
  <2>3. A(2) \in Kids(Double(f))
    BY <1>5, <1>7, <2>1, <2>2, KidsAre
  <2> QED
    BY <1>7, <2>3 DEF Indirect, A
<1>8. ASSUME Len(t) = 4, k = 2 \/ k = 3
      PROVE  A(2) # NO_BLOCK /\ A(2) \in Kids(Triple(f))
  <2>1. 2 \in 2..Len(t) /\ 3 \in 2..Len(t) /\ 2 - 1 = 1 /\ 3 - 1 = 2
    BY <1>8
  <2>2. A(2) # NO_BLOCK
    BY <1>3, <1>5, <1>8, <2>1
  <2>3. A(1) # NO_BLOCK /\ A(2) = entry[A(1)][t[2]] /\ t[2] \in 0..(Addr - 1)
    BY <1>0, <1>3, <2>1, <2>2
  <2>4. A(1) \in Triple(f)
    BY <1>1, <1>2, <1>8, <2>3, TopsAre
  <2> QED
    BY <2>2, <2>3, <2>4, KidsAre
<1>9. CASE k = 2 /\ Len(t) = 4
  BY <1>8, <1>9 DEF Indirect, A
<1>10. CASE k = 3 /\ Len(t) = 4
  <2>1. 3 \in 2..Len(t) /\ 3 - 1 = 2
    BY <1>10
  <2>2. A(3) = entry[A(2)][t[3]] /\ t[3] \in 0..(Addr - 1)
    BY <1>0, <1>3, <1>5, <1>10, <2>1
  <2>3. A(3) \in Kids(Kids(Triple(f)))
    BY <1>5, <1>8, <1>10, <2>2, KidsAre
  <2> QED
    BY <1>10, <2>3 DEF Indirect, A
<1> QED
  BY <1>4, <1>6, <1>7, <1>9, <1>10 DEF A

\* An entry along a route of entries of its own.
LEMMA OnRoute ==
  ASSUME NEW f \in Files, NEW t \in Routes, NEW k \in 1..Len(t), NEW n, NEW i,
         At(entry, f, t, k - 1) = n, t[k] = i, n # NO_BLOCK, entry[n][i] # NO_BLOCK
  PROVE  <<n, i>> \in RefSet(entry, f)
<1>1. At(entry, f, t, k) = Follow(entry, n, i)
  BY AtNext
<1>2. At(entry, f, t, k) # NO_BLOCK
  BY <1>1 DEF Follow
<1> QED
  BY <1>2, RefSetIs

LEMMA RefsAre ==
  ASSUME EntryType(entry), NEW f \in Files
  PROVE  Refs(f) = RefSet(entry, f)
<1>0. /\ NDir \in Nat \ {0} /\ Addr \in Nat \ {0} /\ 0 \in 0..(Addr - 1) /\ f # NO_BLOCK
  BY Constants
<1>1. \A r : r \in Refs(f) <=>
         /\ entry[r[1]][r[2]] # NO_BLOCK
         /\ \/ \E i \in 0..(NDir + 2) : r = <<f, i>>
            \/ \E n \in Indirect(f) : \E i \in 0..(Addr - 1) : r = <<n, i>>
  BY DEF Refs, InUse, Below
<1>2. ASSUME NEW r \in RefSet(entry, f)
      PROVE  r \in Refs(f)
  <2>1. PICK t \in Routes : \E k \in 1..Len(t) :
               At(entry, f, t, k) # NO_BLOCK /\ r = <<At(entry, f, t, k - 1), t[k]>>
    BY <1>2, RefSetIs
  <2>2. PICK k \in 1..Len(t) :
               At(entry, f, t, k) # NO_BLOCK /\ r = <<At(entry, f, t, k - 1), t[k]>>
    BY <2>1
  <2> DEFINE n == At(entry, f, t, k - 1)
  <2>3. /\ n # NO_BLOCK /\ At(entry, f, t, k) = entry[n][t[k]]
        /\ k = 1 => n = f
    BY <2>2, AtTyped
  <2>4. Len(t) \in 1..4 /\ t[1] \in 0..(NDir + 2) /\ \A j \in 2..Len(t) : t[j] \in 0..(Addr - 1)
    BY RouteShape
  <2>5. CASE k = 1
    BY <1>1, <2>2, <2>3, <2>4, <2>5
  <2>6. CASE k # 1
    <3>1. k - 1 \in 1..(Len(t) - 1) /\ k \in 2..Len(t)
      BY <2>4, <2>6
    <3>2. n \in Indirect(f)
      BY <2>3, <3>1, InnerNode
    <3> HIDE DEF n
    <3>3. r = <<n, t[k]>> /\ entry[n][t[k]] # NO_BLOCK
      BY <2>2, <2>3 DEF n
    <3>4. t[k] \in 0..(Addr - 1)
      BY <2>4, <3>1
    <3> QED
      BY <1>1, <3>2, <3>3, <3>4
  <2> QED
    BY <2>5, <2>6
<1>3. ASSUME NEW i \in 0..(NDir + 2), entry[f][i] # NO_BLOCK
      PROVE  <<f, i>> \in RefSet(entry, f)
  <2>1. ASSUME NEW t \in Routes, t[1] = i
        PROVE  <<f, i>> \in RefSet(entry, f)
    <3>1. 1 \in 1..Len(t) /\ 1 - 1 = 0 /\ At(entry, f, t, 0) = f
      BY RouteShape, AtStart
    <3> QED
      BY <1>0, <1>3, <2>1, <3>1, OnRoute
  <2>2. i \in 0..(NDir - 1) \/ i = NDir \/ i = NDir + 1 \/ i = NDir + 2
    BY <1>0
  <2>3. CASE i \in 0..(NDir - 1)
    BY <1>0, <2>1, <2>3, RoutesAre
  <2>4. CASE i = NDir
    BY <1>0, <2>1, <2>4, RoutesAre
  <2>5. CASE i = NDir + 1
    BY <1>0, <2>1, <2>5, RoutesAre
  <2>6. CASE i = NDir + 2
    BY <1>0, <2>1, <2>6, RoutesAre
  <2> QED
    BY <2>2, <2>3, <2>4, <2>5, <2>6
<1>4. ASSUME NEW n \in Indirect(f), NEW i \in 0..(Addr - 1), entry[n][i] # NO_BLOCK
      PROVE  <<n, i>> \in RefSet(entry, f)
  <2>0. n \in Single(f) \/ n \in Double(f) \/ n \in Kids(Double(f)) \/ n \in Triple(f)
        \/ n \in Kids(Triple(f)) \/ n \in Kids(Kids(Triple(f)))
    BY DEF Indirect
  <2>1. CASE n \in Single(f)
    <3> DEFINE t == <<NDir, i>>
    <3>1. n # NO_BLOCK /\ entry[f][NDir] = n
      BY <2>1, TopsAre
    <3>2. t \in Routes /\ Len(t) = 2 /\ t[1] = NDir /\ t[2] = i
      BY <1>0, RoutesAre
    <3>3. At(entry, f, t, 1) = n
      BY <1>0, <3>1, <3>2 DEF At, Follow
    <3>4. 2 \in 1..Len(t) /\ 2 - 1 = 1
      BY <3>2
    <3> HIDE DEF t
    <3> QED
      BY <1>4, <3>1, <3>2, <3>3, <3>4, OnRoute
  <2>2. CASE n \in Double(f)
    <3> DEFINE t == <<NDir + 1, i, 0>>
    <3>1. n # NO_BLOCK /\ entry[f][NDir + 1] = n
      BY <2>2, TopsAre
    <3>2. t \in Routes /\ Len(t) = 3 /\ t[1] = NDir + 1 /\ t[2] = i
      BY <1>0, RoutesAre
    <3>3. At(entry, f, t, 1) = n
      BY <1>0, <3>1, <3>2 DEF At, Follow
    <3>4. 2 \in 1..Len(t) /\ 2 - 1 = 1
      BY <3>2
    <3> HIDE DEF t
    <3> QED
      BY <1>4, <3>1, <3>2, <3>3, <3>4, OnRoute
  <2>3. CASE n \in Triple(f)
    <3> DEFINE t == <<NDir + 2, i, 0, 0>>
    <3>1. n # NO_BLOCK /\ entry[f][NDir + 2] = n
      BY <2>3, TopsAre
    <3>2. t \in Routes /\ Len(t) = 4 /\ t[1] = NDir + 2 /\ t[2] = i
      BY <1>0, RoutesAre
    <3>3. At(entry, f, t, 1) = n
      BY <1>0, <3>1, <3>2 DEF At, Follow
    <3>4. 2 \in 1..Len(t) /\ 2 - 1 = 1
      BY <3>2
    <3> HIDE DEF t
    <3> QED
      BY <1>4, <3>1, <3>2, <3>3, <3>4, OnRoute
  <2>4. CASE n \in Kids(Double(f))
    <3>1. n # NO_BLOCK /\ \E x \in Double(f) : \E j \in 0..(Addr - 1) : entry[x][j] = n
      BY <2>4, KidsAre
    <3>2. PICK x \in Double(f), j \in 0..(Addr - 1) : entry[x][j] = n
      BY <3>1
    <3>3. x # NO_BLOCK /\ entry[f][NDir + 1] = x
      BY <3>2, TopsAre
    <3> DEFINE t == <<NDir + 1, j, i>>
    <3>4. t \in Routes /\ Len(t) = 3 /\ t[1] = NDir + 1 /\ t[2] = j /\ t[3] = i
      BY <1>0, RoutesAre
    <3>5. At(entry, f, t, 2) = n
      BY <1>0, <3>2, <3>3, <3>4 DEF At, Follow
    <3>6. 3 \in 1..Len(t) /\ 3 - 1 = 2
      BY <3>4
    <3> HIDE DEF t
    <3> QED
      BY <1>4, <3>1, <3>4, <3>5, <3>6, OnRoute
  <2>5. CASE n \in Kids(Triple(f))
    <3>1. n # NO_BLOCK /\ \E x \in Triple(f) : \E j \in 0..(Addr - 1) : entry[x][j] = n
      BY <2>5, KidsAre
    <3>2. PICK x \in Triple(f), j \in 0..(Addr - 1) : entry[x][j] = n
      BY <3>1
    <3>3. x # NO_BLOCK /\ entry[f][NDir + 2] = x
      BY <3>2, TopsAre
    <3> DEFINE t == <<NDir + 2, j, i, 0>>
    <3>4. t \in Routes /\ Len(t) = 4 /\ t[1] = NDir + 2 /\ t[2] = j /\ t[3] = i
      BY <1>0, RoutesAre
    <3>5. At(entry, f, t, 2) = n
      BY <1>0, <3>2, <3>3, <3>4 DEF At, Follow
    <3>6. 3 \in 1..Len(t) /\ 3 - 1 = 2
      BY <3>4
    <3> HIDE DEF t
    <3> QED
      BY <1>4, <3>1, <3>4, <3>5, <3>6, OnRoute
  <2>6. CASE n \in Kids(Kids(Triple(f)))
    <3>1. n # NO_BLOCK /\ \E y \in Kids(Triple(f)) : \E l \in 0..(Addr - 1) : entry[y][l] = n
      BY <2>6, KidsAre
    <3>2. PICK y \in Kids(Triple(f)), l \in 0..(Addr - 1) : entry[y][l] = n
      BY <3>1
    <3>3. y # NO_BLOCK /\ \E x \in Triple(f) : \E j \in 0..(Addr - 1) : entry[x][j] = y
      BY <3>2, KidsAre
    <3>4. PICK x \in Triple(f), j \in 0..(Addr - 1) : entry[x][j] = y
      BY <3>3
    <3>5. x # NO_BLOCK /\ entry[f][NDir + 2] = x
      BY <3>4, TopsAre
    <3> DEFINE t == <<NDir + 2, j, l, i>>
    <3>6. t \in Routes /\ Len(t) = 4 /\ t[1] = NDir + 2 /\ t[2] = j /\ t[3] = l /\ t[4] = i
      BY <1>0, RoutesAre
    <3>7. At(entry, f, t, 3) = n
      BY <1>0, <3>2, <3>3, <3>4, <3>5, <3>6 DEF At, Follow
    <3>8. 4 \in 1..Len(t) /\ 4 - 1 = 3
      BY <3>6
    <3> HIDE DEF t
    <3> QED
      BY <1>4, <3>1, <3>6, <3>7, <3>8, OnRoute
  <2> QED
    BY <2>0, <2>1, <2>2, <2>3, <2>4, <2>5, <2>6
<1>5. ASSUME NEW r \in Refs(f)
      PROVE  r \in RefSet(entry, f)
  <2>1. entry[r[1]][r[2]] # NO_BLOCK
    BY <1>1, <1>5
  <2>2. CASE \E i \in 0..(NDir + 2) : r = <<f, i>>
    BY <1>3, <2>1, <2>2
  <2>3. CASE \E n \in Indirect(f) : \E i \in 0..(Addr - 1) : r = <<n, i>>
    BY <1>4, <2>1, <2>3
  <2> QED
    BY <1>1, <1>5, <2>2, <2>3
<1> QED
  BY <1>2, <1>5

-------------------------------------------------------------------------------
(* The invariant is inductive.                                             *)

LEMMA MountCounts ==
  /\ FreeAtMount \in [GroupIds -> Nat]
  /\ \A g \in GroupIds : FreeAtMount[g] = Cardinality(InGroup(g) \ System)
  /\ Cardinality(Blocks \ System) \in Nat
<1>1. \A g \in GroupIds : Cardinality(InGroup(g) \ System) \in Nat
  <2>1. \A g \in GroupIds : InGroup(g) \ System \in SUBSET Blocks
    BY DEF InGroup
  <2> QED
    BY <2>1, SetsFinite
<1>2. Cardinality(Blocks \ System) \in Nat
  BY SetsFinite
<1> QED
  BY <1>1, <1>2 DEF FreeAtMount

LEMMA InitInv == Init => IInv
<1> SUFFICES ASSUME Init
             PROVE  IInv
  OBVIOUS
<1> DEFINE top == FirstBlock + Groups * PerGroup - 1
<1>1. /\ NDir \in Nat \ {0} /\ Addr \in Nat \ {0} /\ System \subseteq Blocks
      /\ NO_BLOCK \in Content /\ top \in Content /\ \A f \in Files : f \notin Blocks
  <2>1. Groups * PerGroup \in Nat \ {0} /\ FirstBlock \in Nat
    BY Constants
  <2>2. top \in Blocks
    BY <2>1 DEF Blocks
  <2> QED
    BY <2>2, Constants DEF Content
<1> HIDE DEF top
<1>2. /\ entry = [n \in Nodes |-> IF n \in Files THEN [i \in 0..(NDir + 2) |-> NO_BLOCK]
                                  ELSE [i \in 0..(Addr - 1) |-> top]]
      /\ iblocks = [f \in Files |-> 0] /\ marked = System /\ free = FreeAtMount
      /\ sfree = Cardinality(Blocks \ System)
      /\ saved = [f \in Files |-> [block |-> entry[f], count |-> 0]]
      /\ dropped = FALSE /\ orphans = {} /\ restarts = 0 /\ panicked = FALSE
  BY DEF Init, Nodes, top
<1>3. \A f \in Files : f \in Nodes /\ entry[f] = [i \in 0..(NDir + 2) |-> NO_BLOCK]
  BY <1>2 DEF Nodes
<1>4. EntryType(entry)
  <2>1. entry = [n \in Nodes |-> entry[n]]
    BY <1>2
  <2>2. ASSUME NEW n \in Nodes
        PROVE  entry[n] \in [Indices(n) -> Content]
    <3>1. CASE n \in Files
      BY <1>1, <1>3, <3>1 DEF Indices
    <3>2. CASE n \notin Files
      <4>1. entry[n] = [i \in 0..(Addr - 1) |-> top]
        BY <1>2, <3>2
      <4> QED
        BY <1>1, <3>2, <4>1 DEF Indices
    <3> QED
      BY <3>1, <3>2
  <2> QED
    BY <2>1, <2>2 DEF EntryType
<1>5. ASSUME NEW f \in Files, NEW s \in Routes, NEW k \in 1..Len(s)
      PROVE  At(entry, f, s, k) = NO_BLOCK
  BY <1>3, <1>4, EmptyFile DEF NoEntries
<1>6. \A b : ~Reached(entry, b)
  BY <1>5 DEF Reached
<1>7. Disk = [entry |-> entry, iblocks |-> iblocks, marked |-> marked,
              free |-> free, sfree |-> sfree, panicked |-> panicked]
  BY DEF Disk
<1>8. DiskType(Disk)
  BY <1>1, <1>2, <1>4, <1>7, MountCounts DEF DiskType
<1>9. Owned(Disk, orphans)
  BY <1>2, <1>5, <1>6, <1>7 DEF Owned, OnePlace
<1>10. SavedSound
  <2>1. \A f \in Files : saved[f] = [block |-> entry[f], count |-> 0]
    BY <1>2
  <2>2. saved \in [Files -> [block : [0..(NDir + 2) -> Content], count : Nat]]
    <3>1. \A f \in Files : entry[f] \in [0..(NDir + 2) -> Content]
      BY <1>1, <1>3
    <3> QED
      BY <1>2, <3>1
  <2> QED
    BY <2>1, <2>2 DEF SavedSound
<1>11. FreeBounds
  BY <1>2, MountCounts DEF FreeBounds
<1>12. Tight(Disk, orphans)
  BY <1>2, <1>7 DEF Tight
<1>13. Counted(Disk)
  <2> SUFFICES ASSUME NEW g \in Files
               PROVE  IsFiniteSet(RefSet(entry, g)) /\ iblocks[g] = Cardinality(RefSet(entry, g))
    BY <1>7 DEF Counted
  <2>1. RefSet(entry, g) = {}
    BY <1>5, RefSetIs
  <2> QED
    BY <1>2, <2>1, FS_EmptySet
<1>14. FreeExact(Disk)
  BY <1>2, <1>7, MountCounts DEF FreeExact
<1>15. dropped \in BOOLEAN /\ restarts \in 0..MaxRestarts /\ ~panicked
  <2>1. MaxRestarts \in Nat
    BY Constants
  <2>2. 0 \in 0..MaxRestarts
    BY <2>1
  <2> QED
    BY <1>2, <2>2
<1> QED
  BY <1>8, <1>9, <1>10, <1>11, <1>12, <1>13, <1>14, <1>15 DEF IInv

\* What a write does, in terms of the lemmas about new_block.
LEMMA WriteIs ==
  ASSUME IInv, NEW f \in Files, NEW p \in Positions, Write(f, p)
  PROVE  /\ Disk' = NewBlock(Disk, f, p)
         /\ Builds(Disk, orphans, Disk', orphans, f)
         /\ \/ SameLeaves(entry, entry')
            \/ \E b \in Blocks : Maps(entry, entry', f, p, b)
<1> DEFINE e == NewBlock(Disk, f, p)
<1>1. Disk.entry = entry
  BY DEF Disk
<1>2. DiskType(Disk) /\ Owned(Disk, orphans) /\ ReadMap(Disk.entry, f, p) = NO_BLOCK
  BY <1>1 DEF IInv, Write
<1>3. /\ Builds(Disk, orphans, e, orphans, f)
      /\ \/ SameLeaves(Disk.entry, e.entry)
         \/ \E b \in Blocks : Maps(Disk.entry, e.entry, f, p, b)
  BY <1>2, NewBlockBuilds
<1>4. DiskType(e)
  BY <1>3 DEF Builds
<1>5. /\ entry' = e.entry /\ iblocks' = e.iblocks /\ marked' = e.marked
      /\ free' = e.free /\ sfree' = e.sfree /\ panicked' = e.panicked
  BY DEF Write
<1> HIDE DEF e
<1>6. e = [entry |-> e.entry, iblocks |-> e.iblocks, marked |-> e.marked,
           free |-> e.free, sfree |-> e.sfree, panicked |-> e.panicked]
  BY <1>4 DEF DiskType
<1>7. Disk' = [entry |-> entry', iblocks |-> iblocks', marked |-> marked',
               free |-> free', sfree |-> sfree', panicked |-> panicked']
  BY DEF Disk
<1>8. Disk' = e
  BY <1>5, <1>6, <1>7
<1> QED
  BY <1>1, <1>3, <1>5, <1>8 DEF e

LEMMA WriteKeeps ==
  ASSUME IInv, ~panicked, NEW f \in Files, NEW p \in Positions, Write(f, p)
  PROVE  IInv'
<1>1. Builds(Disk, orphans, Disk', orphans, f)
  BY WriteIs
<1>2. /\ Disk.entry = entry /\ Disk.iblocks = iblocks /\ Disk.free = free
      /\ Disk.sfree = sfree /\ Disk.panicked = panicked
      /\ Disk'.entry = entry' /\ Disk'.iblocks = iblocks' /\ Disk'.free = free'
      /\ Disk'.sfree = sfree' /\ Disk'.panicked = panicked'
  BY DEF Disk
<1>3. DiskType(Disk) /\ DiskType(Disk') /\ Owned(Disk', orphans)
  BY <1>1 DEF IInv, Builds
<1>4. /\ free \in [GroupIds -> Nat] /\ free' \in [GroupIds -> Nat]
      /\ sfree \in Nat /\ sfree' \in Nat
      /\ iblocks' \in [Files -> Nat] /\ EntryType(entry')
  BY <1>2, <1>3 DEF DiskType
<1>5. SavedSound'
  <2>1. SavedSound
    BY DEF IInv
  <2>2. saved' = saved
        \/ saved' = [saved EXCEPT ![f] = [block |-> entry'[f], count |-> iblocks'[f]]]
    BY DEF Write
  <2>3. entry'[f] \in [0..(NDir + 2) -> Content] /\ iblocks'[f] \in Nat
    BY <1>4 DEF EntryType, Nodes, Indices
  <2>4. saved' \in [Files -> [block : [0..(NDir + 2) -> Content], count : Nat]]
    BY <2>1, <2>2, <2>3 DEF SavedSound
  <2>5. ASSUME NEW g \in Files, NEW i \in 0..(NDir + 2)
        PROVE  saved'[g].block[i] \in {NO_BLOCK, entry'[g][i]}
    <3>1. saved[g].block[i] \in {NO_BLOCK, entry[g][i]}
      BY <2>1 DEF SavedSound
    <3>2. CASE g # f
      <4>1. entry'[g] = entry[g]
        BY <1>1, <1>2, <3>2 DEF Builds
      <4>2. saved'[g] = saved[g]
        BY <2>1, <2>2, <3>2 DEF SavedSound
      <4> QED
        BY <3>1, <4>1, <4>2
    <3>3. CASE g = f /\ saved' = saved
      <4>1. entry[f][i] \in {NO_BLOCK, entry'[f][i]}
        BY <1>1, <1>2 DEF Builds
      <4> QED
        BY <3>1, <3>3, <4>1
    <3>4. CASE g = f /\ saved' # saved
      <4>1. saved'[f] = [block |-> entry'[f], count |-> iblocks'[f]]
        BY <2>1, <2>2, <3>4 DEF SavedSound
      <4> QED
        BY <3>4, <4>1
    <3> QED
      BY <3>2, <3>3, <3>4
  <2> QED
    BY <2>4, <2>5 DEF SavedSound
<1>6. FreeBounds'
  <2>1. (\A g \in GroupIds : free'[g] <= free[g]) /\ sfree' <= sfree
    BY <1>1, <1>2 DEF Builds
  <2>2. ASSUME NEW g \in GroupIds
        PROVE  free'[g] <= FreeAtMount[g]
    <3>1. free[g] \in Nat /\ free'[g] \in Nat /\ FreeAtMount[g] \in Nat
      BY <1>4, MountCounts
    <3>2. free[g] <= FreeAtMount[g]
      BY DEF IInv, FreeBounds
    <3> QED
      BY <2>1, <3>1, <3>2
  <2>3. sfree' <= Cardinality(Blocks \ System)
    BY <1>4, <2>1, MountCounts DEF IInv, FreeBounds
  <2> QED
    BY <2>2, <2>3 DEF FreeBounds
<1>7. dropped' = dropped /\ orphans' = orphans /\ restarts' = restarts
  BY DEF Write
<1>8. ~panicked' /\ ~dropped' => Tight(Disk', orphans')
  BY <1>1, <1>2, <1>7 DEF IInv, Builds
<1>9. ~dropped' => Counted(Disk')
  BY <1>1, <1>7 DEF IInv, Builds
<1>10. restarts' = 0 => ~panicked' /\ FreeExact(Disk')
  BY <1>1, <1>2, <1>7 DEF IInv, Builds
<1> QED
  BY <1>3, <1>5, <1>6, <1>7, <1>8, <1>9, <1>10 DEF IInv

LEMMA FlushKeeps ==
  ASSUME IInv, NEW f \in Files, Flush(f)
  PROVE  IInv'
<1>1. /\ saved' = [saved EXCEPT ![f] = [block |-> entry[f], count |-> iblocks[f]]]
      /\ UNCHANGED <<entry, iblocks, marked, free, sfree, dropped, orphans, restarts, panicked>>
  BY DEF Flush
<1>2. Disk' = Disk
  BY <1>1 DEF Disk
<1>3. SavedSound'
  <2>1. EntryType(entry) /\ iblocks \in [Files -> Nat]
    BY DEF IInv, DiskType, Disk
  <2>2. entry[f] \in [0..(NDir + 2) -> Content] /\ iblocks[f] \in Nat
    BY <2>1 DEF EntryType, Nodes, Indices
  <2>3. saved' \in [Files -> [block : [0..(NDir + 2) -> Content], count : Nat]]
    BY <1>1, <2>2 DEF IInv, SavedSound
  <2>4. ASSUME NEW g \in Files, NEW i \in 0..(NDir + 2)
        PROVE  saved'[g].block[i] \in {NO_BLOCK, entry'[g][i]}
    <3>1. CASE g = f
      <4>1. saved'[f] = [block |-> entry[f], count |-> iblocks[f]]
        BY <1>1 DEF IInv, SavedSound
      <4> QED
        BY <1>1, <3>1, <4>1
    <3>2. CASE g # f
      <4>1. saved'[g] = saved[g]
        BY <1>1, <3>2 DEF IInv, SavedSound
      <4> QED
        BY <1>1, <4>1 DEF IInv, SavedSound
    <3> QED
      BY <3>1, <3>2
  <2> QED
    BY <2>3, <2>4 DEF SavedSound
<1>4. FreeBounds'
  BY <1>1 DEF IInv, FreeBounds
<1> QED
  BY <1>1, <1>2, <1>3, <1>4 DEF IInv

\* Inodes are read again: a file whose inode was saved is as it was.
LEMMA RereadIs ==
  ASSUME IInv, NEW F \in SUBSET Files, Reread(F)
  PROVE  /\ Pruned(entry, entry')
         /\ iblocks' \in [Files -> Nat]
         /\ \A g \in Files : g \notin F \/ g \notin Unsaved =>
              entry'[g] = entry[g] /\ iblocks'[g] = iblocks[g]
         /\ \A g \in F : saved[g] = [block |-> entry'[g], count |-> iblocks'[g]]
         /\ ~dropped' => entry' = entry /\ iblocks' = iblocks /\ ~dropped
<1>1. /\ entry' = [n \in DOMAIN entry |-> IF n \in F THEN saved[n].block ELSE entry[n]]
      /\ iblocks' = [g \in Files |-> IF g \in F THEN saved[g].count ELSE iblocks[g]]
      /\ dropped' = (dropped \/ F \intersect Unsaved # {})
  BY DEF Reread
<1>2. EntryType(entry) /\ iblocks \in [Files -> Nat] /\ SavedSound
  BY DEF IInv, DiskType, Disk
<1>3. entry = [n \in Nodes |-> entry[n]] /\ \A n \in Nodes : entry[n] \in [Indices(n) -> Content]
  BY <1>2 DEF EntryType
<1>4. DOMAIN entry = Nodes
  BY <1>3
<1>5. \A n \in Nodes : entry'[n] = IF n \in F THEN saved[n].block ELSE entry[n]
  BY <1>1, <1>4
<1>6. \A g \in Files : /\ saved[g].block \in [0..(NDir + 2) -> Content] /\ saved[g].count \in Nat
                       /\ saved[g] = [block |-> saved[g].block, count |-> saved[g].count]
  BY <1>2 DEF SavedSound
<1>7. entry' = [n \in Nodes |-> entry'[n]]
  BY <1>1, <1>4
<1>8. EntryType(entry')
  <2>1. ASSUME NEW n \in Nodes
        PROVE  entry'[n] \in [Indices(n) -> Content]
    <3>1. CASE n \in F
      BY <1>5, <1>6, <3>1 DEF Indices
    <3>2. CASE n \notin F
      BY <1>3, <1>5, <3>2
    <3> QED
      BY <3>1, <3>2
  <2> QED
    BY <1>7, <2>1 DEF EntryType
<1>9. Pruned(entry, entry')
  <2>1. \A n \in Blocks : entry'[n] = entry[n]
    BY <1>5, Constants DEF Nodes
  <2>2. \A f \in Files : \A i \in 0..(NDir + 2) : entry'[f][i] \in {NO_BLOCK, entry[f][i]}
    <3> SUFFICES ASSUME NEW f \in Files, NEW i \in 0..(NDir + 2)
                 PROVE  entry'[f][i] \in {NO_BLOCK, entry[f][i]}
      OBVIOUS
    <3>1. saved[f].block[i] \in {NO_BLOCK, entry[f][i]}
      BY <1>2 DEF SavedSound
    <3> QED
      BY <1>5, <3>1 DEF Nodes
  <2> QED
    BY <1>8, <2>1, <2>2 DEF Pruned
<1>10. iblocks' \in [Files -> Nat]
  BY <1>1, <1>2, <1>6
<1>11. \A g \in F : saved[g] = [block |-> entry'[g], count |-> iblocks'[g]]
  BY <1>1, <1>5, <1>6 DEF Nodes
<1>12. ASSUME NEW g \in Files, g \notin F \/ g \notin Unsaved
       PROVE  entry'[g] = entry[g] /\ iblocks'[g] = iblocks[g]
  <2>1. CASE g \notin F
    BY <1>1, <1>5, <2>1 DEF Nodes
  <2>2. CASE g \in F /\ g \notin Unsaved
    <3>1. saved[g] = [block |-> entry[g], count |-> iblocks[g]]
      BY <2>2 DEF Unsaved
    <3> QED
      BY <1>1, <1>5, <2>2, <3>1 DEF Nodes
  <2> QED
    BY <1>12, <2>1, <2>2
<1>13. ASSUME ~dropped'
       PROVE  entry' = entry /\ iblocks' = iblocks /\ ~dropped
  <2>1. ~dropped /\ \A g \in Files : g \notin F \/ g \notin Unsaved
    BY <1>1, <1>13
  <2>2. \A g \in Files : entry'[g] = entry[g] /\ iblocks'[g] = iblocks[g]
    BY <1>12, <2>1
  <2>3. \A n \in Nodes : entry'[n] = entry[n]
    BY <1>9, <2>2 DEF Nodes, Pruned
  <2>4. entry' = entry
    BY <1>3, <1>7, <2>3
  <2>5. iblocks' = iblocks
    BY <1>2, <1>10, <2>2
  <2> QED
    BY <2>1, <2>4, <2>5
<1> QED
  BY <1>9, <1>10, <1>11, <1>12, <1>13

LEMMA RereadKeeps ==
  ASSUME IInv, ~panicked, NEW F \in SUBSET Files, Reread(F),
         \/ free' = free /\ sfree' = sfree /\ restarts' = restarts
         \/ /\ free' = FreeAtMount /\ sfree' = Cardinality(Blocks \ System)
            /\ restarts < MaxRestarts /\ restarts' = restarts + 1
  PROVE  IInv'
<1>1. /\ Pruned(entry, entry') /\ iblocks' \in [Files -> Nat]
      /\ \A g \in Files : g \notin F \/ g \notin Unsaved =>
           entry'[g] = entry[g] /\ iblocks'[g] = iblocks[g]
      /\ \A g \in F : saved[g] = [block |-> entry'[g], count |-> iblocks'[g]]
      /\ ~dropped' => entry' = entry /\ iblocks' = iblocks /\ ~dropped
  BY RereadIs
<1>2. marked' = marked /\ saved' = saved /\ orphans' = orphans /\ panicked' = panicked
      /\ dropped' = (dropped \/ F \intersect Unsaved # {})
  BY DEF Reread
<1>3. /\ Disk = [entry |-> entry, iblocks |-> iblocks, marked |-> marked,
                 free |-> free, sfree |-> sfree, panicked |-> panicked]
      /\ Disk' = [entry |-> entry', iblocks |-> iblocks', marked |-> marked',
                  free |-> free', sfree |-> sfree', panicked |-> panicked']
  BY DEF Disk
<1>4. DiskType(Disk) /\ Owned(Disk, orphans) /\ restarts \in 0..MaxRestarts /\ MaxRestarts \in Nat
  BY Constants DEF IInv
<1>5. DiskType(Disk')
  <2>1. EntryType(entry')
    BY <1>1 DEF Pruned
  <2>2. free' \in [GroupIds -> Nat] /\ sfree' \in Nat
    BY <1>3, <1>4, MountCounts DEF DiskType
  <2>3. System \subseteq marked' /\ marked' \subseteq Blocks /\ panicked' \in BOOLEAN
    BY <1>2, <1>3, <1>4 DEF DiskType
  <2> QED
    BY <1>1, <1>3, <2>1, <2>2, <2>3 DEF DiskType
<1>6. Owned(Disk', orphans')
  <2>1. /\ Disk.entry = entry /\ Disk'.entry = entry' /\ Disk'.marked = Disk.marked
    BY <1>2, <1>3
  <2> QED
    BY <1>1, <1>2, <1>4, <1>5, <2>1, PrunedOwned
<1>7. SavedSound'
  <2>1. SavedSound
    BY DEF IInv
  <2>2. ASSUME NEW g \in Files, NEW i \in 0..(NDir + 2)
        PROVE  saved'[g].block[i] \in {NO_BLOCK, entry'[g][i]}
    <3>1. CASE g \in F
      <4>1. saved'[g].block = entry'[g]
        <5>1. saved[g] = [block |-> entry'[g], count |-> iblocks'[g]]
          BY <1>1, <3>1
        <5>2. saved'[g] = saved[g]
          BY <1>2
        <5> QED
          BY <5>1, <5>2
      <4> QED
        BY <4>1
    <3>2. CASE g \notin F
      BY <1>1, <1>2, <2>1, <3>2 DEF SavedSound
    <3> QED
      BY <3>1, <3>2
  <2> QED
    BY <1>2, <2>1, <2>2 DEF SavedSound
<1>8. FreeBounds'
  BY MountCounts DEF IInv, FreeBounds
<1>9. dropped' \in BOOLEAN /\ restarts' \in 0..MaxRestarts
  BY <1>2, <1>4
<1>10. ~panicked' /\ ~dropped' => Tight(Disk', orphans')
  BY <1>1, <1>2, <1>3 DEF IInv, Tight
<1>11. ~dropped' => Counted(Disk')
  BY <1>1, <1>2, <1>3 DEF IInv, Counted
<1>12. restarts' = 0 => ~panicked' /\ FreeExact(Disk')
  <2>1. SUFFICES ASSUME restarts' = 0
                 PROVE  ~panicked' /\ FreeExact(Disk')
    OBVIOUS
  <2>2. restarts = 0 /\ free' = free /\ sfree' = sfree
    BY <1>4, <2>1
  <2> QED
    BY <1>2, <1>3, <2>2 DEF IInv, FreeExact
<1> QED
  BY <1>5, <1>6, <1>7, <1>8, <1>9, <1>10, <1>11, <1>12 DEF IInv

\* The blocks that an inode loses when it is allocated again.
LEMMA OrphansAre ==
  ASSUME EntryType(entry), NEW f \in Files, NEW b
  PROVE  b \in Targets(Refs(f)) <=>
           /\ b # NO_BLOCK
           /\ \E t \in Routes : \E k \in 1..Len(t) : At(entry, f, t, k) = b
<1>0. Refs(f) = RefSet(entry, f)
  BY RefsAre
<1>1. b \in Targets(Refs(f)) <=> b # NO_BLOCK /\ \E r \in RefSet(entry, f) : entry[r[1]][r[2]] = b
  BY <1>0, TargetsAre
<1>2. ASSUME NEW r \in RefSet(entry, f), entry[r[1]][r[2]] = b
      PROVE  \E t \in Routes : \E k \in 1..Len(t) : At(entry, f, t, k) = b
  <2>1. PICK t \in Routes : \E k \in 1..Len(t) :
               At(entry, f, t, k) # NO_BLOCK /\ r = <<At(entry, f, t, k - 1), t[k]>>
    BY RefSetIs
  <2>2. PICK k \in 1..Len(t) :
               At(entry, f, t, k) # NO_BLOCK /\ r = <<At(entry, f, t, k - 1), t[k]>>
    BY <2>1
  <2>3. At(entry, f, t, k) = entry[At(entry, f, t, k - 1)][t[k]]
    BY <2>2, AtTyped
  <2> QED
    BY <1>2, <2>2, <2>3
<1>3. ASSUME b # NO_BLOCK, NEW t \in Routes, NEW k \in 1..Len(t), At(entry, f, t, k) = b
      PROVE  \E r \in RefSet(entry, f) : entry[r[1]][r[2]] = b
  <2> DEFINE r == <<At(entry, f, t, k - 1), t[k]>>
  <2>1. b = entry[At(entry, f, t, k - 1)][t[k]]
    BY <1>3, AtTyped
  <2>2. r \in RefSet(entry, f)
    BY <1>3, RefSetIs
  <2> QED
    BY <2>1, <2>2
<1> QED
  BY <1>1, <1>2, <1>3

\* The inode is emptied, and the others are as they were.
LEMMA AllocInodeIs ==
  ASSUME IInv, NEW f \in Files, AllocInode(f)
  PROVE  /\ Pruned(entry, entry')
         /\ entry'[f] = NoEntries /\ iblocks'[f] = 0
         /\ saved'[f] = [block |-> entry'[f], count |-> iblocks'[f]]
         /\ \A g \in Files \ {f} :
              entry'[g] = entry[g] /\ iblocks'[g] = iblocks[g] /\ saved'[g] = saved[g]
         /\ iblocks' \in [Files -> Nat]
         /\ saved' \in [Files -> [block : [0..(NDir + 2) -> Content], count : Nat]]
<1> DEFINE none == [i \in 0..(NDir + 2) |-> NO_BLOCK]
<1>1. /\ entry' = [entry EXCEPT ![f] = none] /\ iblocks' = [iblocks EXCEPT ![f] = 0]
      /\ saved' = [saved EXCEPT ![f] = [block |-> none, count |-> 0]]
  BY DEF AllocInode
<1>2. none \in [0..(NDir + 2) -> Content] /\ \A i \in 0..(NDir + 2) : none[i] = NO_BLOCK
  BY DEF Content
<1> HIDE DEF none
<1>3. /\ entry = [n \in Nodes |-> entry[n]] /\ iblocks \in [Files -> Nat]
      /\ \A n \in Nodes : entry[n] \in [Indices(n) -> Content]
      /\ saved \in [Files -> [block : [0..(NDir + 2) -> Content], count : Nat]]
  BY DEF IInv, DiskType, EntryType, SavedSound, Disk
<1>4. /\ entry' = [n \in Nodes |-> entry'[n]] /\ entry'[f] = none
      /\ \A n \in Nodes \ {f} : entry'[n] = entry[n]
  <2>1. f \in Nodes
    BY DEF Nodes
  <2> QED
    BY <1>1, <1>3, <2>1
<1>5. EntryType(entry')
  <2>1. ASSUME NEW n \in Nodes
        PROVE  entry'[n] \in [Indices(n) -> Content]
    <3>1. CASE n = f
      BY <1>2, <1>4, <3>1 DEF Indices
    <3>2. CASE n # f
      BY <1>3, <1>4, <3>2
    <3> QED
      BY <3>1, <3>2
  <2> QED
    BY <1>4, <2>1 DEF EntryType
<1>6. Pruned(entry, entry')
  <2>1. \A n \in Blocks : entry'[n] = entry[n]
    BY <1>4, Constants DEF Nodes
  <2>2. \A g \in Files : \A i \in 0..(NDir + 2) : entry'[g][i] \in {NO_BLOCK, entry[g][i]}
    BY <1>2, <1>4 DEF Nodes
  <2> QED
    BY <1>5, <2>1, <2>2 DEF Pruned
<1>7. /\ iblocks'[f] = 0 /\ iblocks' \in [Files -> Nat]
      /\ \A g \in Files \ {f} : iblocks'[g] = iblocks[g]
  BY <1>1, <1>3
<1>8. /\ saved'[f] = [block |-> none, count |-> 0]
      /\ \A g \in Files \ {f} : saved'[g] = saved[g]
      /\ saved' \in [Files -> [block : [0..(NDir + 2) -> Content], count : Nat]]
  <2> DEFINE v == [block |-> none, count |-> 0]
  <2>1. v \in [block : [0..(NDir + 2) -> Content], count : Nat]
    BY <1>2
  <2> HIDE DEF v
  <2>2. /\ saved'[f] = v /\ \A g \in Files \ {f} : saved'[g] = saved[g]
        /\ saved' \in [Files -> [block : [0..(NDir + 2) -> Content], count : Nat]]
    BY <1>1, <1>3, <2>1 DEF v
  <2> QED
    BY <2>2 DEF v
<1>9. \A g \in Files \ {f} : entry'[g] = entry[g]
  BY <1>4 DEF Nodes
<1> QED
  BY <1>4, <1>6, <1>7, <1>8, <1>9 DEF none, NoEntries

LEMMA RefSetSame ==
  ASSUME NEW ent, NEW ent2, NEW g,
         \A t \in Routes : \A k \in 0..Len(t) : At(ent2, g, t, k) = At(ent, g, t, k)
  PROVE  RefSet(ent2, g) = RefSet(ent, g)
<1>1. ASSUME NEW t \in Routes, NEW k \in 1..Len(t)
      PROVE  At(ent2, g, t, k) = At(ent, g, t, k) /\ At(ent2, g, t, k - 1) = At(ent, g, t, k - 1)
  <2>1. k \in 0..Len(t) /\ k - 1 \in 0..Len(t)
    BY RouteShape
  <2> QED
    BY <2>1
<1>2. \A r : r \in RefSet(ent2, g) <=> r \in RefSet(ent, g)
  BY <1>1, RefSetIs
<1> QED
  BY <1>2

LEMMA AllocInodeKeeps ==
  ASSUME IInv, NEW f \in Files, AllocInode(f)
  PROVE  IInv'
<1> DEFINE T == Targets(Refs(f))
<1>1. /\ Pruned(entry, entry')
      /\ entry'[f] = NoEntries /\ iblocks'[f] = 0
      /\ saved'[f] = [block |-> entry'[f], count |-> iblocks'[f]]
      /\ \A g \in Files \ {f} :
           entry'[g] = entry[g] /\ iblocks'[g] = iblocks[g] /\ saved'[g] = saved[g]
      /\ iblocks' \in [Files -> Nat]
      /\ saved' \in [Files -> [block : [0..(NDir + 2) -> Content], count : Nat]]
  BY AllocInodeIs
<1>2. /\ orphans' = orphans \union T
      /\ UNCHANGED <<marked, free, sfree, dropped, restarts, panicked>>
  BY DEF AllocInode
<1>3. /\ Disk = [entry |-> entry, iblocks |-> iblocks, marked |-> marked,
                 free |-> free, sfree |-> sfree, panicked |-> panicked]
      /\ Disk' = [entry |-> entry', iblocks |-> iblocks', marked |-> marked',
                  free |-> free', sfree |-> sfree', panicked |-> panicked']
  BY DEF Disk
<1>4. DiskType(Disk) /\ Owned(Disk, orphans) /\ EntryType(entry) /\ EntryType(entry')
  BY <1>1, <1>3 DEF IInv, DiskType, Pruned
<1>5. DiskType(Disk')
  <2>1. /\ System \subseteq marked /\ marked \subseteq Blocks /\ free \in [GroupIds -> Nat]
        /\ sfree \in Nat /\ panicked \in BOOLEAN
    BY <1>3, <1>4 DEF DiskType
  <2> QED
    BY <1>1, <1>2, <1>3, <1>4, <2>1 DEF DiskType
<1>6. \A b : b \in T <=> /\ b # NO_BLOCK
                        /\ \E t \in Routes : \E k \in 1..Len(t) : At(entry, f, t, k) = b
  BY <1>4, OrphansAre
<1> HIDE DEF T
<1>7. \A t \in Routes : \A k \in 1..Len(t) : At(entry', f, t, k) = NO_BLOCK
  BY <1>1, <1>4, EmptyFile
<1>8. \A g \in Files \ {f} : \A t \in Routes : \A k \in 0..Len(t) :
         At(entry', g, t, k) = At(entry, g, t, k)
  BY <1>1, <1>4, AtUnpruned
<1>9. \A t \in Routes : \A k \in 1..Len(t) : k \in 0..Len(t)
  BY RouteShape
<1>10. OnePlace(entry)
  BY <1>3, <1>4 DEF Owned
<1>11. ASSUME NEW b \in T
       PROVE  b \in marked \ System /\ ~Reached(entry', b)
  <2>0. PICK t \in Routes : \E k \in 1..Len(t) : At(entry, f, t, k) = b
    BY <1>6
  <2>1. PICK k \in 1..Len(t) : At(entry, f, t, k) = b
    BY <2>0
  <2>2. b # NO_BLOCK /\ Reached(entry, b)
    BY <1>6, <2>1 DEF Reached
  <2>3. b \in Blocks
    BY <1>4, <2>1, <2>2, AtContent DEF Content
  <2>4. b \in marked \ System
    BY <1>3, <1>4, <2>2, <2>3 DEF Owned
  <2>5. ASSUME NEW g \in Files, NEW u \in Routes, NEW l \in 1..Len(u), At(entry', g, u, l) = b
        PROVE  FALSE
    <3>1. g # f
      BY <1>7, <2>2, <2>5
    <3>2. At(entry, g, u, l) = b
      BY <1>8, <1>9, <2>5, <3>1
    <3> QED
      BY <1>10, <2>1, <2>2, <3>1, <3>2 DEF OnePlace
  <2> QED
    BY <2>4, <2>5 DEF Reached
<1>12. Owned(Disk', orphans')
  <2>1. /\ Disk.entry = entry /\ Disk'.entry = entry' /\ Disk'.marked = Disk.marked
        /\ Disk'.marked = marked
    BY <1>2, <1>3
  <2>2. Owned(Disk', orphans)
    BY <1>1, <1>4, <1>5, <2>1, PrunedOwned
  <2> QED
    BY <1>2, <1>11, <2>1, <2>2 DEF Owned
<1>13. SavedSound'
  <2>1. SavedSound
    BY DEF IInv
  <2>2. ASSUME NEW g \in Files, NEW i \in 0..(NDir + 2)
        PROVE  saved'[g].block[i] \in {NO_BLOCK, entry'[g][i]}
    <3>1. CASE g = f
      <4>1. saved'[f].block = entry'[f]
        BY <1>1
      <4> QED
        BY <3>1, <4>1
    <3>2. CASE g # f
      <4>1. saved'[g] = saved[g] /\ entry'[g] = entry[g]
        BY <1>1, <3>2
      <4> QED
        BY <2>1, <4>1 DEF SavedSound
    <3> QED
      BY <3>1, <3>2
  <2> QED
    BY <1>1, <2>2 DEF SavedSound
<1>14. FreeBounds'
  BY <1>2 DEF IInv, FreeBounds
<1>15. ~panicked' /\ ~dropped' => Tight(Disk', orphans')
  <2> SUFFICES ASSUME ~panicked, ~dropped, NEW b \in marked \ System, b \notin orphans \union T
               PROVE  Reached(entry', b)
    BY <1>2, <1>3 DEF Tight
  <2>1. Reached(entry, b)
    BY <1>3 DEF IInv, Tight
  <2>2. PICK g \in Files, t \in Routes : \E k \in 1..Len(t) : At(entry, g, t, k) = b
    BY <2>1 DEF Reached
  <2>3. PICK k \in 1..Len(t) : At(entry, g, t, k) = b
    BY <2>2
  <2>4. b # NO_BLOCK
    BY <2>1 DEF Reached
  <2>5. g # f
    BY <1>6, <2>3, <2>4
  <2>6. At(entry', g, t, k) = b
    BY <1>8, <1>9, <2>3, <2>5
  <2> QED
    BY <2>4, <2>6 DEF Reached
<1>16. ~dropped' => Counted(Disk')
  <2> SUFFICES ASSUME ~dropped, NEW g \in Files
               PROVE  IsFiniteSet(RefSet(entry', g)) /\ iblocks'[g] = Cardinality(RefSet(entry', g))
    BY <1>2, <1>3 DEF Counted
  <2>1. CASE g = f
    <3>1. RefSet(entry', f) = {}
      BY <1>7, RefSetIs
    <3> QED
      BY <1>1, <2>1, <3>1, FS_EmptySet
  <2>2. CASE g # f
    <3>1. RefSet(entry', g) = RefSet(entry, g)
      BY <1>8, <2>2, RefSetSame
    <3>2. IsFiniteSet(RefSet(entry, g)) /\ iblocks[g] = Cardinality(RefSet(entry, g))
      BY <1>3 DEF IInv, Counted
    <3> QED
      BY <1>1, <2>2, <3>1, <3>2
  <2> QED
    BY <2>1, <2>2
<1>17. restarts' = 0 => ~panicked' /\ FreeExact(Disk')
  BY <1>2, <1>3 DEF IInv, FreeExact
<1> QED
  BY <1>2, <1>5, <1>12, <1>13, <1>14, <1>15, <1>16, <1>17 DEF IInv

LEMMA NextInv == IInv /\ [Next]_vars => IInv'
<1> SUFFICES ASSUME IInv, [Next]_vars
             PROVE  IInv'
  OBVIOUS
<1>1. CASE UNCHANGED vars
  BY <1>1 DEF vars, IInv, Disk, SavedSound, FreeBounds
<1>2. ASSUME ~panicked, NEW f \in Files, NEW p \in Positions, Write(f, p)
      PROVE  IInv'
  BY <1>2, WriteKeeps
<1>3. ASSUME NEW f \in Files, Flush(f)
      PROVE  IInv'
  BY <1>3, FlushKeeps
<1>4. ASSUME ~panicked, NEW f \in Files, Recycle(f)
      PROVE  IInv'
  <2>1. Reread({f}) /\ free' = free /\ sfree' = sfree /\ restarts' = restarts
    BY <1>4 DEF Recycle
  <2>2. {f} \in SUBSET Files
    OBVIOUS
  <2> QED
    BY <1>4, <2>1, <2>2, RereadKeeps
<1>5. ASSUME ~panicked, Restart
      PROVE  IInv'
  BY <1>5, RereadKeeps DEF Restart
<1>6. ASSUME NEW f \in Files, AllocInode(f)
      PROVE  IInv'
  BY <1>6, AllocInodeKeeps
<1> QED
  BY <1>1, <1>2, <1>3, <1>4, <1>5, <1>6 DEF Next

\* The invariant holds in every reachable state.
THEOREM Invariant == Spec => []IInv
  BY InitInv, NextInv, PTL DEF Spec

-------------------------------------------------------------------------------
(* The properties.                                                         *)

\* Every variable keeps its type, and no group or file system more free blocks than
\* it has: alloc_block and free_block keep the counts in bounds.
THEOREM TypeCorrect == Spec => []TypeOK
<1>1. IInv => TypeOK
  <2> SUFFICES ASSUME IInv
               PROVE  TypeOK
    OBVIOUS
  <2>1. /\ EntryType(entry) /\ iblocks \in [Files -> Nat] /\ marked \subseteq Blocks
        /\ free \in [GroupIds -> Nat] /\ sfree \in Nat /\ panicked \in BOOLEAN
    BY DEF IInv, DiskType, Disk
  <2>2. \A f \in Files : entry[f] \in [0..(NDir + 2) -> Blocks \union {NO_BLOCK}]
    BY <2>1 DEF EntryType, Nodes, Indices, Content
  <2>3. \A b \in Blocks : entry[b] \in [0..(Addr - 1) -> Blocks \union {NO_BLOCK}]
    <3>1. \A b \in Blocks : b \notin Files
      BY Constants
    <3> QED
      BY <2>1, <3>1 DEF EntryType, Nodes, Indices, Content
  <2>4. \A g \in GroupIds : free[g] \in 0..FreeAtMount[g]
    <3> SUFFICES ASSUME NEW g \in GroupIds
                 PROVE  free[g] \in 0..FreeAtMount[g]
      OBVIOUS
    <3>1. free[g] \in Nat /\ FreeAtMount[g] \in Nat /\ free[g] <= FreeAtMount[g]
      BY <2>1, MountCounts DEF IInv, FreeBounds
    <3> QED
      BY <3>1
  <2>5. sfree \in 0..Cardinality(Blocks \ System)
    BY <2>1, MountCounts DEF IInv, FreeBounds
  <2>6. saved \in [Files -> [block : [0..(NDir + 2) -> Blocks \union {NO_BLOCK}], count : Nat]]
    BY DEF IInv, SavedSound, Content
  <2>7. orphans \subseteq Blocks
    BY <2>1 DEF IInv, Owned, Disk
  <2> QED
    BY <2>1, <2>2, <2>3, <2>4, <2>5, <2>6, <2>7 DEF IInv, TypeOK
<1> QED
  BY <1>1, Invariant, PTL

\* An entry in use is one on a route.
LEMMA RefPlace ==
  ASSUME IInv, NEW r \in AllRefs
  PROVE  \E g \in Files, t \in Routes : \E k \in 1..Len(t) :
           /\ r = <<At(entry, g, t, k - 1), t[k]>>
           /\ entry[r[1]][r[2]] = At(entry, g, t, k)
           /\ At(entry, g, t, k) # NO_BLOCK
<1>1. EntryType(entry)
  BY DEF IInv, DiskType, Disk
<1>2. PICK g \in Files : r \in Refs(g)
  BY DEF AllRefs
<1>3. r \in RefSet(entry, g)
  BY <1>1, <1>2, RefsAre
<1>4. PICK t \in Routes : \E k \in 1..Len(t) :
             At(entry, g, t, k) # NO_BLOCK /\ r = <<At(entry, g, t, k - 1), t[k]>>
  BY <1>3, RefSetIs
<1>5. PICK k \in 1..Len(t) :
             At(entry, g, t, k) # NO_BLOCK /\ r = <<At(entry, g, t, k - 1), t[k]>>
  BY <1>4
<1>6. At(entry, g, t, k) = entry[At(entry, g, t, k - 1)][t[k]]
  BY <1>1, <1>5, AtTyped
<1> QED
  BY <1>5, <1>6

\* And the other way round: a block on a route is the target of an entry in use.
LEMMA ReachedTarget ==
  ASSUME IInv, NEW b, Reached(entry, b)
  PROVE  b \in Targets(AllRefs)
<1>1. EntryType(entry)
  BY DEF IInv, DiskType, Disk
<1>2. PICK g \in Files, t \in Routes : \E k \in 1..Len(t) : At(entry, g, t, k) = b
  BY DEF Reached
<1>3. PICK k \in 1..Len(t) : At(entry, g, t, k) = b
  BY <1>2
<1>4. b # NO_BLOCK
  BY DEF Reached
<1>5. b = entry[At(entry, g, t, k - 1)][t[k]]
  BY <1>1, <1>3, <1>4, AtTyped
<1> DEFINE r == <<At(entry, g, t, k - 1), t[k]>>
<1>6. r \in RefSet(entry, g)
  BY <1>3, <1>4, RefSetIs
<1>7. r \in AllRefs
  BY <1>1, <1>6, RefsAre DEF AllRefs
<1>8. entry[r[1]][r[2]] = b
  BY <1>5
<1> QED
  BY <1>4, <1>7, <1>8, TargetsAre

LEMMA TargetReached ==
  ASSUME IInv, NEW b \in Targets(AllRefs)
  PROVE  Reached(entry, b) /\ b \in marked \ System
<1>1. b # NO_BLOCK /\ \E r \in AllRefs : entry[r[1]][r[2]] = b
  BY TargetsAre
<1>2. PICK r \in AllRefs : entry[r[1]][r[2]] = b
  BY <1>1
<1>3. PICK g \in Files, t \in Routes : \E k \in 1..Len(t) : At(entry, g, t, k) = b
  BY <1>2, RefPlace
<1>4. PICK k \in 1..Len(t) : At(entry, g, t, k) = b
  BY <1>3
<1>5. Reached(entry, b)
  BY <1>1, <1>4 DEF Reached
<1>6. EntryType(entry)
  BY DEF IInv, DiskType, Disk
<1>7. b \in Blocks
  BY <1>1, <1>4, <1>6, AtContent DEF Content
<1> QED
  BY <1>5, <1>7 DEF IInv, Owned, Disk

\* No block that new_block gives out is in use anywhere, data or indirect: not even
\* by the file it is for, nor after a restart with counts that are out of date.
THEOREM BlocksOwnedOnce == Spec => []OwnedOnce
<1>1. IInv => OwnedOnce
  <2> SUFFICES ASSUME IInv
               PROVE  OwnedOnce
    OBVIOUS
  <2>1. ASSUME NEW r \in AllRefs, NEW s \in AllRefs, entry[r[1]][r[2]] = entry[s[1]][s[2]]
        PROVE  r = s
    <3>1. PICK g \in Files, t \in Routes : \E k \in 1..Len(t) :
                 /\ r = <<At(entry, g, t, k - 1), t[k]>>
                 /\ entry[r[1]][r[2]] = At(entry, g, t, k)
                 /\ At(entry, g, t, k) # NO_BLOCK
      BY RefPlace
    <3>2. PICK k \in 1..Len(t) :
                 /\ r = <<At(entry, g, t, k - 1), t[k]>>
                 /\ entry[r[1]][r[2]] = At(entry, g, t, k)
                 /\ At(entry, g, t, k) # NO_BLOCK
      BY <3>1
    <3>3. PICK h \in Files, u \in Routes : \E l \in 1..Len(u) :
                 /\ s = <<At(entry, h, u, l - 1), u[l]>>
                 /\ entry[s[1]][s[2]] = At(entry, h, u, l)
                 /\ At(entry, h, u, l) # NO_BLOCK
      BY RefPlace
    <3>4. PICK l \in 1..Len(u) :
                 /\ s = <<At(entry, h, u, l - 1), u[l]>>
                 /\ entry[s[1]][s[2]] = At(entry, h, u, l)
                 /\ At(entry, h, u, l) # NO_BLOCK
      BY <3>3
    <3>5. OnePlace(entry)
      BY DEF IInv, Owned, Disk
    <3>6. g = h /\ k = l /\ Agree(t, u, k)
      BY <2>1, <3>2, <3>4, <3>5 DEF OnePlace
    <3>7. Len(t) \in 1..4 /\ Len(u) \in 1..4
      BY RouteShape
    <3>8. k - 1 \in 0..Len(t) /\ Agree(t, u, k - 1) /\ t[k] = u[k]
      BY <3>6, <3>7 DEF Agree
    <3>9. At(entry, g, t, k - 1) = At(entry, g, u, k - 1)
      BY <3>8, AtPrefix
    <3> QED
      BY <3>2, <3>4, <3>6, <3>8, <3>9
  <2>2. Targets(AllRefs) \intersect System = {}
    BY TargetReached
  <2> QED
    BY <2>1, <2>2 DEF OwnedOnce
<1> QED
  BY <1>1, Invariant, PTL

\* A block that alloc_block marked is entered in a file by the end of the write or
\* given back, at whichever level of indirection the space runs out.  It stays in use
\* until the inode of its file, removed, is allocated again, or one not saved is dropped.
THEOREM NoBlockLeaks == Spec => []NothingLeaks
<1>1. IInv => NothingLeaks
  <2> SUFFICES ASSUME IInv, ~panicked, ~dropped
               PROVE  marked \ System = Targets(AllRefs) \union orphans
    BY DEF NothingLeaks
  <2>1. ASSUME NEW b \in marked \ System
        PROVE  b \in Targets(AllRefs) \union orphans
    <3>1. Reached(entry, b) \/ b \in orphans
      BY DEF IInv, Tight, Disk
    <3> QED
      BY <3>1, ReachedTarget
  <2>2. \A b \in Targets(AllRefs) : b \in marked \ System
    BY TargetReached
  <2>3. orphans \subseteq marked \ System
    BY DEF IInv, Owned, Disk
  <2> QED
    BY <2>1, <2>2, <2>3
<1> QED
  BY <1>1, Invariant, PTL

\* Until the handler is started again g_free_blocks_count and s_free_blocks_count are
\* what the bitmaps say, so alloc_block and free_block do not panic; and i_blocks is the
\* number of blocks of a file until one that was not saved is dropped.
THEOREM BlockCountsMatch == Spec => []CountsMatch
<1>1. IInv => CountsMatch
  <2> SUFFICES ASSUME IInv
               PROVE  CountsMatch
    OBVIOUS
  <2>1. EntryType(entry)
    BY DEF IInv, DiskType, Disk
  <2>2. ~dropped => \A f \in Files : iblocks[f] = Cardinality(Refs(f))
    BY <2>1, RefsAre DEF IInv, Counted, Disk
  <2>3. restarts = 0 => ~panicked /\ FreeExact(Disk)
    BY DEF IInv
  <2> QED
    BY <2>2, <2>3 DEF CountsMatch, FreeExact, Disk
<1> QED
  BY <1>1, Invariant, PTL

-------------------------------------------------------------------------------
(* Refinement of FileMap.                                                  *)

\* What is at position p of file f.
Leaf(ent, f, p) == At(ent, f, Path(p), Len(Path(p)))

\* The map of positions, as in the refinement mapping.
MapOf(ent) == {x \in {<<f, p, ReadMap(ent, f, p)>> : f \in Files, p \in Positions} :
                 x[3] # NO_BLOCK}

LEMMA MapOfIs ==
  ASSUME NEW ent, EntryType(ent)
  PROVE  \A x : x \in MapOf(ent) <=>
           \E f \in Files, p \in Positions :
             x = <<f, p, Leaf(ent, f, p)>> /\ Leaf(ent, f, p) # NO_BLOCK
<1>1. \A f \in Files, p \in Positions : ReadMap(ent, f, p) = Leaf(ent, f, p)
  BY ReadMapIs DEF Leaf
<1> HIDE DEF Leaf
<1>2. ASSUME NEW x \in MapOf(ent)
      PROVE  \E f \in Files, p \in Positions :
               x = <<f, p, Leaf(ent, f, p)>> /\ Leaf(ent, f, p) # NO_BLOCK
  <2>1. PICK f \in Files, p \in Positions : x = <<f, p, ReadMap(ent, f, p)>>
    BY DEF MapOf
  <2>2. x[3] # NO_BLOCK /\ x[3] = ReadMap(ent, f, p)
    BY <2>1 DEF MapOf
  <2> QED
    BY <1>1, <2>1, <2>2
<1>3. ASSUME NEW f \in Files, NEW p \in Positions, Leaf(ent, f, p) # NO_BLOCK
      PROVE  <<f, p, Leaf(ent, f, p)>> \in MapOf(ent)
  <2>1. ReadMap(ent, f, p) = Leaf(ent, f, p)
    BY <1>1
  <2> QED
    BY <1>3, <2>1 DEF MapOf
<1> QED
  BY <1>2, <1>3

LEMMA SameLeavesMap ==
  ASSUME NEW ent, NEW ent2, EntryType(ent), EntryType(ent2), SameLeaves(ent, ent2)
  PROVE  MapOf(ent2) = MapOf(ent)
<1>1. \A f \in Files, p \in Positions : Leaf(ent2, f, p) = Leaf(ent, f, p)
  BY PathIsRoute DEF Leaf, SameLeaves
<1>2. \A x : x \in MapOf(ent2) <=> x \in MapOf(ent)
  BY <1>1, MapOfIs
<1> QED
  BY <1>2

LEMMA MapsMap ==
  ASSUME NEW ent, NEW ent2, EntryType(ent), EntryType(ent2), NEW f \in Files,
         NEW p \in Positions, ReadMap(ent, f, p) = NO_BLOCK, NEW b, Maps(ent, ent2, f, p, b)
  PROVE  /\ MapOf(ent2) = MapOf(ent) \union {<<f, p, b>>}
         /\ <<f, p, b>> \notin MapOf(ent)
         /\ \A x \in MapOf(ent) : <<x[1], x[2]>> # <<f, p>> /\ x[3] # b
         /\ b \in Blocks
<1>1. b \in Blocks /\ b # NO_BLOCK /\ ~Reached(ent, b)
  BY DEF Maps
<1>2. Leaf(ent, f, p) = NO_BLOCK
  BY ReadMapIs DEF Leaf
<1>3. ASSUME NEW g \in Files, NEW q \in Positions
      PROVE  /\ Leaf(ent2, g, q) = IF g = f /\ q = p THEN b ELSE Leaf(ent, g, q)
             /\ Leaf(ent, g, q) # b
  <2>1. Path(q) \in Routes /\ (Path(q) = Path(p) <=> q = p)
    BY PathIsRoute, PathOnce
  <2>2. Leaf(ent2, g, q) = IF g = f /\ q = p THEN b ELSE Leaf(ent, g, q)
    BY <2>1 DEF Maps, Leaf
  <2>3. Len(Path(q)) \in 0..Len(Path(q))
    BY <2>1, RouteShape
  <2>4. Leaf(ent, g, q) # b
    BY <1>1, <2>1, <2>3, NotFresh DEF Leaf
  <2> QED
    BY <2>2, <2>4
<1> HIDE DEF Leaf
<1>4. \A x : x \in MapOf(ent) <=> \E g \in Files, q \in Positions :
                x = <<g, q, Leaf(ent, g, q)>> /\ Leaf(ent, g, q) # NO_BLOCK
  BY MapOfIs
<1>5. \A x : x \in MapOf(ent2) <=> \E g \in Files, q \in Positions :
                x = <<g, q, Leaf(ent2, g, q)>> /\ Leaf(ent2, g, q) # NO_BLOCK
  BY MapOfIs
<1>6. ASSUME NEW x \in MapOf(ent)
      PROVE  /\ <<x[1], x[2]>> # <<f, p>> /\ x[3] # b
             /\ x \in MapOf(ent2)
  <2>1. PICK g \in Files, q \in Positions :
               x = <<g, q, Leaf(ent, g, q)>> /\ Leaf(ent, g, q) # NO_BLOCK
    BY <1>4
  <2>2. ~(g = f /\ q = p)
    BY <1>2, <2>1
  <2>3. Leaf(ent2, g, q) = Leaf(ent, g, q) /\ Leaf(ent, g, q) # b
    BY <1>3, <2>2
  <2>4. x \in MapOf(ent2)
    BY <1>5, <2>1, <2>3
  <2>5. x[1] = g /\ x[2] = q /\ x[3] = Leaf(ent, g, q)
    BY <2>1
  <2> QED
    BY <2>2, <2>3, <2>4, <2>5
<1>7. ASSUME NEW x \in MapOf(ent2)
      PROVE  x \in MapOf(ent) \/ x = <<f, p, b>>
  <2>1. PICK g \in Files, q \in Positions :
               x = <<g, q, Leaf(ent2, g, q)>> /\ Leaf(ent2, g, q) # NO_BLOCK
    BY <1>5
  <2>2. CASE g = f /\ q = p
    BY <1>3, <2>1, <2>2
  <2>3. CASE ~(g = f /\ q = p)
    <3>1. Leaf(ent2, g, q) = Leaf(ent, g, q)
      BY <1>3, <2>3
    <3> QED
      BY <1>4, <2>1, <3>1
  <2> QED
    BY <2>2, <2>3
<1>8. <<f, p, b>> \in MapOf(ent2)
  <2>1. Leaf(ent2, f, p) = b
    BY <1>3
  <2> QED
    BY <1>1, <1>5, <2>1
<1>9. MapOf(ent2) = MapOf(ent) \union {<<f, p, b>>}
  BY <1>6, <1>7, <1>8
<1>10. <<f, p, b>> \notin MapOf(ent)
  BY <1>6
<1> QED
  BY <1>1, <1>6, <1>9, <1>10

LEMMA PrunedMap ==
  ASSUME NEW ent, NEW ent2, EntryType(ent), Pruned(ent, ent2),
         NEW F, \A g \in Files \ F : ent2[g] = ent[g]
  PROVE  /\ MapOf(ent2) \subseteq MapOf(ent)
         /\ \A x \in MapOf(ent) \ MapOf(ent2) : x[1] \in F
<1>0. EntryType(ent2)
  BY DEF Pruned
<1>1. ASSUME NEW g \in Files, NEW q \in Positions
      PROVE  Leaf(ent2, g, q) \in {NO_BLOCK, Leaf(ent, g, q)}
  <2>1. Path(q) \in Routes /\ Len(Path(q)) \in 0..Len(Path(q))
    BY PathIsRoute, RouteShape
  <2> QED
    BY <2>1, AtPruned DEF Leaf
<1>2. ASSUME NEW g \in Files \ F, NEW q \in Positions
      PROVE  Leaf(ent2, g, q) = Leaf(ent, g, q)
  <2>1. Path(q) \in Routes /\ Len(Path(q)) \in 0..Len(Path(q))
    BY PathIsRoute, RouteShape
  <2>2. Pruned(ent, ent2) /\ ent2[g] = ent[g]
    BY <1>2
  <2> QED
    BY <2>1, <2>2, AtUnpruned DEF Leaf
<1> HIDE DEF Leaf
<1>3. MapOf(ent2) \subseteq MapOf(ent)
  <2> SUFFICES ASSUME NEW x \in MapOf(ent2)
               PROVE  x \in MapOf(ent)
    OBVIOUS
  <2>1. PICK g \in Files, q \in Positions :
               x = <<g, q, Leaf(ent2, g, q)>> /\ Leaf(ent2, g, q) # NO_BLOCK
    BY <1>0, MapOfIs
  <2>2. Leaf(ent2, g, q) = Leaf(ent, g, q)
    BY <1>1, <2>1
  <2> QED
    BY <2>1, <2>2, MapOfIs
<1>4. ASSUME NEW x \in MapOf(ent) \ MapOf(ent2)
      PROVE  x[1] \in F
  <2>1. PICK g \in Files, q \in Positions :
               x = <<g, q, Leaf(ent, g, q)>> /\ Leaf(ent, g, q) # NO_BLOCK
    BY <1>4, MapOfIs
  <2>2. CASE g \notin F
    <3>1. Leaf(ent2, g, q) = Leaf(ent, g, q)
      BY <1>2, <2>2
    <3> QED
      BY <1>0, <1>4, <2>1, <3>1, MapOfIs
  <2> QED
    BY <2>1, <2>2
<1> QED
  BY <1>3, <1>4

\* An inode that is emptied loses all positions, and no other inode any.
LEMMA EmptiedMap ==
  ASSUME NEW ent, NEW ent2, EntryType(ent), Pruned(ent, ent2), NEW f \in Files,
         \A g \in Files \ {f} : ent2[g] = ent[g],
         ent2[f] = NoEntries
  PROVE  MapOf(ent2) = {x \in MapOf(ent) : x[1] # f}
<1>1. EntryType(ent2)
  BY DEF Pruned
<1>2. /\ MapOf(ent2) \subseteq MapOf(ent)
      /\ \A x \in MapOf(ent) \ MapOf(ent2) : x[1] \in {f}
  BY PrunedMap
<1>3. ASSUME NEW x \in MapOf(ent2)
      PROVE  x[1] # f
  <2>1. PICK g \in Files, q \in Positions :
               x = <<g, q, Leaf(ent2, g, q)>> /\ Leaf(ent2, g, q) # NO_BLOCK
    BY <1>1, MapOfIs
  <2>2. Path(q) \in Routes /\ Len(Path(q)) \in 1..Len(Path(q))
    BY PathIsRoute, RouteShape
  <2>3. Leaf(ent2, f, q) = NO_BLOCK
    BY <1>1, <2>2, EmptyFile DEF Leaf
  <2> HIDE DEF Leaf
  <2> QED
    BY <2>1, <2>3
<1> QED
  BY <1>2, <1>3

\* No position is mapped at first.
LEMMA InitMap == Init => MapOf(entry) = {} /\ Unsaved = {}
<1> SUFFICES ASSUME Init
             PROVE  MapOf(entry) = {} /\ Unsaved = {}
  OBVIOUS
<1>1. EntryType(entry)
  BY InitInv DEF IInv, DiskType, Disk
<1>2. \A f \in Files : entry[f] = [i \in 0..(NDir + 2) |-> NO_BLOCK]
  BY DEF Init
<1>3. ASSUME NEW f \in Files, NEW p \in Positions
      PROVE  Leaf(entry, f, p) = NO_BLOCK
  <2> DEFINE s == Path(p)
  <2>1. s \in Routes
    BY PathIsRoute
  <2>2. Len(s) \in 1..Len(s)
    BY <2>1, RouteShape
  <2>3. At(entry, f, s, Len(s)) = NO_BLOCK
    BY <1>1, <1>2, <2>1, <2>2, EmptyFile DEF NoEntries
  <2> QED
    BY <2>3 DEF Leaf
<1>4. MapOf(entry) = {}
  BY <1>1, <1>3, MapOfIs
<1>5. Unsaved = {}
  <2>1. \A f \in Files : saved[f] = [block |-> entry[f], count |-> iblocks[f]]
    BY DEF Init
  <2> QED
    BY <2>1 DEF Unsaved
<1> QED
  BY <1>4, <1>5

\* A write changes which inodes are unsaved only at its own.
LEMMA WriteUnsaved ==
  ASSUME IInv, NEW f \in Files, NEW p \in Positions, Write(f, p)
  PROVE  Unsaved' \in {Unsaved \union {f}, Unsaved \ {f}}
<1>1. Builds(Disk, orphans, Disk', orphans, f)
  BY WriteIs
<1>2. /\ Disk.entry = entry /\ Disk.iblocks = iblocks
      /\ Disk'.entry = entry' /\ Disk'.iblocks = iblocks'
  BY DEF Disk
<1>3. ASSUME NEW g \in Files, g # f
      PROVE  g \in Unsaved' <=> g \in Unsaved
  <2>1. entry'[g] = entry[g] /\ iblocks'[g] = iblocks[g]
    BY <1>1, <1>2, <1>3 DEF Builds
  <2>2. saved'[g] = saved[g]
    BY <1>3 DEF Write, IInv, SavedSound
  <2>3. g \in Unsaved' <=> saved'[g] # [block |-> entry'[g], count |-> iblocks'[g]]
    BY DEF Unsaved
  <2>4. g \in Unsaved <=> saved[g] # [block |-> entry[g], count |-> iblocks[g]]
    BY DEF Unsaved
  <2> QED
    BY <2>1, <2>2, <2>3, <2>4
<1>4. Unsaved \subseteq Files /\ Unsaved' \subseteq Files
  BY DEF Unsaved
<1>5. f \in Unsaved' => Unsaved' = Unsaved \union {f}
  BY <1>3, <1>4
<1>6. f \notin Unsaved' => Unsaved' = Unsaved \ {f}
  BY <1>3, <1>4
<1> QED
  BY <1>5, <1>6

\* An inode that is written back is not unsaved any more.
LEMMA FlushUnsaved ==
  ASSUME IInv, NEW f \in Files, Flush(f)
  PROVE  Unsaved' = Unsaved \ {f}
<1>1. /\ saved' = [saved EXCEPT ![f] = [block |-> entry[f], count |-> iblocks[f]]]
      /\ entry' = entry /\ iblocks' = iblocks
  BY DEF Flush
<1>2. saved'[f] = [block |-> entry[f], count |-> iblocks[f]]
      /\ \A g \in Files \ {f} : saved'[g] = saved[g]
  BY <1>1 DEF IInv, SavedSound
<1>3. ASSUME NEW g \in Files
      PROVE  g \in Unsaved' <=> g \in Unsaved \ {f}
  <2>1. g \in Unsaved' <=> saved'[g] # [block |-> entry'[g], count |-> iblocks'[g]]
    BY DEF Unsaved
  <2>2. g \in Unsaved <=> saved[g] # [block |-> entry[g], count |-> iblocks[g]]
    BY DEF Unsaved
  <2>3. CASE g = f
    BY <1>1, <1>2, <2>1, <2>3
  <2>4. CASE g # f
    BY <1>1, <1>2, <2>1, <2>2, <2>4
  <2> QED
    BY <2>3, <2>4
<1>4. Unsaved \subseteq Files /\ Unsaved' \subseteq Files
  BY DEF Unsaved
<1> QED
  BY <1>3, <1>4

\* Nor is one that is allocated again, which is written at once.
LEMMA AllocInodeUnsaved ==
  ASSUME IInv, NEW f \in Files, AllocInode(f)
  PROVE  Unsaved' = Unsaved \ {f}
<1>1. /\ saved'[f] = [block |-> entry'[f], count |-> iblocks'[f]]
      /\ \A g \in Files \ {f} :
           entry'[g] = entry[g] /\ iblocks'[g] = iblocks[g] /\ saved'[g] = saved[g]
  BY AllocInodeIs
<1>2. ASSUME NEW g \in Files
      PROVE  g \in Unsaved' <=> g \in Unsaved \ {f}
  <2>1. g \in Unsaved' <=> saved'[g] # [block |-> entry'[g], count |-> iblocks'[g]]
    BY DEF Unsaved
  <2>2. g \in Unsaved <=> saved[g] # [block |-> entry[g], count |-> iblocks[g]]
    BY DEF Unsaved
  <2>3. CASE g = f
    BY <1>1, <2>1, <2>3
  <2>4. CASE g # f
    BY <1>1, <2>1, <2>2, <2>4
  <2> QED
    BY <2>3, <2>4
<1>3. Unsaved \subseteq Files /\ Unsaved' \subseteq Files
  BY DEF Unsaved
<1> QED
  BY <1>2, <1>3

\* Inodes that are read again are saved, and only positions of unsaved ones are lost.
LEMMA RereadForgets ==
  ASSUME IInv, NEW F \in SUBSET Files, Reread(F)
  PROVE  \E H \in SUBSET Files : /\ H \subseteq Unsaved
                                 /\ MapOf(entry') \subseteq MapOf(entry)
                                 /\ \A x \in MapOf(entry) \ MapOf(entry') : x[1] \in H
                                 /\ Unsaved' = Unsaved \ H
<1> DEFINE G == F \intersect Unsaved
<1>1. EntryType(entry)
  BY DEF IInv, DiskType, Disk
<1>2. /\ Pruned(entry, entry')
      /\ \A g \in Files : g \notin F \/ g \notin Unsaved =>
           entry'[g] = entry[g] /\ iblocks'[g] = iblocks[g]
      /\ \A g \in F : saved[g] = [block |-> entry'[g], count |-> iblocks'[g]]
  BY RereadIs
<1>3. \A g \in Files \ G : entry'[g] = entry[g]
  BY <1>2
<1>4. MapOf(entry') \subseteq MapOf(entry)
      /\ \A x \in MapOf(entry) \ MapOf(entry') : x[1] \in G
  <2> HIDE DEF G
  <2> QED
    BY <1>1, <1>2, <1>3, PrunedMap
<1>5. \A g \in Files : saved'[g] = saved[g]
  BY DEF Reread
<1>6. ASSUME NEW g \in Files
      PROVE  g \in Unsaved' <=> g \in Unsaved /\ g \notin G
  <2>1. g \in Unsaved' <=> saved'[g] # [block |-> entry'[g], count |-> iblocks'[g]]
    BY DEF Unsaved
  <2>2. g \in Unsaved <=> saved[g] # [block |-> entry[g], count |-> iblocks[g]]
    BY DEF Unsaved
  <2>3. CASE g \in F
    BY <1>2, <1>5, <2>1, <2>3
  <2>4. CASE g \notin F
    BY <1>2, <1>5, <2>1, <2>2, <2>4
  <2> QED
    BY <2>3, <2>4
<1>7. Unsaved \subseteq Files /\ Unsaved' \subseteq Files
  BY DEF Unsaved
<1>8. G \in SUBSET Files /\ G \subseteq Unsaved
  OBVIOUS
<1>9. Unsaved' = Unsaved \ G
  BY <1>6, <1>7
<1> HIDE DEF G
<1> QED
  BY <1>4, <1>8, <1>9, Zenon

\* The tree of indirect blocks is a map of positions: new_block maps the position it is
\* asked for or none, and only an inode that was not saved, or that is allocated again,
\* loses positions.
THEOREM Implements == Spec => ImplementsFileMap
<1> DEFINE m == {x \in {<<f, p, ReadMap(entry, f, p)>> : f \in Files, p \in Positions} :
                   x[3] # NO_BLOCK}
<1>0. m = MapOf(entry) /\ m' = MapOf(entry')
  BY DEF MapOf
<1>1. Init => Map!Init
  <2> SUFFICES m = {} /\ Unsaved = {} => Map!Init
    BY <1>0, InitMap
  <2> QED
    BY DEF Map!Init
<1>2. ASSUME IInv, EntryType(entry), EntryType(entry'), NEW f \in Files, NEW p \in Positions,
             Write(f, p)
      PROVE  Map!Next
  <2>1. Unsaved' \in {Unsaved \union {f}, Unsaved \ {f}}
    BY <1>2, WriteUnsaved
  <2>2. CASE SameLeaves(entry, entry')
    <3>1. m' = m
      BY <1>0, <1>2, <2>2, SameLeavesMap
    <3>2. Map!Fail(f) \/ Map!Save(f)
      BY <2>1, <3>1 DEF Map!Fail, Map!Save
    <3> QED
      BY <3>2 DEF Map!Next
  <2>3. CASE \E b \in Blocks : Maps(entry, entry', f, p, b)
    <3>1. PICK b \in Blocks : Maps(entry, entry', f, p, b)
      BY <2>3
    <3>2. ReadMap(entry, f, p) = NO_BLOCK
      BY <1>2 DEF Write
    <3>3. /\ m' = m \union {<<f, p, b>>} /\ <<f, p, b>> \notin m
          /\ \A x \in m : <<x[1], x[2]>> # <<f, p>> /\ x[3] # b
      BY <1>0, <1>2, <3>1, <3>2, MapsMap
    <3>4. Map!Assign(f, p, b)
      BY <2>1, <3>3 DEF Map!Assign
    <3> DEFINE x == <<f, p, b>>
    <3>5. x \in m' \ m
      BY <3>3
    <3>6. x[1] = f /\ x[2] = p /\ x[3] = b
      OBVIOUS
    <3>7. Map!Assign(x[1], x[2], x[3])
      BY <3>4, <3>6
    <3> QED
      BY <3>5, <3>7 DEF Map!Next
  <2> QED
    BY <1>2, <2>2, <2>3, WriteIs
<1>3. ASSUME IInv, NEW f \in Files, Flush(f)
      PROVE  Map!Next
  <2>1. m' = m
    BY <1>0, <1>3 DEF Flush
  <2>2. Unsaved' = Unsaved \ {f}
    BY <1>3, FlushUnsaved
  <2>3. Map!Save(f)
    BY <2>1, <2>2 DEF Map!Save
  <2> QED
    BY <2>3 DEF Map!Next
<1>4. ASSUME IInv, NEW F \in SUBSET Files, Reread(F)
      PROVE  Map!Next
  <2>1. \E H \in SUBSET Files : /\ H \subseteq Unsaved
                                /\ MapOf(entry') \subseteq MapOf(entry)
                                /\ \A x \in MapOf(entry) \ MapOf(entry') : x[1] \in H
                                /\ Unsaved' = Unsaved \ H
    BY <1>4, RereadForgets
  <2>2. PICK H \in SUBSET Files : /\ H \subseteq Unsaved
                                  /\ MapOf(entry') \subseteq MapOf(entry)
                                  /\ \A x \in MapOf(entry) \ MapOf(entry') : x[1] \in H
                                  /\ Unsaved' = Unsaved \ H
    BY <2>1, Zenon
  <2>3. Map!Forget(H)
    BY <1>0, <2>2 DEF Map!Forget
  <2> QED
    BY <2>3 DEF Map!Next
<1>5. ASSUME IInv, EntryType(entry), NEW f \in Files, AllocInode(f)
      PROVE  Map!Next
  <2>1. /\ Pruned(entry, entry') /\ entry'[f] = NoEntries
        /\ \A g \in Files \ {f} : entry'[g] = entry[g]
    BY <1>5, AllocInodeIs
  <2>2. m' = {x \in m : x[1] # f}
    <3>1. MapOf(entry') = {x \in MapOf(entry) : x[1] # f}
      BY <1>5, <2>1, EmptiedMap
    <3> HIDE DEF m
    <3> QED
      BY <1>0, <3>1
  <2>3. Unsaved' = Unsaved \ {f}
    BY <1>5, AllocInodeUnsaved
  <2>4. Map!Renew(f)
    BY <2>2, <2>3 DEF Map!Renew
  <2> QED
    BY <2>4 DEF Map!Next
<1>6. IInv /\ IInv' /\ [Next]_vars => [Map!Next]_<<m, Unsaved>>
  <2> SUFFICES ASSUME IInv, IInv', [Next]_vars
               PROVE  Map!Next \/ (m' = m /\ Unsaved' = Unsaved)
    OBVIOUS
  <2>1. EntryType(entry) /\ EntryType(entry')
    BY DEF IInv, DiskType, Disk
  <2>2. CASE UNCHANGED vars
    BY <2>2 DEF vars, Unsaved
  <2>3. ASSUME NEW f \in Files, NEW p \in Positions, Write(f, p)
        PROVE  Map!Next
    BY <1>2, <2>1, <2>3
  <2>4. ASSUME NEW f \in Files, Flush(f)
        PROVE  Map!Next
    BY <1>3, <2>4
  <2>5. ASSUME NEW f \in Files, Recycle(f)
        PROVE  Map!Next
    <3>1. Reread({f}) /\ {f} \in SUBSET Files
      BY <2>5 DEF Recycle
    <3> QED
      BY <1>4, <3>1
  <2>6. ASSUME Restart
        PROVE  Map!Next
    <3>1. Reread(Files) /\ Files \in SUBSET Files
      BY <2>6 DEF Restart
    <3> QED
      BY <1>4, <3>1
  <2>7. ASSUME NEW f \in Files, AllocInode(f)
        PROVE  Map!Next
    BY <1>5, <2>1, <2>7
  <2> QED
    BY <2>2, <2>3, <2>4, <2>5, <2>6, <2>7 DEF Next
<1> QED
  BY <1>1, <1>6, Invariant, PTL DEF Spec, ImplementsFileMap, Map!Spec
===============================================================================
