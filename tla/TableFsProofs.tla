---------------------------- MODULE TableFsProofs ----------------------------
(***************************************************************************)
(* What a process was told about a device stays true, and one that reads a *)
(* directory or a file piece by piece gets all of it, for any tables,      *)
(* names, buffers and processes.                                           *)
(***************************************************************************)
EXTENDS TableFs, WellFoundedInduction, FiniteSetTheorems, TLAPS

\* The table: what nodes may hold, and no name in two of them.
TableInv ==
  /\ devfs_inode_table \in [Nodes -> [name : DeviceNames, mode : Modes] \union {Free}]
  /\ devfs_inode_table[0].name = NoName
  /\ \A i, j \in Nodes \ {0} :
       /\ devfs_inode_table[i].name = devfs_inode_table[j].name
       /\ devfs_inode_table[i].name # NoName
       => i = j

\* What was told is in the table.
ToldInv ==
  /\ told \subseteq DeviceNames \X (Nodes \ {0})
  /\ \A t \in told : devfs_inode_table[t[2]].name = t[1]

Inv == TableInv /\ ToldInv

\* A set of numbers has a least one.
LEMMA Smallest ==
  ASSUME NEW I \in SUBSET Nat, I # {}
  PROVE  \E x \in I : \A y \in I : x <= y
<1> DEFINE R == OpToRel(<, Nat)
<1>1. IsWellFoundedOn(R, Nat)
  BY NatLessThanWellFounded
<1>2. \A x, y \in Nat : y < x => <<y, x>> \in R
  BY DEF OpToRel
<1> HIDE DEF R
<1>3. PICK x \in I : \A y \in I : ~(<<y, x>> \in R)
  BY <1>1, WFMin, Zenon
<1>4. \A y \in I : y \in Nat /\ x \in Nat /\ ~(y < x)
  BY <1>2, <1>3, Zenon
<1>5. \A y \in I : x <= y
  BY <1>4
<1> QED
  BY <1>5

\* First, of nodes.
LEMMA FirstOf ==
  ASSUME NEW I \in SUBSET Nodes, I # {}
  PROVE  First(I) \in I
<1>1. I \in SUBSET Nat
  BY DevFsAssumption DEF Nodes
<1> QED
  BY <1>1, Smallest DEF First

\* mknod gives a name that no node has to a node that has none.
LEMMA MknodTable ==
  ASSUME Inv, NEW nm \in DeviceNames, NEW mode \in Modes, DevfsMknod(nm, mode)
  PROVE  \E k \in Nodes \ {0} :
           /\ devfs_inode_table[k].name = NoName
           /\ devfs_inode_table' = [devfs_inode_table EXCEPT ![k] = [name |-> nm, mode |-> mode]]
           /\ \A i \in Nodes \ {0} : devfs_inode_table[i].name # nm
<1> DEFINE k == First(Named(NoName))
<1>1. Named(NoName) \in SUBSET Nodes /\ Named(NoName) # {}
  BY DEF Named, DevfsMknod
<1>2. k \in Named(NoName)
  BY <1>1, FirstOf
<1>3. devfs_inode_table' = [devfs_inode_table EXCEPT ![k] = [name |-> nm, mode |-> mode]]
  BY DEF DevfsMknod
<1>4. \A i \in Nodes \ {0} : devfs_inode_table[i].name # nm
  BY DEF DevfsMknod, Named
<1> QED
  BY <1>2, <1>3, <1>4 DEF Named

LEMMA MknodInv ==
  ASSUME Inv, NEW nm \in DeviceNames, NEW mode \in Modes, Mknod(nm, mode)
  PROVE  Inv'
<1> USE DevFsAssumption
<1>1. PICK k \in Nodes \ {0} :
        /\ devfs_inode_table[k].name = NoName
        /\ devfs_inode_table' = [devfs_inode_table EXCEPT ![k] = [name |-> nm, mode |-> mode]]
        /\ \A i \in Nodes \ {0} : devfs_inode_table[i].name # nm
  BY MknodTable DEF Mknod
<1>2. /\ devfs_inode_table'[k].name = nm
      /\ \A i \in Nodes : i # k => devfs_inode_table'[i] = devfs_inode_table[i]
  BY <1>1 DEF Inv, TableInv
<1>3. TableInv'
  <2>1. [name |-> nm, mode |-> mode] \in [name : DeviceNames, mode : Modes] \union {Free}
    OBVIOUS
  <2>2. devfs_inode_table' \in [Nodes -> [name : DeviceNames, mode : Modes] \union {Free}]
    BY <1>1, <2>1, Zenon DEF Inv, TableInv
  <2>3. 0 \in Nodes /\ devfs_inode_table'[0].name = NoName
    BY <1>1, <1>2 DEF Inv, TableInv, Nodes
  <2>4. ASSUME NEW i \in Nodes \ {0}, NEW j \in Nodes \ {0},
               devfs_inode_table'[i].name = devfs_inode_table'[j].name,
               devfs_inode_table'[i].name # NoName
        PROVE  i = j
    BY <1>1, <1>2, <2>4 DEF Inv, TableInv
  <2> QED
    BY <2>2, <2>3, <2>4, Zenon DEF TableInv, Nodes
<1>4. ToldInv'
  <2>1. told' = told \union {<<nm, i>> : i \in Named(nm)'}
    BY DEF Mknod
  <2>2. \A i \in Named(nm)' : i = k
    BY <1>1, <1>2 DEF Named, Nodes
  <2>3. \A t \in told : t[2] # k
    BY <1>1 DEF Inv, ToldInv
  <2> QED
    BY <1>1, <1>2, <2>1, <2>2, <2>3 DEF Inv, ToldInv, Nodes
<1> QED
  BY <1>3, <1>4 DEF Inv

LEMMA LookupInv ==
  ASSUME Inv, NEW nm \in DeviceNames, LookupDevice(nm)
  PROVE  Inv'
<1>1. DevfsLookup(nm) \subseteq Named(nm)
  <2>1. Named(nm) \in SUBSET Nodes
    BY DEF Named
  <2> QED
    BY <2>1, FirstOf DEF DevfsLookup
<1>2. /\ devfs_inode_table' = devfs_inode_table
      /\ told' = told \union {<<nm, i>> : i \in DevfsLookup(nm)}
  BY DEF LookupDevice
<1>3. ToldInv'
  BY <1>1, <1>2 DEF Inv, ToldInv, Named, Nodes
<1>4. TableInv'
  BY <1>2 DEF Inv, TableInv, Nodes
<1> QED
  BY <1>3, <1>4 DEF Inv

\* Everything else leaves the table and what was told.
LEMMA OtherInv ==
  ASSUME Inv, UNCHANGED <<devfs_inode_table, told>>
  PROVE  Inv'
BY DEF Inv, TableInv, ToldInv, Nodes

LEMMA NextInv ==
  ASSUME Inv, [Next]_vars
  PROVE  Inv'
<1>1. ASSUME NEW nm \in DeviceNames, NEW mode \in Modes, Mknod(nm, mode)
      PROVE  Inv'
  BY <1>1, MknodInv
<1>2. ASSUME NEW nm \in DeviceNames, LookupDevice(nm)
      PROVE  Inv'
  BY <1>2, LookupInv
<1>3. ASSUME NEW p \in Processes, NEW fs, NEW dir, NEW sz, OpenDir(p, fs, dir, sz)
      PROVE  Inv'
  BY <1>3, OtherInv DEF OpenDir
<1>4. ASSUME NEW p \in Processes, NEW ino, NEW sz, OpenFile(p, ino, sz)
      PROVE  Inv'
  BY <1>4, OtherInv DEF OpenFile
<1>5. ASSUME NEW p \in Processes, Readdir(p)
      PROVE  Inv'
  BY <1>5, OtherInv DEF Readdir
<1>6. ASSUME NEW p \in Processes, Read(p)
      PROVE  Inv'
  BY <1>6, OtherInv DEF Read
<1>7. ASSUME NEW p \in Processes, Close(p)
      PROVE  Inv'
  BY <1>7, OtherInv DEF Close
<1>8. CASE UNCHANGED vars
  BY <1>8, OtherInv DEF vars
<1> QED
  BY <1>1, <1>2, <1>3, <1>4, <1>5, <1>6, <1>7, <1>8 DEF Next

LEMMA InitInv == Init => Inv
BY DevFsAssumption DEF Init, DevfsInit, Free, Inv, TableInv, ToldInv, Nodes

\* A device name that was told goes on to mean its node, which no other name means:
\* mknod looks for the name first and takes a node without a name, and nothing else
\* writes the table.
THEOREM ToldForever == Spec => []ToldStaysTrue
<1>1. Inv => ToldStaysTrue
  <2> SUFFICES ASSUME Inv, NEW t \in told
               PROVE  /\ DevfsLookup(t[1]) = {t[2]}
                      /\ \A u \in told : u[2] = t[2] => u = t
    BY DEF ToldStaysTrue
  <2>1. t[1] \in DeviceNames /\ t[2] \in Nodes \ {0} /\ devfs_inode_table[t[2]].name = t[1]
    BY DEF Inv, ToldInv
  <2>2. Named(t[1]) = {t[2]}
    BY <2>1, DevFsAssumption DEF Named, Inv, TableInv
  <2>3. First(Named(t[1])) = t[2]
    <3>1. Named(t[1]) \in SUBSET Nodes
      BY DEF Named
    <3> QED
      BY <2>2, <3>1, FirstOf
  <2>4. DevfsLookup(t[1]) = {t[2]}
    BY <2>2, <2>3 DEF DevfsLookup
  <2>5. ASSUME NEW u \in told, u[2] = t[2]
        PROVE  u = t
    BY <2>1, <2>5 DEF Inv, ToldInv
  <2> QED
    BY <2>4, <2>5
<1>2. Inv /\ [Next]_vars => Inv'
  BY NextInv
<1> QED
  BY <1>1, <1>2, InitInv, PTL DEF Spec

-------------------------------------------------------------------------------
(* The walk over a table. *)

\* A set of numbers that has 0, and with a number the next, has all of them.
LEMMA AllNumbers ==
  ASSUME NEW S \in SUBSET Nat, 0 \in S, \A n \in S : n + 1 \in S
  PROVE  S = Nat
<1> DEFINE R == OpToRel(<, Nat)
           B == Nat \ S
<1>1. IsWellFoundedOn(R, Nat)
  BY NatLessThanWellFounded
<1>2. \A x, y \in Nat : y < x => <<y, x>> \in R
  BY DEF OpToRel
<1> HIDE DEF R
<1>3. ASSUME B # {}
      PROVE  FALSE
  <2>1. PICK x \in B : \A y \in B : ~(<<y, x>> \in R)
    BY <1>1, <1>3, WFMin, Zenon
  <2>2. x # 0 /\ x - 1 \in Nat /\ x - 1 < x
    OBVIOUS
  <2>3. x - 1 \in S
    BY <1>2, <2>1, <2>2
  <2> QED
    BY <2>2, <2>3
<1> QED
  BY <1>3

\* Used: the function is what its equation says.
UsedAre(u, need, end, cookie) ==
  u = [i \in cookie..end |-> IF i = cookie THEN 0 ELSE u[i - 1] + need[i - 1]]

LEMMA UsedExists ==
  ASSUME NEW need, NEW cookie \in Nat, NEW end \in Nat
  PROVE  \E u : UsedAre(u, need, end, cookie)
<1> DEFINE S == {n \in Nat : \E u : UsedAre(u, need, cookie + n, cookie)}
<1>1. 0 \in S
  <2>1. UsedAre([i \in cookie..(cookie + 0) |-> 0], need, cookie + 0, cookie)
    BY DEF UsedAre
  <2> QED
    BY <2>1
<1>2. ASSUME NEW n \in S
      PROVE  n + 1 \in S
  <2>1. PICK u : UsedAre(u, need, cookie + n, cookie)
    OBVIOUS
  <2> DEFINE v == [i \in cookie..(cookie + n + 1) |->
                     IF i = cookie + n + 1 THEN u[cookie + n] + need[cookie + n] ELSE u[i]]
  <2>2. ASSUME NEW i \in cookie..(cookie + n)
        PROVE  v[i] = u[i] /\ u[i] = IF i = cookie THEN 0 ELSE u[i - 1] + need[i - 1]
    BY <2>1 DEF UsedAre
  <2>3. ASSUME NEW i \in cookie..(cookie + n + 1)
        PROVE  v[i] = IF i = cookie THEN 0 ELSE v[i - 1] + need[i - 1]
    <3>1. CASE i = cookie + n + 1
      <4>1. i # cookie /\ i - 1 = cookie + n /\ i - 1 \in cookie..(cookie + n)
        BY <3>1
      <4>2. v[i - 1] = u[i - 1]
        BY <2>2, <4>1
      <4> QED
        BY <3>1, <4>1, <4>2
    <3>2. CASE i # cookie + n + 1
      <4>1. i \in cookie..(cookie + n)
        BY <3>2
      <4>2. CASE i = cookie
        BY <2>2, <4>1, <4>2
      <4>3. CASE i # cookie
        <5>1. i - 1 \in cookie..(cookie + n)
          BY <4>1, <4>3
        <5> QED
          BY <2>2, <4>1, <4>3, <5>1
      <4> QED
        BY <4>2, <4>3
    <3> QED
      BY <3>1, <3>2
  <2>4. cookie + (n + 1) = cookie + n + 1
    OBVIOUS
  <2>5. UsedAre(v, need, cookie + n + 1, cookie)
    BY <2>3 DEF UsedAre
  <2> HIDE DEF v
  <2> QED
    BY <2>4, <2>5
<1>3. \A n \in Nat : n \in S
  <2> HIDE DEF S
  <2>1. S \in SUBSET Nat
    BY DEF S
  <2> QED
    BY <1>1, <1>2, <2>1, AllNumbers
<1>4. CASE cookie <= end
  <2>1. end - cookie \in Nat
    BY <1>4
  <2>2. cookie + (end - cookie) = end
    OBVIOUS
  <2> QED
    BY <1>3, <2>1, <2>2
<1>5. CASE ~(cookie <= end)
  <2>1. cookie..end = {}
    BY <1>5
  <2>2. UsedAre(<<>>, need, end, cookie)
    BY <2>1 DEF UsedAre
  <2> QED
    BY <2>2
<1> QED
  BY <1>4, <1>5

LEMMA UsedIs ==
  ASSUME NEW need, NEW cookie \in Nat, NEW end \in Nat
  PROVE  UsedAre(Used(need, end, cookie), need, end, cookie)
<1>1. Used(need, end, cookie) = CHOOSE u : UsedAre(u, need, end, cookie)
  BY DEF Used, UsedAre
<1> QED
  BY <1>1, UsedExists

\* Before a node where no record precedes it nothing is used.
LEMMA NothingUsed ==
  ASSUME NEW need, NEW cookie \in Nat, NEW c \in Nat, cookie <= c, NEW end \in Nat, c <= end,
         \A i \in cookie..(c - 1) : need[i] = 0, NEW u, UsedAre(u, need, end, cookie)
  PROVE  u[c] = 0
<1> DEFINE S == {n \in Nat : cookie + n <= c => u[cookie + n] = 0}
<1>1. 0 \in S
  BY DEF UsedAre
<1>2. ASSUME NEW n \in S
      PROVE  n + 1 \in S
  <2> SUFFICES ASSUME cookie + (n + 1) <= c
               PROVE  u[cookie + (n + 1)] = 0
    OBVIOUS
  <2>1. u[cookie + n] = 0 /\ cookie + n \in cookie..(c - 1)
    OBVIOUS
  <2>2. cookie + (n + 1) \in cookie..end /\ cookie + (n + 1) # cookie
        /\ cookie + (n + 1) - 1 = cookie + n
    OBVIOUS
  <2>3. u[cookie + (n + 1)] = u[cookie + n] + need[cookie + n]
    BY <2>2 DEF UsedAre
  <2> QED
    BY <2>1, <2>3
<1>3. \A n \in Nat : n \in S
  <2> HIDE DEF S
  <2>1. S \in SUBSET Nat
    BY DEF S
  <2> QED
    BY <1>1, <1>2, <2>1, AllNumbers
<1>4. c - cookie \in Nat /\ cookie + (c - cookie) = c
  OBVIOUS
<1> QED
  BY <1>3, <1>4

LEMMA UsedTyped ==
  ASSUME NEW need, NEW cookie \in Nat, NEW end \in Nat, NEW u, UsedAre(u, need, end, cookie),
         \A i \in cookie..(end - 1) : need[i] \in Nat
  PROVE  \A i \in cookie..end : u[i] \in Nat
<1> DEFINE S == {n \in Nat : cookie + n <= end => u[cookie + n] \in Nat}
<1>1. 0 \in S
  BY DEF UsedAre
<1>2. ASSUME NEW n \in S
      PROVE  n + 1 \in S
  <2> SUFFICES ASSUME cookie + (n + 1) <= end
               PROVE  u[cookie + (n + 1)] \in Nat
    OBVIOUS
  <2>1. u[cookie + n] \in Nat /\ cookie + n \in cookie..(end - 1)
    OBVIOUS
  <2>2. cookie + (n + 1) \in cookie..end /\ cookie + (n + 1) # cookie
        /\ cookie + (n + 1) - 1 = cookie + n
    OBVIOUS
  <2>3. u[cookie + (n + 1)] = u[cookie + n] + need[cookie + n]
    BY <2>2 DEF UsedAre
  <2> QED
    BY <2>1, <2>3
<1>3. \A n \in Nat : n \in S
  <2> HIDE DEF S
  <2>1. S \in SUBSET Nat
    BY DEF S
  <2> QED
    BY <1>1, <1>2, <2>1, AllNumbers
<1>4. ASSUME NEW i \in cookie..end
      PROVE  u[i] \in Nat
  <2>1. i - cookie \in Nat /\ cookie + (i - cookie) = i /\ i <= end
    OBVIOUS
  <2> QED
    BY <1>3, <2>1
<1> QED
  BY <1>4

\* Where a walk stops: within the table, and only before its end when it has passed a
\* record, if each record fits in the room.
LEMMA Stops ==
  ASSUME NEW need, NEW cookie \in Nat, NEW end \in Nat, cookie <= end, NEW room \in Nat,
         \A i \in cookie..(end - 1) : need[i] \in Nat /\ need[i] <= room,
         NEW stop, stop = StopsAt(need, end, cookie, room)
  PROVE  /\ stop \in cookie..end
         /\ stop < end => \E i \in cookie..(stop - 1) : need[i] > 0
<1> DEFINE u == Used(need, end, cookie)
           Stop(c) == /\ c < end => need[c] > 0 /\ u[c] + need[c] > room
                      /\ \A i \in cookie..(c - 1) : need[i] > 0 => u[i] + need[i] <= room
           TooBig == {i \in cookie..(end - 1) : need[i] > 0 /\ u[i] + need[i] > room}
<1>1. UsedAre(u, need, end, cookie)
  BY UsedIs
<1>2. \A i \in cookie..end : u[i] \in Nat
  <2> HIDE DEF u
  <2> QED
    BY <1>1, UsedTyped
<1>3. stop = CHOOSE c \in cookie..end : Stop(c)
  BY DEF StopsAt
<1> HIDE DEF u
<1>5. \E c \in cookie..end : Stop(c)
  <2>1. CASE TooBig = {}
    <3>1. Stop(end)
      BY <1>2, <2>1
    <3> QED
      BY <3>1
  <2>2. CASE TooBig # {}
    <3>1. TooBig \in SUBSET Nat
      OBVIOUS
    <3>2. PICK c \in TooBig : \A i \in TooBig : c <= i
      <4> HIDE DEF TooBig
      <4> QED
        BY <2>2, <3>1, Smallest
    <3>3. \A i \in cookie..(c - 1) : i \in cookie..(end - 1) /\ i \notin TooBig
      BY <3>2
    <3>4. \A i \in cookie..(c - 1) : need[i] > 0 => u[i] + need[i] <= room
      BY <1>2, <3>3
    <3>5. Stop(c) /\ c \in cookie..end
      BY <3>2, <3>4
    <3> QED
      BY <3>5
  <2> QED
    BY <2>1, <2>2
<1>6. stop \in cookie..end /\ Stop(stop)
  <2> HIDE DEF Stop
  <2> QED
    BY <1>3, <1>5
<1>7. ASSUME stop < end
      PROVE  \E i \in cookie..(stop - 1) : need[i] > 0
  <2> SUFFICES ASSUME \A i \in cookie..(stop - 1) : ~(need[i] > 0)
               PROVE  FALSE
    OBVIOUS
  <2>1. \A i \in cookie..(stop - 1) : need[i] = 0
    BY <1>6, <1>7
  <2>2. u[stop] = 0
    BY <1>1, <1>6, <2>1, NothingUsed
  <2>3. need[stop] \in Nat /\ need[stop] <= room
    BY <1>6, <1>7
  <2> QED
    BY <1>6, <1>7, <2>2, <2>3
<1> QED
  BY <1>6, <1>7

\* The numbers of a set, counted: each has its place, and each place its number.
LEMMA Ranks ==
  ASSUME NEW I \in SUBSET Nat, IsFiniteSet(I),
         NEW s, s = InOrder(I)
  PROVE  /\ Cardinality(I) \in Nat
         /\ s \in [1..Cardinality(I) -> I]
         /\ \A i \in I : \E k \in 1..Cardinality(I) : s[k] = i
         /\ \A k, l \in 1..Cardinality(I) : s[k] = s[l] => k = l
<1> DEFINE N == Cardinality(I)
           Less(i) == {j \in I : j < i}
           rank == [i \in I |-> Cardinality(Less(i))]
<1>1. N \in Nat
  BY FS_CardinalityType
<1>2. ASSUME NEW i \in I
      PROVE  IsFiniteSet(Less(i)) /\ Cardinality(Less(i)) \in Nat /\ Cardinality(Less(i)) < N
  <2>1. Less(i) \subseteq I /\ i \in I /\ i \notin Less(i)
    OBVIOUS
  <2> HIDE DEF Less
  <2>2. IsFiniteSet(Less(i)) /\ Cardinality(Less(i)) <= N /\ (N = Cardinality(Less(i)) => I = Less(i))
    BY <2>1, FS_Subset
  <2>3. Cardinality(Less(i)) \in Nat
    BY <2>2, FS_CardinalityType
  <2> QED
    BY <1>1, <2>1, <2>2, <2>3
<1>3. ASSUME NEW i \in I, NEW j \in I, i < j
      PROVE  Cardinality(Less(i)) < Cardinality(Less(j))
  <2>1. Less(i) \subseteq Less(j) /\ i \in Less(j) /\ i \notin Less(i)
    <3>1. \A x \in I : x \in Nat
      OBVIOUS
    <3>2. \A x, y, z \in Nat : x < y /\ y < z => x < z
      OBVIOUS
    <3>3. \A x \in I : x < i => x < j
      BY <1>3, <3>1, <3>2
    <3>4. ~(i < i)
      BY <3>1
    <3> QED
      BY <1>3, <3>3, <3>4
  <2>2. IsFiniteSet(Less(j)) /\ Cardinality(Less(j)) \in Nat /\ Cardinality(Less(i)) \in Nat
    BY <1>2
  <2> HIDE DEF Less
  <2>3. Cardinality(Less(i)) <= Cardinality(Less(j))
        /\ (Cardinality(Less(j)) = Cardinality(Less(i)) => Less(j) = Less(i))
    BY <2>1, <2>2, FS_Subset
  <2> QED
    BY <2>1, <2>2, <2>3
<1>4. rank \in [I -> 0..(N - 1)]
  BY <1>1, <1>2
<1>5. \A i, j \in I : rank[i] = rank[j] => i = j
  <2> TAKE i, j \in I
  <2>1. i \in Nat /\ j \in Nat /\ rank[i] \in Nat /\ rank[j] \in Nat
        /\ rank[i] = Cardinality(Less(i)) /\ rank[j] = Cardinality(Less(j))
    BY <1>2
  <2> HIDE DEF rank, Less
  <2>2. i < j => rank[i] < rank[j]
    BY <1>3, <2>1
  <2>3. j < i => rank[j] < rank[i]
    BY <1>3, <2>1
  <2> QED
    BY <2>1, <2>2, <2>3
<1>6. IsFiniteSet(0..(N - 1)) /\ Cardinality(0..(N - 1)) = N
  <2>1. 0 \in Int /\ N - 1 \in Int /\ ~(0 > N - 1 /\ N # 0) /\ N - 1 - 0 + 1 = N
    BY <1>1
  <2> HIDE DEF N
  <2> QED
    BY <1>1, <2>1, FS_Interval
<1>7. \A k \in 0..(N - 1) : \E i \in I : rank[i] = k
  <2> DEFINE T == {rank[i] : i \in I}
  <2>1. T \subseteq 0..(N - 1)
    BY <1>4
  <2>2. rank \in Bijection(I, T)
    <3> HIDE DEF rank
    <3> QED
      BY <1>4, <1>5 DEF Bijection, Injection, Surjection, IsInjective
  <2>3. IsFiniteSet(T) /\ Cardinality(T) = N
    <3> HIDE DEF rank, T
    <3>1. ExistsBijection(I, T)
      BY <2>2 DEF ExistsBijection
    <3> QED
      BY <3>1, FS_Bijection
  <2> HIDE DEF T
  <2>4. T = 0..(N - 1)
    BY <1>6, <2>1, <2>3, FS_Subset
  <2> QED
    BY <2>4 DEF T
<1>8. \A k \in 1..N : s[k] \in I /\ rank[s[k]] = k - 1
  <2> TAKE k \in 1..N
  <2>1. k - 1 \in 0..(N - 1)
    BY <1>1
  <2>2. \E i \in I : Cardinality({j \in I : j < i}) = k - 1
    BY <1>7, <2>1
  <2>3. s[k] = CHOOSE i \in I : Cardinality({j \in I : j < i}) = k - 1
    BY DEF InOrder
  <2>4. s[k] \in I /\ Cardinality({j \in I : j < s[k]}) = k - 1
    BY <2>2, <2>3
  <2> QED
    BY <2>4
<1> HIDE DEF rank, Less
<1>9. ASSUME NEW i \in I
      PROVE  \E k \in 1..N : s[k] = i
  <2> DEFINE k == rank[i] + 1
  <2>1. k \in 1..N /\ k - 1 = rank[i]
    BY <1>1, <1>4
  <2> HIDE DEF k
  <2>2. s[k] \in I /\ rank[s[k]] = k - 1
    BY <1>8, <2>1
  <2>3. s[k] = i
    BY <1>5, <2>1, <2>2
  <2> QED
    BY <2>1, <2>3
<1>10. ASSUME NEW k \in 1..N, NEW l \in 1..N, s[k] = s[l]
       PROVE  k = l
  <2>1. rank[s[k]] = k - 1 /\ rank[s[l]] = l - 1
    BY <1>8
  <2>2. k \in Nat /\ l \in Nat
    BY <1>1
  <2>3. k - 1 = l - 1
    BY <1>10, <2>1
  <2> QED
    BY <2>2, <2>3
<1> HIDE DEF N
<1>11. s \in [1..N -> I]
  BY <1>8, Zenon DEF N, InOrder
<1> QED
  BY <1>1, <1>9, <1>10, <1>11 DEF N

\* The nodes of a reply: those with a record between the cookies, each once.
Lists(s, need, cookie, stop) ==
  /\ s \in Seq(Nat)
  /\ \A i : (\E k \in 1..Len(s) : s[k] = i) <=> (i \in cookie..(stop - 1) /\ need[i] > 0)
  /\ \A k, l \in 1..Len(s) : s[k] = s[l] => k = l

LEMMA ListingIs ==
  ASSUME NEW need, NEW cookie \in Nat, NEW stop \in Nat
  PROVE  Lists(Listing(need, cookie, stop), need, cookie, stop)
<1> DEFINE I == {i \in cookie..(stop - 1) : need[i] > 0}
           s == Listing(need, cookie, stop)
<1>1. I \in SUBSET Nat /\ I \subseteq cookie..(stop - 1)
  OBVIOUS
<1>2. IsFiniteSet(I)
  <2> HIDE DEF I
  <2> QED
    <3>1. IsFiniteSet(cookie..(stop - 1))
      BY FS_Interval
    <3> QED
      BY <1>1, <3>1, FS_Subset
<1>3. s = InOrder(I)
  BY Zenon DEF Listing
<1>5. \A i : i \in I <=> (i \in cookie..(stop - 1) /\ need[i] > 0)
  OBVIOUS
<1> HIDE DEF I, s
<1>6. /\ Cardinality(I) \in Nat
      /\ s \in [1..Cardinality(I) -> I]
      /\ \A i \in I : \E k \in 1..Cardinality(I) : s[k] = i
      /\ \A k, l \in 1..Cardinality(I) : s[k] = s[l] => k = l
  BY <1>1, <1>2, <1>3, Ranks
<1>7. Len(s) = Cardinality(I) /\ \A k \in 1..Len(s) : s[k] \in I
  BY <1>6
<1>8. s \in Seq(Nat)
  <2>1. s \in [1..Cardinality(I) -> Nat]
    BY <1>1, <1>6, <1>7
  <2> QED
    BY <1>6, <2>1
<1> QED
  BY <1>5, <1>6, <1>7, <1>8 DEF Lists, s

-------------------------------------------------------------------------------
(* The processes. *)

\* What has been got of a directory whose nodes are P, up to the cookie pos.
GotOK(got, pos, P, there) ==
  /\ got \in Seq(Nat)
  /\ \A k \in 1..Len(got) : got[k] \in P /\ got[k] < pos
  /\ \A k, l \in 1..Len(got) : got[k] = got[l] => k = l
  /\ \A i \in there : i < pos => \E k \in 1..Len(got) : got[k] = i

LEMMA Joined ==
  ASSUME NEW a \in Seq(Nat), NEW b \in Seq(Nat)
  PROVE  /\ a \in Seq(Nat) /\ Len(a) \in Nat /\ Len(b) \in Nat
         /\ a \o b \in Seq(Nat) /\ Len(a \o b) = Len(a) + Len(b)
         /\ \A k \in 1..Len(a) : (a \o b)[k] = a[k] /\ a[k] \in Nat
         /\ \A k \in (Len(a) + 1)..(Len(a) + Len(b)) :
              (a \o b)[k] = b[k - Len(a)] /\ k - Len(a) \in 1..Len(b)
         /\ \A k \in 1..Len(b) :
              (a \o b)[k + Len(a)] = b[k] /\ k + Len(a) \in 1..(Len(a) + Len(b))
<1>1. Len(a) \in Nat /\ Len(b) \in Nat
  OBVIOUS
<1>2. a \o b \in Seq(Nat) /\ Len(a \o b) = Len(a) + Len(b)
  OBVIOUS
<1>3. \A k \in 1..Len(a) : (a \o b)[k] = a[k] /\ a[k] \in Nat
  OBVIOUS
<1>4. ASSUME NEW k \in (Len(a) + 1)..(Len(a) + Len(b))
      PROVE  (a \o b)[k] = b[k - Len(a)] /\ k - Len(a) \in 1..Len(b)
  BY <1>1
<1>5. ASSUME NEW k \in 1..Len(b)
      PROVE  (a \o b)[k + Len(a)] = b[k] /\ k + Len(a) \in 1..(Len(a) + Len(b))
  <2>1. k + Len(a) \in (Len(a) + 1)..(Len(a) + Len(b)) /\ k + Len(a) - Len(a) = k
    BY <1>1
  <2> QED
    BY <1>1, <1>4, <2>1
<1> QED
  BY <1>1, <1>2, <1>3, <1>4, <1>5, Zenon

\* The nodes of the table with a record are P, and each record fits in the room.
NeedsOf(need, end, room, P) ==
  \A i \in 0..(end - 1) : need[i] \in Nat /\ need[i] <= room /\ (need[i] > 0 <=> i \in P)

\* None of the nodes that a walk leaves out before it starts is one of them.
Passes(pos, start, P) == \A i \in pos..(start - 1) : i \notin P

\* A reply: where the walk stopped, and the nodes listed.
Replied(stop, l, need, end, start, room) ==
  stop = StopsAt(need, end, start, room) /\ l = Listing(need, start, stop)

\* One reply adds the nodes up to the next cookie; without a record it is the last.
LEMMA Reply ==
  ASSUME NEW end \in Nat, NEW P \in SUBSET (0..(end - 1)), NEW there \in SUBSET P, NEW room \in Nat,
         NEW need, NeedsOf(need, end, room, P),
         NEW pos \in 0..end, NEW start \in pos..end, Passes(pos, start, P),
         NEW got, GotOK(got, pos, P, there),
         NEW stop, NEW l, Replied(stop, l, need, end, start, room)
  PROVE  /\ stop \in 0..end
         /\ GotOK(got \o l, stop, P, there)
         /\ l = <<>> => stop = end
<1> USE DEF NeedsOf, Passes, Replied
<1>1. start \in Nat /\ start <= end /\ pos \in Nat /\ pos <= start
  OBVIOUS
<1>2. \A i \in start..(end - 1) : need[i] \in Nat /\ need[i] <= room
  BY <1>1
<1>3. stop \in start..end /\ (stop < end => \E i \in start..(stop - 1) : need[i] > 0)
  BY <1>1, <1>2, Stops
<1>4. stop \in Nat
  BY <1>1, <1>3
<1>5. Lists(l, need, start, stop)
  BY <1>1, <1>4, ListingIs
<1>6. \A k \in 1..Len(l) : l[k] \in start..(stop - 1) /\ l[k] \in P
  <2> TAKE k \in 1..Len(l)
  <2>1. l[k] \in start..(stop - 1) /\ need[l[k]] > 0
    BY <1>5 DEF Lists
  <2>2. l[k] \in 0..(end - 1)
    BY <1>1, <1>3, <2>1
  <2> QED
    BY <2>1, <2>2
<1> DEFINE g == got \o l
           n == Len(got)
           m == Len(l)
<1>7. got \in Seq(Nat) /\ l \in Seq(Nat)
  BY <1>5 DEF Lists, GotOK
<1>8. /\ n \in Nat /\ m \in Nat
      /\ g \in Seq(Nat) /\ Len(g) = n + m
      /\ \A k \in 1..n : g[k] = got[k] /\ got[k] \in Nat
      /\ \A k \in (n + 1)..(n + m) : g[k] = l[k - n] /\ k - n \in 1..m
      /\ \A k \in 1..m : g[k + n] = l[k] /\ k + n \in 1..(n + m)
  BY <1>7, Joined
<1> HIDE DEF g, n, m
<1>9. \A k \in 1..(n + m) : k \in 1..n \/ k \in (n + 1)..(n + m)
  BY <1>8
<1>10. \A k \in 1..n : g[k] \in P /\ g[k] < pos /\ g[k] \in Nat
  BY <1>8 DEF GotOK, n
<1>11. \A k \in (n + 1)..(n + m) : g[k] \in P /\ g[k] \in start..(stop - 1)
  BY <1>6, <1>8 DEF m
<1>12. \A k \in 1..Len(g) : g[k] \in P /\ g[k] < stop
  <2> TAKE k \in 1..Len(g)
  <2>1. CASE k \in 1..n
    BY <1>1, <1>3, <1>10, <2>1
  <2>2. CASE k \in (n + 1)..(n + m)
    BY <1>1, <1>3, <1>11, <2>2
  <2> QED
    BY <1>8, <1>9, <2>1, <2>2
<1>13. ASSUME NEW k \in 1..Len(g), NEW k2 \in 1..Len(g), g[k] = g[k2]
       PROVE  k = k2
  <2>1. CASE k \in 1..n /\ k2 \in 1..n
    BY <1>8, <1>13, <2>1 DEF GotOK, n
  <2>2. CASE k \in (n + 1)..(n + m) /\ k2 \in (n + 1)..(n + m)
    <3>1. l[k - n] = l[k2 - n] /\ k - n \in 1..m /\ k2 - n \in 1..m
      BY <1>8, <1>13, <2>2
    <3>2. k - n = k2 - n
      BY <1>5, <3>1 DEF m, Lists
    <3> QED
      BY <1>8, <2>2, <3>2
  <2>3. CASE k \in 1..n /\ k2 \in (n + 1)..(n + m)
    BY <1>1, <1>10, <1>11, <1>13, <2>3
  <2>4. CASE k2 \in 1..n /\ k \in (n + 1)..(n + m)
    BY <1>1, <1>10, <1>11, <1>13, <2>4
  <2> QED
    BY <1>8, <1>9, <2>1, <2>2, <2>3, <2>4
<1>14. ASSUME NEW i \in there, i < stop
       PROVE  \E k \in 1..Len(g) : g[k] = i
  <2>1. i \in P /\ i \in 0..(end - 1)
    OBVIOUS
  <2>2. CASE i < pos
    <3>1. PICK k \in 1..n : got[k] = i
      BY <2>2 DEF GotOK, n
    <3> QED
      BY <1>8, <3>1
  <2>3. CASE ~(i < start)
    <3>1. i \in start..(stop - 1) /\ need[i] > 0
      BY <1>1, <1>4, <1>14, <2>1, <2>3
    <3>2. PICK k \in 1..m : l[k] = i
      BY <1>5, <3>1 DEF m, Lists
    <3> QED
      BY <1>8, <3>2
  <2>4. i < pos \/ ~(i < start)
    BY <1>1, <2>1
  <2> QED
    BY <2>2, <2>3, <2>4
<1>15. ASSUME l = <<>>
       PROVE  stop = end
  <2>1. ~ \E i \in start..(stop - 1) : need[i] > 0
    BY <1>5, <1>15 DEF Lists
  <2> QED
    BY <1>1, <1>3, <1>4, <2>1
<1>16. GotOK(g, stop, P, there)
  BY <1>8, <1>12, <1>13, <1>14 DEF GotOK
<1> QED
  BY <1>1, <1>3, <1>15, <1>16 DEF g

\* The job of a process: reading a directory, or a file.
ScanJob == [op : {"scan"}, fs : {"devfs", "ifs"}, node : Nat, sz : Sizes, pos : Nat,
            got : Seq(Nat), there : SUBSET Nat, ended : BOOLEAN]
ReadJob == [op : {"read"}, fs : {"ifs"}, node : IfsNodes, sz : Sizes, pos : Nat,
            got : Seq(Nat), there : SUBSET Nat, ended : BOOLEAN]

ScanOK(j) ==
  /\ j \in ScanJob /\ j.pos <= End(j)
  /\ j.there \subseteq Present(j.fs, j.node)
  /\ GotOK(j.got, j.pos, Present(j.fs, j.node), j.there)
  /\ j.ended => j.pos = End(j)

ReadOK(j) ==
  /\ j \in ReadJob /\ j.pos <= End(j)
  /\ j.got = [k \in 1..j.pos |-> ifs_inode_table[j.node].offset + k - 1]
  /\ j.ended => j.pos = End(j)

\* What every process has got so far.
JobInv ==
  /\ DOMAIN job = Processes
  /\ job = [p \in Processes |-> job[p]]
  /\ \A p \in Processes : job[p] = Idle \/ ScanOK(job[p]) \/ ReadOK(job[p])

LEMMA TableEnds ==
  /\ DEVFS_MAX_INODE \in Nat \ {0} /\ Nodes = 0..(DEVFS_MAX_INODE - 1)
  /\ node_cnt \in Nat /\ IfsNodes = 0..(node_cnt - 1) /\ 0 \in IfsNodes
<1>1. IsFiniteSet(IfsNodes)
  BY IfsAssumption
<1>2. node_cnt \in Nat
  BY <1>1, FS_CardinalityType DEF node_cnt
<1> QED
  BY <1>2, DevFsAssumption, IfsAssumption DEF Nodes

\* The nodes of a directory are in its table, and a lookup of their names finds them.
LEMMA PresentIn ==
  ASSUME TableInv, NEW j \in ScanJob
  PROVE  /\ Present(j.fs, j.node) \in SUBSET (0..(End(j) - 1)) /\ End(j) \in Nat
         /\ \A i \in Present(j.fs, j.node) : Lookup(j.fs, j.node, NameOf(j.fs, i)) = {i}
<1>1. j.op = "scan" /\ j.fs \in {"devfs", "ifs"}
  BY DEF ScanJob
<1>2. CASE j.fs = "devfs"
  <2>1. Present(j.fs, j.node) = {i \in Nodes : devfs_inode_table[i].name # NoName}
    BY <1>2 DEF Present
  <2>2. End(j) = DEVFS_MAX_INODE
    BY <1>1, <1>2 DEF End
  <2>3. ASSUME NEW i \in Present(j.fs, j.node)
        PROVE  Lookup(j.fs, j.node, NameOf(j.fs, i)) = {i}
    <3>1. i \in Nodes \ {0} /\ devfs_inode_table[i].name # NoName
      BY <2>1, <2>3 DEF TableInv
    <3> DEFINE nm == devfs_inode_table[i].name
    <3>2. Named(nm) = {i}
      BY <3>1 DEF Named, TableInv
    <3>3. First(Named(nm)) = i
      <4>1. Named(nm) \in SUBSET Nodes
        BY DEF Named
      <4> QED
        BY <3>2, <4>1, FirstOf
    <3>4. DevfsLookup(nm) = {i}
      BY <3>2, <3>3 DEF DevfsLookup
    <3> QED
      BY <1>2, <3>4 DEF Lookup, NameOf
  <2> QED
    BY <2>1, <2>2, <2>3, TableEnds
<1>3. CASE j.fs = "ifs"
  <2>1. Present(j.fs, j.node) = IfsEntries(j.node)
    BY <1>3 DEF Present
  <2>2. End(j) = node_cnt
    BY <1>1, <1>3 DEF End
  <2>3. ASSUME NEW i \in Present(j.fs, j.node)
        PROVE  Lookup(j.fs, j.node, NameOf(j.fs, i)) = {i}
    <3> DEFINE nm == ifs_inode_table[i].name
               found == {k \in IfsNodes : ifs_inode_table[k].parent = j.node /\ ifs_inode_table[k].name = nm}
    <3>1. i \in IfsNodes /\ nm # "" /\ ifs_inode_table[i].parent = j.node
      BY <2>1, <2>3 DEF IfsEntries
    <3>2. \A k \in found : k = i
      BY <3>1, IfsAssumption DEF IfsEntries
    <3>3. found = {i}
      BY <3>1, <3>2
    <3>4. i \in Nat
      <4>1. IfsNodes \subseteq Nat
        BY TableEnds
      <4> QED
        BY <3>1, <4>1, Zenon
    <3>5. IfsLookup(j.node, nm) = {k \in found : \A l \in found : k <= l}
      BY Zenon DEF IfsLookup
    <3> HIDE DEF found
    <3>6. IfsLookup(j.node, nm) = {i}
      BY <3>3, <3>4, <3>5
    <3> QED
      BY <1>3, <3>6 DEF Lookup, NameOf
  <2>4. IfsEntries(j.node) \subseteq IfsNodes
    BY DEF IfsEntries
  <2> QED
    BY <2>1, <2>2, <2>3, <2>4, TableEnds
<1> QED
  BY <1>1, <1>2, <1>3

\* What a job says of the table is only which nodes a directory has, and those stay.
LEMMA JobStays ==
  ASSUME NEW j, j = Idle \/ ScanOK(j) \/ ReadOK(j),
         \A fs, dir : Present(fs, dir) \subseteq Present(fs, dir)'
  PROVE  j = Idle \/ ScanOK(j)' \/ ReadOK(j)'
<1>1. CASE ScanOK(j)
  <2>1. Present(j.fs, j.node) \subseteq Present(j.fs, j.node)'
    OBVIOUS
  <2>2. j.there \subseteq Present(j.fs, j.node)'
    BY <1>1, <2>1 DEF ScanOK
  <2>3. GotOK(j.got, j.pos, Present(j.fs, j.node)', j.there)
    BY <1>1, <2>1 DEF ScanOK, GotOK
  <2> QED
    BY <1>1, <2>2, <2>3, Zenon DEF ScanOK, End, GotOK
<1>2. CASE ReadOK(j)
  BY <1>2 DEF ReadOK, End
<1> QED
  BY <1>1, <1>2

LEMMA JobsStay ==
  ASSUME JobInv, UNCHANGED job,
         \A fs, dir : Present(fs, dir) \subseteq Present(fs, dir)'
  PROVE  JobInv'
<1>1. ASSUME NEW p \in Processes
      PROVE  (job[p] = Idle \/ ScanOK(job[p]) \/ ReadOK(job[p]))'
  <2>1. PICK j : j = job[p] /\ j = job'[p]
    OBVIOUS
  <2>2. j = Idle \/ ScanOK(j) \/ ReadOK(j)
    BY <2>1 DEF JobInv
  <2>3. j = Idle \/ ScanOK(j)' \/ ReadOK(j)'
    BY <2>2, JobStays
  <2> QED
    BY <2>1, <2>3 DEF ScanOK, ReadOK, End
<1> QED
  BY <1>1 DEF JobInv

\* One process does something and the table stays.
LEMMA JobStep ==
  ASSUME JobInv, NEW p \in Processes, UNCHANGED devfs_inode_table,
         NEW j, job' = [job EXCEPT ![p] = j], j = Idle \/ ScanOK(j) \/ ReadOK(j)
  PROVE  JobInv'
<1>1. \A fs, dir : Present(fs, dir) \subseteq Present(fs, dir)'
  BY DEF Present, NoName
<1>2. DOMAIN job' = Processes /\ job' = [q \in Processes |-> job'[q]]
  BY DEF JobInv
<1>3. ASSUME NEW q \in Processes
      PROVE  (job[q] = Idle \/ ScanOK(job[q]) \/ ReadOK(job[q]))'
  <2>1. PICK k : k = job'[q]
    OBVIOUS
  <2>2. k = Idle \/ ScanOK(k) \/ ReadOK(k)
    <3>1. k = j \/ k = job[q]
      BY <2>1 DEF JobInv
    <3>2. job[q] = Idle \/ ScanOK(job[q]) \/ ReadOK(job[q])
      BY DEF JobInv
    <3> QED
      BY <3>1, <3>2
  <2>3. k = Idle \/ ScanOK(k)' \/ ReadOK(k)'
    BY <1>1, <2>2, JobStays
  <2> QED
    BY <2>1, <2>3 DEF ScanOK, ReadOK, End
<1> QED
  BY <1>2, <1>3 DEF JobInv

\* mknod takes no node away from a directory.
LEMMA MknodGrows ==
  ASSUME Inv, NEW nm \in DeviceNames, NEW mode \in Modes, Mknod(nm, mode)
  PROVE  \A fs, dir : Present(fs, dir) \subseteq Present(fs, dir)'
<1>1. PICK k \in Nodes \ {0} :
        /\ devfs_inode_table[k].name = NoName
        /\ devfs_inode_table' = [devfs_inode_table EXCEPT ![k] = [name |-> nm, mode |-> mode]]
  BY MknodTable DEF Mknod
<1>2. \A i \in Nodes : devfs_inode_table[i].name # NoName => devfs_inode_table'[i].name # NoName
  BY <1>1 DEF Inv, TableInv
<1> QED
  BY <1>2 DEF Present, Nodes, NoName

LEMMA NothingGot ==
  ASSUME NEW P, NEW there \in SUBSET Nat
  PROVE  GotOK(<<>>, 0, P, there)
BY DEF GotOK

LEMMA OpenDirInv ==
  ASSUME Inv, JobInv, NEW p \in Processes, NEW fs \in {"devfs", "ifs"}, NEW dir \in Nat,
         NEW sz \in Sizes, OpenDir(p, fs, dir, sz)
  PROVE  JobInv'
<1> DEFINE j == [op |-> "scan", fs |-> fs, node |-> dir, sz |-> sz, pos |-> 0,
                 got |-> <<>>, there |-> Present(fs, dir), ended |-> FALSE]
           P == Present(fs, dir)
<1>1. job' = [job EXCEPT ![p] = j] /\ UNCHANGED devfs_inode_table
  BY DEF OpenDir
<1>2. /\ j.op = "scan" /\ j.fs = fs /\ j.node = dir /\ j.sz = sz /\ j.pos = 0 /\ j.got = <<>>
      /\ j.there = P /\ j.ended = FALSE
  OBVIOUS
<1>3. P \in SUBSET Nat
  <2>1. Nodes \subseteq Nat /\ IfsNodes \subseteq Nat
    BY TableEnds
  <2> QED
    BY <2>1 DEF Present, IfsEntries
<1>4. j \in ScanJob
  BY <1>3 DEF ScanJob
<1>5. End(j) \in Nat
  BY <1>4, PresentIn DEF Inv
<1> HIDE DEF j, P
<1>6. GotOK(j.got, j.pos, P, j.there)
  BY <1>2, <1>3, NothingGot, Zenon
<1>7. ScanOK(j)
  <2>1. GotOK(j.got, j.pos, Present(j.fs, j.node), j.there)
    BY <1>2, <1>6, Zenon DEF P
  <2> QED
    BY <1>2, <1>4, <1>5, <2>1 DEF ScanOK, P
<1> QED
  BY <1>1, <1>7, JobStep

\* The lengths of the records and the room for them.
LEMMA DevfsFits ==
  ASSUME TableInv, NEW sz \in Sizes
  PROVE  /\ DevfsRoom(sz) \in Nat
         /\ \A i \in Nodes :
              /\ DevfsNeed[i] \in Nat /\ DevfsNeed[i] <= DevfsRoom(sz)
              /\ DevfsNeed[i] > 0 <=> devfs_inode_table[i].name # NoName
<1>1. sz \in Nat /\ DevfsBufSz \in Nat
  BY TableFsAssumption, DevFsAssumption
<1>2. ASSUME NEW i \in Nodes
      PROVE  /\ DevfsNeed[i] \in Nat /\ DevfsNeed[i] <= DevfsRoom(sz)
             /\ DevfsNeed[i] > 0 <=> devfs_inode_table[i].name # NoName
  <2>1. CASE devfs_inode_table[i].name = NoName
    BY <1>1, <2>1 DEF DevfsNeed, DevfsRoom
  <2>2. CASE devfs_inode_table[i].name # NoName
    <3> DEFINE nm == devfs_inode_table[i].name
    <3>1. nm \in DeviceNames
      BY <2>2 DEF TableInv, Free
    <3>2. RecordSize[nm] \in 1..DevfsBufSz /\ RecordSize[nm] <= sz
      BY <3>1, TableFsAssumption, DevFsAssumption
    <3>3. DevfsNeed[i] = RecordSize[nm]
      BY <2>2 DEF DevfsNeed
    <3> QED
      BY <1>1, <2>2, <3>2, <3>3 DEF DevfsRoom
  <2> QED
    BY <2>1, <2>2
<1> QED
  BY <1>1, <1>2 DEF DevfsRoom

LEMMA IfsFits ==
  ASSUME NEW sz \in Sizes, NEW dir
  PROVE  /\ IfsRoom(sz) \in Nat
         /\ \A i \in IfsNodes :
              /\ IfsNeed(dir)[i] \in Nat /\ IfsNeed(dir)[i] <= IfsRoom(sz)
              /\ IfsNeed(dir)[i] > 0 <=> i \in IfsEntries(dir)
<1>1. sz \in Nat /\ IfsBufSz \in Nat
  BY TableFsAssumption, IfsAssumption
<1>2. ASSUME NEW i \in IfsNodes
      PROVE  /\ IfsNeed(dir)[i] \in Nat /\ IfsNeed(dir)[i] <= IfsRoom(sz)
             /\ IfsNeed(dir)[i] > 0 <=> i \in IfsEntries(dir)
  <2>1. CASE i \notin IfsEntries(dir)
    BY <1>1, <2>1 DEF IfsNeed, IfsRoom
  <2>2. CASE i \in IfsEntries(dir)
    <3> DEFINE need == IfsRecordSize[ifs_inode_table[i].name]
    <3>1. ifs_inode_table[i].name # ""
      BY <2>2 DEF IfsEntries
    <3>2. need \in 1..IfsBufSz /\ need <= sz
      BY <3>1, TableFsAssumption, IfsAssumption
    <3>3. IfsNeed(dir)[i] = need
      BY <2>2 DEF IfsNeed
    <3> QED
      BY <1>1, <2>2, <3>2, <3>3 DEF IfsRoom
  <2> QED
    BY <2>1, <2>2
<1> QED
  BY <1>1, <1>2 DEF IfsRoom

\* A reply of either server to a scan.
LEMMA Replies ==
  ASSUME TableInv, NEW j, ScanOK(j),
         NEW r, r = IF j.fs = "devfs" THEN DevfsReaddir(j.pos, j.sz) ELSE IfsReaddir(j.node, j.pos, j.sz)
  PROVE  /\ r.cookie \in 0..End(j)
         /\ GotOK(j.got \o r.nodes, r.cookie, Present(j.fs, j.node), j.there)
         /\ r.nodes = <<>> => r.cookie = End(j)
<1> DEFINE end == End(j)
           P == Present(j.fs, j.node)
<1>1. /\ j.op = "scan" /\ j.fs \in {"devfs", "ifs"} /\ j.sz \in Sizes /\ j.pos \in Nat
      /\ j.there \in SUBSET P
  BY DEF ScanOK, ScanJob
<1>2. end \in Nat /\ P \in SUBSET (0..(end - 1)) /\ j.pos \in 0..end
  BY <1>1, PresentIn DEF ScanOK
<1>3. GotOK(j.got, j.pos, P, j.there)
  BY DEF ScanOK
<1>4. CASE j.fs = "devfs"
  <2> DEFINE start == IF j.pos = 0 THEN 1 ELSE j.pos
             room == DevfsRoom(j.sz)
             stop == StopsAt(DevfsNeed, end, start, room)
             l == Listing(DevfsNeed, start, stop)
  <2>1. end = DEVFS_MAX_INODE /\ end > 0 /\ Nodes = 0..(end - 1)
    BY <1>1, <1>4, TableEnds DEF End
  <2>2. P = {i \in Nodes : devfs_inode_table[i].name # NoName} /\ 0 \notin P
    BY <1>4 DEF Present, TableInv
  <2>3. start \in j.pos..end /\ \A i \in j.pos..(start - 1) : i \notin P
    BY <1>2, <2>1, <2>2
  <2>4. room \in Nat
        /\ \A i \in 0..(end - 1) :
             DevfsNeed[i] \in Nat /\ DevfsNeed[i] <= room /\ (DevfsNeed[i] > 0 <=> i \in P)
    <3>1. \A i \in 0..(end - 1) : i \in Nodes /\ (i \in P <=> devfs_inode_table[i].name # NoName)
      BY <2>1, <2>2, Zenon
    <3> HIDE DEF end, P
    <3> QED
      BY <1>1, <3>1, DevfsFits
  <2>5. r = [nodes |-> l, cookie |-> stop]
    BY <1>4, <2>1, Zenon DEF DevfsReaddir
  <2> HIDE DEF stop, l
  <2>6. r.nodes = l /\ r.cookie = stop
    BY <2>5
  <2> HIDE DEF end, P, start, room
  <2>7. PICK need : need = DevfsNeed
    OBVIOUS
  <2>8. NeedsOf(need, end, room, P)
    BY <2>4, <2>7 DEF NeedsOf
  <2>9. Replied(stop, l, need, end, start, room)
    BY <2>7, Zenon DEF Replied, stop, l
  <2>10. stop \in 0..end /\ GotOK(j.got \o l, stop, P, j.there) /\ (l = <<>> => stop = end)
    <3>1. PICK pos, got, there : pos = j.pos /\ got = j.got /\ there = j.there
      OBVIOUS
    <3>2. there \in SUBSET P /\ pos \in 0..end /\ GotOK(got, pos, P, there)
      BY <1>1, <1>2, <1>3, <3>1
    <3>3. start \in pos..end /\ Passes(pos, start, P)
      BY <2>3, <3>1 DEF Passes
    <3>4. end \in Nat /\ P \in SUBSET (0..(end - 1)) /\ room \in Nat
      BY <1>2, <2>4
    <3>5. stop \in 0..end /\ GotOK(got \o l, stop, P, there) /\ (l = <<>> => stop = end)
      <4>1. PICK from : from = start
        OBVIOUS
      <4>2. from \in pos..end /\ Passes(pos, from, P) /\ Replied(stop, l, need, end, from, room)
        BY <2>9, <3>3, <4>1, Zenon
      <4> QED
        BY <2>8, <3>2, <3>4, <4>2, Reply, SMTT(60)
    <3> QED
      BY <3>1, <3>5
  <2> QED
    BY <2>6, <2>10 DEF end, P
<1>5. CASE j.fs = "ifs"
  <2> DEFINE room == IfsRoom(j.sz)
             stop == StopsAt(IfsNeed(j.node), end, j.pos, room)
             l == Listing(IfsNeed(j.node), j.pos, stop)
  <2>1. end = node_cnt /\ IfsNodes = 0..(end - 1)
    BY <1>1, <1>5, TableEnds DEF End
  <2>2. P = IfsEntries(j.node)
    BY <1>5 DEF Present
  <2>3. j.pos \in j.pos..end /\ \A i \in j.pos..(j.pos - 1) : i \notin P
    BY <1>2
  <2>4. room \in Nat
        /\ \A i \in 0..(end - 1) :
             /\ IfsNeed(j.node)[i] \in Nat /\ IfsNeed(j.node)[i] <= room
             /\ IfsNeed(j.node)[i] > 0 <=> i \in P
    BY <1>1, <2>1, <2>2, IfsFits
  <2>5. r = [nodes |-> l, cookie |-> stop]
    BY <1>5, <2>1, Zenon DEF IfsReaddir
  <2> HIDE DEF stop, l
  <2>6. r.nodes = l /\ r.cookie = stop
    BY <2>5
  <2> HIDE DEF end, P, room
  <2>7. PICK need : need = IfsNeed(j.node)
    OBVIOUS
  <2>8. NeedsOf(need, end, room, P)
    BY <2>4, <2>7 DEF NeedsOf
  <2>9. Replied(stop, l, need, end, j.pos, room)
    BY <2>7, Zenon DEF Replied, stop, l
  <2>10. stop \in 0..end /\ GotOK(j.got \o l, stop, P, j.there) /\ (l = <<>> => stop = end)
    <3>1. PICK pos, got, there : pos = j.pos /\ got = j.got /\ there = j.there
      OBVIOUS
    <3>2. there \in SUBSET P /\ pos \in 0..end /\ GotOK(got, pos, P, there)
      BY <1>1, <1>2, <1>3, <3>1
    <3>3. pos \in pos..end /\ Passes(pos, pos, P)
      BY <2>3, <3>1 DEF Passes
    <3>4. end \in Nat /\ P \in SUBSET (0..(end - 1)) /\ room \in Nat
      BY <1>2, <2>4
    <3>5. stop \in 0..end /\ GotOK(got \o l, stop, P, there) /\ (l = <<>> => stop = end)
      <4>1. Replied(stop, l, need, end, pos, room)
        BY <2>9, <3>1, Zenon
      <4> QED
        BY <2>8, <3>2, <3>3, <3>4, <4>1, Reply, SMTT(60)
    <3> QED
      BY <3>1, <3>5
  <2> QED
    BY <2>6, <2>10 DEF end, P
<1> QED
  BY <1>1, <1>4, <1>5

LEMMA ReaddirInv ==
  ASSUME Inv, JobInv, NEW p \in Processes, Readdir(p)
  PROVE  JobInv'
<1>1. PICK j : j = job[p]
  OBVIOUS
<1>2. PICK r : r = IF j.fs = "devfs" THEN DevfsReaddir(j.pos, j.sz) ELSE IfsReaddir(j.node, j.pos, j.sz)
  OBVIOUS
<1>3. ScanOK(j)
  <2>1. j = Idle \/ ScanOK(j) \/ ReadOK(j)
    BY <1>1 DEF JobInv
  <2>2. j.op = "scan"
    BY <1>1 DEF Readdir
  <2> QED
    BY <2>1, <2>2 DEF Idle, ReadOK, ReadJob
<1> DEFINE k == [j EXCEPT !.pos = r.cookie, !.got = j.got \o r.nodes, !.ended = (r.nodes = <<>>)]
<1>4. job' = [job EXCEPT ![p] = k] /\ UNCHANGED devfs_inode_table
  BY <1>1, <1>2 DEF Readdir, JobInv
<1>5. j \in ScanJob
  BY <1>3 DEF ScanOK
<1>6. /\ r.cookie \in 0..End(j)
      /\ GotOK(j.got \o r.nodes, r.cookie, Present(j.fs, j.node), j.there)
      /\ r.nodes = <<>> => r.cookie = End(j)
  BY <1>2, <1>3, Replies DEF Inv
<1>7. End(j) \in Nat
  BY <1>5, PresentIn DEF Inv
<1>8. /\ k.op = "scan" /\ k.fs = j.fs /\ k.node = j.node /\ k.there = j.there
      /\ k.pos = r.cookie /\ k.got = j.got \o r.nodes /\ k.ended = (r.nodes = <<>>)
  BY <1>5 DEF ScanJob
<1>9. k \in ScanJob
  <2>1. j.got \o r.nodes \in Seq(Nat) /\ r.cookie \in Nat /\ (r.nodes = <<>>) \in BOOLEAN
    BY <1>6, <1>7 DEF GotOK
  <2> QED
    BY <1>5, <2>1 DEF ScanJob
<1>10. End(k) = End(j)
  BY <1>5, <1>8 DEF End, ScanJob
<1> HIDE DEF k
<1>11. ScanOK(k)
  <2>1. GotOK(k.got, k.pos, Present(k.fs, k.node), k.there)
    BY <1>6, <1>8, Zenon
  <2>2. k.pos <= End(k)
    BY <1>6, <1>7, <1>8, <1>10
  <2>3. k.ended => k.pos = End(k)
    BY <1>6, <1>8, <1>10, Zenon
  <2>4. k.there \subseteq Present(k.fs, k.node)
    BY <1>3, <1>8, Zenon DEF ScanOK
  <2> QED
    BY <1>9, <2>1, <2>2, <2>3, <2>4 DEF ScanOK
<1> QED
  BY <1>4, <1>11, JobStep

LEMMA OpenFileInv ==
  ASSUME JobInv, NEW p \in Processes, NEW ino \in IfsNodes, NEW sz \in Sizes, OpenFile(p, ino, sz)
  PROVE  JobInv'
<1> DEFINE j == [op |-> "read", fs |-> "ifs", node |-> ino, sz |-> sz, pos |-> 0,
                 got |-> <<>>, there |-> {}, ended |-> FALSE]
<1>1. job' = [job EXCEPT ![p] = j] /\ UNCHANGED devfs_inode_table
  BY DEF OpenFile
<1>2. ifs_inode_table[ino].size \in Nat
  BY IfsAssumption
<1>3. j \in ReadJob /\ End(j) = ifs_inode_table[ino].size
  BY DEF ReadJob, End
<1>4. <<>> = [k \in 1..0 |-> ifs_inode_table[ino].offset + k - 1]
  OBVIOUS
<1>5. j.pos = 0 /\ j.got = <<>> /\ j.node = ino /\ j.ended = FALSE
  OBVIOUS
<1> HIDE DEF j
<1>6. ReadOK(j)
  BY <1>2, <1>3, <1>4, <1>5 DEF ReadOK
<1> QED
  BY <1>1, <1>6, JobStep

\* Bytes that follow each other.
Bytes(s, o, n) == s = [k \in 1..n |-> o + k - 1]

LEMMA BytesJoin ==
  ASSUME NEW o \in Nat, NEW pos \in Nat, NEW n \in Nat, NEW a, NEW b,
         Bytes(a, o, pos), Bytes(b, o + pos, n)
  PROVE  Bytes(a \o b, o, pos + n)
<1>1. a \in Seq(Int) /\ Len(a) = pos /\ b \in Seq(Int) /\ Len(b) = n
  BY DEF Bytes
<1> QED
  BY <1>1 DEF Bytes

LEMMA ReadInv ==
  ASSUME JobInv, NEW p \in Processes, Read(p)
  PROVE  JobInv'
<1>1. PICK j : j = job[p]
  OBVIOUS
<1>2. ReadOK(j)
  <2>1. j = Idle \/ ScanOK(j) \/ ReadOK(j)
    BY <1>1 DEF JobInv
  <2>2. j.op = "read"
    BY <1>1 DEF Read
  <2> QED
    BY <2>1, <2>2 DEF Idle, ScanOK, ScanJob
<1>3. j \in ReadJob /\ j.op = "read" /\ j.node \in IfsNodes /\ j.sz \in Sizes /\ j.pos \in Nat
  BY <1>2 DEF ReadOK, ReadJob
<1> DEFINE size == ifs_inode_table[j.node].size
           o == ifs_inode_table[j.node].offset
           count == IfsReadCount(j.node, j.pos, j.sz)
<1>4. size \in Nat /\ o \in Nat /\ j.sz \in Nat \ {0}
  BY <1>3, IfsAssumption, TableFsAssumption
<1>5. End(j) = size /\ j.pos <= size
  BY <1>2, <1>3 DEF End, ReadOK
<1>6. count \in Nat /\ j.pos + count <= size /\ (count = 0 => j.pos = size)
  BY <1>3, <1>4, <1>5 DEF IfsReadCount
<1>7. PICK n \in 0..count :
        /\ count >= 1 => n >= 1
        /\ job' = [job EXCEPT ![p].pos = @ + n, ![p].got = @ \o IfsReadBytes(j.node, j.pos, n),
                              ![p].ended = (n = 0)]
  BY <1>1 DEF Read
<1> DEFINE k == [j EXCEPT !.pos = j.pos + n, !.got = j.got \o IfsReadBytes(j.node, j.pos, n),
                          !.ended = (n = 0)]
<1>8. job' = [job EXCEPT ![p] = k] /\ UNCHANGED devfs_inode_table
  <2>1. DOMAIN job = Processes /\ UNCHANGED devfs_inode_table
    BY DEF Read, JobInv
  <2> HIDE DEF count
  <2>2. PICK b : b = IfsReadBytes(j.node, j.pos, n)
    OBVIOUS
  <2>3. job' = [job EXCEPT ![p].pos = @ + n, ![p].got = @ \o b, ![p].ended = (n = 0)]
    BY <1>7, <2>2, Zenon
  <2>4. job' = [job EXCEPT ![p] = [j EXCEPT !.pos = j.pos + n, !.got = j.got \o b, !.ended = (n = 0)]]
    BY <1>1, <2>1, <2>3
  <2> QED
    BY <2>1, <2>2, <2>4, Zenon
<1> HIDE DEF size, o, count
<1>9. n \in Nat /\ j.pos + n \in Nat /\ j.pos + n <= size /\ (n = 0 => j.pos + n = size)
  BY <1>3, <1>4, <1>6, <1>7
<1>10. j.got = [i \in 1..j.pos |-> o + i - 1]
       /\ IfsReadBytes(j.node, j.pos, n) = [i \in 1..n |-> o + j.pos + i - 1]
  BY <1>2, Zenon DEF ReadOK, IfsReadBytes, o
<1>11. PICK a, b : a = j.got /\ b = IfsReadBytes(j.node, j.pos, n)
  OBVIOUS
<1>12. a \o b = [i \in 1..(j.pos + n) |-> o + i - 1]
  <2>1. PICK pos : pos = j.pos
    OBVIOUS
  <2>2. Bytes(a, o, pos) /\ Bytes(b, o + pos, n)
    BY <1>10, <1>11, <2>1, Zenon DEF Bytes
  <2>3. pos \in Nat /\ o \in Nat /\ n \in Nat
    BY <1>3, <1>4, <1>9, <2>1
  <2>4. Bytes(a \o b, o, pos + n)
    BY <2>2, <2>3, BytesJoin
  <2> QED
    BY <2>1, <2>4, Zenon DEF Bytes
<1>13. a \o b \in Seq(Nat)
  BY <1>4, <1>9, <1>12
<1>14. k.pos = j.pos + n /\ k.node = j.node /\ k.op = "read" /\ k.got = a \o b /\ k.ended = (n = 0)
  BY <1>3, <1>11 DEF ReadJob
<1>15. k \in ReadJob
  BY <1>3, <1>9, <1>11, <1>13 DEF ReadJob
<1>16. End(k) = size
  BY <1>14 DEF End, size
<1> HIDE DEF k
<1>17. k.got = [i \in 1..k.pos |-> ifs_inode_table[k.node].offset + i - 1]
  BY <1>12, <1>14 DEF o
<1>18. ReadOK(k)
  BY <1>9, <1>14, <1>15, <1>16, <1>17 DEF ReadOK
<1> QED
  BY <1>8, <1>18, JobStep

LEMMA NextJobs ==
  ASSUME Inv, JobInv, [Next]_vars
  PROVE  JobInv'
<1>1. ASSUME NEW nm \in DeviceNames, NEW mode \in Modes, Mknod(nm, mode)
      PROVE  JobInv'
  BY <1>1, MknodGrows, JobsStay DEF Mknod
<1>2. ASSUME UNCHANGED <<devfs_inode_table, job>>
      PROVE  JobInv'
  <2>1. \A fs, dir : Present(fs, dir) \subseteq Present(fs, dir)'
    BY <1>2 DEF Present, NoName
  <2> QED
    BY <1>2, <2>1, JobsStay
<1>3. ASSUME NEW p \in Processes, NEW sz \in Sizes, OpenDir(p, "devfs", 0, sz)
      PROVE  JobInv'
  BY <1>3, OpenDirInv
<1>4. ASSUME NEW p \in Processes, NEW sz \in Sizes, NEW dir \in IfsOf("dir"), OpenDir(p, "ifs", dir, sz)
      PROVE  JobInv'
  <2>1. dir \in Nat
    BY TableEnds DEF IfsOf
  <2> QED
    BY <1>4, <2>1, OpenDirInv
<1>5. ASSUME NEW p \in Processes, NEW sz \in Sizes, NEW ino \in IfsOf("file"), OpenFile(p, ino, sz)
      PROVE  JobInv'
  <2>1. ino \in IfsNodes
    BY DEF IfsOf
  <2> QED
    BY <1>5, <2>1, OpenFileInv
<1>6. ASSUME NEW p \in Processes, Readdir(p)
      PROVE  JobInv'
  BY <1>6, ReaddirInv
<1>7. ASSUME NEW p \in Processes, Read(p)
      PROVE  JobInv'
  BY <1>7, ReadInv
<1>8. ASSUME NEW p \in Processes, Close(p)
      PROVE  JobInv'
  BY <1>8, JobStep DEF Close
<1> QED
  BY <1>1, <1>2, <1>3, <1>4, <1>5, <1>6, <1>7, <1>8 DEF Next, LookupDevice, vars

LEMMA InitJobs == Init => JobInv
BY DEF Init, JobInv

\* Nobody is led beyond the end of what he reads, in steps of any size.
THEOREM TypeCorrect == Spec => []TypeOK
<1>1. Inv /\ JobInv => TypeOK
  <2> SUFFICES ASSUME Inv, JobInv
               PROVE  TypeOK
    OBVIOUS
  <2>1. ASSUME NEW p \in Processes, NEW j, j = job[p]
        PROVE  \/ j = Idle
               \/ /\ j.op \in {"scan", "read"} /\ j.fs \in {"devfs", "ifs"}
                  /\ j.sz \in Sizes /\ j.pos \in 0..End(j) /\ j.ended \in BOOLEAN
    <3>1. CASE ScanOK(j)
      <4>1. j \in ScanJob /\ j.pos <= End(j)
        BY <3>1 DEF ScanOK
      <4>2. End(j) \in Nat
        BY <4>1, PresentIn DEF Inv
      <4> QED
        BY <4>1, <4>2 DEF ScanJob
    <3>2. CASE ReadOK(j)
      <4>1. j \in ReadJob /\ j.pos <= End(j)
        BY <3>2 DEF ReadOK
      <4>2. End(j) \in Nat
        BY <4>1, IfsAssumption DEF End, ReadJob
      <4> QED
        BY <4>1, <4>2 DEF ReadJob
    <3> QED
      BY <2>1, <3>1, <3>2 DEF JobInv
  <2>2. /\ devfs_inode_table \in [Nodes -> [name : DeviceNames, mode : Modes] \union {Free}]
        /\ told \subseteq DeviceNames \X (Nodes \ {0})
    BY DEF Inv, TableInv, ToldInv
  <2> QED
    BY <2>1, <2>2 DEF TypeOK
<1>2. Inv /\ [Next]_vars => Inv'
  BY NextInv
<1>3. Inv /\ JobInv /\ [Next]_vars => JobInv'
  BY NextJobs
<1> QED
  BY <1>1, <1>2, <1>3, InitInv, InitJobs, PTL DEF Spec

\* A directory read in pieces misses no node that was there and repeats none, though
\* nodes are made in between, and a file read in pieces comes whole and in order: both
\* servers stop before the first record that does not fit and reply where they stopped.
THEOREM NothingIsMissed == Spec => []NothingMissed
<1>1. Inv /\ JobInv => NothingMissed
  <2> SUFFICES ASSUME Inv, JobInv, NEW p \in Processes, NEW j, j = job[p]
               PROVE  /\ j.op = "scan" =>
                           /\ IsInjective(j.got)
                           /\ \A i \in ToSet(j.got) : Lookup(j.fs, j.node, NameOf(j.fs, i)) = {i}
                           /\ \A i \in j.there : i < j.pos \/ j.ended => i \in ToSet(j.got)
                      /\ j.op = "read" =>
                           /\ j.got = [k \in 1..j.pos |-> ifs_inode_table[j.node].offset + k - 1]
                           /\ j.ended => j.pos = ifs_inode_table[j.node].size
    BY DEF NothingMissed
  <2>1. j = Idle \/ ScanOK(j) \/ ReadOK(j)
    BY DEF JobInv
  <2>2. CASE j = Idle
    BY <2>2 DEF Idle
  <2>3. CASE ScanOK(j)
    <3> DEFINE P == Present(j.fs, j.node)
    <3>1. j \in ScanJob /\ j.op = "scan" /\ j.there \subseteq P
      BY <2>3 DEF ScanOK, ScanJob
    <3>2. P \in SUBSET (0..(End(j) - 1)) /\ End(j) \in Nat
          /\ \A i \in P : Lookup(j.fs, j.node, NameOf(j.fs, i)) = {i}
      BY <3>1, PresentIn DEF Inv
    <3> HIDE DEF P
    <3>3. /\ j.got \in Seq(Nat)
          /\ \A k \in 1..Len(j.got) : j.got[k] \in P
          /\ \A k, l \in 1..Len(j.got) : j.got[k] = j.got[l] => k = l
          /\ \A i \in j.there : i < j.pos => \E k \in 1..Len(j.got) : j.got[k] = i
      BY <2>3 DEF ScanOK, GotOK, P
    <3>4. IsInjective(j.got)
      BY <3>3 DEF IsInjective
    <3>5. ToSet(j.got) = {j.got[k] : k \in 1..Len(j.got)}
      BY <3>3 DEF ToSet
    <3>6. \A i \in j.there : i < j.pos \/ j.ended => i < j.pos
      <4>1. j.ended => j.pos = End(j)
        BY <2>3 DEF ScanOK
      <4>2. PICK end : end = End(j)
        OBVIOUS
      <4>3. end \in Nat /\ \A i \in P : i \in 0..(end - 1)
        BY <3>2, <4>2, Zenon
      <4>4. \A i \in P : i < end
        BY <4>3
      <4> QED
        BY <3>1, <4>1, <4>2, <4>4
    <3>7. \A i \in ToSet(j.got) : Lookup(j.fs, j.node, NameOf(j.fs, i)) = {i}
      <4> TAKE i \in ToSet(j.got)
      <4>1. i \in P
        BY <3>3, <3>5
      <4> QED
        BY <3>2, <4>1, Zenon
    <3>8. \A i \in j.there : i < j.pos \/ j.ended => i \in ToSet(j.got)
      <4> SUFFICES ASSUME NEW i \in j.there, i < j.pos \/ j.ended
                   PROVE  i \in ToSet(j.got)
        OBVIOUS
      <4>1. PICK k \in 1..Len(j.got) : j.got[k] = i
        BY <3>3, <3>6, Zenon
      <4> QED
        BY <3>5, <4>1, Zenon
    <3> QED
      BY <3>1, <3>4, <3>7, <3>8
  <2>4. CASE ReadOK(j)
    BY <2>4 DEF ReadOK, ReadJob, End
  <2> QED
    BY <2>1, <2>2, <2>3, <2>4
<1>2. Inv /\ [Next]_vars => Inv'
  BY NextInv
<1>3. Inv /\ JobInv /\ [Next]_vars => JobInv'
  BY NextJobs
<1> QED
  BY <1>1, <1>2, <1>3, InitInv, InitJobs, PTL DEF Spec
==============================================================================
