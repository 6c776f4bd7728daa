----------------------------- MODULE ExtfsProofs -----------------------------
(***************************************************************************)
(* Theorems about Extfs, for any number of inodes, names and entries: the  *)
(* link counts follow the entries, rename loses nothing, and what fails    *)
(* leaves the directories alone.                                           *)
(***************************************************************************)
EXTENDS Extfs, FiniteSetTheorems, FunctionTheorems, SequenceTheorems, WellFoundedInduction, TLAPS

LEMMA Constants ==
  /\ FirstIno \in Nat /\ FirstIno > 2 /\ LastIno \in Nat /\ LastIno >= FirstIno
  /\ SubName \in Names /\ "." \notin Names /\ ".." \notin Names
  /\ MaxLen \in Nat /\ MaxLen >= 3
  /\ ROOT = 2 /\ Sub = FirstIno /\ ROOT \in Inos /\ Sub \in Inos /\ ROOT # Sub
  BY ExtfsAssumption DEF ROOT, Sub, Inos

LEMMA InosAre == \A n : n \in Inos <=> n = ROOT \/ (n \in Nat /\ FirstIno <= n /\ n <= LastIno)
  BY Constants DEF Inos

-------------------------------------------------------------------------------
(* Directories: a sequence that has grown by one entry.                    *)

EntryType == [name : Names \union {".", ".."}, ino : Inos]

\* Sequence t is s with x at position i.
Grown(s, t, i, x) ==
  /\ Len(t) = Len(s) + 1
  /\ i \in 1..Len(t)
  /\ t[i] = x
  /\ \A k \in 1..(i - 1) : t[k] = s[k]
  /\ \A k \in i..Len(s) : t[k + 1] = s[k]

LEMMA InsertGrows ==
  ASSUME NEW T, NEW s \in Seq(T), NEW x \in T, NEW i \in 1..(Len(s) + 1)
  PROVE  InsertAt(s, i, x) \in Seq(T) /\ Grown(s, InsertAt(s, i, x), i, x)
<1> DEFINE l == SubSeq(s, 1, i - 1)
           r == SubSeq(s, i, Len(s))
           t == (l \o <<x>>) \o r
<1>1. i \in Nat /\ Len(s) \in Nat /\ 1 <= i /\ i <= Len(s) + 1
  OBVIOUS
<1>2. l \in Seq(T) /\ Len(l) = i - 1 /\ \A k \in 1..(i - 1) : l[k] = s[k]
  BY <1>1
<1>3. r \in Seq(T) /\ Len(r) = Len(s) - i + 1 /\ \A k \in 1..(Len(s) - i + 1) : r[k] = s[i + k - 1]
  BY <1>1
<1> HIDE DEF l, r
<1>4. <<x>> \in Seq(T) /\ Len(<<x>>) = 1 /\ <<x>>[1] = x
  OBVIOUS
<1> DEFINE o == <<x>>
           m == l \o o
<1>5. o \in Seq(T) /\ Len(o) = 1 /\ o[1] = x
  BY <1>4
<1> HIDE DEF o
<1>6. /\ m \in Seq(T) /\ Len(m) = i
      /\ \A k \in 1..i : m[k] = IF k <= i - 1 THEN l[k] ELSE o[k - (i - 1)]
  <2>1. i - 1 = Len(l) /\ i = Len(l) + Len(o)
    BY <1>1, <1>2, <1>5
  <2>2. /\ m \in Seq(T) /\ Len(m) = Len(l) + Len(o)
        /\ \A k \in 1..(Len(l) + Len(o)) : m[k] = IF k <= Len(l) THEN l[k] ELSE o[k - Len(l)]
    BY <1>2, <1>5, ConcatProperties
  <2> HIDE DEF m
  <2> QED
    BY <2>1, <2>2
<1>7. m[i] = x /\ \A k \in 1..(i - 1) : m[k] = s[k]
  BY <1>1, <1>2, <1>5, <1>6
<1> HIDE DEF m
<1> DEFINE u == m \o r
<1>8. /\ u \in Seq(T) /\ Len(u) = Len(s) + 1
      /\ \A k \in 1..(Len(s) + 1) : u[k] = IF k <= i THEN m[k] ELSE r[k - i]
  <2>1. /\ u \in Seq(T) /\ Len(u) = Len(m) + Len(r)
        /\ \A k \in 1..(Len(m) + Len(r)) : u[k] = IF k <= Len(m) THEN m[k] ELSE r[k - Len(m)]
    BY <1>3, <1>6, ConcatProperties
  <2>2. Len(m) = i /\ Len(m) + Len(r) = Len(s) + 1
    BY <1>1, <1>3, <1>6
  <2> HIDE DEF u
  <2> QED
    BY <2>1, <2>2
<1> HIDE DEF u
<1>9. Grown(s, u, i, x)
  <2>1. \A k \in 1..(i - 1) : u[k] = s[k]
    BY <1>1, <1>7, <1>8
  <2>2. ASSUME NEW k \in i..Len(s)
        PROVE  u[k + 1] = s[k]
    <3>1. k + 1 \in 1..(Len(s) + 1) /\ ~(k + 1 <= i) /\ k + 1 - i \in 1..(Len(s) - i + 1)
          /\ i + (k + 1 - i) - 1 = k
      BY <1>1
    <3>2. u[k + 1] = r[k + 1 - i]
      BY <1>8, <3>1
    <3> QED
      BY <1>3, <3>1, <3>2
  <2>3. u[i] = x
    BY <1>1, <1>7, <1>8
  <2> QED
    BY <1>1, <1>8, <2>1, <2>2, <2>3 DEF Grown
<1>10. u = InsertAt(s, i, x)
  BY DEF u, m, o, l, r, InsertAt
<1> QED
  BY <1>8, <1>9, <1>10

LEMMA RemoveShrinks ==
  ASSUME NEW T, NEW s \in Seq(T), NEW i \in 1..Len(s)
  PROVE  RemoveAt(s, i) \in Seq(T) /\ Grown(RemoveAt(s, i), s, i, s[i])
<1> DEFINE l == SubSeq(s, 1, i - 1)
           r == SubSeq(s, i + 1, Len(s))
           u == l \o r
<1>1. i \in Nat /\ Len(s) \in Nat /\ 1 <= i /\ i <= Len(s)
  OBVIOUS
<1>2. l \in Seq(T) /\ Len(l) = i - 1 /\ \A k \in 1..(i - 1) : l[k] = s[k]
  BY <1>1
<1>3. r \in Seq(T) /\ Len(r) = Len(s) - i /\ \A k \in 1..(Len(s) - i) : r[k] = s[i + k]
  BY <1>1
<1> HIDE DEF l, r
<1>4. /\ u \in Seq(T) /\ Len(u) = Len(s) - 1
      /\ \A k \in 1..(Len(s) - 1) : u[k] = IF k <= i - 1 THEN l[k] ELSE r[k - (i - 1)]
  <2>1. i - 1 = Len(l) /\ Len(s) - 1 = Len(l) + Len(r)
    BY <1>1, <1>2, <1>3
  <2>2. /\ u \in Seq(T) /\ Len(u) = Len(l) + Len(r)
        /\ \A k \in 1..(Len(l) + Len(r)) : u[k] = IF k <= Len(l) THEN l[k] ELSE r[k - Len(l)]
    BY <1>2, <1>3, ConcatProperties
  <2> HIDE DEF u
  <2> QED
    BY <2>1, <2>2
<1> HIDE DEF u
<1>5. \A k \in 1..(i - 1) : s[k] = u[k]
  BY <1>1, <1>2, <1>4
<1>6. ASSUME NEW k \in i..Len(u)
      PROVE  s[k + 1] = u[k]
  <2>1. k \in 1..(Len(s) - 1) /\ ~(k <= i - 1) /\ k - (i - 1) \in 1..(Len(s) - i)
        /\ i + (k - (i - 1)) = k + 1
    BY <1>1, <1>4
  <2>2. u[k] = r[k - (i - 1)]
    BY <1>4, <2>1
  <2> QED
    BY <1>3, <2>1, <2>2
<1>7. Grown(u, s, i, s[i])
  BY <1>1, <1>4, <1>5, <1>6 DEF Grown
<1>8. u = RemoveAt(s, i)
  BY DEF u, l, r, RemoveAt
<1> QED
  BY <1>4, <1>7, <1>8

-------------------------------------------------------------------------------
(* The directories there are: the root and the one mke2fs made.  What mkdir *)
(* makes has no blocks and never gets an entry.                            *)

Dirs == {ROOT, Sub}

\* Behind "." and ".." come the entries that requests made.
DirShape(s, d) ==
  /\ Len(s) \in 2..MaxLen
  /\ s[1] = Entry(".", d) /\ s[2] = Entry("..", ROOT)
  /\ \A j \in 3..Len(s) : s[j].name \in Names /\ s[j].ino \in Inos \ {ROOT}

EntriesOK(ent) ==
  /\ ent \in [Inos -> Seq(EntryType)]
  /\ \A d \in Dirs : DirShape(ent[d], d)
  /\ \A n \in Inos \ Dirs : ent[n] = <<>>

\* The places that name inode n, "." and ".." left out, and their number.
Occ(ent, n) == {p \in Dirs \X (3..MaxLen) :
                  p[2] <= Len(ent[p[1]]) /\ ent[p[1]][p[2]].ino = n}
Count(ent, n) == Cardinality(Occ(ent, n))
At(ent, n, d, j) == d \in Dirs /\ j \in 3..Len(ent[d]) /\ ent[d][j].ino = n

LEMMA OccIs ==
  ASSUME NEW ent, EntriesOK(ent), NEW n
  PROVE  \A d, j : <<d, j>> \in Occ(ent, n) <=> At(ent, n, d, j)
<1> TAKE d, j
<1>1. \A c \in Dirs : Len(ent[c]) \in 2..MaxLen
  BY DEF EntriesOK, DirShape
<1>2. <<d, j>> \in Occ(ent, n) <=> d \in Dirs /\ j \in 3..MaxLen /\ j <= Len(ent[d]) /\ ent[d][j].ino = n
  BY DEF Occ
<1>3. d \in Dirs => (j \in 3..MaxLen /\ j <= Len(ent[d]) <=> j \in 3..Len(ent[d]))
  BY <1>1, Constants
<1> QED
  BY <1>2, <1>3 DEF At

LEMMA OccFinite ==
  ASSUME NEW ent, NEW n
  PROVE  IsFiniteSet(Occ(ent, n)) /\ Count(ent, n) \in Nat
<1>1. IsFiniteSet(3..MaxLen)
  BY FS_Interval, Constants
<1>2. IsFiniteSet({ROOT}) /\ IsFiniteSet({Sub})
  BY FS_Singleton
<1>3. IsFiniteSet(Dirs)
  <2>1. Dirs = {ROOT} \union {Sub}
    BY DEF Dirs
  <2> QED
    BY <1>2, <2>1, FS_Union
<1> DEFINE S == Dirs \X (3..MaxLen)
<1>4. IsFiniteSet(S)
  BY <1>1, <1>3, FS_Product
<1>5. Occ(ent, n) \in SUBSET S
  BY DEF Occ
<1> HIDE DEF S
<1>6. IsFiniteSet(Occ(ent, n))
  BY <1>4, <1>5, FS_Subset
<1> QED
  BY <1>6, FS_CardinalityType DEF Count

\* A directory has grown by an entry.
EntGrown(ent, ent2, d, i, x) ==
  /\ d \in Dirs /\ i >= 3
  /\ Grown(ent[d], ent2[d], i, x)
  /\ \A n \in Inos \ {d} : ent2[n] = ent[n]

\* Its inode has one place more, all others have as many as before: the entries behind
\* the new one have moved by one.
LEMMA CountGrown ==
  ASSUME NEW ent, NEW ent2, EntriesOK(ent), EntriesOK(ent2), NEW d, NEW i, NEW x,
         EntGrown(ent, ent2, d, i, x), NEW n
  PROVE  Count(ent2, n) = Count(ent, n) + (IF n = x.ino THEN 1 ELSE 0)
<1> DEFINE new == <<d, i>>
           S == Occ(ent, n)
           T == Occ(ent2, n) \ {new}
           F == [p \in S |-> IF p[1] = d /\ p[2] >= i THEN <<d, p[2] + 1>> ELSE p]
<1>1. /\ d \in Dirs /\ i \in 3..Len(ent2[d]) /\ Len(ent[d]) \in Nat
      /\ Len(ent2[d]) = Len(ent[d]) + 1 /\ ent2[d][i] = x
      /\ \A k \in 1..(i - 1) : ent2[d][k] = ent[d][k]
      /\ \A k \in i..Len(ent[d]) : ent2[d][k + 1] = ent[d][k]
      /\ \A m \in Inos \ {d} : ent2[m] = ent[m]
  BY DEF EntGrown, Grown, EntriesOK, DirShape
<1>2. \A c, j : <<c, j>> \in S <=> At(ent, n, c, j)
  BY OccIs, Zenon
<1>3. \A c, j : <<c, j>> \in Occ(ent2, n) <=> At(ent2, n, c, j)
  BY OccIs, Zenon
<1>4. \A p \in S \union Occ(ent2, n) : \E c, j : p = <<c, j>>
  BY DEF Occ
<1>5. \A c \in Dirs : c \in Inos
  BY Constants DEF Dirs
<1> HIDE DEF S, T, F
<1>6. \A c, j : <<c, j>> \in T <=> <<c, j>> \in Occ(ent2, n) /\ ~(c = d /\ j = i)
  BY DEF T
<1>7. ASSUME NEW c, NEW j, <<c, j>> \in S
      PROVE  /\ F[<<c, j>>] = IF c = d /\ j >= i THEN <<d, j + 1>> ELSE <<c, j>>
             /\ F[<<c, j>>] \in T
             /\ j \in Nat
  <2>1. F[<<c, j>>] = IF c = d /\ j >= i THEN <<d, j + 1>> ELSE <<c, j>>
    BY <1>7 DEF F
  <2>2. c \in Dirs /\ j \in 3..Len(ent[c]) /\ ent[c][j].ino = n
    BY <1>2, <1>7 DEF At
  <2>3. CASE c = d /\ j >= i
    <3>1. j \in i..Len(ent[d]) /\ j + 1 \in 3..Len(ent2[d]) /\ j + 1 # i
      BY <1>1, <2>2, <2>3
    <3>2. ent2[d][j + 1] = ent[d][j]
      BY <1>1, <3>1
    <3>3. <<d, j + 1>> \in T
      BY <1>1, <1>3, <1>6, <2>2, <2>3, <3>1, <3>2 DEF At
    <3> QED
      BY <2>1, <2>2, <2>3, <3>3
  <2>4. CASE c = d /\ ~(j >= i)
    <3>1. j \in 1..(i - 1) /\ j \in 3..Len(ent2[d]) /\ j # i
      BY <1>1, <2>2, <2>4
    <3>2. <<c, j>> \in T
      BY <1>1, <1>3, <1>6, <2>2, <2>4, <3>1 DEF At
    <3> QED
      BY <2>1, <2>2, <2>4, <3>2
  <2>5. CASE c # d
    <3>1. ent2[c] = ent[c]
      BY <1>1, <1>5, <2>2, <2>5
    <3>2. <<c, j>> \in T
      BY <1>3, <1>6, <2>2, <2>5, <3>1 DEF At
    <3> QED
      BY <2>1, <2>2, <2>5, <3>2
  <2> QED
    BY <2>3, <2>4, <2>5
<1>8. F \in [S -> T]
  <2>1. ASSUME NEW p \in S
        PROVE  F[p] \in T
    <3>1. PICK c, j : p = <<c, j>>
      BY <1>4
    <3> QED
      BY <1>7, <3>1
  <2> QED
    BY <2>1 DEF F
<1>9. ASSUME NEW p \in S, NEW q \in S, F[p] = F[q]
      PROVE  p = q
  <2>1. PICK c, j : p = <<c, j>>
    BY <1>4
  <2>2. PICK b, k : q = <<b, k>>
    BY <1>4
  <2>3. /\ F[p] = (IF c = d /\ j >= i THEN <<d, j + 1>> ELSE <<c, j>>) /\ j \in Nat
        /\ F[q] = (IF b = d /\ k >= i THEN <<d, k + 1>> ELSE <<b, k>>) /\ k \in Nat
    BY <1>7, <2>1, <2>2
  <2>4. i \in Nat
    BY <1>1
  <2>5. c = b /\ j = k
    <3>1. CASE (c = d /\ j >= i) /\ (b = d /\ k >= i)
      <4>1. <<d, j + 1>> = <<d, k + 1>>
        BY <1>9, <2>3, <3>1
      <4> QED
        BY <2>3, <3>1, <4>1
    <3>2. CASE (c = d /\ j >= i) /\ ~(b = d /\ k >= i)
      <4>1. <<d, j + 1>> = <<b, k>>
        BY <1>9, <2>3, <3>2
      <4>2. d = b /\ j + 1 = k
        BY <4>1
      <4> QED
        BY <2>3, <2>4, <3>2, <4>2
    <3>3. CASE ~(c = d /\ j >= i) /\ (b = d /\ k >= i)
      <4>1. <<c, j>> = <<d, k + 1>>
        BY <1>9, <2>3, <3>3
      <4>2. c = d /\ j = k + 1
        BY <4>1
      <4> QED
        BY <2>3, <2>4, <3>3, <4>2
    <3>4. CASE ~(c = d /\ j >= i) /\ ~(b = d /\ k >= i)
      <4>1. <<c, j>> = <<b, k>>
        BY <1>9, <2>3, <3>4
      <4> QED
        BY <4>1
    <3> QED
      BY <3>1, <3>2, <3>3, <3>4
  <2> QED
    BY <2>1, <2>2, <2>5
<1>10. ASSUME NEW q \in T
       PROVE  \E p \in S : F[p] = q
  <2>0. q \in Occ(ent2, n)
    BY DEF T
  <2>1. PICK b, k : q = <<b, k>>
    BY <1>4, <2>0
  <2>2. b \in Dirs /\ k \in 3..Len(ent2[b]) /\ ent2[b][k].ino = n /\ ~(b = d /\ k = i)
    BY <1>3, <1>6, <2>1 DEF At
  <2>3. CASE b # d
    <3>1. ent2[b] = ent[b]
      BY <1>1, <1>5, <2>2, <2>3
    <3>2. q \in S
      BY <1>2, <2>1, <2>2, <3>1 DEF At
    <3> QED
      BY <1>7, <2>1, <2>3, <3>2
  <2>4. CASE b = d /\ k < i
    <3>1. k \in 1..(i - 1) /\ k \in 3..Len(ent[d]) /\ ~(k >= i)
      BY <1>1, <2>2, <2>4
    <3>2. q \in S
      BY <1>1, <1>2, <2>1, <2>2, <2>4, <3>1 DEF At
    <3> QED
      BY <1>7, <2>1, <3>1, <3>2
  <2>5. CASE b = d /\ k > i
    <3>1. k - 1 \in i..Len(ent[d]) /\ k - 1 \in 3..Len(ent[d]) /\ k - 1 >= i /\ k - 1 + 1 = k
      BY <1>1, <2>2, <2>5
    <3>2. ent2[d][k] = ent[d][k - 1]
      BY <1>1, <3>1
    <3>3. <<d, k - 1>> \in S
      BY <1>1, <1>2, <2>2, <2>5, <3>1, <3>2 DEF At
    <3>4. F[<<d, k - 1>>] = <<d, k>>
      BY <1>7, <3>1, <3>3
    <3> QED
      BY <2>1, <2>5, <3>3, <3>4
  <2>6. b = d => k < i \/ k > i
    BY <1>1, <2>2
  <2> QED
    BY <2>3, <2>4, <2>5, <2>6
<1>11. F \in Bijection(S, T)
  BY <1>8, <1>9, <1>10, Fun_IsBij
<1>12. IsFiniteSet(S) /\ Cardinality(S) = Count(ent, n) /\ Cardinality(S) \in Nat
  BY OccFinite DEF S, Count
<1>13. Cardinality(T) = Cardinality(S) /\ IsFiniteSet(T)
  BY <1>11, <1>12, FS_Bijection DEF ExistsBijection
<1>14. new \in Occ(ent2, n) <=> n = x.ino
  BY <1>1, <1>3 DEF At
<1>15. CASE n = x.ino
  <2>1. Occ(ent2, n) = T \union {new} /\ new \notin T
    BY <1>14, <1>15 DEF T
  <2>2. Cardinality(Occ(ent2, n)) = Cardinality(T) + 1
    BY <1>13, <2>1, FS_AddElement
  <2> QED
    BY <1>12, <1>13, <1>15, <2>2 DEF Count
<1>16. CASE n # x.ino
  <2>1. Occ(ent2, n) = T
    BY <1>14, <1>16 DEF T
  <2> QED
    BY <1>12, <1>13, <1>16, <2>1 DEF Count
<1> QED
  BY <1>15, <1>16

-------------------------------------------------------------------------------
(* The invariant.                                                          *)

Others == Inos \ Dirs
Span   == FirstIno..(LastIno + 1)
Inode  == [type : Types, links : 0..(Wrap - 1)]

FsType(f) ==
  /\ f \in [entries : [Inos -> Seq(EntryType)], inode : [Inos -> Inode],
            marked : SUBSET (Inos \union {LastIno + 1}), free : Nat, frees : Nat,
            panicked : BOOLEAN]
  /\ EntriesOK(f.entries)

\* The count of free inodes is that of clear bits, the padding's included.  The bit
\* behind FirstIno is the first to be set, and stays set: the bit of an inode is
\* cleared when the one before it is freed, and Sub never is.  So there are never more
\* free inodes than at first.
BitmapOK(f) ==
  /\ ROOT \in f.marked /\ Sub \in f.marked
  /\ f.free = Cardinality(Span \ f.marked)
  /\ \/ FirstIno + 1 \in f.marked
     \/ /\ f.frees = 0 /\ LastIno + 1 \in f.marked
        /\ \A n \in (FirstIno + 1)..LastIno : n \notin f.marked

\* The directories that are there stay, and their links are right even after others
\* have been freed.
DirsOK(f) ==
  /\ f.inode[ROOT].type = "dir" /\ f.inode[Sub].type = "dir"
  /\ Count(f.entries, Sub) <= 1
  /\ f.inode[Sub].links = 1 + Count(f.entries, Sub)
  /\ f.inode[ROOT].links = 2 + Count(f.entries, Sub)

\* Until an inode is freed, one has a link if it has an entry, and at most one.
LinksOK(f) ==
  f.frees = 0 =>
    \A n \in Others :
      /\ Count(f.entries, n) <= 1 /\ f.inode[n].links = Count(f.entries, n)
      /\ Count(f.entries, n) = 1 => n \in f.marked /\ f.inode[n].type # "none"

FsOK(f) == FsType(f) /\ BitmapOK(f) /\ DirsOK(f) /\ LinksOK(f)

\* mkdir's inodes never stay.
NoMore(f) == ~f.panicked => \A n \in Others : f.inode[n].type # "dir"

\* What the VFS was told of is in use.
InUse(f, n) == f.frees = 0 => n \in f.marked

IInv ==
  /\ FsOK(fs) /\ NoMore(fs)
  /\ known \in [Inos -> Types]
  /\ \A n \in Inos : known[n] # "none" => InUse(fs, n)
  /\ reply.ino \in Inos \union {0}

-------------------------------------------------------------------------------
(* What the operations do to a file system.                                *)

LEMMA WrapIs == Wrap \in Nat /\ Wrap > 10
  BY DEF Wrap

\* A link more and one less is none, and links stay in their 16 bits.
LEMMA LinkSums ==
  ASSUME NEW l \in 0..(Wrap - 1)
  PROVE  /\ l \in Nat /\ (l + 1) % Wrap \in 0..(Wrap - 1) /\ (l + -1) % Wrap \in 0..(Wrap - 1)
         /\ (((l + 1) % Wrap) + -1) % Wrap = l
         /\ l < 5 => (l + 1) % Wrap = l + 1
         /\ l # 0 => (l + -1) % Wrap = l - 1
<1>1. Wrap \in Nat /\ Wrap > 10
  BY WrapIs
<1>2. l \in Nat /\ l <= Wrap - 1
  BY <1>1
<1>3. \A x \in Nat : x < Wrap => x % Wrap = x
  BY <1>1
<1>4. \A x \in Int : x = -1 => x % Wrap = Wrap - 1
  BY <1>1
<1>5. CASE l = Wrap - 1
  <2>1. l + 1 = Wrap /\ Wrap % Wrap = 0
    BY <1>1, <1>5
  <2>2. 0 + -1 = -1 /\ (0 + -1) % Wrap = Wrap - 1
    BY <1>1, <1>4
  <2>3. l + -1 \in Nat /\ l + -1 < Wrap /\ l + -1 = l - 1
    BY <1>1, <1>5
  <2> QED
    BY <1>1, <1>2, <1>3, <1>5, <2>1, <2>2, <2>3
<1>6. CASE l # Wrap - 1 /\ l # 0
  <2>1. l + 1 \in Nat /\ l + 1 < Wrap /\ l + -1 \in Nat /\ l + -1 < Wrap /\ l + 1 + -1 = l /\ l + -1 = l - 1
    BY <1>1, <1>2, <1>6
  <2>2. (l + 1) % Wrap = l + 1 /\ (l + -1) % Wrap = l + -1
    BY <1>3, <2>1
  <2> QED
    BY <1>1, <1>2, <1>3, <2>1, <2>2
<1>7. CASE l = 0
  <2>1. (0 + 1) % Wrap = 1 /\ (0 + -1) % Wrap = Wrap - 1 /\ (1 + -1) % Wrap = 0
    BY <1>1, <1>3, <1>4
  <2> QED
    BY <1>1, <1>7, <2>1
<1> QED
  BY <1>5, <1>6, <1>7

\* Inode n has type ty and l links, the others are as before.
InodeSet(f, g, n, ty, l) ==
  /\ g.inode[n].type = ty /\ g.inode[n].links = l
  /\ \A m \in Inos \ {n} : g.inode[m] = f.inode[m]

LEMMA PanicIs ==
  ASSUME NEW f, FsType(f)
  PROVE  /\ FsType(Panic(f)) /\ Panic(f).panicked = TRUE
         /\ Panic(f).entries = f.entries /\ Panic(f).inode = f.inode
         /\ Panic(f).marked = f.marked /\ Panic(f).free = f.free /\ Panic(f).frees = f.frees
  BY DEF FsType, Panic

LEMMA AddLinksIs ==
  ASSUME NEW f, NEW n \in Inos, NEW k \in {1, -1}, FsType(f), NEW g, g = AddLinks(f, n, k)
  PROVE  /\ FsType(g) /\ InodeSet(f, g, n, f.inode[n].type, (f.inode[n].links + k) % Wrap)
         /\ g.entries = f.entries /\ g.marked = f.marked /\ g.free = f.free
         /\ g.frees = f.frees /\ g.panicked = f.panicked
<1>1. /\ f.inode \in [Inos -> Inode] /\ f.inode[n] \in Inode
      /\ f.inode[n].type \in Types /\ f.inode[n].links \in 0..(Wrap - 1)
  BY DEF FsType, Inode
<1> DEFINE l == (f.inode[n].links + k) % Wrap
           i == [type |-> f.inode[n].type, links |-> l]
<1>2. l \in 0..(Wrap - 1)
  BY <1>1, LinkSums
<1>4. [f.inode[n] EXCEPT !.links = (@ + k) % Wrap] = i
  BY <1>1 DEF Inode
<1> HIDE DEF l
<1>3. i \in Inode /\ i.type = f.inode[n].type /\ i.links = l
  BY <1>1, <1>2 DEF Inode
<1>5. g = [f EXCEPT !.inode = [f.inode EXCEPT ![n] = i]]
  <2>1. g = [f EXCEPT !.inode[n].links = (f.inode[n].links + k) % Wrap]
    BY DEF AddLinks
  <2>2. g = [f EXCEPT !.inode = [f.inode EXCEPT ![n] = [f.inode[n] EXCEPT !.links = l]]]
    BY <2>1 DEF FsType, l
  <2> QED
    BY <1>4, <2>2 DEF l
<1> HIDE DEF i
<1>6. [f.inode EXCEPT ![n] = i] \in [Inos -> Inode]
  BY <1>1, <1>3
<1>7. /\ FsType(g) /\ g.entries = f.entries /\ g.marked = f.marked /\ g.free = f.free
      /\ g.frees = f.frees /\ g.panicked = f.panicked /\ g.inode = [f.inode EXCEPT ![n] = i]
  BY <1>5, <1>6 DEF FsType
<1>8. InodeSet(f, g, n, f.inode[n].type, l)
  BY <1>1, <1>3, <1>7 DEF InodeSet
<1> QED
  BY <1>7, <1>8 DEF l

LEMMA FreeInodeIs ==
  ASSUME NEW f, NEW n \in Inos, FsType(f), n >= FirstIno, n + 1 \in f.marked,
         NEW g, g = FreeInode(f, n)
  PROVE  /\ FsType(g) /\ InodeSet(f, g, n, "none", f.inode[n].links)
         /\ g.entries = f.entries /\ g.marked = f.marked \ {n + 1} /\ g.free = f.free + 1
         /\ g.frees = f.frees + 1 /\ g.panicked = f.panicked
<1>1. /\ f.inode \in [Inos -> Inode] /\ f.inode[n] \in Inode
      /\ f.inode[n].type \in Types /\ f.inode[n].links \in 0..(Wrap - 1)
      /\ f.marked \subseteq Inos \union {LastIno + 1} /\ f.free \in Nat /\ f.frees \in Nat
  BY DEF FsType, Inode
<1> DEFINE i == [type |-> "none", links |-> f.inode[n].links]
           h == [f.inode EXCEPT ![n] = i]
<1>2. i \in Inode /\ i.type = "none" /\ i.links = f.inode[n].links
  BY <1>1 DEF Inode, Types
<1>3. [f.inode[n] EXCEPT !.type = "none"] = i
  BY <1>1 DEF Inode
<1>4. g = [f EXCEPT !.marked = @ \ {n + 1}, !.free = @ + 1, !.inode = h, !.frees = @ + 1]
  <2>1. g = [f EXCEPT !.marked = @ \ {n + 1}, !.free = @ + 1, !.inode[n].type = "none",
                      !.frees = @ + 1]
    <3>1. ~(n < FirstIno \/ n + 1 \notin f.marked)
      BY InosAre, Constants
    <3> QED
      BY <3>1, Zenon DEF FreeInode
  <2>2. g = [f EXCEPT !.marked = @ \ {n + 1}, !.free = @ + 1,
                      !.inode = [f.inode EXCEPT ![n] = [f.inode[n] EXCEPT !.type = "none"]],
                      !.frees = @ + 1]
    BY <2>1 DEF FsType
  <2> QED
    BY <1>3, <2>2
<1> HIDE DEF i
<1>5. h \in [Inos -> Inode] /\ h[n] = i /\ \A m \in Inos \ {n} : h[m] = f.inode[m]
  BY <1>1, <1>2
<1> HIDE DEF h
<1>6. /\ FsType(g) /\ g.inode = h
      /\ g.entries = f.entries /\ g.marked = f.marked \ {n + 1} /\ g.free = f.free + 1
      /\ g.frees = f.frees + 1 /\ g.panicked = f.panicked
  <2>1. /\ g = [entries |-> f.entries, inode |-> h, marked |-> f.marked \ {n + 1},
                free |-> f.free + 1, frees |-> f.frees + 1, panicked |-> f.panicked]
    BY <1>4 DEF FsType
  <2>2. f.marked \ {n + 1} \in SUBSET (Inos \union {LastIno + 1})
    BY <1>1
  <2>3. FsType(g)
    BY <1>1, <1>5, <2>1, <2>2 DEF FsType
  <2> QED
    BY <2>1, <2>3
<1>7. InodeSet(f, g, n, "none", f.inode[n].links)
  BY <1>2, <1>5, <1>6 DEF InodeSet
<1> QED
  BY <1>6, <1>7

LEMMA AllocInodeIs ==
  ASSUME NEW f, NEW n \in Others, NEW ty \in Types, FsType(f), f.free # 0,
         NEW g, g = AllocInode(f, n, ty)
  PROVE  /\ FsType(g) /\ InodeSet(f, g, n, ty, 0)
         /\ g.entries = f.entries /\ g.marked = f.marked \union {n} /\ g.free = f.free - 1
         /\ g.frees = f.frees /\ g.panicked = f.panicked
<1>1. /\ f.inode \in [Inos -> Inode] /\ n \in Inos /\ f.free \in Nat
      /\ f.marked \subseteq Inos \union {LastIno + 1}
      /\ f.entries \in [Inos -> Seq(EntryType)] /\ f.entries[n] = <<>>
  BY DEF FsType, EntriesOK, Others
<1> DEFINE i == [type |-> ty, links |-> 0]
           h == [f.inode EXCEPT ![n] = i]
<1>2. i \in Inode /\ i.type = ty /\ i.links = 0
  <2>1. 0 \in 0..(Wrap - 1)
    BY DEF Wrap
  <2> QED
    BY <2>1 DEF Inode
<1> HIDE DEF i
<1>3. h \in [Inos -> Inode] /\ h[n] = i /\ \A m \in Inos \ {n} : h[m] = f.inode[m]
  BY <1>1, <1>2
<1>4. [f.entries EXCEPT ![n] = <<>>] = f.entries
  BY <1>1
<1>5. g = [f EXCEPT !.marked = @ \union {n}, !.free = @ - 1, !.inode = h, !.entries = f.entries]
  BY <1>4 DEF AllocInode, FsType, i
<1> HIDE DEF h
<1>6. /\ FsType(g) /\ g.inode = h
      /\ g.entries = f.entries /\ g.marked = f.marked \union {n} /\ g.free = f.free - 1
      /\ g.frees = f.frees /\ g.panicked = f.panicked
  <2>1. /\ g = [entries |-> f.entries, inode |-> h, marked |-> f.marked \union {n},
                free |-> f.free - 1, frees |-> f.frees, panicked |-> f.panicked]
    BY <1>5 DEF FsType
  <2>2. f.marked \union {n} \in SUBSET (Inos \union {LastIno + 1})
    BY <1>1
  <2>3. FsType(g)
    BY <1>1, <1>3, <2>1, <2>2 DEF FsType
  <2> QED
    BY <2>1, <2>3
<1>7. InodeSet(f, g, n, ty, 0)
  BY <1>2, <1>3, <1>6 DEF InodeSet
<1> QED
  BY <1>6, <1>7

LEMMA LeastOf ==
  ASSUME NEW S \in SUBSET Nat, S # {}
  PROVE  \E x \in S : \A y \in S : x <= y
<1> DEFINE R == OpToRel(<, Nat)
<1>1. IsWellFoundedOn(R, Nat)
  BY NatLessThanWellFounded
<1>2. \A x, y \in Nat : y < x => <<y, x>> \in R
  BY DEF OpToRel
<1> HIDE DEF R
<1>3. PICK x \in S : \A y \in S : ~(<<y, x>> \in R)
  BY <1>1, WFMin, Zenon
<1>4. \A y \in S : y \in Nat /\ x \in Nat /\ ~(y < x)
  BY <1>2, <1>3, Zenon
<1> QED
  BY <1>4

\* The first entry of a name that is there.  Names of requests are behind "..".
LEMMA FirstAtIs ==
  ASSUME NEW f, FsType(f), NEW d \in Inos, NEW nm \in Names, Found(f, d, nm),
         NEW j, j = FirstAt(f, d, nm)
  PROVE  /\ d \in Dirs /\ j \in 3..Len(f.entries[d]) /\ f.entries[d][j].name = nm
         /\ f.entries[d][j] \in EntryType
         /\ \A k \in 1..(j - 1) : f.entries[d][k].name # nm
         /\ InoOf(f, d, nm) = f.entries[d][j].ino /\ InoOf(f, d, nm) \in Inos \ {ROOT}
<1> DEFINE s == f.entries[d]
           S == {k \in 1..Len(s) : s[k].name = nm}
<1>1. s \in Seq(EntryType) /\ Len(s) \in Nat
  BY DEF FsType, EntriesOK
<1>2. S \in SUBSET Nat /\ S # {}
  BY <1>1 DEF Found
<1>3. PICK x \in S : \A y \in S : x <= y
  BY <1>2, LeastOf
<1>4. x \in 1..Len(s) /\ s[x].name = nm /\ \A k \in 1..(x - 1) : s[k].name # nm
  BY <1>1, <1>3
<1>5. j \in 1..Len(s) /\ s[j].name = nm /\ \A k \in 1..(j - 1) : s[k].name # nm
  BY <1>4 DEF FirstAt
<1>6. d \in Dirs
  <2>1. CASE d \notin Dirs
    <3>1. s = <<>> /\ Len(s) = 0
      BY <2>1 DEF FsType, EntriesOK
    <3> QED
      BY <1>5, <3>1
  <2> QED
    BY <2>1
<1>7. DirShape(s, d)
  BY <1>6 DEF FsType, EntriesOK
<1>8. s[1].name = "." /\ s[2].name = ".." /\ nm # "." /\ nm # ".."
  BY <1>7, Constants DEF DirShape, Entry
<1>9. j \in 3..Len(s)
  BY <1>1, <1>5, <1>8
<1>10. s[j].ino \in Inos \ {ROOT} /\ s[j] \in EntryType
  BY <1>1, <1>7, <1>9 DEF DirShape
<1> QED
  BY <1>5, <1>6, <1>9, <1>10 DEF InoOf

LEMMA ShapeGrown ==
  ASSUME NEW s \in Seq(EntryType), NEW t \in Seq(EntryType), NEW d, NEW j, NEW x,
         Grown(s, t, j, x), j >= 3
  PROVE  /\ DirShape(t, d) => DirShape(s, d)
         /\ DirShape(s, d) /\ Len(s) < MaxLen /\ x.name \in Names /\ x.ino \in Inos \ {ROOT}
              => DirShape(t, d)
<1>1. /\ Len(s) \in Nat /\ Len(t) = Len(s) + 1 /\ j \in 3..Len(t) /\ t[j] = x
      /\ \A k \in 1..(j - 1) : t[k] = s[k]
      /\ \A k \in j..Len(s) : t[k + 1] = s[k]
      /\ MaxLen \in Nat
  BY Constants DEF Grown
<1>2. t[1] = s[1] /\ t[2] = s[2] /\ Len(s) \in 2..Len(t)
  BY <1>1
<1>3. ASSUME DirShape(t, d)
      PROVE  DirShape(s, d)
  <2>1. ASSUME NEW k \in 3..Len(s)
        PROVE  s[k].name \in Names /\ s[k].ino \in Inos \ {ROOT}
    <3>1. k \in 3..Len(t) /\ k + 1 \in 3..Len(t) /\ (k \in 1..(j - 1) \/ k \in j..Len(s))
      BY <1>1
    <3>2. s[k] = t[k] \/ s[k] = t[k + 1]
      BY <1>1, <3>1
    <3> QED
      BY <1>3, <3>1, <3>2 DEF DirShape
  <2>2. Len(s) \in 2..MaxLen
    BY <1>1, <1>2, <1>3 DEF DirShape
  <2> QED
    BY <1>2, <1>3, <2>1, <2>2 DEF DirShape
<1>4. ASSUME DirShape(s, d), Len(s) < MaxLen, x.name \in Names, x.ino \in Inos \ {ROOT}
      PROVE  DirShape(t, d)
  <2>1. ASSUME NEW k \in 3..Len(t)
        PROVE  t[k].name \in Names /\ t[k].ino \in Inos \ {ROOT}
    <3>1. CASE k = j
      BY <1>1, <1>4, <3>1
    <3>2. CASE k < j
      <4>1. k \in 1..(j - 1) /\ k \in 3..Len(s)
        BY <1>1, <3>2
      <4>2. t[k] = s[k]
        BY <1>1, <4>1
      <4> QED
        BY <1>4, <4>1, <4>2 DEF DirShape
    <3>3. CASE k > j
      <4>1. k - 1 \in j..Len(s) /\ k - 1 \in 3..Len(s) /\ k - 1 + 1 = k
        BY <1>1, <3>3
      <4>2. t[k] = s[k - 1]
        BY <1>1, <4>1
      <4> QED
        BY <1>4, <4>1, <4>2 DEF DirShape
    <3> QED
      BY <1>1, <3>1, <3>2, <3>3
  <2>2. Len(t) \in 2..MaxLen
    BY <1>1, <1>2, <1>4 DEF DirShape
  <2> QED
    BY <1>2, <1>4, <2>1, <2>2 DEF DirShape
<1> QED
  BY <1>3, <1>4

\* Only entries differ.
SameInodes(f, g) ==
  /\ g.inode = f.inode /\ g.marked = f.marked /\ g.free = f.free
  /\ g.frees = f.frees /\ g.panicked = f.panicked

WithEntries(f, d, t) == [f EXCEPT !.entries = [f.entries EXCEPT ![d] = t]]

LEMMA EntriesSet ==
  ASSUME NEW f, FsType(f), NEW d \in Dirs, NEW t \in Seq(EntryType), DirShape(t, d),
         NEW g, g = WithEntries(f, d, t)
  PROVE  /\ FsType(g) /\ SameInodes(f, g) /\ g.entries[d] = t
         /\ \A n \in Inos \ {d} : g.entries[n] = f.entries[n]
<1> DEFINE e == [f.entries EXCEPT ![d] = t]
<1>1. d \in Inos
  BY Constants DEF Dirs
<1>2. /\ f.entries \in [Inos -> Seq(EntryType)]
      /\ \A c \in Dirs : DirShape(f.entries[c], c)
      /\ \A n \in Inos \ Dirs : f.entries[n] = <<>>
  BY DEF FsType, EntriesOK
<1>3. e \in [Inos -> Seq(EntryType)] /\ e[d] = t /\ \A n \in Inos \ {d} : e[n] = f.entries[n]
  BY <1>1, <1>2
<1> HIDE DEF e
<1>4. ASSUME NEW c \in Dirs
      PROVE  DirShape(e[c], c)
  <2>1. c \in Inos
    BY Constants DEF Dirs
  <2>2. CASE c = d
    BY <1>3, <2>2
  <2>3. CASE c # d
    <3>1. e[c] = f.entries[c] /\ DirShape(f.entries[c], c)
      BY <1>2, <1>3, <2>1, <2>3
    <3> QED
      BY <3>1
  <2> QED
    BY <2>2, <2>3
<1>5. \A n \in Inos \ Dirs : e[n] = <<>>
  BY <1>2, <1>3
<1>6. EntriesOK(e)
  BY <1>3, <1>4, <1>5 DEF EntriesOK
<1>7. g = [f EXCEPT !.entries = e]
  BY DEF e, WithEntries
<1>8. g.entries = e /\ SameInodes(f, g)
  BY <1>7 DEF SameInodes, FsType
<1>9. FsType(g)
  BY <1>3, <1>6, <1>7 DEF FsType
<1> QED
  BY <1>3, <1>8, <1>9

\* dirent_enter puts an entry behind "..", in a directory with room.
LEMMA EnterIs ==
  ASSUME NEW f, FsType(f), NEW d \in Inos, NEW nm \in Names, NEW n \in Inos \ {ROOT},
         NEW g \in DirentEnter(f, d, nm, n)
  PROVE  /\ d \in Dirs /\ FsType(g) /\ SameInodes(f, g)
         /\ \E j : EntGrown(f.entries, g.entries, d, j, Entry(nm, n))
<1> DEFINE s == f.entries[d]
           x == Entry(nm, n)
<1>1. s \in Seq(EntryType) /\ Len(s) \in Nat /\ MaxLen \in Nat
  BY Constants DEF FsType, EntriesOK
<1>2. Len(s) \in 1..(MaxLen - 1)
  BY DEF DirentEnter
<1>3. d \in Dirs
  <2>1. CASE d \notin Dirs
    <3>1. s = <<>> /\ Len(s) = 0
      BY <2>1 DEF FsType, EntriesOK
    <3> QED
      BY <1>2, <3>1
  <2> QED
    BY <2>1
<1>4. DirShape(s, d)
  BY <1>3 DEF FsType, EntriesOK
<1>5. Len(s) >= 2 /\ Len(s) < MaxLen
  BY <1>1, <1>2, <1>4 DEF DirShape
<1>6. Min({3, Len(s) + 1}) = 3
  <2>1. 3 \in {3, Len(s) + 1} /\ \A y \in {3, Len(s) + 1} : 3 <= y
    BY <1>1, <1>5
  <2> QED
    BY <1>1, <1>5, <2>1 DEF Min
<1>7. PICK j \in 3..(Len(s) + 1) : g = [f EXCEPT !.entries[d] = InsertAt(@, j, x)]
  <2>1. g \in {[f EXCEPT !.entries[d] = InsertAt(@, j, x)] :
                 j \in Min({3, Len(s) + 1})..(Len(s) + 1)}
    BY <1>2 DEF DirentEnter
  <2> QED
    BY <1>6, <2>1
<1>8. x \in EntryType /\ x.name \in Names /\ x.ino \in Inos \ {ROOT}
  BY DEF Entry, EntryType
<1> DEFINE t == InsertAt(s, j, x)
<1> HIDE DEF x
<1>9. t \in Seq(EntryType) /\ Grown(s, t, j, x)
  <2>1. j \in 1..(Len(s) + 1)
    BY <1>1
  <2> QED
    BY <1>1, <1>8, <2>1, InsertGrows
<1>10. g = WithEntries(f, d, t)
  BY <1>7 DEF FsType, WithEntries
<1> HIDE DEF t
<1>11. DirShape(t, d)
  BY <1>1, <1>4, <1>5, <1>8, <1>9, ShapeGrown
<1>12. /\ FsType(g) /\ SameInodes(f, g) /\ g.entries[d] = t
       /\ \A m \in Inos \ {d} : g.entries[m] = f.entries[m]
  BY <1>3, <1>9, <1>10, <1>11, EntriesSet
<1>13. EntGrown(f.entries, g.entries, d, j, x)
  BY <1>3, <1>9, <1>12 DEF EntGrown
<1> QED
  BY <1>3, <1>12, <1>13 DEF x

\* dirent_delete takes the first entry of the name.
LEMMA DeleteIs ==
  ASSUME NEW f, FsType(f), NEW d \in Inos, NEW nm \in Names, Found(f, d, nm),
         NEW g, g = DirentDelete(f, d, nm)
  PROVE  /\ d \in Dirs /\ FsType(g) /\ SameInodes(f, g)
         /\ \E j, x : EntGrown(g.entries, f.entries, d, j, x) /\ x.ino = InoOf(f, d, nm)
<1> DEFINE s == f.entries[d]
           j == FirstAt(f, d, nm)
           t == RemoveAt(s, j)
<1>1. /\ d \in Dirs /\ j \in 3..Len(s) /\ s[j].ino = InoOf(f, d, nm)
      /\ s \in Seq(EntryType) /\ Len(s) \in Nat
  <2>1. /\ d \in Dirs /\ j \in 3..Len(s) /\ s[j].ino = InoOf(f, d, nm)
    BY FirstAtIs
  <2>2. s \in Seq(EntryType)
    BY DEF FsType, EntriesOK
  <2> HIDE DEF s, j
  <2>3. Len(s) \in Nat
    BY <2>2
  <2> QED
    BY <2>1, <2>2, <2>3, Zenon
<1>2. DirShape(s, d)
  BY <1>1 DEF FsType, EntriesOK
<1>3. g = WithEntries(f, d, t)
  BY DEF DirentDelete, FsType, WithEntries
<1> HIDE DEF j
<1>4. t \in Seq(EntryType) /\ Grown(t, s, j, s[j])
  <2>1. j \in 1..Len(s)
    BY <1>1
  <2> QED
    BY <1>1, <2>1, RemoveShrinks
<1> HIDE DEF t
<1>5. DirShape(t, d)
  BY <1>1, <1>2, <1>4, ShapeGrown
<1>6. /\ FsType(g) /\ SameInodes(f, g) /\ g.entries[d] = t
      /\ \A m \in Inos \ {d} : g.entries[m] = f.entries[m]
  BY <1>1, <1>3, <1>4, <1>5, EntriesSet
<1>7. EntGrown(g.entries, f.entries, d, j, s[j])
  BY <1>1, <1>4, <1>6 DEF EntGrown
<1> QED
  BY <1>1, <1>6, <1>7

-------------------------------------------------------------------------------
(* put_inode.                                                              *)

LEMMA SpanFinite == IsFiniteSet(Span)
  BY FS_Interval, Constants DEF Span

\* What it leaves alone: the entries, and until it has freed an inode the bitmap.
Kept(f, g) ==
  /\ g.entries = f.entries
  /\ g.frees = 0 => f.frees = 0 /\ g.marked = f.marked
  /\ ~g.panicked => ~f.panicked
  /\ \A m \in Inos : g.inode[m].type \in {f.inode[m].type, "none"}

LEMMA KeptAll ==
  /\ \A f : Kept(f, f)
  /\ \A f, g, h : Kept(f, g) /\ Kept(g, h) => Kept(f, h)
  /\ \A f, g, n : Kept(f, g) /\ InUse(f, n) => InUse(g, n)
  /\ \A f, g : Kept(f, g) /\ NoMore(f) => NoMore(g)
  BY DEF Kept, InUse, NoMore, Others

LEMMA OthersAre == \A n \in Others : n \in Inos /\ n \in Nat /\ n > FirstIno /\ n <= LastIno
  BY InosAre, Constants DEF Others, Dirs

LEMMA FreeOK ==
  ASSUME NEW f, NEW n \in Inos, FsOK(f), InUse(f, n), f.inode[n].links = 0,
         n >= FirstIno, n + 1 \in f.marked, NEW g, g = FreeInode(f, n)
  PROVE  FsOK(g) /\ Kept(f, g) /\ g.inode[n].type = "none"
<1>1. /\ FsType(g) /\ InodeSet(f, g, n, "none", f.inode[n].links)
      /\ g.entries = f.entries /\ g.marked = f.marked \ {n + 1} /\ g.free = f.free + 1
      /\ g.frees = f.frees + 1 /\ g.panicked = f.panicked
  BY FreeInodeIs DEF FsOK
<1>2. f.frees \in Nat /\ f.free \in Nat /\ Count(f.entries, Sub) \in Nat
  BY OccFinite DEF FsOK, FsType
<1>3. n \in Others
  BY <1>2 DEF FsOK, DirsOK, Others, Dirs
<1>4. n \in Nat /\ n > FirstIno /\ n <= LastIno /\ n # ROOT /\ n # Sub
  BY <1>3, OthersAre DEF Others, Dirs
<1>5. BitmapOK(g)
  <2>1. ROOT \in g.marked /\ Sub \in g.marked
    BY <1>1, <1>4, Constants DEF FsOK, BitmapOK
  <2>2. FirstIno + 1 \in f.marked
    <3>1. CASE f.frees = 0
      <4>1. n \in f.marked /\ n \in (FirstIno + 1)..LastIno
        BY <1>4, <3>1, Constants DEF InUse
      <4> QED
        BY <4>1 DEF FsOK, BitmapOK
    <3>2. CASE f.frees # 0
      BY <3>2 DEF FsOK, BitmapOK
    <3> QED
      BY <3>1, <3>2
  <2>3. FirstIno + 1 \in g.marked
    BY <1>1, <1>4, <2>2, Constants
  <2> DEFINE X == Span \ f.marked
             Y == Span \ g.marked
  <2>4. Y = X \union {n + 1} /\ n + 1 \notin X
    BY <1>1, <1>4, Constants DEF Span
  <2>5. IsFiniteSet(X)
    BY SpanFinite, FS_Subset, Zenon
  <2> HIDE DEF X, Y
  <2>6. Cardinality(Y) = Cardinality(X) + 1
    BY <2>4, <2>5, FS_AddElement
  <2>7. g.free = Cardinality(Y)
    BY <1>1, <2>6 DEF X, FsOK, BitmapOK
  <2> QED
    BY <2>1, <2>3, <2>7 DEF BitmapOK, Y
<1>6. DirsOK(g)
  <2>1. g.inode[ROOT] = f.inode[ROOT] /\ g.inode[Sub] = f.inode[Sub]
    BY <1>1, <1>4, Constants DEF InodeSet
  <2> QED
    BY <1>1, <2>1 DEF FsOK, DirsOK
<1>7. LinksOK(g)
  BY <1>1, <1>2 DEF LinksOK
<1>8. Kept(f, g)
  BY <1>1, <1>2 DEF Kept, InodeSet
<1> QED
  BY <1>1, <1>5, <1>6, <1>7, <1>8 DEF FsOK, InodeSet

LEMMA PanicOK ==
  ASSUME NEW f, FsOK(f)
  PROVE  FsOK(Panic(f)) /\ Kept(f, Panic(f)) /\ Panic(f).panicked
<1>1. /\ FsType(Panic(f)) /\ Panic(f).panicked = TRUE
      /\ Panic(f).entries = f.entries /\ Panic(f).inode = f.inode
      /\ Panic(f).marked = f.marked /\ Panic(f).free = f.free /\ Panic(f).frees = f.frees
  BY PanicIs DEF FsOK
<1> QED
  BY <1>1 DEF FsOK, BitmapOK, DirsOK, LinksOK, Kept

LEMMA PutOK ==
  ASSUME NEW f, NEW n \in Inos, FsOK(f), InUse(f, n), NEW g, g = PutInode(f, n)
  PROVE  /\ FsOK(g) /\ Kept(f, g)
         /\ f.inode[n].links # 0 => g = f
         /\ f.inode[n].links = 0 /\ ~g.panicked => g.inode[n].type = "none"
<1>1. CASE f.inode[n].links = 0 /\ ~f.panicked
  <2>1. g = FreeInode(f, n)
    BY <1>1, Zenon DEF PutInode
  <2>2. CASE n < FirstIno \/ n + 1 \notin f.marked
    <3>1. g = Panic(f)
      BY <2>1, <2>2, Zenon DEF FreeInode
    <3> QED
      BY <1>1, <3>1, PanicOK
  <2>3. CASE ~(n < FirstIno) /\ n + 1 \in f.marked
    <3>1. n >= FirstIno
      BY <2>3, InosAre, Constants
    <3> QED
      BY <1>1, <2>1, <2>3, <3>1, FreeOK
  <2> QED
    BY <2>2, <2>3
<1>2. CASE ~(f.inode[n].links = 0 /\ ~f.panicked)
  <2>1. g = f
    BY <1>2, Zenon DEF PutInode
  <2> QED
    BY <1>2, <2>1, KeptAll
<1> QED
  BY <1>1, <1>2

\* The two or three inodes that a handler holds.
LEMMA Put2OK ==
  ASSUME NEW f, NEW n \in Inos, NEW m \in Inos, FsOK(f), InUse(f, n), InUse(f, m),
         NEW g, g = Put2(f, n, m)
  PROVE  FsOK(g) /\ Kept(f, g)
<1> DEFINE h == PutInode(f, n)
           k == PutInode(h, m)
<1>1. FsOK(h) /\ Kept(f, h)
  BY PutOK
<1>2. InUse(h, m)
  BY <1>1, KeptAll
<1> HIDE DEF h
<1>3. FsOK(k) /\ Kept(h, k)
  BY <1>1, <1>2, PutOK
<1>4. Kept(f, k)
  BY <1>1, <1>3, KeptAll
<1>5. g = h \/ g = k
  BY DEF Put2, Put1, h
<1> QED
  BY <1>1, <1>3, <1>4, <1>5

LEMMA Put3OK ==
  ASSUME NEW f, NEW n \in Inos, NEW m \in Inos, NEW k \in Inos, FsOK(f),
         InUse(f, n), InUse(f, m), InUse(f, k), NEW g, g = Put3(f, n, m, k)
  PROVE  FsOK(g) /\ Kept(f, g)
<1> DEFINE h == Put2(f, n, m)
           i == PutInode(h, k)
<1>1. FsOK(h) /\ Kept(f, h)
  BY Put2OK
<1>2. InUse(h, k)
  BY <1>1, KeptAll
<1> HIDE DEF h
<1>3. FsOK(i) /\ Kept(h, i)
  BY <1>1, <1>2, PutOK
<1>4. Kept(f, i)
  BY <1>1, <1>3, KeptAll
<1>5. g = h \/ g = i
  BY DEF Put3, h
<1> QED
  BY <1>1, <1>3, <1>4, <1>5

-------------------------------------------------------------------------------
(* The steps of the handlers.                                              *)

\* Only entries, types and links differ.
SameBitmap(f, g) ==
  /\ g.marked = f.marked /\ g.free = f.free /\ g.frees = f.frees /\ g.panicked = f.panicked

LEMMA LowestIs ==
  ASSUME NEW f, FsOK(f), Unmarked(f) # {}, NEW n, n = Lowest(f)
  PROVE  n \in Others /\ n \notin f.marked /\ \A m \in Unmarked(f) : n <= m
<1>1. Unmarked(f) \in SUBSET Nat
  BY Constants DEF Unmarked
<1>2. \E x \in Unmarked(f) : \A y \in Unmarked(f) : x <= y
  BY <1>1, LeastOf
<1>3. n \in Unmarked(f) /\ \A m \in Unmarked(f) : n <= m
  BY <1>2 DEF Lowest
<1>4. n \in FirstIno..LastIno /\ n \notin f.marked
  BY <1>3 DEF Unmarked
<1>5. n \in Inos /\ n # ROOT /\ n # Sub
  BY <1>4, InosAre, Constants DEF FsOK, BitmapOK
<1> QED
  BY <1>3, <1>4, <1>5 DEF Others, Dirs

\* alloc_inode takes the lowest bit: an inode without links, which has no entry as long
\* as no inode has been freed.
LEMMA AllocOK ==
  ASSUME NEW f, FsOK(f), f.free # 0, Unmarked(f) # {}, NEW ty \in Types, NEW n, n = Lowest(f),
         NEW g, g = AllocInode(f, n, ty)
  PROVE  /\ FsOK(g) /\ InodeSet(f, g, n, ty, 0) /\ n \in Others
         /\ g.entries = f.entries /\ g.marked = f.marked \union {n}
         /\ g.frees = f.frees /\ g.panicked = f.panicked
<1>1. n \in Others /\ n \notin f.marked /\ \A m \in Unmarked(f) : n <= m
  BY LowestIs
<1>2. /\ FsType(g) /\ InodeSet(f, g, n, ty, 0)
      /\ g.entries = f.entries /\ g.marked = f.marked \union {n} /\ g.free = f.free - 1
      /\ g.frees = f.frees /\ g.panicked = f.panicked
  BY <1>1, AllocInodeIs DEF FsOK
<1>3. n \in Inos /\ n \in Nat /\ n > FirstIno /\ n <= LastIno /\ n # ROOT /\ n # Sub
  BY <1>1, OthersAre DEF Others, Dirs
<1>4. BitmapOK(g)
  <2>1. ROOT \in g.marked /\ Sub \in g.marked
    BY <1>2 DEF FsOK, BitmapOK
  <2>2. FirstIno + 1 \in g.marked
    <3>1. CASE FirstIno + 1 \in f.marked
      BY <1>2, <3>1
    <3>2. CASE FirstIno + 1 \notin f.marked
      <4>1. FirstIno + 1 \in Unmarked(f)
        BY <1>3, <3>2, Constants DEF Unmarked
      <4>2. n = FirstIno + 1
        BY <1>1, <1>3, <4>1, Constants
      <4> QED
        BY <1>2, <4>2
    <3> QED
      BY <3>1, <3>2
  <2> DEFINE X == Span \ f.marked
             Y == Span \ g.marked
  <2>3. Y = X \ {n} /\ n \in X
    BY <1>1, <1>2, <1>3, Constants DEF Span
  <2>4. IsFiniteSet(X)
    BY SpanFinite, FS_Subset, Zenon
  <2>5. f.free = Cardinality(X)
    BY DEF FsOK, BitmapOK
  <2> HIDE DEF X, Y
  <2>6. Cardinality(Y) = Cardinality(X) - 1
    BY <2>3, <2>4, FS_RemoveElement
  <2>7. g.free = Cardinality(Y)
    BY <1>2, <2>5, <2>6
  <2> QED
    BY <2>1, <2>2, <2>7 DEF BitmapOK, Y
<1>5. g.inode[ROOT] = f.inode[ROOT] /\ g.inode[Sub] = f.inode[Sub]
  BY <1>2, <1>3, Constants DEF InodeSet
<1>6. DirsOK(g)
  BY <1>2, <1>5 DEF FsOK, DirsOK
<1>7. LinksOK(g)
  <2>1. SUFFICES ASSUME f.frees = 0, NEW m \in Others
                 PROVE  /\ Count(g.entries, m) <= 1 /\ g.inode[m].links = Count(g.entries, m)
                        /\ Count(g.entries, m) = 1 => m \in g.marked /\ g.inode[m].type # "none"
    BY <1>2 DEF LinksOK
  <2>2. /\ Count(f.entries, m) <= 1 /\ f.inode[m].links = Count(f.entries, m)
        /\ Count(f.entries, m) = 1 => m \in f.marked /\ f.inode[m].type # "none"
        /\ Count(f.entries, m) \in Nat
    BY <2>1, OccFinite DEF FsOK, LinksOK
  <2>3. CASE m = n
    BY <1>1, <1>2, <2>2, <2>3 DEF InodeSet
  <2>4. CASE m # n
    <3>1. g.inode[m] = f.inode[m]
      BY <1>2, <2>4 DEF InodeSet, Others
    <3> QED
      BY <1>2, <2>2, <3>1
  <2> QED
    BY <2>3, <2>4
<1> QED
  BY <1>1, <1>2, <1>4, <1>6, <1>7 DEF FsOK

\* What is left to show when the bitmap is as it was.
LEMMA StepOK ==
  ASSUME NEW f, NEW g, FsOK(f), FsType(g), SameBitmap(f, g), DirsOK(g), LinksOK(g)
  PROVE  FsOK(g)
  BY DEF FsOK, BitmapOK, SameBitmap

\* The entry of a new inode, with its link.
LEMMA EnterOK ==
  ASSUME NEW f, FsOK(f), NEW d \in Inos, NEW nm \in Names, NEW n \in Others,
         f.inode[n].links = 0, f.inode[n].type # "none", n \in f.marked,
         NEW g \in DirentEnter(AddLinks(f, n, 1), d, nm, n)
  PROVE  /\ FsOK(g) /\ SameBitmap(f, g) /\ d \in Dirs
         /\ InodeSet(f, g, n, f.inode[n].type, 1)
         /\ \E j : EntGrown(f.entries, g.entries, d, j, Entry(nm, n))
<1> DEFINE h == AddLinks(f, n, 1)
<1>1. n \in Inos /\ n # ROOT /\ n # Sub /\ n \in Inos \ {ROOT}
  BY DEF Others, Dirs
<1>2. /\ FsType(h) /\ InodeSet(f, h, n, f.inode[n].type, (f.inode[n].links + 1) % Wrap)
      /\ h.entries = f.entries /\ h.marked = f.marked /\ h.free = f.free
      /\ h.frees = f.frees /\ h.panicked = f.panicked
  BY <1>1, AddLinksIs DEF FsOK
<1>3. (f.inode[n].links + 1) % Wrap = 1
  <2>1. f.inode[n].links \in 0..(Wrap - 1)
    BY <1>1 DEF FsOK, FsType, Inode
  <2> QED
    BY <2>1, LinkSums
<1> HIDE DEF h
<1>4. /\ d \in Dirs /\ FsType(g) /\ SameInodes(h, g)
      /\ \E j : EntGrown(h.entries, g.entries, d, j, Entry(nm, n))
  BY <1>1, <1>2, EnterIs DEF h
<1>5. InodeSet(f, g, n, f.inode[n].type, 1) /\ SameBitmap(f, g)
  BY <1>2, <1>3, <1>4 DEF InodeSet, SameInodes, SameBitmap
<1>6. PICK j : EntGrown(f.entries, g.entries, d, j, Entry(nm, n))
  BY <1>2, <1>4
<1>7. Entry(nm, n).ino = n
  BY DEF Entry
<1>8. EntriesOK(f.entries) /\ EntriesOK(g.entries)
  BY <1>4 DEF FsOK, FsType
<1>9. \A m : /\ Count(g.entries, m) = Count(f.entries, m) + (IF m = n THEN 1 ELSE 0)
             /\ Count(f.entries, m) \in Nat
  BY <1>6, <1>7, <1>8, CountGrown, OccFinite
<1>10. DirsOK(g)
  <2>1. g.inode[ROOT] = f.inode[ROOT] /\ g.inode[Sub] = f.inode[Sub]
    BY <1>1, <1>5, Constants DEF InodeSet
  <2>2. Count(g.entries, Sub) = Count(f.entries, Sub)
    BY <1>1, <1>9
  <2> QED
    BY <2>1, <2>2 DEF FsOK, DirsOK
<1>11. LinksOK(g)
  <2>1. SUFFICES ASSUME f.frees = 0, NEW m \in Others
                 PROVE  /\ Count(g.entries, m) <= 1 /\ g.inode[m].links = Count(g.entries, m)
                        /\ Count(g.entries, m) = 1 => m \in g.marked /\ g.inode[m].type # "none"
    BY <1>5 DEF LinksOK, SameBitmap
  <2>2. /\ Count(f.entries, m) <= 1 /\ f.inode[m].links = Count(f.entries, m)
        /\ Count(f.entries, m) = 1 => m \in f.marked /\ f.inode[m].type # "none"
    BY <2>1 DEF FsOK, LinksOK
  <2>3. CASE m = n
    BY <1>5, <1>9, <2>2, <2>3 DEF InodeSet, SameBitmap
  <2>4. CASE m # n
    <3>1. g.inode[m] = f.inode[m] /\ Count(g.entries, m) = Count(f.entries, m)
      BY <1>5, <1>9, <2>4 DEF InodeSet, Others
    <3> QED
      BY <1>5, <2>2, <3>1 DEF SameBitmap
  <2> QED
    BY <2>3, <2>4
<1>12. FsOK(g)
  BY <1>4, <1>5, <1>10, <1>11, StepOK
<1> QED
  BY <1>4, <1>5, <1>6, <1>12

\* A name is looked for in the entries alone.
LEMMA SameNames ==
  ASSUME NEW f, NEW g, g.entries = f.entries, NEW d, NEW nm
  PROVE  (Found(g, d, nm) <=> Found(f, d, nm)) /\ InoOf(g, d, nm) = InoOf(f, d, nm)
  BY DEF Found, InoOf, FirstAt

\* An inode that is not a directory loses an entry and a link.
LEMMA UnlinkOK ==
  ASSUME NEW f, FsOK(f), NEW d \in Inos, NEW nm \in Names, Found(f, d, nm),
         NEW n \in Others, n = InoOf(f, d, nm),
         NEW g, g = AddLinks(DirentDelete(f, d, nm), n, -1)
  PROVE  /\ FsOK(g) /\ SameBitmap(f, g) /\ InUse(f, n)
         /\ InodeSet(f, g, n, f.inode[n].type, (f.inode[n].links + -1) % Wrap)
         /\ \E j, x : EntGrown(g.entries, f.entries, d, j, x) /\ x.ino = n
<1> DEFINE h == DirentDelete(f, d, nm)
<1>1. n \in Inos /\ n # ROOT /\ n # Sub
  BY DEF Others, Dirs
<1>2. /\ d \in Dirs /\ FsType(h) /\ SameInodes(f, h)
      /\ \E j, x : EntGrown(h.entries, f.entries, d, j, x) /\ x.ino = n
  BY DeleteIs DEF FsOK
<1> HIDE DEF h
<1>3. /\ FsType(g) /\ InodeSet(h, g, n, h.inode[n].type, (h.inode[n].links + -1) % Wrap)
      /\ g.entries = h.entries /\ g.marked = h.marked /\ g.free = h.free
      /\ g.frees = h.frees /\ g.panicked = h.panicked
  BY <1>1, <1>2, AddLinksIs DEF h
<1>4. /\ InodeSet(f, g, n, f.inode[n].type, (f.inode[n].links + -1) % Wrap)
      /\ SameBitmap(f, g)
  BY <1>2, <1>3 DEF InodeSet, SameInodes, SameBitmap
<1>5. PICK j, x : EntGrown(g.entries, f.entries, d, j, x) /\ x.ino = n
  BY <1>2, <1>3
<1>6. EntriesOK(f.entries) /\ EntriesOK(g.entries)
  BY <1>3 DEF FsOK, FsType
<1>7. \A m : /\ Count(f.entries, m) = Count(g.entries, m) + (IF m = n THEN 1 ELSE 0)
             /\ Count(g.entries, m) \in Nat
  BY <1>5, <1>6, CountGrown, OccFinite
<1>8. DirsOK(g)
  <2>1. g.inode[ROOT] = f.inode[ROOT] /\ g.inode[Sub] = f.inode[Sub]
    BY <1>1, <1>4, Constants DEF InodeSet
  <2>2. Count(g.entries, Sub) = Count(f.entries, Sub)
    BY <1>1, <1>7
  <2> QED
    BY <2>1, <2>2 DEF FsOK, DirsOK
<1>9. ASSUME f.frees = 0, NEW m \in Others
      PROVE  /\ Count(f.entries, m) <= 1 /\ f.inode[m].links = Count(f.entries, m)
             /\ Count(f.entries, m) = 1 => m \in f.marked /\ f.inode[m].type # "none"
  BY <1>9 DEF FsOK, LinksOK
<1>10. InUse(f, n)
  <2>1. SUFFICES ASSUME f.frees = 0
                 PROVE  n \in f.marked
    BY DEF InUse
  <2>2. Count(f.entries, n) = Count(g.entries, n) + 1 /\ Count(g.entries, n) \in Nat
    BY <1>7
  <2> QED
    BY <1>9, <2>1, <2>2
<1>11. f.inode[n].links = 1 => (f.inode[n].links + -1) % Wrap = 0
  <2>1. f.inode[n].links \in 0..(Wrap - 1)
    BY <1>1 DEF FsOK, FsType, Inode
  <2> QED
    BY <2>1, LinkSums
<1>12. LinksOK(g)
  <2>1. SUFFICES ASSUME f.frees = 0, NEW m \in Others
                 PROVE  /\ Count(g.entries, m) <= 1 /\ g.inode[m].links = Count(g.entries, m)
                        /\ Count(g.entries, m) = 1 => m \in g.marked /\ g.inode[m].type # "none"
    BY <1>4 DEF LinksOK, SameBitmap
  <2>2. CASE m = n
    <3>1. Count(f.entries, n) = 1 /\ Count(g.entries, n) = 0
      BY <1>7, <1>9, <2>1, <2>2
    <3> QED
      BY <1>4, <1>9, <1>11, <2>1, <2>2, <3>1 DEF InodeSet
  <2>3. CASE m # n
    <3>1. g.inode[m] = f.inode[m] /\ Count(g.entries, m) = Count(f.entries, m)
      BY <1>4, <1>7, <2>3 DEF InodeSet, Others
    <3> QED
      BY <1>4, <1>9, <2>1, <3>1 DEF SameBitmap
  <2> QED
    BY <2>2, <2>3
<1>13. FsOK(g)
  BY <1>3, <1>4, <1>8, <1>12, StepOK
<1> QED
  BY <1>4, <1>5, <1>10, <1>13

\* The directory mke2fs made loses its entry, and with it the root directory a link.
LEMMA RmdirOK ==
  ASSUME NEW f, FsOK(f), NEW nm \in Names, Found(f, ROOT, nm), InoOf(f, ROOT, nm) = Sub,
         NEW g, g = AddLinks(AddLinks(DirentDelete(f, ROOT, nm), ROOT, -1), Sub, -1)
  PROVE  FsOK(g) /\ SameBitmap(f, g) /\ \A m \in Inos : g.inode[m].type = f.inode[m].type
<1> DEFINE h == DirentDelete(f, ROOT, nm)
           i == AddLinks(h, ROOT, -1)
<1>1. ROOT \in Inos /\ Sub \in Inos /\ ROOT # Sub
  BY Constants
<1>2. /\ FsType(h) /\ SameInodes(f, h)
      /\ \E j, x : EntGrown(h.entries, f.entries, ROOT, j, x) /\ x.ino = Sub
  BY <1>1, DeleteIs DEF FsOK
<1> HIDE DEF h
<1>3. /\ FsType(i) /\ InodeSet(h, i, ROOT, h.inode[ROOT].type, (h.inode[ROOT].links + -1) % Wrap)
      /\ i.entries = h.entries /\ i.marked = h.marked /\ i.free = h.free
      /\ i.frees = h.frees /\ i.panicked = h.panicked
  BY <1>1, <1>2, AddLinksIs
<1> HIDE DEF i
<1>4. /\ FsType(g) /\ InodeSet(i, g, Sub, i.inode[Sub].type, (i.inode[Sub].links + -1) % Wrap)
      /\ g.entries = i.entries /\ g.marked = i.marked /\ g.free = i.free
      /\ g.frees = i.frees /\ g.panicked = i.panicked
  BY <1>1, <1>3, AddLinksIs DEF h, i
<1>5. /\ g.inode[ROOT].links = (f.inode[ROOT].links + -1) % Wrap
      /\ g.inode[Sub].links = (f.inode[Sub].links + -1) % Wrap
      /\ \A m \in Inos : g.inode[m].type = f.inode[m].type
      /\ \A m \in Others : g.inode[m] = f.inode[m]
  BY <1>1, <1>2, <1>3, <1>4 DEF InodeSet, SameInodes, Others, Dirs
<1>6. SameBitmap(f, g)
  BY <1>2, <1>3, <1>4 DEF SameInodes, SameBitmap
<1>7. PICK j, x : EntGrown(g.entries, f.entries, ROOT, j, x) /\ x.ino = Sub
  BY <1>2, <1>3, <1>4
<1>8. EntriesOK(f.entries) /\ EntriesOK(g.entries)
  BY <1>4 DEF FsOK, FsType
<1>9. \A m : /\ Count(f.entries, m) = Count(g.entries, m) + (IF m = Sub THEN 1 ELSE 0)
             /\ Count(g.entries, m) \in Nat
  BY <1>7, <1>8, CountGrown, OccFinite
<1>10. DirsOK(g)
  <2>1. /\ Count(f.entries, Sub) = 1 /\ Count(g.entries, Sub) = 0
        /\ f.inode[Sub].links = 2 /\ f.inode[ROOT].links = 3
        /\ f.inode[Sub].type = "dir" /\ f.inode[ROOT].type = "dir"
    BY <1>9 DEF FsOK, DirsOK
  <2>2. f.inode[ROOT].links \in 0..(Wrap - 1) /\ f.inode[Sub].links \in 0..(Wrap - 1)
    BY <1>1 DEF FsOK, FsType, Inode
  <2>3. g.inode[ROOT].links = f.inode[ROOT].links - 1
        /\ g.inode[Sub].links = f.inode[Sub].links - 1
    BY <1>5, <2>1, <2>2, LinkSums
  <2> QED
    BY <1>1, <1>5, <2>1, <2>3 DEF DirsOK
<1>11. LinksOK(g)
  <2>1. SUFFICES ASSUME f.frees = 0, NEW m \in Others
                 PROVE  /\ Count(g.entries, m) <= 1 /\ g.inode[m].links = Count(g.entries, m)
                        /\ Count(g.entries, m) = 1 => m \in g.marked /\ g.inode[m].type # "none"
    BY <1>6 DEF LinksOK, SameBitmap
  <2>2. g.inode[m] = f.inode[m] /\ Count(g.entries, m) = Count(f.entries, m)
    BY <1>5, <1>9 DEF Others, Dirs
  <2> QED
    BY <1>6, <2>1, <2>2 DEF SameBitmap, FsOK, LinksOK
<1> QED
  BY <1>4, <1>5, <1>6, <1>10, <1>11, StepOK

\* The entry that a new name is looked up by, when no other has it; and the inode of an
\* old name stays, even if the new entry of that inode has the same name.
LEMMA NameOfNew ==
  ASSUME NEW f, FsType(f), NEW g, FsType(g), NEW d \in Inos, NEW nm \in Names, ~Found(f, d, nm),
         NEW n, NEW j, EntGrown(f.entries, g.entries, d, j, Entry(nm, n))
  PROVE  Found(g, d, nm) /\ InoOf(g, d, nm) = n
<1> DEFINE s == f.entries[d]
           t == g.entries[d]
           q == FirstAt(g, d, nm)
           x == Entry(nm, n)
<1>1. x.name = nm /\ x.ino = n
  BY DEF Entry
<1> HIDE DEF x
<1>2. /\ Len(s) \in Nat /\ Len(t) = Len(s) + 1 /\ j \in 1..Len(t) /\ t[j] = x
      /\ \A k \in 1..(j - 1) : t[k] = s[k]
      /\ \A k \in j..Len(s) : t[k + 1] = s[k]
  BY DEF EntGrown, Grown, FsType, EntriesOK, x
<1>3. Found(g, d, nm)
  BY <1>1, <1>2 DEF Found
<1>4. q \in 3..Len(t) /\ t[q].name = nm /\ InoOf(g, d, nm) = t[q].ino
  BY <1>3, FirstAtIs
<1> HIDE DEF q
<1>5. \A k \in 1..Len(s) : s[k].name # nm
  BY DEF Found
<1>6. q = j
  <2>1. CASE q < j
    <3>1. q \in 1..(j - 1) /\ q \in 1..Len(s)
      BY <1>2, <1>4, <2>1
    <3> QED
      BY <1>2, <1>4, <1>5, <3>1
  <2>2. CASE q > j
    <3>1. q - 1 \in j..Len(s) /\ q - 1 \in 1..Len(s) /\ q - 1 + 1 = q
      BY <1>2, <1>4, <2>2
    <3>2. t[q] = s[q - 1]
      BY <1>2, <3>1
    <3> QED
      BY <1>4, <1>5, <3>1, <3>2
  <2> QED
    BY <1>2, <1>4, <2>1, <2>2
<1> QED
  BY <1>1, <1>2, <1>3, <1>4, <1>6

LEMMA NameStays ==
  ASSUME NEW f, FsType(f), NEW g, FsType(g), NEW sd \in Inos, NEW sn \in Names, Found(f, sd, sn),
         NEW n, n = InoOf(f, sd, sn), NEW dd \in Inos, NEW dn, NEW j,
         EntGrown(f.entries, g.entries, dd, j, Entry(dn, n))
  PROVE  Found(g, sd, sn) /\ InoOf(g, sd, sn) = n
<1> DEFINE s == f.entries[sd]
           t == g.entries[sd]
           p == FirstAt(f, sd, sn)
           q == FirstAt(g, sd, sn)
           x == Entry(dn, n)
<1>1. CASE sd # dd
  <2>1. t = s
    BY <1>1 DEF EntGrown
  <2> QED
    BY <2>1 DEF Found, InoOf, FirstAt
<1>2. CASE sd = dd
  <2>1. x.ino = n
    BY DEF Entry
  <2> HIDE DEF x
  <2>2. /\ Len(s) \in Nat /\ Len(t) = Len(s) + 1 /\ j \in 1..Len(t) /\ t[j] = x
        /\ \A k \in 1..(j - 1) : t[k] = s[k]
        /\ \A k \in j..Len(s) : t[k + 1] = s[k]
    BY <1>2 DEF EntGrown, Grown, FsType, EntriesOK, x
  <2>3. /\ p \in 3..Len(s) /\ s[p].name = sn /\ s[p].ino = n
        /\ \A k \in 1..(p - 1) : s[k].name # sn
    BY FirstAtIs
  <2> HIDE DEF p
  <2>4. Found(g, sd, sn)
    <3>1. CASE p < j
      <4>1. p \in 1..(j - 1) /\ p \in 1..Len(t)
        BY <2>2, <2>3, <3>1
      <4> QED
        BY <2>2, <2>3, <4>1 DEF Found
    <3>2. CASE p >= j
      <4>1. p \in j..Len(s) /\ p + 1 \in 1..Len(t)
        BY <2>2, <2>3, <3>2
      <4> QED
        BY <2>2, <2>3, <4>1 DEF Found
    <3> QED
      BY <2>2, <2>3, <3>1, <3>2
  <2>5. /\ q \in 3..Len(t) /\ t[q].name = sn /\ InoOf(g, sd, sn) = t[q].ino
        /\ \A k \in 1..(q - 1) : t[k].name # sn
    BY <2>4, FirstAtIs
  <2> HIDE DEF q
  <2>6. CASE q = j
    BY <2>1, <2>2, <2>4, <2>5, <2>6
  <2>7. CASE q < j
    <3>1. q \in 1..(j - 1) /\ q \in 1..Len(s)
      BY <2>2, <2>5, <2>7
    <3>2. t[q] = s[q] /\ s[q].name = sn
      BY <2>2, <2>5, <3>1
    <3>3. ~(q < p)
      <4>1. q < p => q \in 1..(p - 1)
        BY <2>3, <2>5
      <4> QED
        BY <2>3, <3>2, <4>1
    <3>4. ~(p < q)
      <4>1. ASSUME p < q
            PROVE  FALSE
        <5>1. p \in 1..(q - 1) /\ p \in 1..(j - 1)
          BY <2>2, <2>3, <2>5, <2>7, <4>1
        <5>2. t[p] = s[p]
          BY <2>2, <5>1
        <5> QED
          BY <2>3, <2>5, <5>1, <5>2
      <4> QED
        BY <4>1
    <3>5. p = q
      BY <2>3, <2>5, <3>3, <3>4
    <3> QED
      BY <2>3, <2>4, <2>5, <3>2, <3>5
  <2>8. CASE q > j
    <3>1. q - 1 \in j..Len(s) /\ q - 1 \in 1..Len(s) /\ q - 1 + 1 = q
      BY <2>2, <2>5, <2>8
    <3>2. t[q] = s[q - 1] /\ s[q - 1].name = sn
      BY <2>2, <2>5, <3>1
    <3>3. ~(q - 1 < p)
      <4>1. q - 1 < p => q - 1 \in 1..(p - 1)
        BY <2>3, <2>5, <3>1
      <4> QED
        BY <2>3, <3>2, <4>1
    <3>4. ~(p < q - 1)
      <4>1. ASSUME p < q - 1
            PROVE  FALSE
        <5>1. CASE p < j
          <6>1. p \in 1..(j - 1) /\ p \in 1..(q - 1)
            BY <2>2, <2>3, <2>5, <4>1, <5>1
          <6>2. t[p] = s[p]
            BY <2>2, <6>1
          <6> QED
            BY <2>3, <2>5, <6>1, <6>2
        <5>2. CASE p >= j
          <6>1. p \in j..Len(s) /\ p + 1 \in 1..(q - 1)
            BY <2>2, <2>3, <2>5, <4>1, <5>2
          <6>2. t[p + 1] = s[p]
            BY <2>2, <6>1
          <6> QED
            BY <2>3, <2>5, <6>1, <6>2
        <5> QED
          BY <2>2, <2>3, <5>1, <5>2
      <4> QED
        BY <4>1
    <3>5. p = q - 1
      BY <2>3, <2>5, <3>3, <3>4
    <3> QED
      BY <2>3, <2>4, <2>5, <3>2, <3>5
  <2> QED
    BY <2>2, <2>5, <2>6, <2>7, <2>8
<1> QED
  BY <1>1, <1>2

\* rename enters the new entry and deletes the old one: every inode has as many entries
\* and as many links as before.
LEMMA RenameOK ==
  ASSUME NEW f, FsOK(f), NEW sd \in Inos, NEW sn \in Names, Found(f, sd, sn),
         NEW dd \in Inos, NEW dn \in Names, NEW n, n = InoOf(f, sd, sn),
         NEW h \in DirentEnter(f, dd, dn, n),
         NEW g, g = AddLinks(DirentDelete(AddLinks(h, n, 1), sd, sn), n, -1)
  PROVE  /\ FsOK(g) /\ SameBitmap(f, g) /\ g.inode = f.inode
         /\ \A m : Count(g.entries, m) = Count(f.entries, m)
<1> DEFINE a == AddLinks(h, n, 1)
           b == DirentDelete(a, sd, sn)
<1>1. n \in Inos \ {ROOT} /\ n \in Inos /\ FsType(f)
  BY FirstAtIs DEF FsOK
<1>2. /\ FsType(h) /\ SameInodes(f, h) /\ dd \in Dirs
      /\ \E j : EntGrown(f.entries, h.entries, dd, j, Entry(dn, n))
  BY <1>1, EnterIs
<1>3. PICK j : EntGrown(f.entries, h.entries, dd, j, Entry(dn, n))
  BY <1>2
<1>4. Found(h, sd, sn) /\ InoOf(h, sd, sn) = n
  BY <1>1, <1>2, <1>3, NameStays
<1>5. /\ FsType(a) /\ InodeSet(h, a, n, h.inode[n].type, (h.inode[n].links + 1) % Wrap)
      /\ a.entries = h.entries /\ a.marked = h.marked /\ a.free = h.free
      /\ a.frees = h.frees /\ a.panicked = h.panicked
  BY <1>1, <1>2, AddLinksIs
<1> HIDE DEF a
<1>6. Found(a, sd, sn) /\ InoOf(a, sd, sn) = n
  BY <1>4, <1>5, SameNames
<1>7. /\ FsType(b) /\ SameInodes(a, b)
      /\ \E k, x : EntGrown(b.entries, a.entries, sd, k, x) /\ x.ino = n
  BY <1>5, <1>6, DeleteIs
<1> HIDE DEF b
<1>8. /\ FsType(g) /\ InodeSet(b, g, n, b.inode[n].type, (b.inode[n].links + -1) % Wrap)
      /\ g.entries = b.entries /\ g.marked = b.marked /\ g.free = b.free
      /\ g.frees = b.frees /\ g.panicked = b.panicked
  BY <1>1, <1>7, AddLinksIs DEF a, b
<1>9. SameBitmap(f, g)
  BY <1>2, <1>5, <1>7, <1>8 DEF SameInodes, SameBitmap
<1>10. g.inode = f.inode
  <2>1. g.inode \in [Inos -> Inode] /\ f.inode \in [Inos -> Inode]
    BY <1>1, <1>8 DEF FsType
  <2>2. ASSUME NEW m \in Inos
        PROVE  g.inode[m] = f.inode[m]
    <3>1. CASE m # n
      BY <1>2, <1>5, <1>7, <1>8, <3>1 DEF InodeSet, SameInodes
    <3>2. CASE m = n
      <4>1. f.inode[n].links \in 0..(Wrap - 1)
        BY <1>1, <2>1 DEF Inode
      <4>2. /\ g.inode[n].type = f.inode[n].type
            /\ g.inode[n].links = (((f.inode[n].links + 1) % Wrap) + -1) % Wrap
        BY <1>2, <1>5, <1>7, <1>8 DEF InodeSet, SameInodes
      <4>3. g.inode[n].links = f.inode[n].links
        BY <4>1, <4>2, LinkSums
      <4>4. g.inode[n] \in Inode /\ f.inode[n] \in Inode
        BY <1>1, <2>1
      <4> QED
        BY <3>2, <4>2, <4>3, <4>4 DEF Inode
    <3> QED
      BY <3>1, <3>2
  <2> QED
    BY <2>1, <2>2
<1>11. PICK k, x : EntGrown(g.entries, h.entries, sd, k, x) /\ x.ino = n
  BY <1>5, <1>7, <1>8
<1>12. EntriesOK(f.entries) /\ EntriesOK(g.entries) /\ EntriesOK(h.entries)
  BY <1>1, <1>2, <1>8 DEF FsType
<1>13. ASSUME NEW m
       PROVE  Count(g.entries, m) = Count(f.entries, m)
  <2>1. /\ Count(g.entries, m) \in Nat /\ Count(f.entries, m) \in Nat
        /\ Count(h.entries, m) = Count(g.entries, m) + (IF m = x.ino THEN 1 ELSE 0)
    BY <1>11, <1>12, CountGrown, OccFinite
  <2>2. Count(h.entries, m) = Count(f.entries, m) + (IF m = Entry(dn, n).ino THEN 1 ELSE 0)
    BY <1>3, <1>12, CountGrown
  <2>3. Entry(dn, n).ino = n
    BY DEF Entry
  <2> QED
    BY <1>11, <2>1, <2>2, <2>3
<1>14. DirsOK(g) /\ LinksOK(g)
  BY <1>9, <1>10, <1>13 DEF FsOK, DirsOK, LinksOK, SameBitmap
<1> QED
  BY <1>8, <1>9, <1>10, <1>13, <1>14, StepOK

\* A link that is given back.
LEMMA BackOK ==
  ASSUME NEW f, FsOK(f), NEW n \in Inos, NEW g, g = AddLinks(AddLinks(f, n, 1), n, -1)
  PROVE  FsOK(g) /\ SameBitmap(f, g) /\ g.entries = f.entries /\ g.inode = f.inode
<1> DEFINE a == AddLinks(f, n, 1)
<1>1. /\ FsType(a) /\ InodeSet(f, a, n, f.inode[n].type, (f.inode[n].links + 1) % Wrap)
      /\ a.entries = f.entries /\ a.marked = f.marked /\ a.free = f.free
      /\ a.frees = f.frees /\ a.panicked = f.panicked
  BY AddLinksIs DEF FsOK
<1> HIDE DEF a
<1>2. /\ FsType(g) /\ InodeSet(a, g, n, a.inode[n].type, (a.inode[n].links + -1) % Wrap)
      /\ g.entries = a.entries /\ g.marked = a.marked /\ g.free = a.free
      /\ g.frees = a.frees /\ g.panicked = a.panicked
  BY <1>1, AddLinksIs DEF a
<1>3. g.inode = f.inode
  <2>1. g.inode \in [Inos -> Inode] /\ f.inode \in [Inos -> Inode]
    BY <1>2 DEF FsOK, FsType
  <2>2. g.inode[n] = f.inode[n]
    <3>1. f.inode[n].links \in 0..(Wrap - 1)
      BY <2>1 DEF Inode
    <3>2. /\ g.inode[n].type = f.inode[n].type
          /\ g.inode[n].links = (((f.inode[n].links + 1) % Wrap) + -1) % Wrap
      BY <1>1, <1>2 DEF InodeSet
    <3>3. g.inode[n].links = f.inode[n].links
      BY <3>1, <3>2, LinkSums
    <3>4. g.inode[n] \in Inode /\ f.inode[n] \in Inode
      BY <2>1
    <3> QED
      BY <3>2, <3>3, <3>4 DEF Inode
  <2>3. \A m \in Inos : g.inode[m] = f.inode[m]
    BY <1>1, <1>2, <2>2 DEF InodeSet
  <2> QED
    BY <2>1, <2>3
<1>4. SameBitmap(f, g) /\ g.entries = f.entries
  BY <1>1, <1>2 DEF SameBitmap
<1>5. DirsOK(g) /\ LinksOK(g)
  BY <1>3, <1>4 DEF FsOK, DirsOK, LinksOK, SameBitmap
<1> QED
  BY <1>2, <1>3, <1>4, <1>5, StepOK

\* Bits that are set stay set, until an inode is freed.
Mono(f, g) == \A m : InUse(f, m) => InUse(g, m)

\* What new_inode leaves when it has made inode n, and when it has failed.
Made(f, g, d, nm, ty, n) ==
  /\ FsOK(g) /\ Mono(f, g) /\ n \in Others /\ n \in g.marked
  /\ d \in Dirs /\ ~Found(f, d, nm)
  /\ g.panicked = f.panicked
  /\ g.inode[n].type = ty /\ g.inode[n].links = 1
  /\ \A m \in Others \ {n} : g.inode[m].type = f.inode[m].type
  /\ \E j : EntGrown(f.entries, g.entries, d, j, Entry(nm, n))

Failed(f, g) ==
  /\ FsOK(g) /\ Mono(f, g) /\ g.entries = f.entries
  /\ NoMore(f) => NoMore(g)

LEMMA MakingOK ==
  ASSUME NEW f, FsOK(f), NEW d \in Inos, NEW nm \in Names, NEW ty \in {"file", "dir"},
         ~Found(f, d, nm), f.free # 0, Unmarked(f) # {}, NEW n, n = Lowest(f)
  PROVE  LET made == AddLinks(AllocInode(f, n, ty), n, 1)
         IN /\ \A g \in DirentEnter(made, d, nm, n) : Made(f, g, d, nm, ty, n)
            /\ Failed(f, Put1(AddLinks(made, n, -1), n))
<1> DEFINE a == AllocInode(f, n, ty)
           made == AddLinks(a, n, 1)
           b == AddLinks(made, n, -1)
           u == PutInode(b, n)
<1>1. /\ FsOK(a) /\ InodeSet(f, a, n, ty, 0) /\ n \in Others
      /\ a.entries = f.entries /\ a.marked = f.marked \union {n}
      /\ a.frees = f.frees /\ a.panicked = f.panicked
  <2>1. ty \in Types
    BY DEF Types
  <2> QED
    BY <2>1, AllocOK
<1> HIDE DEF a
<1>2. n \in Inos /\ Mono(f, a) /\ ty # "none" /\ n \in a.marked
  BY <1>1 DEF Others, Mono, InUse
<1>3. ASSUME NEW g \in DirentEnter(made, d, nm, n)
      PROVE  Made(f, g, d, nm, ty, n)
  <2>1. a.inode[n].links = 0 /\ a.inode[n].type = ty
    BY <1>1 DEF InodeSet
  <2>2. /\ FsOK(g) /\ SameBitmap(a, g) /\ d \in Dirs
        /\ InodeSet(a, g, n, a.inode[n].type, 1)
        /\ \E j : EntGrown(a.entries, g.entries, d, j, Entry(nm, n))
    BY <1>1, <1>2, <1>3, <2>1, EnterOK
  <2>3. Mono(f, g) /\ n \in g.marked /\ g.panicked = f.panicked
    BY <1>1, <1>2, <2>2 DEF Mono, InUse, SameBitmap
  <2>4. /\ g.inode[n].type = ty /\ g.inode[n].links = 1
        /\ \A m \in Others \ {n} : g.inode[m].type = f.inode[m].type
    BY <1>1, <2>1, <2>2 DEF InodeSet, Others
  <2> QED
    BY <1>1, <2>2, <2>3, <2>4 DEF Made
<1>4. FsOK(b) /\ SameBitmap(a, b) /\ b.entries = a.entries /\ b.inode = a.inode
  BY <1>1, <1>2, BackOK
<1> HIDE DEF made, b
<1>5. InUse(b, n) /\ b.inode[n].links = 0
  BY <1>1, <1>2, <1>4 DEF InUse, SameBitmap, InodeSet
<1>6. FsOK(u) /\ Kept(b, u) /\ (~u.panicked => u.inode[n].type = "none")
  BY <1>2, <1>4, <1>5, PutOK
<1> HIDE DEF u
<1>7. Mono(f, u) /\ u.entries = f.entries
  BY <1>1, <1>2, <1>4, <1>6, KeptAll DEF Mono, InUse, SameBitmap, Kept
<1>8. NoMore(f) => NoMore(u)
  <2>1. SUFFICES ASSUME NoMore(f), ~u.panicked, NEW m \in Others
                 PROVE  u.inode[m].type # "dir"
    BY DEF NoMore
  <2>2. ~f.panicked
    BY <1>1, <1>4, <1>6, <2>1 DEF Kept, SameBitmap
  <2>3. CASE m = n
    BY <1>6, <2>1, <2>3
  <2>4. CASE m # n
    <3>1. u.inode[m].type \in {f.inode[m].type, "none"}
      BY <1>1, <1>4, <1>6, <2>4 DEF Kept, InodeSet, Others
    <3> QED
      BY <2>1, <2>2, <3>1 DEF NoMore
  <2> QED
    BY <2>3, <2>4
<1>9. Failed(f, u)
  BY <1>6, <1>7, <1>8 DEF Failed
<1> QED
  BY <1>3, <1>9 DEF u, b, made, a, Put1

LEMMA NewInodeOK ==
  ASSUME NEW f, FsOK(f), NEW d \in Inos, NEW nm \in Names, NEW ty \in {"file", "dir"},
         NEW r \in NewInode(f, d, nm, ty)
  PROVE  \/ r.sc = "OK" /\ Made(f, r.fs, d, nm, ty, r.ino)
         \/ r.sc # "OK" /\ Failed(f, r.fs)
<1> DEFINE n    == Lowest(f)
           made == AddLinks(AllocInode(f, n, ty), n, 1)
           undone == Put1(AddLinks(made, n, -1), n)
           fail(sc) == {[fs |-> f, sc |-> sc, ino |-> 0]}
           ok == {[fs |-> g, sc |-> "OK", ino |-> n] : g \in DirentEnter(made, d, nm, n)}
           no == {[fs |-> undone, sc |-> "ENOENT", ino |-> 0]}
           pa == {[fs |-> Panic(f), sc |-> "none", ino |-> 0]}
<1>1. Failed(f, f) /\ Failed(f, Panic(f))
  <2>1. FsOK(Panic(f)) /\ Kept(f, Panic(f))
    BY PanicOK
  <2>2. \A m : InUse(f, m) => InUse(Panic(f), m)
    BY <2>1, KeptAll, Zenon
  <2>3. NoMore(f) => NoMore(Panic(f))
    BY <2>1, KeptAll, Zenon
  <2> QED
    BY <2>1, <2>2, <2>3 DEF Failed, Mono, Kept
<1>2. \/ \E sc \in {"ENOENT", "EMLINK", "EEXIST", "ENOSPC"} : r \in fail(sc)
      \/ r \in pa
      \/ ~Found(f, d, nm) /\ f.free # 0 /\ Unmarked(f) # {} /\ r \in ok \union no
  <2> HIDE DEF fail, ok, no, pa
  <2>1. NewInode(f, d, nm, ty) =
          IF f.inode[d].links = 0 THEN fail("ENOENT")
          ELSE IF ty = "dir" /\ f.inode[d].links >= LinkMax THEN fail("EMLINK")
          ELSE IF Found(f, d, nm) THEN fail("EEXIST")
          ELSE IF f.free = 0 THEN fail("ENOSPC")
          ELSE IF Unmarked(f) = {} THEN pa
          ELSE ok \union no
    BY Zenon DEF NewInode, fail, ok, no, pa
  <2> QED
    BY <2>1, Zenon
<1>3. CASE \E sc \in {"ENOENT", "EMLINK", "EEXIST", "ENOSPC"} : r \in fail(sc)
  <2>1. r.sc # "OK" /\ r.fs = f
    BY <1>3
  <2> QED
    BY <1>1, <2>1
<1>4. CASE r \in pa
  <2>1. r.sc # "OK" /\ r.fs = Panic(f)
    BY <1>4
  <2> QED
    BY <1>1, <2>1
<1>5. CASE ~Found(f, d, nm) /\ f.free # 0 /\ Unmarked(f) # {} /\ r \in ok \union no
  <2>1. /\ \A g \in DirentEnter(made, d, nm, n) : Made(f, g, d, nm, ty, n)
        /\ Failed(f, undone)
    BY <1>5, MakingOK
  <2> HIDE DEF made, undone, n
  <2>2. CASE r \in ok
    <3>1. PICK g \in DirentEnter(made, d, nm, n) : r = [fs |-> g, sc |-> "OK", ino |-> n]
      BY <2>2
    <3>2. r.sc = "OK" /\ r.fs = g /\ r.ino = n
      BY <3>1
    <3> QED
      BY <2>1, <3>1, <3>2
  <2>3. CASE r \in no
    <3>1. r.sc # "OK" /\ r.fs = undone
      BY <2>3
    <3> QED
      BY <2>1, <3>1
  <2> QED
    BY <1>5, <2>2, <2>3
<1> QED
  BY <1>2, <1>3, <1>4, <1>5

-------------------------------------------------------------------------------
(* The handlers.                                                           *)

\* What a request does: it keeps the invariant, changes no entry if it fails, and
\* nothing but unlink, rmdir and what makes an inode changes how often one is named.
Outcome ==
  /\ IInv'
  /\ reply'.sc # "OK" => fs'.entries = fs.entries
  /\ reply'.cmd = "rename" => \A m : Count(fs'.entries, m) = Count(fs.entries, m)

LEMMA KeepsInv ==
  ASSUME IInv, FsOK(fs'), NoMore(fs'), Mono(fs, fs'), known' = known,
         reply'.ino \in Inos \union {0}
  PROVE  IInv'
  BY DEF IInv, Mono

LEMMA TellsInv ==
  ASSUME IInv, FsOK(fs'), NoMore(fs'), Mono(fs, fs'), NEW n \in Inos, NEW ty \in Types,
         Tell(n, ty), InUse(fs', n), reply'.ino \in Inos \union {0}
  PROVE  IInv'
<1>1. known' = [known EXCEPT ![n] = ty] /\ known \in [Inos -> Types]
  BY DEF Tell, IInv
<1>2. known' \in [Inos -> Types]
  BY <1>1
<1>3. \A m \in Inos : known'[m] # "none" => InUse(fs', m)
  BY <1>1 DEF IInv, Mono
<1> QED
  BY <1>2, <1>3 DEF IInv

LEMMA MonoAll ==
  /\ \A f : Mono(f, f)
  /\ \A f, g, h : Mono(f, g) /\ Mono(g, h) => Mono(f, h)
  /\ \A f, g : Kept(f, g) => Mono(f, g)
  /\ \A f, g : SameBitmap(f, g) => Mono(f, g)
  BY DEF Mono, InUse, Kept, SameBitmap

LEMMA KnownDirsAre ==
  ASSUME IInv, NEW d \in KnownDirs
  PROVE  d \in Inos /\ InUse(fs, d) /\ FsOK(fs) /\ NoMore(fs)
  BY DEF KnownDirs, IInv

\* What an entry names is in use.
LEMMA NamedInUse ==
  ASSUME NEW f, FsOK(f), NEW d \in Inos, NEW nm \in Names, Found(f, d, nm),
         NEW n, n = InoOf(f, d, nm)
  PROVE  n \in Inos /\ n # ROOT /\ d \in Dirs /\ InUse(f, n)
<1>1. n \in Inos \ {ROOT} /\ FsType(f)
  BY FirstAtIs DEF FsOK
<1> DEFINE g == DirentDelete(f, d, nm)
<1>2. /\ d \in Dirs /\ FsType(g)
      /\ \E j, x : EntGrown(g.entries, f.entries, d, j, x) /\ x.ino = n
  BY <1>1, DeleteIs
<1> HIDE DEF g
<1>3. PICK j, x : EntGrown(g.entries, f.entries, d, j, x) /\ x.ino = n
  BY <1>2
<1>4. EntriesOK(f.entries) /\ EntriesOK(g.entries)
  BY <1>1, <1>2 DEF FsType
<1>5. /\ Count(f.entries, n) = Count(g.entries, n) + (IF n = x.ino THEN 1 ELSE 0)
      /\ Count(g.entries, n) \in Nat
  BY <1>3, <1>4, CountGrown, OccFinite
<1>6. InUse(f, n)
  <2>1. CASE n = Sub
    BY <2>1 DEF FsOK, BitmapOK, InUse
  <2>2. CASE n # Sub
    <3>1. n \in Others
      BY <1>1, <2>2 DEF Others, Dirs
    <3>2. SUFFICES ASSUME f.frees = 0
                   PROVE  n \in f.marked
      BY DEF InUse
    <3>3. Count(f.entries, n) <= 1
      BY <3>1, <3>2 DEF FsOK, LinksOK
    <3>4. Count(f.entries, n) = 1
      BY <1>3, <1>5, <3>3
    <3> QED
      BY <3>1, <3>2, <3>4 DEF FsOK, LinksOK
  <2> QED
    BY <2>1, <2>2
<1> QED
  BY <1>1, <1>2, <1>6

\* A request that has failed puts the directory.
LEMMA FailedStep ==
  ASSUME IInv, NEW d \in Inos, InUse(fs, d), NEW h, Failed(fs, h), fs' = Put1(h, d),
         known' = known, reply'.ino = 0, reply'.cmd # "rename"
  PROVE  Outcome
<1>1. /\ FsOK(h) /\ Mono(fs, h) /\ NoMore(h) /\ h.entries = fs.entries
      /\ InUse(h, d)
  BY DEF Failed, Mono, IInv
<1>2. fs' = PutInode(h, d)
  BY DEF Put1
<1>3. FsOK(fs') /\ Kept(h, fs')
  BY <1>1, <1>2, PutOK
<1>4. NoMore(fs') /\ Mono(fs, fs') /\ fs'.entries = fs.entries
  <2>1. NoMore(fs') /\ Mono(fs, fs')
    BY <1>1, <1>3, KeptAll, MonoAll, Zenon
  <2>2. fs'.entries = fs.entries
    BY <1>1, <1>3 DEF Kept
  <2> QED
    BY <2>1, <2>2
<1>5. IInv'
  BY <1>3, <1>4, KeepsInv
<1> QED
  BY <1>4, <1>5 DEF Outcome

LEMMA CreateStep ==
  ASSUME IInv, NEW d \in KnownDirs, NEW nm \in Names, Create(d, nm) \/ Mknod(d, nm)
  PROVE  Outcome
<1>1. d \in Inos /\ InUse(fs, d) /\ FsOK(fs) /\ NoMore(fs)
  BY KnownDirsAre
<1>2. PICK r \in NewInode(fs, d, nm, "file") :
        /\ fs' = IF r.sc = "OK" THEN Put2(r.fs, d, r.ino) ELSE Put1(r.fs, d)
        /\ reply'.sc = r.sc /\ reply'.cmd \in {"create", "mknod"}
        /\ IF r.sc = "OK" THEN reply'.ino \in {0, r.ino} /\ (Tell(r.ino, "file") \/ known' = known)
                          ELSE reply'.ino = 0 /\ known' = known
  BY DEF Create, Mknod, Reply
<1>3. CASE r.sc = "OK"
  <2>1. Made(fs, r.fs, d, nm, "file", r.ino)
    BY <1>1, <1>2, <1>3, NewInodeOK
  <2>2. /\ FsOK(r.fs) /\ Mono(fs, r.fs) /\ r.ino \in Others /\ r.ino \in Inos
        /\ InUse(r.fs, d) /\ InUse(r.fs, r.ino)
    BY <1>1, <2>1 DEF Made, Mono, InUse, Others
  <2>3. NoMore(r.fs)
    BY <1>1, <2>1 DEF Made, NoMore
  <2>4. fs' = Put2(r.fs, d, r.ino)
    BY <1>2, <1>3
  <2>5. FsOK(fs') /\ Kept(r.fs, fs')
    BY <1>1, <2>2, <2>4, Put2OK
  <2>6. NoMore(fs') /\ Mono(fs, fs') /\ InUse(fs', r.ino)
    BY <2>2, <2>3, <2>5, KeptAll, MonoAll
  <2>7. IInv'
    <3>1. reply'.ino \in Inos \union {0} /\ "file" \in Types
      BY <1>2, <1>3, <2>2 DEF Types
    <3>2. CASE known' = known
      BY <2>5, <2>6, <3>1, <3>2, KeepsInv
    <3>3. CASE Tell(r.ino, "file")
      BY <2>2, <2>5, <2>6, <3>1, <3>3, TellsInv
    <3> QED
      BY <1>2, <1>3, <3>2, <3>3
  <2> QED
    BY <1>2, <1>3, <2>7 DEF Outcome
<1>4. CASE r.sc # "OK"
  <2>1. Failed(fs, r.fs)
    BY <1>1, <1>2, <1>4, NewInodeOK
  <2> QED
    BY <1>1, <1>2, <1>4, <2>1, FailedStep
<1> QED
  BY <1>3, <1>4

\* The new directory has no blocks: "." and ".." do not get in, its entry is taken back,
\* and put_inode frees it or panics.
LEMMA MkdirStep ==
  ASSUME IInv, NEW d \in KnownDirs, NEW nm \in Names, Mkdir(d, nm)
  PROVE  Outcome
<1>1. d \in Inos /\ InUse(fs, d) /\ FsOK(fs) /\ NoMore(fs)
  BY KnownDirsAre
<1>2. PICK r \in NewInode(fs, d, nm, "dir") :
        /\ reply'.sc = r.sc /\ reply'.cmd = "mkdir"
        /\ IF r.sc = "OK"
           THEN /\ \E g \in Populate(r.fs, d, nm, r.ino) : fs' = Put2(g, d, r.ino)
                /\ Tell(r.ino, "dir") /\ reply'.ino = r.ino
           ELSE fs' = Put1(r.fs, d) /\ known' = known /\ reply'.ino = 0
  BY DEF Mkdir, Reply
<1>3. CASE r.sc = "OK"
  <2> DEFINE h == r.fs
             n == r.ino
             g == AddLinks(DirentDelete(h, d, nm), n, -1)
             k == PutInode(g, n)
  <2>1. Made(fs, h, d, nm, "dir", n)
    BY <1>1, <1>2, <1>3, NewInodeOK
  <2>2. PICK p \in Populate(h, d, nm, n) : fs' = Put2(p, d, n)
    BY <1>2, <1>3
  <2>3. /\ Tell(n, "dir") /\ reply'.ino = n
    BY <1>2, <1>3
  <2> HIDE DEF h, n
  <2>4. /\ FsOK(h) /\ Mono(fs, h) /\ n \in Others /\ n \in Inos /\ n \notin Dirs /\ d \in Dirs
        /\ InUse(h, d) /\ InUse(h, n) /\ FsType(h) /\ FsType(fs)
    BY <1>1, <2>1 DEF Made, Mono, InUse, Others, FsOK
  <2>5. p = g
    <3>1. h.entries[n] = <<>> /\ Len(<<>>) = 0
      BY <2>4 DEF FsType, EntriesOK
    <3>2. Len(h.entries[n]) \notin 1..(MaxLen - 1)
      BY <3>1
    <3>3. DirentEnter(h, n, ".", n) = {}
      BY <3>2, Zenon DEF DirentEnter
    <3> DEFINE dots == UNION {DirentEnter(e, n, "..", d) : e \in DirentEnter(h, n, ".", n)}
    <3>4. dots = {}
      BY <3>3
    <3>5. Populate(h, d, nm, n) = IF dots # {} THEN {AddLinks(AddLinks(e, n, 1), d, 1) : e \in dots}
                                  ELSE {g}
      BY Zenon DEF Populate
    <3> HIDE DEF dots, g
    <3> QED
      BY <2>2, <3>4, <3>5
  <2>6. Found(h, d, nm) /\ InoOf(h, d, nm) = n
    <3>1. PICK j : EntGrown(fs.entries, h.entries, d, j, Entry(nm, n))
      BY <2>1 DEF Made
    <3> QED
      BY <1>1, <2>1, <2>4, <3>1, NameOfNew DEF Made
  <2>7. /\ FsOK(g) /\ SameBitmap(h, g)
        /\ InodeSet(h, g, n, h.inode[n].type, (h.inode[n].links + -1) % Wrap)
    BY <1>1, <2>4, <2>6, UnlinkOK
  <2> HIDE DEF g
  <2>8. g.inode[n].links = 0
    <3>1. h.inode[n].links = 1 /\ h.inode[n].links \in 0..(Wrap - 1)
      BY <2>1, <2>4 DEF Made, FsType, Inode
    <3>2. (h.inode[n].links + -1) % Wrap = 0
      <4> DEFINE l == h.inode[n].links
      <4>1. (l + -1) % Wrap = l - 1
        <5> HIDE DEF l
        <5> QED
          BY <3>1, LinkSums DEF l
      <4> QED
        BY <3>1, <4>1
    <3> QED
      BY <2>7, <3>2 DEF InodeSet
  <2>9. InUse(g, d) /\ InUse(g, n) /\ Mono(fs, g)
    BY <2>4, <2>7, MonoAll DEF Mono
  <2>10. fs' = k
    <3>1. g.inode[d].links # 0
      <4>1. Count(g.entries, Sub) \in Nat
        BY OccFinite
      <4> QED
        BY <2>4, <2>7, <4>1 DEF FsOK, DirsOK, Dirs
    <3>2. PutInode(g, d) = g
      BY <3>1, Zenon DEF PutInode
    <3>3. d # n
      BY <2>4
    <3> QED
      BY <2>2, <2>5, <3>2, <3>3 DEF Put2
  <2>11. FsOK(k) /\ Kept(g, k) /\ (~k.panicked => k.inode[n].type = "none")
    BY <2>4, <2>7, <2>8, <2>9, PutOK
  <2> HIDE DEF k
  <2>12. NoMore(k)
    <3>1. SUFFICES ASSUME ~k.panicked, NEW m \in Others
                   PROVE  k.inode[m].type # "dir"
      BY DEF NoMore
    <3>2. ~fs.panicked
      BY <2>1, <2>7, <2>11, <3>1 DEF Kept, SameBitmap, Made
    <3>3. CASE m = n
      BY <2>11, <3>1, <3>3
    <3>4. CASE m # n
      <4>1. k.inode[m].type \in {fs.inode[m].type, "none"}
        BY <2>1, <2>7, <2>11, <3>4 DEF Kept, InodeSet, Others, Made
      <4> QED
        BY <1>1, <3>1, <3>2, <4>1 DEF NoMore
    <3> QED
      BY <3>3, <3>4
  <2>13. Mono(fs, k) /\ InUse(k, n)
    BY <2>9, <2>11, KeptAll, MonoAll
  <2>14. IInv'
    <3>1. "dir" \in Types /\ reply'.ino \in Inos \union {0}
      BY <2>3, <2>4 DEF Types
    <3> QED
      BY <2>3, <2>4, <2>10, <2>11, <2>12, <2>13, <3>1, TellsInv
  <2> QED
    BY <1>2, <1>3, <2>14 DEF Outcome
<1>4. CASE r.sc # "OK"
  <2>1. Failed(fs, r.fs)
    BY <1>1, <1>2, <1>4, NewInodeOK
  <2> QED
    BY <1>1, <1>2, <1>4, <2>1, FailedStep
<1> QED
  BY <1>3, <1>4

\* A request that only puts the inodes it holds.
LEMMA PutStep ==
  ASSUME IInv, NEW g, FsOK(g), Kept(fs, g), fs' = g, known' = known, reply'.ino = 0
  PROVE  Outcome
<1>1. NoMore(fs') /\ Mono(fs, fs')
  BY KeptAll, MonoAll, Zenon DEF IInv
<1>2. IInv'
  BY <1>1, KeepsInv
<1> QED
  BY <1>2 DEF Outcome, Kept

LEMMA LookupStep ==
  ASSUME IInv, NEW d \in KnownDirs, NEW nm \in Names, Lookup(d, nm)
  PROVE  Outcome
<1>1. d \in Inos /\ InUse(fs, d) /\ FsOK(fs) /\ NoMore(fs)
  BY KnownDirsAre
<1>2. CASE Found(fs, d, nm)
  <2> DEFINE n == InoOf(fs, d, nm)
  <2>1. /\ fs' = Put2(fs, n, d) /\ Tell(n, fs.inode[n].type)
        /\ reply'.ino = n /\ reply'.cmd = "lookup"
    BY <1>2 DEF Lookup, Reply
  <2>2. n \in Inos /\ InUse(fs, n)
    BY <1>1, <1>2, NamedInUse
  <2> HIDE DEF n
  <2>3. FsOK(fs') /\ Kept(fs, fs')
    BY <1>1, <2>1, <2>2, Put2OK
  <2>4. NoMore(fs') /\ Mono(fs, fs') /\ InUse(fs', n)
    BY <1>1, <2>2, <2>3, KeptAll, MonoAll, Zenon
  <2>5. fs.inode[n].type \in Types /\ reply'.ino \in Inos \union {0}
    BY <1>1, <2>1, <2>2 DEF FsOK, FsType, Inode
  <2>6. IInv'
    BY <2>1, <2>2, <2>3, <2>4, <2>5, TellsInv
  <2> QED
    BY <2>1, <2>3, <2>6 DEF Outcome, Kept
<1>3. CASE ~Found(fs, d, nm)
  <2>1. fs' = PutInode(fs, d) /\ known' = known /\ reply'.ino = 0
    BY <1>3 DEF Lookup, Reply, Put1
  <2>2. FsOK(fs') /\ Kept(fs, fs')
    BY <1>1, <2>1, PutOK
  <2> QED
    BY <2>1, <2>2, PutStep
<1> QED
  BY <1>2, <1>3

\* An entry has gone, the inodes are put.
LEMMA RemovedStep ==
  ASSUME IInv, NEW d \in Inos, NEW n \in Inos, InUse(fs, d), InUse(fs, n),
         NEW g, FsOK(g), SameBitmap(fs, g), \A m \in Inos : g.inode[m].type = fs.inode[m].type,
         fs' = Put2(g, n, d), known' = known, reply'.ino = 0, reply'.sc = "OK", reply'.cmd # "rename"
  PROVE  Outcome
<1>1. Mono(fs, g) /\ InUse(g, d) /\ InUse(g, n)
  BY MonoAll DEF Mono
<1>2. NoMore(g)
  BY DEF IInv, NoMore, SameBitmap, Others
<1>3. FsOK(fs') /\ Kept(g, fs')
  BY <1>1, Put2OK
<1>4. NoMore(fs') /\ Mono(fs, fs')
  BY <1>1, <1>2, <1>3, KeptAll, MonoAll, Zenon
<1>5. IInv'
  BY <1>3, <1>4, KeepsInv
<1> QED
  BY <1>5 DEF Outcome

LEMMA UnlinkStep ==
  ASSUME IInv, NEW d \in KnownDirs, NEW nm \in Names, Unlink(d, nm)
  PROVE  Outcome
<1>1. d \in Inos /\ InUse(fs, d) /\ FsOK(fs)
  BY KnownDirsAre
<1>2. CASE Found(fs, d, nm)
  <2> DEFINE n == InoOf(fs, d, nm)
             g == AddLinks(DirentDelete(fs, d, nm), n, -1)
  <2>1. /\ fs.inode[n].type # "dir" /\ fs' = Put2(g, n, d) /\ known' = known
        /\ reply'.ino = 0 /\ reply'.sc = "OK" /\ reply'.cmd = "unlink"
    BY <1>2 DEF Unlink, Reply
  <2>2. n \in Inos /\ InUse(fs, n)
    BY <1>1, <1>2, NamedInUse
  <2>3. n \in Others
    BY <1>1, <2>1, <2>2 DEF FsOK, DirsOK, Others, Dirs
  <2>4. /\ FsOK(g) /\ SameBitmap(fs, g)
        /\ InodeSet(fs, g, n, fs.inode[n].type, (fs.inode[n].links + -1) % Wrap)
    BY <1>1, <1>2, <2>3, UnlinkOK
  <2> HIDE DEF n, g
  <2>5. \A m \in Inos : g.inode[m].type = fs.inode[m].type
    BY <2>4 DEF InodeSet
  <2> QED
    BY <1>1, <2>1, <2>2, <2>4, <2>5, RemovedStep
<1>3. CASE ~Found(fs, d, nm)
  <2>1. fs' = PutInode(fs, d) /\ known' = known /\ reply'.ino = 0
    BY <1>3 DEF Unlink, Reply, Put1
  <2>2. FsOK(fs') /\ Kept(fs, fs')
    BY <1>1, <2>1, PutOK
  <2> QED
    BY <2>1, <2>2, PutStep
<1> QED
  BY <1>2, <1>3

\* The one directory there is to remove is in the root directory, if it is empty: in
\* itself it is not empty.
LEMMA RmdirStep ==
  ASSUME IInv, ~fs.panicked, NEW d \in KnownDirs, NEW nm \in Names, Rmdir(d, nm)
  PROVE  Outcome
<1>1. d \in Inos /\ InUse(fs, d) /\ FsOK(fs) /\ NoMore(fs)
  BY KnownDirsAre
<1>2. CASE Found(fs, d, nm)
  <2> DEFINE n == InoOf(fs, d, nm)
             g == AddLinks(AddLinks(DirentDelete(fs, d, nm), d, -1), n, -1)
  <2>1. /\ fs.inode[n].type = "dir" /\ known' = known /\ reply'.ino = 0
        /\ IF IsDirEmpty(fs, n) THEN fs' = Put2(g, n, d) /\ reply'.sc = "OK" /\ reply'.cmd = "rmdir"
           ELSE fs' = Put2(fs, n, d)
    BY <1>2 DEF Rmdir, Reply
  <2>2. n \in Inos /\ n # ROOT /\ d \in Dirs /\ InUse(fs, n)
    BY <1>1, <1>2, NamedInUse
  <2>3. n = Sub
    BY <1>1, <2>1, <2>2 DEF NoMore, Others, Dirs
  <2>4. CASE IsDirEmpty(fs, n)
    <3>1. d # Sub
      <4>1. ASSUME d = Sub
            PROVE  FALSE
        <5>1. PICK j \in 1..Len(fs.entries[d]) : fs.entries[d][j].name = nm
          BY <1>2 DEF Found
        <5>2. nm # "." /\ nm # ".."
          BY Constants
        <5> QED
          BY <2>3, <2>4, <4>1, <5>1, <5>2 DEF IsDirEmpty
      <4> QED
        BY <4>1
    <3>2. d = ROOT
      BY <2>2, <3>1 DEF Dirs
    <3>3. g = AddLinks(AddLinks(DirentDelete(fs, ROOT, nm), ROOT, -1), Sub, -1)
      BY <2>3, <3>2
    <3>4. Found(fs, ROOT, nm) /\ InoOf(fs, ROOT, nm) = Sub
      BY <1>2, <2>3, <3>2
    <3> HIDE DEF n, g
    <3>5. FsOK(g) /\ SameBitmap(fs, g) /\ \A m \in Inos : g.inode[m].type = fs.inode[m].type
      BY <1>1, <3>3, <3>4, RmdirOK
    <3> QED
      BY <1>1, <2>1, <2>2, <2>4, <3>5, RemovedStep
  <2>5. CASE ~IsDirEmpty(fs, n)
    <3> HIDE DEF n, g
    <3>1. FsOK(fs') /\ Kept(fs, fs')
      BY <1>1, <2>1, <2>2, <2>5, Put2OK
    <3> QED
      BY <2>1, <3>1, PutStep
  <2> QED
    BY <2>4, <2>5
<1>3. CASE ~Found(fs, d, nm)
  <2>1. fs' = PutInode(fs, d) /\ known' = known /\ reply'.ino = 0
    BY <1>3 DEF Rmdir, Reply, Put1
  <2>2. FsOK(fs') /\ Kept(fs, fs')
    BY <1>1, <2>1, PutOK
  <2> QED
    BY <2>1, <2>2, PutStep
<1> QED
  BY <1>2, <1>3

LEMMA RenameStep ==
  ASSUME IInv, NEW sd \in KnownDirs, NEW dd \in KnownDirs, NEW sn \in Names, NEW dn \in Names,
         Rename(sd, sn, dd, dn)
  PROVE  Outcome
<1>1. /\ sd \in Inos /\ InUse(fs, sd) /\ FsOK(fs) /\ NoMore(fs)
      /\ dd \in Inos /\ InUse(fs, dd)
  BY KnownDirsAre
<1>2. known' = known /\ reply'.ino = 0
  BY DEF Rename, Reply
<1>3. CASE Found(fs, sd, sn)
  <2> DEFINE n == InoOf(fs, sd, sn)
             G(h) == AddLinks(DirentDelete(AddLinks(h, n, 1), sd, sn), n, -1)
  <2>1. n \in Inos /\ InUse(fs, n)
    BY <1>1, <1>3, NamedInUse
  <2>2. \/ /\ \E h \in DirentEnter(fs, dd, dn, n) : fs' = Put3(G(h), n, dd, sd)
           /\ reply'.sc = "OK"
        \/ fs' = Put3(fs, n, dd, sd)
    BY <1>3 DEF Rename, Reply
  <2>3. CASE fs' = Put3(fs, n, dd, sd)
    <3> HIDE DEF n
    <3>1. FsOK(fs') /\ Kept(fs, fs')
      BY <1>1, <2>1, <2>3, Put3OK
    <3> QED
      BY <1>2, <3>1, PutStep
  <2>4. ASSUME NEW h \in DirentEnter(fs, dd, dn, n), fs' = Put3(G(h), n, dd, sd), reply'.sc = "OK"
        PROVE  Outcome
    <3> DEFINE g == G(h)
    <3>1. /\ FsOK(g) /\ SameBitmap(fs, g) /\ g.inode = fs.inode
          /\ \A m : Count(g.entries, m) = Count(fs.entries, m)
      BY <1>1, <1>3, RenameOK
    <3>2. fs' = Put3(g, n, dd, sd)
      BY <2>4
    <3> HIDE DEF g, n
    <3>3. Mono(fs, g) /\ InUse(g, n) /\ InUse(g, dd) /\ InUse(g, sd)
      BY <1>1, <2>1, <3>1, MonoAll DEF Mono
    <3>4. NoMore(g)
      BY <1>1, <3>1 DEF NoMore, SameBitmap
    <3>5. FsOK(fs') /\ Kept(g, fs')
      BY <1>1, <2>1, <3>1, <3>2, <3>3, Put3OK
    <3>6. NoMore(fs') /\ Mono(fs, fs')
      BY <3>3, <3>4, <3>5, KeptAll, MonoAll, Zenon
    <3>7. IInv'
      BY <1>2, <3>5, <3>6, KeepsInv
    <3>8. \A m : Count(fs'.entries, m) = Count(fs.entries, m)
      BY <3>1, <3>5 DEF Kept
    <3> QED
      BY <2>4, <3>7, <3>8 DEF Outcome
  <2> QED
    BY <2>2, <2>3, <2>4
<1>4. CASE ~Found(fs, sd, sn)
  <2>1. fs' = Put2(fs, sd, dd)
    BY <1>4 DEF Rename
  <2>2. FsOK(fs') /\ Kept(fs, fs')
    BY <1>1, <2>1, Put2OK
  <2> QED
    BY <1>2, <2>2, PutStep
<1> QED
  BY <1>3, <1>4

LEMMA TouchStep ==
  ASSUME IInv, NEW n \in Inos, known[n] # "none", Touch(n)
  PROVE  Outcome
<1>1. fs' = PutInode(fs, n) /\ known' = known /\ reply'.ino = 0
  BY DEF Touch, Reply, Put1
<1>2. FsOK(fs') /\ Kept(fs, fs')
  BY <1>1, PutOK DEF IInv
<1> QED
  BY <1>1, <1>2, PutStep

-------------------------------------------------------------------------------
(* The file system that mke2fs made.                                       *)

LEMMA InitInv == Init => IInv
<1> SUFFICES ASSUME Init
             PROVE  IInv
  OBVIOUS
<1> DEFINE E == [n \in Inos |->
                   CASE n = ROOT -> <<Entry(".", ROOT), Entry("..", ROOT), Entry(SubName, Sub)>>
                     [] n = Sub  -> <<Entry(".", Sub), Entry("..", ROOT)>>
                     [] OTHER    -> <<>>]
           I == [n \in Inos |->
                   CASE n = ROOT -> [type |-> "dir", links |-> 3]
                     [] n = Sub  -> [type |-> "dir", links |-> 2]
                     [] OTHER    -> [type |-> "none", links |-> 0]]
           M == {ROOT, Sub, LastIno + 1}
<1>1. fs = [entries |-> E, inode |-> I, marked |-> M, free |-> LastIno - FirstIno,
            frees |-> 0, panicked |-> FALSE]
  BY Zenon DEF Init
<1>2. ROOT \in Inos /\ Sub \in Inos /\ ROOT # Sub /\ SubName \in Names
  BY Constants
<1>3. /\ E[ROOT] = <<Entry(".", ROOT), Entry("..", ROOT), Entry(SubName, Sub)>>
      /\ E[Sub] = <<Entry(".", Sub), Entry("..", ROOT)>>
      /\ \A n \in Others : E[n] = <<>>
  BY <1>2 DEF Others, Dirs
<1>4. /\ I[ROOT] = [type |-> "dir", links |-> 3] /\ I[Sub] = [type |-> "dir", links |-> 2]
      /\ \A n \in Others : I[n] = [type |-> "none", links |-> 0]
  BY <1>2 DEF Others, Dirs
<1>5. E \in [Inos -> Seq(EntryType)]
  <2>1. /\ Entry(".", ROOT) \in EntryType /\ Entry("..", ROOT) \in EntryType
        /\ Entry(".", Sub) \in EntryType /\ Entry(SubName, Sub) \in EntryType
    BY <1>2 DEF Entry, EntryType
  <2>2. ASSUME NEW n \in Inos
        PROVE  E[n] \in Seq(EntryType)
    <3>1. n = ROOT \/ n = Sub \/ n \in Others
      BY DEF Others, Dirs
    <3> HIDE DEF E
    <3>2. E[ROOT] \in Seq(EntryType)
      BY <1>3, <2>1
    <3>3. E[Sub] \in Seq(EntryType)
      BY <1>3, <2>1
    <3>4. n \in Others => E[n] \in Seq(EntryType)
      <4>1. <<>> \in Seq(EntryType)
        OBVIOUS
      <4> QED
        BY <1>3, <4>1, Zenon
    <3> QED
      BY <3>1, <3>2, <3>3, <3>4
  <2> QED
    BY <2>2
<1>6. I \in [Inos -> Inode]
  <2>1. 0 \in 0..(Wrap - 1) /\ 2 \in 0..(Wrap - 1) /\ 3 \in 0..(Wrap - 1)
    BY DEF Wrap
  <2>2. ASSUME NEW n \in Inos
        PROVE  I[n] \in Inode
    <3>1. n = ROOT \/ n = Sub \/ n \in Others
      BY DEF Others, Dirs
    <3> HIDE DEF I
    <3> QED
      BY <1>4, <2>1, <3>1 DEF Inode, Types
  <2> QED
    BY <2>2
<1> HIDE DEF E, I
<1>7. EntriesOK(E)
  <2>1. DirShape(E[ROOT], ROOT)
    <3>1. Entry(SubName, Sub).name \in Names /\ Entry(SubName, Sub).ino \in Inos \ {ROOT}
      BY <1>2 DEF Entry
    <3> QED
      BY <1>3, <3>1, Constants DEF DirShape
  <2>2. DirShape(E[Sub], Sub)
    BY <1>3, Constants DEF DirShape
  <2> QED
    BY <1>3, <1>5, <2>1, <2>2 DEF EntriesOK, Dirs, Others
<1>8. FsType(fs)
  <2>1. M \in SUBSET (Inos \union {LastIno + 1}) /\ LastIno - FirstIno \in Nat
    BY <1>2, Constants
  <2> HIDE DEF M
  <2> QED
    BY <1>1, <1>5, <1>6, <1>7, <2>1 DEF FsType
<1>9. BitmapOK(fs)
  <2> DEFINE J == (FirstIno + 1)..LastIno
  <2>1. Span \ M = J
    BY Constants DEF Span
  <2>2. FirstIno + 1 \in Int /\ LastIno \in Int
    BY Constants
  <2>3. Cardinality(J) = IF FirstIno + 1 > LastIno THEN 0 ELSE LastIno - (FirstIno + 1) + 1
    BY <2>2, FS_Interval
  <2>4. Cardinality(J) = LastIno - FirstIno
    BY <2>3, Constants
  <2>5. \A n \in J : n \notin M
    BY Constants
  <2>6. LastIno + 1 \in M /\ ROOT \in M /\ Sub \in M
    OBVIOUS
  <2> HIDE DEF M
  <2> QED
    BY <1>1, <2>1, <2>4, <2>5, <2>6 DEF BitmapOK
<1>10. /\ Occ(E, Sub) = {<<ROOT, 3>>}
       /\ \A n \in Others : Occ(E, n) = {}
  <2>1. Len(E[ROOT]) = 3 /\ Len(E[Sub]) = 2 /\ E[ROOT][3].ino = Sub
    BY <1>3 DEF Entry
  <2>2. \A n : At(E, n, ROOT, 3) <=> n = Sub
    BY <2>1 DEF At, Dirs
  <2>3. \A n, c, j : At(E, n, c, j) => c = ROOT /\ j = 3
    BY <2>1 DEF At, Dirs
  <2>4. \A n, c, j : <<c, j>> \in Occ(E, n) <=> c = ROOT /\ j = 3 /\ n = Sub
    <3>1. \A n, c, j : <<c, j>> \in Occ(E, n) <=> At(E, n, c, j)
      BY <1>7, OccIs, Zenon
    <3>2. \A n, c, j : At(E, n, c, j) <=> c = ROOT /\ j = 3 /\ n = Sub
      <4> TAKE n, c, j
      <4>1. ASSUME At(E, n, c, j)
            PROVE  c = ROOT /\ j = 3 /\ n = Sub
        <5>1. c = ROOT /\ j = 3
          BY <2>3, <4>1
        <5>2. At(E, n, ROOT, 3)
          BY <4>1, <5>1
        <5> QED
          BY <2>2, <5>1, <5>2
      <4>2. ASSUME c = ROOT /\ j = 3 /\ n = Sub
            PROVE  At(E, n, c, j)
        <5>1. At(E, n, ROOT, 3)
          BY <2>2, <4>2
        <5> QED
          BY <4>2, <5>1
      <4> QED
        BY <4>1, <4>2
    <3> QED
      BY <3>1, <3>2, Zenon
  <2>5. \A n : \A p \in Occ(E, n) : \E c, j : p = <<c, j>>
    BY DEF Occ
  <2>6. \A n : \A p \in Occ(E, n) : p = <<ROOT, 3>> /\ n = Sub
    BY <2>4, <2>5
  <2>7. <<ROOT, 3>> \in Occ(E, Sub)
    BY <2>4
  <2>8. \A n \in Others : n # Sub
    BY DEF Others, Dirs
  <2> QED
    BY <2>6, <2>7, <2>8
<1>11. Count(E, Sub) = 1 /\ \A n \in Others : Count(E, n) = 0
  BY <1>10, FS_Singleton, FS_EmptySet DEF Count
<1>12. DirsOK(fs)
  BY <1>1, <1>4, <1>11 DEF DirsOK
<1>13. LinksOK(fs)
  BY <1>1, <1>4, <1>11 DEF LinksOK
<1>14. NoMore(fs)
  BY <1>1, <1>4 DEF NoMore
<1>15. /\ known \in [Inos -> Types]
       /\ \A n \in Inos : known[n] # "none" => InUse(fs, n)
       /\ reply.ino \in Inos \union {0}
  <2>1. known = [n \in Inos |-> IF n = ROOT THEN "dir" ELSE "none"] /\ reply.ino = 0
    BY DEF Init
  <2>2. ROOT \in fs.marked
    BY <1>1
  <2> QED
    BY <2>1, <2>2 DEF Types, InUse
<1> QED
  BY <1>8, <1>9, <1>12, <1>13, <1>14, <1>15 DEF IInv, FsOK

-------------------------------------------------------------------------------
(* What the invariant says of the properties.                              *)

\* There are never more free inodes than at first.
LEMMA FreeBound ==
  ASSUME NEW f, FsOK(f)
  PROVE  f.free \in 0..(LastIno - FirstIno)
<1>1. PICK b \in {FirstIno + 1, LastIno + 1} : b \in f.marked
  BY DEF FsOK, BitmapOK
<1> DEFINE X == Span \ f.marked
           Y == Span \ {Sub}
           Z == Y \ {b}
<1>2. Sub \in Span /\ b \in Y /\ Cardinality(Span) = LastIno - FirstIno + 2
  <2>1. Sub \in Span /\ b \in Y
    BY Constants DEF Span
  <2> DEFINE last == LastIno + 1
  <2>2. FirstIno \in Int /\ last \in Int /\ ~(FirstIno > last)
    BY Constants
  <2> HIDE DEF last
  <2>3. Cardinality(FirstIno..last) = last - FirstIno + 1
    BY <2>2, FS_Interval
  <2>4. Span = FirstIno..last
    BY DEF Span, last
  <2>5. Cardinality(Span) = last - FirstIno + 1
    BY <2>3, <2>4
  <2>6. Cardinality(Span) = LastIno - FirstIno + 2
    BY <2>5, Constants DEF last
  <2> QED
    BY <2>1, <2>6, Zenon
<1>3. X \subseteq Z
  BY <1>1 DEF FsOK, BitmapOK
<1> HIDE DEF X, Y, Z
<1>4. IsFiniteSet(Y) /\ Cardinality(Y) = Cardinality(Span) - 1
  BY <1>2, SpanFinite, FS_RemoveElement DEF Y
<1>5. IsFiniteSet(Z) /\ Cardinality(Z) = Cardinality(Y) - 1
  BY <1>2, <1>4, FS_RemoveElement DEF Z
<1>6. Cardinality(X) <= Cardinality(Z)
  BY <1>3, <1>5, FS_Subset
<1>7. f.free \in Nat /\ f.free = Cardinality(X)
  BY DEF X, FsOK, FsType, BitmapOK
<1> QED
  BY <1>2, <1>4, <1>5, <1>6, <1>7, Constants

LEMMA InvType == IInv => TypeOK
<1> SUFFICES ASSUME IInv
             PROVE  TypeOK
  OBVIOUS
<1>1. FsOK(fs) /\ FsType(fs)
  BY DEF IInv, FsOK
<1>2. fs.entries \in [Inos -> Seq([name : Names \union {".", ".."}, ino : Inos])]
  BY <1>1 DEF FsType, EntriesOK, EntryType
<1>3. fs.inode \in [Inos -> [type : Types, links : 0..(Wrap - 1)]]
  BY <1>1 DEF FsType, Inode
<1>4. /\ fs.marked \subseteq Inos \union {LastIno + 1}
      /\ fs.frees \in Nat /\ fs.panicked \in BOOLEAN
  BY <1>1 DEF FsType
<1>5. fs.free \in 0..(LastIno - FirstIno)
  BY <1>1, FreeBound
<1> QED
  BY <1>2, <1>3, <1>4, <1>5 DEF TypeOK, IInv

\* Places, "." and ".." included, for the entries of any state.
PlacesIn(ent, n) == {p \in Inos \X (1..MaxLen) :
                       p[2] <= Len(ent[p[1]]) /\ ent[p[1]][p[2]].ino = n}
Place(ent, n, d, j) == d \in Dirs /\ j \in 1..Len(ent[d]) /\ ent[d][j].ino = n
Dot(n, d, j) == d \in Dirs /\ ((j = 1 /\ n = d) \/ (j = 2 /\ n = ROOT))

LEMMA PlacesAre ==
  ASSUME NEW ent, EntriesOK(ent), NEW n
  PROVE  /\ \A d, j : <<d, j>> \in PlacesIn(ent, n) <=> Place(ent, n, d, j)
         /\ \A p \in PlacesIn(ent, n) : \E d, j : p = <<d, j>> /\ Place(ent, n, d, j)
         /\ \A d, j : Place(ent, n, d, j) <=> At(ent, n, d, j) \/ Dot(n, d, j)
<1>1. \A d \in Dirs : /\ Len(ent[d]) \in 2..MaxLen
                      /\ ent[d][1].ino = d /\ ent[d][2].ino = ROOT
  <2> TAKE d \in Dirs
  <2>1. Len(ent[d]) \in 2..MaxLen /\ ent[d][1] = Entry(".", d) /\ ent[d][2] = Entry("..", ROOT)
    BY DEF EntriesOK, DirShape
  <2> QED
    BY <2>1 DEF Entry
<1>2. ASSUME NEW d, NEW j
      PROVE  <<d, j>> \in PlacesIn(ent, n) <=> Place(ent, n, d, j)
  <2>1. <<d, j>> \in PlacesIn(ent, n) <=>
            d \in Inos /\ j \in 1..MaxLen /\ j <= Len(ent[d]) /\ ent[d][j].ino = n
    BY DEF PlacesIn
  <2>2. CASE d \in Dirs
    <3>1. d \in Inos /\ (j \in 1..MaxLen /\ j <= Len(ent[d]) <=> j \in 1..Len(ent[d]))
      BY <1>1, <2>2, Constants DEF Dirs
    <3> QED
      BY <2>1, <2>2, <3>1 DEF Place
  <2>3. CASE d \notin Dirs
    <3>1. d \in Inos => Len(ent[d]) = 0
      <4>1. d \in Inos => ent[d] = <<>>
        BY <2>3 DEF EntriesOK
      <4> QED
        BY <4>1
    <3> QED
      BY <2>1, <2>3, <3>1 DEF Place
  <2> QED
    BY <2>2, <2>3
<1>3. ASSUME NEW p \in PlacesIn(ent, n)
      PROVE  \E d, j : p = <<d, j>> /\ Place(ent, n, d, j)
  <2>1. PICK d, j : p = <<d, j>>
    BY DEF PlacesIn
  <2>2. Place(ent, n, d, j)
    BY <1>2, <2>1
  <2> QED
    BY <2>1, <2>2
<1>4. ASSUME NEW d, NEW j
      PROVE  Place(ent, n, d, j) <=> At(ent, n, d, j) \/ Dot(n, d, j)
  <2>1. CASE d \in Dirs
    <3>1. j \in 1..Len(ent[d]) <=> j = 1 \/ j = 2 \/ j \in 3..Len(ent[d])
      BY <1>1, <2>1
    <3>2. CASE j = 1
      BY <1>1, <2>1, <3>1, <3>2 DEF Place, At, Dot
    <3>3. CASE j = 2
      BY <1>1, <2>1, <3>1, <3>3 DEF Place, At, Dot
    <3>4. CASE j # 1 /\ j # 2
      BY <2>1, <3>1, <3>4 DEF Place, At, Dot
    <3> QED
      BY <3>2, <3>3, <3>4
  <2>2. CASE d \notin Dirs
    BY <2>2 DEF Place, At, Dot
  <2> QED
    BY <2>1, <2>2
<1> QED
  BY <1>2, <1>3, <1>4, Zenon

\* The root directory and the other one have a name in any case.
LEMMA NamedIs ==
  ASSUME NEW ent, EntriesOK(ent), NEW n \in Inos
  PROVE  PlacesIn(ent, n) # {} <=> n \in Dirs \/ Count(ent, n) # 0
<1>1. IsFiniteSet(Occ(ent, n))
  BY OccFinite
<1>2. Count(ent, n) # 0 <=> Occ(ent, n) # {}
  BY <1>1, FS_EmptySet DEF Count
<1>3. ASSUME n \in Dirs
      PROVE  PlacesIn(ent, n) # {}
  <2>1. Place(ent, n, n, 1)
    <3>1. Dot(n, n, 1)
      BY <1>3 DEF Dot
    <3> QED
      BY <3>1, PlacesAre, Zenon
  <2>2. <<n, 1>> \in PlacesIn(ent, n)
    BY <2>1, PlacesAre
  <2> QED
    BY <2>2
<1>4. ASSUME Occ(ent, n) # {}
      PROVE  PlacesIn(ent, n) # {}
  <2>1. PICK p \in Occ(ent, n) : TRUE
    BY <1>4
  <2>2. PICK d, j : p = <<d, j>>
    BY DEF Occ
  <2>3. At(ent, n, d, j)
    BY <2>1, <2>2, OccIs
  <2>4. Place(ent, n, d, j)
    BY <2>3, PlacesAre
  <2>5. <<d, j>> \in PlacesIn(ent, n)
    BY <2>4, PlacesAre
  <2> QED
    BY <2>5
<1>5. ASSUME PlacesIn(ent, n) # {}, n \notin Dirs
      PROVE  Occ(ent, n) # {}
  <2>1. PICK p \in PlacesIn(ent, n) : TRUE
    BY <1>5
  <2>2. PICK d, j : p = <<d, j>> /\ Place(ent, n, d, j)
    BY PlacesAre, Zenon
  <2>3. At(ent, n, d, j)
    <3>1. n # ROOT
      BY <1>5 DEF Dirs
    <3>2. At(ent, n, d, j) \/ Dot(n, d, j)
      BY <2>2, PlacesAre, Zenon
    <3> QED
      BY <1>5, <3>1, <3>2 DEF Dot
  <2>4. <<d, j>> \in Occ(ent, n)
    BY <2>3, OccIs
  <2> QED
    BY <2>4
<1> QED
  BY <1>2, <1>3, <1>4, <1>5

\* The places that count as links of n: all but the ".." of a directory that has no
\* entry itself.
Linking(n) == {p \in Places(n) : NameAt(p) = ".." => p[1] \in Attached}

LEMMA LinkingAre ==
  ASSUME IInv
  PROVE  /\ \A n : \A p \in Linking(n) : \E d, j : p = <<d, j>>
         /\ \A n, d, j : <<d, j>> \in Linking(n) <=>
              \/ At(fs.entries, n, d, j)
              \/ Dot(n, d, j) /\ (j = 2 => d \in Attached)
         /\ ROOT \in Attached
         /\ Sub \in Attached <=> Count(fs.entries, Sub) # 0
<1> DEFINE ent == fs.entries
<1>1. EntriesOK(ent)
  BY DEF IInv, FsOK, FsType
<1>2. \A n : Places(n) = PlacesIn(ent, n)
  BY DEF Places, PlacesIn
<1>3. /\ \A d \in Dirs : ent[d][1].name = "." /\ ent[d][2].name = ".."
      /\ \A n, d, j : At(ent, n, d, j) => ent[d][j].name \in Names
  <2>1. ASSUME NEW d \in Dirs
        PROVE  /\ ent[d][1].name = "." /\ ent[d][2].name = ".."
               /\ \A j \in 3..Len(ent[d]) : ent[d][j].name \in Names
    <3>1. /\ ent[d][1] = Entry(".", d) /\ ent[d][2] = Entry("..", ROOT)
          /\ \A j \in 3..Len(ent[d]) : ent[d][j].name \in Names
      BY <1>1 DEF EntriesOK, DirShape
    <3>2. Entry(".", d).name = "." /\ Entry("..", ROOT).name = ".."
      BY DEF Entry
    <3> QED
      BY <3>1, <3>2
  <2> QED
    BY <2>1 DEF At
<1> HIDE DEF ent
<1>4. \A d, j : NameAt(<<d, j>>) = ent[d][j].name
  BY DEF NameAt, ent
<1>5. \A n, d, j : <<d, j>> \in Places(n) <=> At(ent, n, d, j) \/ Dot(n, d, j)
  <2> TAKE n, d, j
  <2>1. <<d, j>> \in PlacesIn(ent, n) <=> Place(ent, n, d, j)
    BY <1>1, PlacesAre, Zenon
  <2>2. Place(ent, n, d, j) <=> At(ent, n, d, j) \/ Dot(n, d, j)
    BY <1>1, PlacesAre, Zenon
  <2> QED
    BY <1>2, <2>1, <2>2, Zenon
<1>6. \A n : \A p \in Places(n) : \E d, j : p = <<d, j>>
  BY DEF Places
<1>7. ASSUME NEW n, NEW d, NEW j
      PROVE  <<d, j>> \in Linking(n) <=>
              \/ At(ent, n, d, j)
              \/ Dot(n, d, j) /\ (j = 2 => d \in Attached)
  <2>1. <<d, j>> \in Linking(n) <=>
          <<d, j>> \in Places(n) /\ (ent[d][j].name = ".." => d \in Attached)
    BY <1>4 DEF Linking
  <2>2. CASE At(ent, n, d, j)
    <3>1. ent[d][j].name # ".."
      BY <1>3, <2>2, Constants
    <3>2. <<d, j>> \in Places(n)
      BY <1>5, <2>2, Zenon
    <3> QED
      BY <2>1, <2>2, <3>1, <3>2
  <2>3. CASE ~At(ent, n, d, j) /\ Dot(n, d, j)
    <3>1. ent[d][j].name = ".." <=> j = 2
      BY <1>3, <2>3 DEF Dot
    <3>2. <<d, j>> \in Places(n)
      BY <1>5, <2>3, Zenon
    <3> QED
      BY <2>1, <2>3, <3>1, <3>2
  <2>4. CASE ~At(ent, n, d, j) /\ ~Dot(n, d, j)
    BY <1>5, <2>1, <2>4, Zenon
  <2> QED
    BY <2>2, <2>3, <2>4
<1>8. ROOT \in Attached
  BY DEF Attached
<1>9. Sub \in Attached <=> Count(ent, Sub) # 0
  <2>1. Count(ent, Sub) # 0 <=> Occ(ent, Sub) # {}
    BY OccFinite, FS_EmptySet DEF Count
  <2>2. Sub \in Attached <=> \E p \in Places(Sub) : NameAt(p) \in Names
    BY Constants DEF Attached
  <2>3. ASSUME NEW p \in Places(Sub), NameAt(p) \in Names
        PROVE  Occ(ent, Sub) # {}
    <3>1. PICK d, j : p = <<d, j>>
      BY <1>6
    <3>2. ~Dot(Sub, d, j)
      BY <1>3, <1>4, <2>3, <3>1, Constants DEF Dot
    <3>3. At(ent, Sub, d, j)
      BY <1>5, <2>3, <3>1, <3>2, Zenon
    <3>4. <<d, j>> \in Occ(ent, Sub)
      BY <1>1, <3>3, OccIs, Zenon
    <3> QED
      BY <3>4
  <2>4. ASSUME Occ(ent, Sub) # {}
        PROVE  \E p \in Places(Sub) : NameAt(p) \in Names
    <3>1. PICK p \in Occ(ent, Sub) : TRUE
      BY <2>4
    <3>2. PICK d, j : p = <<d, j>>
      BY DEF Occ
    <3>3. At(ent, Sub, d, j)
      BY <1>1, <3>1, <3>2, OccIs, Zenon
    <3>4. <<d, j>> \in Places(Sub) /\ NameAt(<<d, j>>) \in Names
      <4>1. <<d, j>> \in Places(Sub)
        BY <1>5, <3>3, Zenon
      <4>2. NameAt(<<d, j>>) \in Names
        BY <1>3, <1>4, <3>3
      <4> QED
        BY <4>1, <4>2
    <3> QED
      BY <3>4
  <2> QED
    BY <2>1, <2>2, <2>3, <2>4
<1>10. \A n : \A p \in Linking(n) : \E d, j : p = <<d, j>>
  BY <1>6 DEF Linking
<1> QED
  BY <1>7, <1>8, <1>9, <1>10 DEF ent

LEMMA LinkingCount ==
  ASSUME IInv
  PROVE  /\ \A n \in Others : Cardinality(Linking(n)) = Count(fs.entries, n)
         /\ Cardinality(Linking(Sub)) = 1 + Count(fs.entries, Sub)
         /\ Cardinality(Linking(ROOT)) = 2 + Count(fs.entries, Sub)
<1> DEFINE ent == fs.entries
<1>1. EntriesOK(ent) /\ Count(ent, Sub) \in {0, 1}
  <2>1. Count(ent, Sub) \in Nat
    BY OccFinite
  <2> QED
    BY <2>1 DEF IInv, FsOK, FsType, DirsOK
<1>2. \A n : \A p \in Linking(n) : \E d, j : p = <<d, j>>
  BY LinkingAre
<1>3. ASSUME NEW n, NEW d, NEW j
      PROVE  <<d, j>> \in Linking(n) <=>
              \/ At(ent, n, d, j)
              \/ Dot(n, d, j) /\ (j = 2 => d \in Attached)
  BY LinkingAre
<1> HIDE DEF ent
<1>4. /\ \A n : \A p \in Occ(ent, n) : \E d, j : p = <<d, j>>
      /\ \A n, d, j : <<d, j>> \in Occ(ent, n) <=> At(ent, n, d, j)
  <2>1. \A n : \A p \in Occ(ent, n) : \E d, j : p = <<d, j>>
    BY DEF Occ
  <2>2. \A n, d, j : <<d, j>> \in Occ(ent, n) <=> At(ent, n, d, j)
    BY <1>1, OccIs, Zenon
  <2> QED
    BY <2>1, <2>2, Zenon
<1>5. ROOT # Sub /\ ROOT \in Dirs /\ Sub \in Dirs
  BY Constants DEF Dirs
<1>6. ASSUME NEW n \in Others
      PROVE  Cardinality(Linking(n)) = Count(ent, n)
  <2>1. \A d, j : ~Dot(n, d, j)
    BY <1>5 DEF Dot, Others, Dirs
  <2>2. \A d, j : <<d, j>> \in Linking(n) <=> <<d, j>> \in Occ(ent, n)
    BY <1>3, <1>4, <2>1
  <2>3. Linking(n) = Occ(ent, n)
    BY <1>2, <1>4, <2>2
  <2> QED
    BY <2>3 DEF Count
<1>7. Cardinality(Linking(Sub)) = 1 + Count(ent, Sub)
  <2> DEFINE S == Occ(ent, Sub)
             y == <<Sub, 1>>
  <2>1. \A d, j : Dot(Sub, d, j) <=> d = Sub /\ j = 1
    BY <1>5 DEF Dot
  <2>2. ASSUME NEW d, NEW j
        PROVE  <<d, j>> \in Linking(Sub) <=> <<d, j>> \in S \/ (d = Sub /\ j = 1)
    BY <1>3, <1>4, <2>1
  <2>3. Linking(Sub) = S \union {y}
    BY <1>2, <1>4, <2>2
  <2>4. y \notin S
    BY <1>4 DEF At
  <2>5. IsFiniteSet(S) /\ Cardinality(S) = Count(ent, Sub) /\ Cardinality(S) \in Nat
    BY OccFinite DEF Count
  <2> HIDE DEF S, y
  <2>6. Cardinality(Linking(Sub)) = Cardinality(S) + 1
    BY <2>3, <2>4, <2>5, FS_AddElement
  <2> QED
    BY <2>5, <2>6
<1>8. Cardinality(Linking(ROOT)) = 2 + Count(ent, Sub)
  <2> DEFINE x == <<ROOT, 1>>
             y == <<ROOT, 2>>
             z == <<Sub, 2>>
             A == {x}
             B == A \union {y}
             C == B \union {z}
  <2>1. \A d, j : Dot(ROOT, d, j) <=> (d = ROOT /\ j = 1) \/ (d \in Dirs /\ j = 2)
    BY <1>5 DEF Dot
  <2>2. \A d, j : ~At(ent, ROOT, d, j)
    BY <1>1 DEF At, EntriesOK, DirShape
  <2>3. ROOT \in Attached /\ (Sub \in Attached <=> Count(ent, Sub) # 0)
    BY LinkingAre DEF ent
  <2>4. ASSUME NEW d, NEW j
        PROVE  <<d, j>> \in Linking(ROOT) <=>
                 \/ d = ROOT /\ j = 1
                 \/ d = ROOT /\ j = 2
                 \/ d = Sub /\ j = 2 /\ Count(ent, Sub) # 0
    BY <1>3, <1>5, <2>1, <2>2, <2>3 DEF Dirs
  <2>5. Linking(ROOT) = IF Count(ent, Sub) = 0 THEN B ELSE C
    BY <1>2, <2>4
  <2>6. y \notin A /\ z \notin B
    BY <1>5
  <2> HIDE DEF x, y, z
  <2>7. IsFiniteSet(A) /\ Cardinality(A) = 1
    BY FS_Singleton
  <2> HIDE DEF A
  <2>8. IsFiniteSet(B) /\ Cardinality(B) = Cardinality(A) + 1
    BY <2>6, <2>7, FS_AddElement
  <2> HIDE DEF B
  <2>9. IsFiniteSet(C) /\ Cardinality(C) = Cardinality(B) + 1
    BY <2>6, <2>8, FS_AddElement
  <2> QED
    BY <1>1, <2>5, <2>7, <2>8, <2>9
<1> QED
  BY <1>6, <1>7, <1>8 DEF ent

LEMMA InvLinks == IInv => LinksMatchEntries
<1> SUFFICES ASSUME IInv, fs.frees = 0
             PROVE  /\ \A n \in Inos : fs.inode[n].links = Cardinality(Linking(n))
                    /\ \A n \in Named : n \in fs.marked /\ fs.inode[n].type # "none"
  BY DEF LinksMatchEntries, Linking
<1>1. FsOK(fs) /\ EntriesOK(fs.entries)
  BY DEF IInv, FsOK, FsType
<1>2. ASSUME NEW n \in Others
      PROVE  /\ Count(fs.entries, n) <= 1 /\ fs.inode[n].links = Count(fs.entries, n)
             /\ Count(fs.entries, n) = 1 => n \in fs.marked /\ fs.inode[n].type # "none"
             /\ Count(fs.entries, n) \in Nat
  BY <1>1, OccFinite DEF FsOK, LinksOK
<1>3. ASSUME NEW n \in Inos
      PROVE  fs.inode[n].links = Cardinality(Linking(n))
  <2>1. n = ROOT \/ n = Sub \/ n \in Others
    BY DEF Others, Dirs
  <2>2. fs.inode[ROOT].links = Cardinality(Linking(ROOT))
    BY <1>1, LinkingCount DEF FsOK, DirsOK
  <2>3. fs.inode[Sub].links = Cardinality(Linking(Sub))
    BY <1>1, LinkingCount DEF FsOK, DirsOK
  <2>4. n \in Others => fs.inode[n].links = Cardinality(Linking(n))
    BY <1>2, LinkingCount
  <2> QED
    BY <2>1, <2>2, <2>3, <2>4
<1>4. ASSUME NEW n \in Named
      PROVE  n \in fs.marked /\ fs.inode[n].type # "none"
  <2>1. n \in Inos /\ PlacesIn(fs.entries, n) # {}
    BY DEF Named, Places, PlacesIn
  <2>2. n \in Dirs \/ Count(fs.entries, n) # 0
    BY <1>1, <2>1, NamedIs
  <2>3. CASE n \in Dirs
    BY <1>1, <2>3 DEF FsOK, BitmapOK, DirsOK, Dirs
  <2>4. CASE n \notin Dirs
    <3>1. n \in Others
      BY <2>1, <2>4 DEF Others
    <3>2. Count(fs.entries, n) = 1
      BY <1>2, <2>2, <2>4, <3>1
    <3> QED
      BY <1>2, <3>1, <3>2
  <2> QED
    BY <2>3, <2>4
<1> QED
  BY <1>3, <1>4

-------------------------------------------------------------------------------
(* The theorems.                                                           *)

LEMMA Step == IInv /\ Next => Outcome
<1> SUFFICES ASSUME IInv, Next
             PROVE  Outcome
  OBVIOUS
<1>1. ~fs.panicked
  BY DEF Next
<1>2. ASSUME NEW d \in KnownDirs, NEW nm \in Names, Create(d, nm) \/ Mknod(d, nm)
      PROVE  Outcome
  BY <1>2, CreateStep
<1>3. ASSUME NEW d \in KnownDirs, NEW nm \in Names, Mkdir(d, nm)
      PROVE  Outcome
  BY <1>3, MkdirStep
<1>4. ASSUME NEW d \in KnownDirs, NEW nm \in Names, Lookup(d, nm)
      PROVE  Outcome
  BY <1>4, LookupStep
<1>5. ASSUME NEW d \in KnownDirs, NEW nm \in Names, Unlink(d, nm)
      PROVE  Outcome
  BY <1>5, UnlinkStep
<1>6. ASSUME NEW d \in KnownDirs, NEW nm \in Names, Rmdir(d, nm)
      PROVE  Outcome
  BY <1>1, <1>6, RmdirStep
<1>7. ASSUME NEW sd \in KnownDirs, NEW dd \in KnownDirs, NEW sn \in Names, NEW dn \in Names,
             Rename(sd, sn, dd, dn)
      PROVE  Outcome
  BY <1>7, RenameStep
<1>8. ASSUME NEW n \in Inos, known[n] # "none", Touch(n)
      PROVE  Outcome
  BY <1>8, TouchStep
<1> QED
  BY <1>2, <1>3, <1>4, <1>5, <1>6, <1>7, <1>8, Zenon DEF Next

\* Every handler of the extfs message loop keeps the invariant: the types, the count of
\* free inodes as the number of clear bits, and the links and marks as the entries say.
THEOREM Invariant == Spec => []IInv
<1>1. Init => IInv
  BY InitInv
<1>2. IInv /\ [Next]_vars => IInv'
  <2> SUFFICES ASSUME IInv, [Next]_vars
               PROVE  IInv'
    OBVIOUS
  <2>1. CASE Next
    BY <2>1, Step DEF Outcome
  <2>2. CASE UNCHANGED vars
    BY <2>2 DEF vars, IInv
  <2> QED
    BY <2>1, <2>2
<1> QED
  BY <1>1, <1>2, PTL DEF Spec

\* Whatever requests come, for any number of inodes and names: link counts stay in 16
\* bits, bits in the bitmap, and there are never more free inodes than at first, even
\* with free_inode_bit clearing the wrong bits.
THEOREM TypeCorrect == Spec => []TypeOK
  BY Invariant, InvType, PTL

\* Until put_inode frees an inode, every link count is the number of entries that name
\* the inode, and every inode with an entry is marked in the bitmap and has a type.
THEOREM LinksMatch == Spec => []LinksMatchEntries
  BY Invariant, InvLinks, PTL

\* ext2_rename enters before it deletes: no inode is without an entry afterwards that
\* had one before, whichever of its steps fails.
THEOREM RenameKeeps == Spec => RenameLosesNothing
<1>1. IInv /\ [Next]_vars => [reply'.cmd = "rename" /\ ~fs'.panicked => Named \subseteq Named']_vars
  <2> SUFFICES ASSUME IInv, Next, reply'.cmd = "rename"
               PROVE  Named \subseteq Named'
    OBVIOUS
  <2>1. IInv' /\ \A m : Count(fs'.entries, m) = Count(fs.entries, m)
    BY Step DEF Outcome
  <2>2. EntriesOK(fs.entries) /\ EntriesOK(fs'.entries)
    BY <2>1 DEF IInv, FsOK, FsType
  <2>3. ASSUME NEW n \in Named
        PROVE  n \in Named'
    <3>1. n \in Inos /\ PlacesIn(fs.entries, n) # {}
      BY DEF Named, Places, PlacesIn
    <3>2. n \in Dirs \/ Count(fs'.entries, n) # 0
      BY <2>1, <2>2, <3>1, NamedIs
    <3>3. PlacesIn(fs'.entries, n) # {}
      BY <2>2, <3>1, <3>2, NamedIs
    <3> QED
      BY <3>1, <3>3 DEF Named, Places, PlacesIn
  <2> QED
    BY <2>3
<1> QED
  BY <1>1, Invariant, PTL DEF Spec, RenameLosesNothing

\* Whatever step of a handler fails, the directories are as they were: new_inode's
\* inode has no entry when it is given back, rename has not deleted anything yet.
THEOREM FailureKeeps == Spec => FailureChangesNoNames
<1>1. IInv /\ [Next]_vars => [reply'.sc # "OK" => fs'.entries = fs.entries]_vars
  BY Step DEF Outcome
<1> QED
  BY <1>1, Invariant, PTL DEF Spec, FailureChangesNoNames
===============================================================================
