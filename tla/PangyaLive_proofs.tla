-------------------------- MODULE PangyaLive_proofs --------------------------
(***************************************************************************)
(* LiveInv is an invariant of the tools when no read or write fails and    *)
(* at most one tool is killed, for every image size and set of names.      *)
(* First what a write does to a table of directories that is a tree:       *)
(* lemmas about the operators of PangyaLive that know nothing of the tools.*)
(* Then the steps of the tools (LiveStep), and last what the root leads to:*)
(* Reachable and Paths are subsets of every set L that LiveInv speaks of,  *)
(* so that what a run checks of the reachable inodes follows from          *)
(* TreeLives.                                                              *)
(***************************************************************************)
EXTENDS PangyaLive, PangyaTools_proofs, FiniteSetTheorems, FunctionTheorems, WellFoundedInduction

\* A step that leaves the entries of L alone leaves the tree alone.
LEMMA TreeSame ==
  ASSUME NEW L, NEW t, NEW dirs, NEW t2, NEW dirs2, TreeOf(L, t, dirs),
         \A n \in L : n \in dirs <=> n \in dirs2,
         \A n \in L \cap dirs, q \in Positions : t2[n][q] = t[n][q]
  PROVE  /\ TreeOf(L, t2, dirs2)
         /\ \A d \in L \cap dirs : Kids(t2, d) = Kids(t, d)
         /\ \A d \in L \cap dirs : SubdirsIn(t2, dirs2, d) = SubdirsIn(t, dirs, d)
<1>1. L \cap dirs2 = L \cap dirs
  OBVIOUS
<1>2. \A d \in L \cap dirs : Kids(t2, d) = Kids(t, d)
  BY DEF Kids
<1>3. \A d \in L \cap dirs, q \in Positions : q \in Kids(t, d) => t[d][q].ino \in L
  BY DEF TreeOf, KidsStay
<1>4. \A d \in L \cap dirs : SubdirsIn(t2, dirs2, d) = SubdirsIn(t, dirs, d)
  BY <1>2, <1>3 DEF SubdirsIn, Kids
<1>5. \A d, u : LeadsUp(L, t, dirs, d, u) => LeadsUp(L, t2, dirs2, d, u)
  BY <1>1, <1>2 DEF LeadsUp, Kids
<1>6. KidsStay(L, t2, dirs2)
  BY <1>1, <1>2 DEF TreeOf, KidsStay, Kids
<1>7. KidsOnce(L, t2, dirs2)
  BY <1>1, <1>2 DEF TreeOf, KidsOnce, Kids
<1>8. NamesOnce(L, t2, dirs2) /\ SelfDots(L, t2, dirs2)
  BY <1>1 DEF TreeOf, NamesOnce, SelfDots
<1>9. UpDots(L, t2, dirs2)
  BY <1>1, <1>5 DEF TreeOf, UpDots
<1> QED
  BY <1>2, <1>4, <1>6, <1>7, <1>8, <1>9 DEF TreeOf

\* A directory that has only dots has no children.
LEMMA OnlyDotsKids ==
  ASSUME NEW t, NEW n, NEW up, OnlyDots(t[n], n, up)
  PROVE  Kids(t, n) = {}
  BY DEF OnlyDots, Kids, Dots

\* Table t2 has a new entry, named name, at position q0 of directory p, for inode n,
\* which is new to the tree.
Adds(L, t, dirs, t2, dirs2, n, p, q0, name) ==
  /\ ROOT_INODE \in L /\ n \notin L /\ n # 0 /\ p \in L \cap dirs /\ q0 \in Positions
  /\ name \notin Dots
  /\ \A m \in L : m \in dirs <=> m \in dirs2
  /\ \A m \in L \cap dirs : \A q \in Positions : m # p \/ q # q0 => t2[m][q] = t[m][q]
  /\ t[p][q0].ino = 0 /\ t2[p][q0] = [ino |-> n, name |-> name]
  /\ \A q \in Positions : t[p][q].ino # 0 => t[p][q].name # name
  /\ n \in dirs2 => OnlyDots(t2[n], n, p)

\* What comes of it.
Added(L, t, dirs, t2, dirs2, n, p, q0) ==
  /\ TreeOf(L \cup {n}, t2, dirs2)
  /\ SubdirsIn(t2, dirs2, p) = SubdirsIn(t, dirs, p) \cup (IF n \in dirs2 THEN {q0} ELSE {})
  /\ q0 \notin SubdirsIn(t, dirs, p)
  /\ \A d \in L \cap dirs : d # p => SubdirsIn(t2, dirs2, d) = SubdirsIn(t, dirs, d)
  /\ n \in dirs2 => SubdirsIn(t2, dirs2, n) = {}

\* A new entry for a new inode: the tree has one inode more (add_entry).
LEMMA TreeAdd ==
  ASSUME NEW L, NEW t, NEW dirs, NEW t2, NEW dirs2, NEW n, NEW p, NEW q0, NEW name,
         TreeOf(L, t, dirs), Adds(L, t, dirs, t2, dirs2, n, p, q0, name)
  PROVE  Added(L, t, dirs, t2, dirs2, n, p, q0)
<1> USE DEF Adds
<1>1. t2[p][q0].ino = n /\ t2[p][q0].name = name
  OBVIOUS
<1>2. /\ Kids(t2, p) = Kids(t, p) \cup {q0} /\ q0 \notin Kids(t, p)
      /\ \A d \in L \cap dirs : d # p => Kids(t2, d) = Kids(t, d)
      /\ n \in dirs2 => Kids(t2, n) = {}
  <2>1. n \in dirs2 => Kids(t2, n) = {}
    BY OnlyDotsKids
  <2>2. q0 \notin Kids(t, p)
    BY DEF Kids
  <2>3. \A d \in L \cap dirs : d # p => Kids(t2, d) = Kids(t, d)
    BY DEF Kids
  <2>4. \A q \in Positions : q \in Kids(t2, p) <=> q \in Kids(t, p) \/ q = q0
    BY <1>1 DEF Kids
  <2> QED
    BY <2>1, <2>2, <2>3, <2>4 DEF Kids
<1>3. (L \cup {n}) \cap dirs2 = (L \cap dirs) \cup (IF n \in dirs2 THEN {n} ELSE {})
  OBVIOUS
<1>4. \A d \in L \cap dirs : \A q \in Kids(t, d) : q \in Positions /\ t2[d][q] = t[d][q]
  BY <1>2 DEF Kids
<1>5. \A d \in L \cap dirs : \A q \in Kids(t, d) : t[d][q].ino \in L
  BY DEF TreeOf, KidsStay
<1>6. KidsStay(L \cup {n}, t2, dirs2)
  BY <1>1, <1>2, <1>3, <1>4 DEF TreeOf, KidsStay
<1>7. KidsOnce(L \cup {n}, t2, dirs2)
  <2> SUFFICES ASSUME NEW d \in (L \cup {n}) \cap dirs2, NEW e \in (L \cup {n}) \cap dirs2,
                      NEW q \in Kids(t2, d), NEW r \in Kids(t2, e), t2[d][q].ino = t2[e][r].ino
               PROVE  d = e /\ q = r
    BY DEF KidsOnce
  <2>1. d \in L \cap dirs /\ e \in L \cap dirs
    BY <1>2, <1>3
  <2>2. q \in Kids(t, d) \/ (d = p /\ q = q0)
    BY <1>2, <2>1
  <2>3. r \in Kids(t, e) \/ (e = p /\ r = q0)
    BY <1>2, <2>1
  <2>4. CASE q \in Kids(t, d) /\ r \in Kids(t, e)
    BY <1>4, <2>1, <2>4 DEF TreeOf, KidsOnce
  <2> QED
    BY <1>1, <1>4, <1>5, <2>1, <2>2, <2>3, <2>4
<1>8. NamesOnce(L \cup {n}, t2, dirs2)
  <2> SUFFICES ASSUME NEW d \in (L \cup {n}) \cap dirs2, NEW q \in Positions, NEW r \in Positions,
                      t2[d][q].ino # 0, t2[d][r].ino # 0, t2[d][q].name = t2[d][r].name
               PROVE  q = r
    BY DEF NamesOnce
  <2>1. CASE d = n
    BY <2>1 DEF OnlyDots
  <2>2. CASE d # n
    BY <1>1, <1>3, <2>2 DEF TreeOf, NamesOnce
  <2> QED
    BY <2>1, <2>2
<1>9. SelfDots(L \cup {n}, t2, dirs2)
  <2> SUFFICES ASSUME NEW d \in (L \cup {n}) \cap dirs2, NEW q \in Positions,
                      t2[d][q].ino # 0, t2[d][q].name = "."
               PROVE  t2[d][q].ino = d
    BY DEF SelfDots
  <2>1. CASE d = n
    BY <2>1 DEF OnlyDots
  <2>2. CASE d # n
    BY <1>1, <1>3, <2>2 DEF TreeOf, SelfDots, Dots
  <2> QED
    BY <2>1, <2>2
<1>10. UpDots(L \cup {n}, t2, dirs2)
  <2> SUFFICES ASSUME NEW d \in (L \cup {n}) \cap dirs2, NEW q \in Positions,
                      t2[d][q].ino # 0, t2[d][q].name = ".."
               PROVE  LeadsUp(L \cup {n}, t2, dirs2, d, t2[d][q].ino)
    BY DEF UpDots
  <2>1. CASE d = n
    <3>1. t2[d][q].ino = p
      BY <2>1 DEF OnlyDots
    <3>2. q0 \in Kids(t2, p) /\ p \in (L \cup {n}) \cap dirs2
      BY <1>2, <1>3
    <3> QED
      BY <1>1, <2>1, <3>1, <3>2 DEF LeadsUp
  <2>2. CASE d # n
    <3>1. d \in L \cap dirs /\ t2[d][q] = t[d][q]
      BY <1>1, <1>3, <2>2 DEF Dots
    <3>2. LeadsUp(L, t, dirs, d, t[d][q].ino)
      BY <3>1 DEF TreeOf, UpDots
    <3>3. \A u \in L \cap dirs : \A r \in Kids(t, u) : r \in Kids(t2, u) /\ t2[u][r] = t[u][r]
      BY <1>2, <1>4
    <3> QED
      BY <1>3, <3>1, <3>2, <3>3 DEF LeadsUp
  <2> QED
    BY <2>1, <2>2
<1>11. SubdirsIn(t2, dirs2, p) = SubdirsIn(t, dirs, p) \cup (IF n \in dirs2 THEN {q0} ELSE {})
  BY <1>1, <1>2, <1>4, <1>5 DEF SubdirsIn
<1>12. \A d \in L \cap dirs : d # p => SubdirsIn(t2, dirs2, d) = SubdirsIn(t, dirs, d)
  BY <1>2, <1>4, <1>5 DEF SubdirsIn
<1> QED
  BY <1>2, <1>6, <1>7, <1>8, <1>9, <1>10, <1>11, <1>12 DEF TreeOf, SubdirsIn, Added

\* The entry at q0 of directory p is cleared, that of inode n, which has no children.
Removes(L, t, dirs, t2, dirs2, n, p, q0) ==
  /\ ROOT_INODE \in L /\ n \in L \ {ROOT_INODE} /\ p \in L \cap dirs
  /\ q0 \in Kids(t, p) /\ t[p][q0].ino = n /\ (n \in dirs => Kids(t, n) = {})
  /\ \A m \in L : m \in dirs <=> m \in dirs2
  /\ \A m \in L \cap dirs : \A q \in Positions : m # p \/ q # q0 => t2[m][q] = t[m][q]
  /\ t2[p][q0].ino = 0

\* What comes of it.
Removed(L, t, dirs, t2, dirs2, n, p, q0) ==
  /\ TreeOf(L \ {n}, t2, dirs2)
  /\ p # n
  /\ SubdirsIn(t2, dirs2, p) = SubdirsIn(t, dirs, p) \ {q0}
  /\ q0 \in SubdirsIn(t, dirs, p) <=> n \in dirs
  /\ \A d \in L \cap dirs : d # p => SubdirsIn(t2, dirs2, d) = SubdirsIn(t, dirs, d)

\* An entry less: the tree has one inode less (detach_entry).
LEMMA TreeRemove ==
  ASSUME NEW L, NEW t, NEW dirs, NEW t2, NEW dirs2, NEW n, NEW p, NEW q0,
         TreeOf(L, t, dirs), Removes(L, t, dirs, t2, dirs2, n, p, q0)
  PROVE  Removed(L, t, dirs, t2, dirs2, n, p, q0)
<1> USE DEF Removes
<1>1. p # n /\ q0 \in Positions
  BY DEF Kids
<1>2. /\ Kids(t2, p) = Kids(t, p) \ {q0}
      /\ \A d \in L \cap dirs : d # p => Kids(t2, d) = Kids(t, d)
  BY DEF Kids
<1>3. (L \ {n}) \cap dirs2 = (L \cap dirs) \ {n}
  OBVIOUS
<1>4. \A d \in L \cap dirs : \A q \in Kids(t2, d) : /\ q \in Positions /\ t2[d][q] = t[d][q]
                                                /\ q \in Kids(t, d) /\ (d # p \/ q # q0)
  BY <1>2 DEF Kids
<1>5. \A d \in L \cap dirs : \A q \in Kids(t, d) : t[d][q].ino \in L \ {ROOT_INODE}
  BY DEF TreeOf, KidsStay
<1>6. \A d \in L \cap dirs : \A q \in Kids(t2, d) : t2[d][q].ino # n
  BY <1>4 DEF TreeOf, KidsOnce
<1>7. KidsStay(L \ {n}, t2, dirs2)
  BY <1>3, <1>4, <1>5, <1>6 DEF KidsStay
<1>8. KidsOnce(L \ {n}, t2, dirs2)
  <2>1. KidsOnce(L, t, dirs)
    BY DEF TreeOf
  <2> QED
    BY <1>3, <1>4, <2>1 DEF KidsOnce
<1>9. NamesOnce(L \ {n}, t2, dirs2) /\ SelfDots(L \ {n}, t2, dirs2)
  <2>1. \A d \in L \cap dirs, q \in Positions : t2[d][q].ino # 0 => t2[d][q] = t[d][q]
    OBVIOUS
  <2>2. NamesOnce(L, t, dirs) /\ SelfDots(L, t, dirs)
    BY DEF TreeOf
  <2>3. NamesOnce(L \ {n}, t2, dirs2)
    BY <1>3, <2>1, <2>2 DEF NamesOnce
  <2>4. SelfDots(L \ {n}, t2, dirs2)
    BY <1>3, <2>1, <2>2 DEF SelfDots
  <2> QED
    BY <2>3, <2>4
<1>10. UpDots(L \ {n}, t2, dirs2)
  <2> SUFFICES ASSUME NEW d \in (L \ {n}) \cap dirs2, NEW q \in Positions,
                      t2[d][q].ino # 0, t2[d][q].name = ".."
               PROVE  LeadsUp(L \ {n}, t2, dirs2, d, t2[d][q].ino)
    BY DEF UpDots
  <2>1. d \in L \cap dirs /\ d # n /\ t2[d][q] = t[d][q]
    BY <1>3
  <2>2. LeadsUp(L, t, dirs, d, t[d][q].ino)
    BY <2>1 DEF TreeOf, UpDots
  <2>3. CASE d = ROOT_INODE /\ t[d][q].ino = ROOT_INODE
    BY <2>1, <2>3 DEF LeadsUp
  <2>4. ASSUME t[d][q].ino \in L \cap dirs,
               NEW r \in Kids(t, t[d][q].ino), t[t[d][q].ino][r].ino = d
        PROVE  LeadsUp(L \ {n}, t2, dirs2, d, t2[d][q].ino)
    <3> DEFINE u == t[d][q].ino
    <3>1. u # n /\ u \in (L \ {n}) \cap dirs2
      BY <1>3, <2>4
    <3>2. u # p \/ r # q0
      BY <2>1, <2>4
    <3>3. r \in Positions
      BY DEF Kids
    <3>4. r \in Kids(t2, u) /\ t2[u][r].ino = d
      BY <1>2, <2>4, <3>1, <3>2, <3>3
    <3> QED
      BY <2>1, <3>1, <3>4 DEF LeadsUp
  <2> QED
    BY <2>2, <2>3, <2>4 DEF LeadsUp
<1>11. SubdirsIn(t2, dirs2, p) = SubdirsIn(t, dirs, p) \ {q0}
  BY <1>2, <1>4, <1>5 DEF SubdirsIn
<1>12. q0 \in SubdirsIn(t, dirs, p) <=> n \in dirs
  BY DEF SubdirsIn
<1>13. \A d \in L \cap dirs : d # p => SubdirsIn(t2, dirs2, d) = SubdirsIn(t, dirs, d)
  BY <1>2, <1>4, <1>5 DEF SubdirsIn
<1> QED
  BY <1>1, <1>7, <1>8, <1>9, <1>10, <1>11, <1>12, <1>13 DEF TreeOf, Removed

\* Inode n of the tree, which entry q0 of directory p names, had no entries and gets
\* those of a new directory, if it is one.
Fills(L, t, dirs, t2, dirs2, n, p, q0) ==
  /\ n \in L /\ p \in L \cap dirs /\ q0 \in Kids(t, p) /\ t[p][q0].ino = n
  /\ \A q \in Positions : t[n][q].ino = 0
  /\ \A m \in L : m \in dirs <=> m \in dirs2
  /\ \A m \in L \cap dirs : \A q \in Positions : m # n => t2[m][q] = t[m][q]
  /\ n \in dirs => OnlyDots(t2[n], n, p)

\* What comes of it.
Filled(L, t, dirs, t2, dirs2, n, p, q0) ==
  /\ p # n
  /\ TreeOf(L, t2, dirs2)
  /\ \A d \in L \cap dirs : SubdirsIn(t2, dirs2, d) = SubdirsIn(t, dirs, d)

\* A new directory shows its own entries: the tree stays (update_inode after mkdir).
LEMMA TreeFill ==
  ASSUME NEW L, NEW t, NEW dirs, NEW t2, NEW dirs2, NEW n, NEW p, NEW q0,
         TreeOf(L, t, dirs), Fills(L, t, dirs, t2, dirs2, n, p, q0)
  PROVE  Filled(L, t, dirs, t2, dirs2, n, p, q0)
<1> USE DEF Fills
<1>0. p # n
  BY DEF Kids
<1>1. \A d \in L \cap dirs : Kids(t2, d) = Kids(t, d)
  <2>1. n \in dirs => Kids(t2, n) = {} /\ Kids(t, n) = {}
    BY OnlyDotsKids DEF Kids
  <2>2. \A d \in L \cap dirs : d # n => Kids(t2, d) = Kids(t, d)
    BY DEF Kids
  <2> QED
    BY <2>1, <2>2
<1>2. L \cap dirs2 = L \cap dirs
  OBVIOUS
<1>3. \A d \in L \cap dirs : \A q \in Kids(t, d) : q \in Positions /\ d # n /\ t2[d][q] = t[d][q]
  BY DEF Kids
<1>4. KidsStay(L, t2, dirs2)
  BY <1>1, <1>2, <1>3 DEF TreeOf, KidsStay
<1>5. KidsOnce(L, t2, dirs2)
  <2>1. KidsOnce(L, t, dirs)
    BY DEF TreeOf
  <2> QED
    BY <1>1, <1>2, <1>3, <2>1 DEF KidsOnce
<1>6. NamesOnce(L, t2, dirs2)
  <2>1. NamesOnce(L, t, dirs)
    BY DEF TreeOf
  <2> QED
    BY <1>2, <2>1 DEF NamesOnce, OnlyDots
<1>7. SelfDots(L, t2, dirs2)
  <2>1. SelfDots(L, t, dirs)
    BY DEF TreeOf
  <2> QED
    BY <1>2, <2>1 DEF SelfDots, OnlyDots
<1>8. UpDots(L, t2, dirs2)
  <2> SUFFICES ASSUME NEW d \in L \cap dirs, NEW q \in Positions,
                      t2[d][q].ino # 0, t2[d][q].name = ".."
               PROVE  LeadsUp(L, t2, dirs2, d, t2[d][q].ino)
    BY <1>2 DEF UpDots
  <2>1. CASE d = n
    <3>1. t2[d][q].ino = p
      BY <2>1 DEF OnlyDots
    <3> QED
      BY <1>1, <1>2, <1>3, <2>1, <3>1 DEF LeadsUp
  <2>2. CASE d # n
    <3>1. LeadsUp(L, t, dirs, d, t[d][q].ino) /\ t2[d][q] = t[d][q]
      BY <2>2 DEF TreeOf, UpDots
    <3> QED
      BY <1>1, <1>2, <1>3, <3>1 DEF LeadsUp
  <2> QED
    BY <2>1, <2>2
<1>9. \A d \in L \cap dirs : SubdirsIn(t2, dirs2, d) = SubdirsIn(t, dirs, d)
  <2>1. \A d \in L \cap dirs : \A q \in Kids(t, d) : t[d][q].ino \in L
    BY DEF TreeOf, KidsStay
  <2> QED
    BY <1>1, <1>3, <2>1 DEF SubdirsIn
<1> QED
  BY <1>0, <1>4, <1>5, <1>6, <1>7, <1>8, <1>9 DEF TreeOf, Filled

-----------------------------------------------------------------------------
(* Counting subdirectories.                                                *)

\* A directory has room for NDIRECT * DirentsPerBlock entries.
LEMMA PositionsFinite ==
  IsFiniteSet(Positions) /\ Cardinality(Positions) = NDIRECT * DirentsPerBlock
<1>1. NDIRECT \in Nat /\ DirentsPerBlock \in Nat
  BY GeometryAssumption
<1>2. /\ IsFiniteSet(Logical) /\ Cardinality(Logical) = NDIRECT
      /\ IsFiniteSet(Slots) /\ Cardinality(Slots) = DirentsPerBlock
  <2>1. /\ IsFiniteSet(0 .. NDIRECT - 1)
        /\ Cardinality(0 .. NDIRECT - 1) = (IF 0 > NDIRECT - 1 THEN 0 ELSE NDIRECT - 1 - 0 + 1)
    BY <1>1, FS_Interval
  <2>2. /\ IsFiniteSet(0 .. DirentsPerBlock - 1)
        /\ Cardinality(0 .. DirentsPerBlock - 1)
             = (IF 0 > DirentsPerBlock - 1 THEN 0 ELSE DirentsPerBlock - 1 - 0 + 1)
    BY <1>1, FS_Interval
  <2> QED
    BY <1>1, <2>1, <2>2, GeometryAssumption DEF Logical, Slots
<1> QED
  BY <1>2, FS_Product DEF Positions

\* The number of a directory's subdirectories, whatever is on the disk.
LEMMA SubdirsFinite ==
  ASSUME NEW t, NEW dirs, NEW d
  PROVE  /\ IsFiniteSet(SubdirsIn(t, dirs, d))
         /\ Cardinality(SubdirsIn(t, dirs, d)) \in Nat
         /\ Cardinality(SubdirsIn(t, dirs, d)) <= NDIRECT * DirentsPerBlock
<1>1. SubdirsIn(t, dirs, d) \subseteq Positions
  BY DEF SubdirsIn, Kids
<1> QED
  BY <1>1, PositionsFinite, FS_Subset, FS_CardinalityType

\* One subdirectory more, or less.
LEMMA SubdirsCount ==
  ASSUME NEW t, NEW dirs, NEW d, NEW q
  PROVE  /\ q \notin SubdirsIn(t, dirs, d) =>
              Cardinality(SubdirsIn(t, dirs, d) \cup {q}) = Cardinality(SubdirsIn(t, dirs, d)) + 1
         /\ q \in SubdirsIn(t, dirs, d) =>
              /\ Cardinality(SubdirsIn(t, dirs, d) \ {q}) = Cardinality(SubdirsIn(t, dirs, d)) - 1
              /\ Cardinality(SubdirsIn(t, dirs, d)) > 0
<1> DEFINE S == SubdirsIn(t, dirs, d)
<1>1. IsFiniteSet(S) /\ Cardinality(S) \in Nat
  BY SubdirsFinite
<1> HIDE DEF S
<1>2. q \notin S => Cardinality(S \cup {q}) = Cardinality(S) + 1
  BY <1>1, FS_AddElement
<1>3. q \in S => Cardinality(S \ {q}) = Cardinality(S) - 1
  BY <1>1, FS_RemoveElement
<1>4. q \in S => Cardinality(S) > 0
  BY <1>1, FS_EmptySet
<1> QED
  BY <1>2, <1>3, <1>4 DEF S

-----------------------------------------------------------------------------
(* Writes that keep away from the live inodes and their blocks.            *)

\* The step leaves the live inodes and the blocks they map alone, and marked.
Unharmed(L) ==
  /\ \A n \in L : dinode'[n] = dinode[n] /\ n \in ibits'
  /\ \A b \in Taken(L) \ {0} : dirents'[b] = dirents[b] /\ b \in bbits'

\* What an allocating tool does, besides: it gives nothing back.
Allocating(L) == Unharmed(L) /\ bbits \subseteq bbits' /\ ibits \subseteq ibits'

\* Mapped blocks are blocks, and 0, which stands for a hole, is none of the data blocks.
LEMMA BlockRange ==
  ASSUME DiskTypeOK, NEW L, L \subseteq Inodes
  PROVE  Taken(L) \subseteq Blocks /\ badblock(0)
  BY GeometryAssumption DEF DiskTypeOK, disk_inode, Taken, badblock

\* The writes of an allocating tool keep away from the live inodes: they mark, or write
\* an inode that is not live or a block that no live inode maps.
LEMMA UnharmedWrites ==
  ASSUME DiskTypeOK, NEW L, LiveDisk(L), NEW n, NEW b, NEW x, NEW y,
         \/ SetInodeBit(n) \/ SetBlockBit(b) \/ WriteChunk(b, x) \/ UNCHANGED diskVars
         \/ n \notin L /\ write_disk_inode(n, x)
         \/ b \notin Taken(L) /\ (zero_block(b) \/ WriteDots(b, x, y) \/ WriteDirent(b, x, y))
  PROVE  Allocating(L)
<1>1. Taken(L) \subseteq Blocks
  BY BlockRange DEF LiveDisk, InodesOf
<1>2. /\ L \subseteq Inodes /\ L \subseteq ibits
      /\ \A c \in Taken(L) \ {0} : c \in bbits
  BY DEF LiveDisk, InodesOf, BlocksOf
<1> QED
  BY <1>1, <1>2 DEF DiskTypeOK, Allocating, Unharmed, SetInodeBit, SetBlockBit, WriteChunk,
     write_disk_inode, zero_block, WriteDots, WriteDirent, diskVars

\* So do free_inode and free_block of what is not live.
LEMMA UnharmedFrees ==
  ASSUME DiskTypeOK, NEW L, LiveDisk(L), NEW n, NEW b,
         \/ n \notin L /\ ClearInodeBit(n)
         \/ b \notin Taken(L) /\ ClearBlockBit(b)
  PROVE  Unharmed(L)
  BY DEF LiveDisk, InodesOf, BlocksOf, Unharmed, ClearInodeBit, ClearBlockBit

\* Such a write leaves all that LiveDisk speaks of alone.
LEMMA UnharmedView ==
  ASSUME NEW L, L \subseteq Inodes, Unharmed(L)
  PROVE  /\ \A n \in L, q \in Positions : Table'[n][q] = Table[n][q]
         /\ \A n \in L : n \in Dirs' <=> n \in Dirs
         /\ \A n \in L : dinode'[n] = dinode[n]
         /\ Taken(L)' = Taken(L)
<1>1. \A n \in L : dinode'[n] = dinode[n]
  BY DEF Unharmed
<1>2. Taken(L)' = Taken(L)
  BY <1>1 DEF Taken
<1>3. \A n \in L : n \in Dirs' <=> n \in Dirs
  BY <1>1 DEF Dirs
<1>4. ASSUME NEW n \in L, NEW q \in Positions
      PROVE  Table'[n][q] = Table[n][q]
  <2>1. dinode[n].addr[q[1]] \in Taken(L)
    BY DEF Positions, Taken
  <2>2. Table'[n][q] = View(dirents', dinode[n], q) /\ Table[n][q] = View(dirents, dinode[n], q)
    BY <1>1 DEF Table, Row
  <2> QED
    BY <2>1, <2>2 DEF Unharmed, View
<1> QED
  BY <1>1, <1>2, <1>3, <1>4

\* And so they leave a live disk live, with the same children.
LEMMA UnharmedDisk ==
  ASSUME NEW L, LiveDisk(L), Unharmed(L)
  PROVE  /\ LiveDisk(L)'
         /\ \A d \in L \cap Dirs : Kids(Table', d) = Kids(Table, d) /\ LinksOf(d)' = LinksOf(d)
<1>1. L \subseteq Inodes
  BY DEF LiveDisk, InodesOf
<1>2. /\ \A n \in L, q \in Positions : Table'[n][q] = Table[n][q]
      /\ \A n \in L : n \in Dirs <=> n \in Dirs'
      /\ \A n \in L : dinode'[n] = dinode[n]
      /\ Taken(L)' = Taken(L)
  BY <1>1, UnharmedView
<1>3. /\ TreeOf(L, Table', Dirs')
      /\ \A d \in L \cap Dirs : Kids(Table', d) = Kids(Table, d)
      /\ \A d \in L \cap Dirs : SubdirsIn(Table', Dirs', d) = SubdirsIn(Table, Dirs, d)
  <2>1. TreeOf(L, Table, Dirs)
    BY DEF LiveDisk
  <2>2. \A n \in L \cap Dirs, q \in Positions : Table'[n][q] = Table[n][q]
    BY <1>2
  <2>3. \A n \in L : n \in Dirs <=> n \in Dirs'
    BY <1>2
  <2>4. TreeOf(L, Table', Dirs')
    BY <2>1, <2>2, <2>3, TreeSame
  <2>5. \A d \in L \cap Dirs : Kids(Table', d) = Kids(Table, d)
    BY <2>1, <2>2, <2>3, <2>4, TreeSame
  <2>6. \A d \in L \cap Dirs : SubdirsIn(Table', Dirs', d) = SubdirsIn(Table, Dirs, d)
    BY <2>1, <2>2, <2>3, <2>4, TreeSame
  <2> QED
    BY <2>4, <2>5, <2>6
<1>4. InodesOf(L)'
  BY <1>2 DEF LiveDisk, InodesOf, Unharmed
<1>5. BlocksOf(L)'
  BY <1>2 DEF LiveDisk, BlocksOf, Unharmed
<1> QED
  BY <1>3, <1>4, <1>5 DEF LiveDisk, LinksOf

-----------------------------------------------------------------------------
(* What such a write leaves of the running tool's part.                    *)

\* A tolerance of one more is no less.
LEMMA NearMore ==
  ASSUME NEW n \in Int, NEW c \in Int, NEW m \in Int, Near(n, c, m)
  PROVE  Near(n, c, m + 1)
  BY DEF Near

\* A link count and the number it is compared with are integers.
LEMMA LinkTypes ==
  ASSUME DiskTypeOK, NEW n \in Inodes
  PROVE  dinode[n].nlink \in Int /\ LinksOf(n) \in Int
<1>1. dinode[n].nlink \in NLinks
  BY DEF DiskTypeOK, disk_inode
<1> QED
  BY <1>1, SubdirsFinite DEF LinksOf, NLinks

\* The parent may be off by one more while it is in core, and nobody else.
LEMMA LinksKept ==
  ASSUME Inv, NEW L, LiveDisk(L), LiveLinks(L), Unharmed(L),
         kills' = kills \/ kills' = kills + 1,
         \A d \in L \cap Dirs : d = parent.num /\ d # parent.num' /\ kills' = kills
                                  => Near(dinode[d].nlink, LinksOf(d), kills)
  PROVE  LiveLinks(L)'
<1>1. \A d \in L : /\ d \in Dirs' <=> d \in Dirs
                   /\ dinode'[d] = dinode[d]
                   /\ d \in Dirs => LinksOf(d)' = LinksOf(d)
  BY UnharmedView, UnharmedDisk DEF LiveDisk, InodesOf
<1>2. kills \in Int
  <2>1. kills \in 0 .. MaxKills
    BY DEF Inv, TypeOK, ProcTypeOK
  <2> QED
    BY <2>1
<1> SUFFICES ASSUME NEW d \in L, d \in Dirs
             PROVE  Near(dinode[d].nlink, LinksOf(d), IF d = parent.num' THEN kills' + 1 ELSE kills')
  BY <1>1 DEF LiveLinks
<1>3. dinode[d].nlink \in Int /\ LinksOf(d) \in Int
  BY LinkTypes DEF Inv, TypeOK, LiveDisk, InodesOf
<1>4. Near(dinode[d].nlink, LinksOf(d), IF d = parent.num THEN kills + 1 ELSE kills)
  BY DEF LiveLinks
<1> HIDE DEF parent
<1>5. CASE kills' = kills + 1
  BY <1>2, <1>3, <1>4, <1>5, NearMore
<1>6. CASE kills' = kills
  <2>1. CASE d = parent.num
    BY <1>2, <1>3, <1>4, <1>6, <2>1
  <2>2. CASE d # parent.num
    BY <1>2, <1>3, <1>4, <1>6, <2>2, NearMore
  <2> QED
    BY <2>1, <2>2
<1> QED
  BY <1>5, <1>6

\* The parent stays in core as it is on the disk.
LEMMA ReadKept ==
  ASSUME NEW L, LiveDisk(L), Unharmed(L), ParentRead(L), parent' = parent, kills' = kills
  PROVE  ParentRead(L)'
<1>1. parent.num \in L /\ L \subseteq Inodes
  BY DEF ParentRead, LiveDisk, InodesOf
<1>2. dinode'[parent.num] = dinode[parent.num]
  BY <1>1 DEF Unharmed
<1>3. parent.num \in Dirs' <=> parent.num \in Dirs
  BY <1>1, UnharmedView
<1>4. parent.num \in Dirs => LinksOf(parent.num)' = LinksOf(parent.num)
  <2>1. ASSUME NEW d, d = parent.num, d \in Dirs PROVE LinksOf(d)' = LinksOf(d)
    BY <1>1, <2>1, UnharmedDisk
  <2> QED
    BY <2>1 DEF LinksOf
<1> QED
  BY <1>1, <1>2, <1>3, <1>4 DEF ParentRead, get_inode

\* The name that mkdir and cp create stays free in the parent.
LEMMA CreatesKept ==
  ASSUME NEW L, LiveDisk(L), Unharmed(L), CreatesIn(L),
         tool' = tool, base' = base, parent.num' = parent.num
  PROVE  CreatesIn(L)'
<1>1. parent.num \in L \cap Dirs /\ L \subseteq Inodes
  BY DEF CreatesIn, LiveDisk, InodesOf
<1>2. parent.num' \in L \cap Dirs'
  BY <1>1, UnharmedView
<1>3. \A q \in Positions : Table'[parent.num'][q] = Table[parent.num][q]
  BY <1>1, UnharmedView
<1> QED
  BY <1>2, <1>3 DEF CreatesIn, NameFree

\* What an allocating tool does not map it keeps in hand.
LEMMA SpareKept ==
  ASSUME NEW L, L \subseteq Inodes, Allocating(L)
  PROVE  Spare(L) \subseteq Spare(L)'
  BY UnharmedView DEF Allocating, Spare

\* Blocks that are in S are in every larger set.
LEMMA PrivateMore ==
  ASSUME NEW S, NEW S2, S \subseteq S2, NEW c, Private(S, c)
  PROVE  Private(S2, c)
  BY DEF Private

\* A newborn inode stays one while the blocks it maps are left alone.
LEMMA NewbornMore ==
  ASSUME NEW S, NEW S2, S \subseteq S2, NEW D, NEW D2, NEW n, NEW c, NEW up,
         Newborn(S, D, n, c, up),
         \A l \in Logical : c.addr[l] # 0 => D2[c.addr[l]] = D[c.addr[l]]
  PROVE  Newborn(S2, D2, n, c, up)
<1>1. Row(D2, c) = Row(D, c)
  BY DEF Row, View, Positions
<1> QED
  BY <1>1, PrivateMore DEF Newborn

\* The created inode stays started while nothing writes it.
LEMMA StartedKept ==
  ASSUME NEW L, L \subseteq Inodes, Allocating(L), TargetStarted(L),
         tool' = tool, target' = target, dinode'[target.num] = dinode[target.num]
  PROVE  TargetStarted(L)'
<1>1. Private(Spare(L)', target')
  BY SpareKept, PrivateMore DEF TargetStarted
<1> QED
  BY <1>1 DEF TargetStarted, TargetOnDisk, Allocating

\* What put_inode will write of the parent stays right.
LEMMA SettledKept ==
  ASSUME NEW L, LiveDisk(L), Unharmed(L), Settled(L), parent.num \in L,
         parent' = parent, kills' = kills
  PROVE  Settled(L)'
<1>1. L \subseteq Inodes
  BY DEF LiveDisk, InodesOf
<1>2. dinode'[parent.num] = dinode[parent.num]
  BY DEF Unharmed
<1>3. parent.num \in Dirs' <=> parent.num \in Dirs
  BY <1>1, UnharmedView
<1>4. parent.num \in Dirs => LinksOf(parent.num)' = LinksOf(parent.num)
  <2>1. ASSUME NEW d, d = parent.num, d \in Dirs
        PROVE  LinksOf(d)' = LinksOf(d)
    BY <2>1, UnharmedDisk
  <2> QED
    BY <2>1 DEF LinksOf
<1> QED
  BY <1>2, <1>3, <1>4 DEF Settled

\* What was read and is written back without a change, before anything happened.
LEMMA ReadSettled ==
  ASSUME NEW L, LiveDisk(L), UnlinkedIsBlank, ParentRead(L)
  PROVE  Settled(L) /\ parent.num \in L
<1>1. parent.num \in L /\ dinode[parent.num].mode # "none" /\ L \subseteq Inodes
  BY DEF ParentRead, LiveDisk, InodesOf
<1>2. dinode[parent.num].nlink # 0
  BY <1>1 DEF UnlinkedIsBlank, BlankInode
<1>3. /\ parent.addr = dinode[parent.num].addr /\ parent.mode = dinode[parent.num].mode
      /\ parent.nlink = dinode[parent.num].nlink
  BY DEF ParentRead, get_inode, InCore
<1> QED
  BY <1>1, <1>2, <1>3 DEF Settled, ParentRead

-----------------------------------------------------------------------------
(* The parts the actions share.                                            *)

\* What is known before a step.
Before(L) == Inv /\ UnlinkedIsBlank /\ LiveInv(L)

\* Its parts.
LEMMA BeforeParts ==
  ASSUME NEW L, Before(L)
  PROVE  /\ DiskTypeOK /\ ProcTypeOK /\ InFlight /\ Inv /\ UnlinkedIsBlank
         /\ LiveDisk(L) /\ LiveLinks(L) /\ LiveTool(L)
         /\ L \subseteq Inodes /\ core \in [Inodes2 -> inode] /\ 0 \notin L
<1>1. LiveDisk(L) /\ LiveLinks(L) /\ LiveTool(L)
  BY DEF Before, LiveInv
<1>2. DiskTypeOK /\ ProcTypeOK /\ InFlight /\ Inv /\ UnlinkedIsBlank
  BY DEF Before, Inv, TypeOK
<1>3. L \subseteq Inodes /\ 0 \notin L
  BY <1>1 DEF LiveDisk, InodesOf, Inodes
<1>4. core \in [Inodes2 -> inode]
  BY <1>2 DEF ProcTypeOK, Inodes2
<1> QED
  BY <1>1, <1>2, <1>3, <1>4

\* No tool runs after exit().
LEMMA ExitTool ==
  ASSUME NEW L, Exit
  PROVE  LiveTool(L)' /\ parent.num' = 0
<1>1. pc' = "idle" /\ core' = NoInodes /\ who' = "target"
  BY DEF Exit
<1> QED
  BY <1>1 DEF LiveTool, Reading, Creating, Started, Filling, Adding, Holding, Putting,
     parent, NoInodes, NULL

\* What is left to say of a tool that goes to put_inode.
LEMMA PutTool ==
  ASSUME NEW L, pc' = "put", base' \in Names, ParentDone(L)',
         \/ who' = "target" /\ TargetDone(L)'
         \/ who' = "parent" /\ target' = NULL
  PROVE  LiveTool(L)'
  BY DEF LiveTool, Reading, Creating, Started, Filling, Adding, Holding, Putting

\* An error handler with a parent that is as on the disk, before there is a target.
LEMMA FailsUntouched ==
  ASSUME NEW L, Before(L), error_handler(core), UNCHANGED <<diskVars, faults>>,
         target = NULL, ParentRead(L), base \in Names
  PROVE  LiveInv(L)'
<1>1. LiveDisk(L) /\ L \subseteq Inodes /\ DiskTypeOK /\ LiveLinks(L) /\ Inv /\ UnlinkedIsBlank
  BY BeforeParts
<1>2. core' = core /\ pc' = "put" /\ who' = "target" /\ base' = base
  BY DEF error_handler, target, NULL, args
<1>3. Unharmed(L)
  BY <1>1, UnharmedWrites DEF Allocating
<1>4. kills' = kills
  BY DEF faults
<1>5. LiveDisk(L)'
  BY <1>1, <1>3, UnharmedDisk
<1>6. LiveLinks(L)'
  BY <1>1, <1>2, <1>3, <1>4, LinksKept DEF parent
<1>7. ParentDone(L)'
  BY <1>1, <1>2, <1>3, <1>4, ReadSettled, SettledKept DEF ParentDone, parent
<1>8. TargetDone(L)'
  BY <1>2 DEF TargetDone, target, NULL
<1> QED
  BY <1>2, <1>5, <1>6, <1>7, <1>8, PutTool DEF LiveInv

\* An error handler of a tool that has a new inode for its target.
LEMMA FailsStarted ==
  ASSUME NEW L, Before(L), error_handler(core), UNCHANGED <<diskVars, faults>>,
         TargetStarted(L), ParentRead(L), base \in Names, tool \in Creators
  PROVE  LiveInv(L)'
<1>1. /\ LiveDisk(L) /\ L \subseteq Inodes /\ DiskTypeOK /\ LiveLinks(L) /\ Inv /\ UnlinkedIsBlank
      /\ core \in [Inodes2 -> inode]
  BY BeforeParts
<1>2. target.num # 0
  BY GeometryAssumption DEF TargetStarted, TargetOnDisk, Inodes
<1>3. /\ parent' = parent /\ target' = [target EXCEPT !.nlink = 0]
      /\ pc' = "put" /\ who' = "target" /\ base' = base
  BY <1>1, <1>2 DEF error_handler, target, parent, args, Inodes2
<1>4. Allocating(L) /\ Unharmed(L)
  BY <1>1, UnharmedWrites DEF Allocating
<1>5. kills' = kills
  BY DEF faults
<1>6. LiveDisk(L)'
  BY <1>1, <1>4, UnharmedDisk
<1>7. LiveLinks(L)'
  BY <1>1, <1>3, <1>4, <1>5, LinksKept
<1>8. Settled(L)' /\ parent.num' \in L
  BY <1>1, <1>3, <1>4, <1>5, ReadSettled, SettledKept
<1>9. target \in inode
  BY <1>1 DEF target, Inodes2
<1>10. ToRelease(L)'
  <2>1. target'.nlink = 0 /\ target'.num = target.num /\ target'.addr = target.addr
    BY <1>3, <1>9 DEF inode
  <2>2. Private(Spare(L)', target')
    BY <1>1, <1>4, <2>1, SpareKept DEF TargetStarted, Private
  <2> QED
    BY <1>8, <2>1, <2>2 DEF ToRelease, TargetStarted
<1>11. TargetDone(L)' /\ ParentDone(L)'
  BY <1>8, <1>10 DEF TargetDone, ParentDone
<1> QED
  BY <1>3, <1>6, <1>7, <1>11, PutTool DEF LiveInv

-----------------------------------------------------------------------------
(* What search_dir finds in the directories of the table.                  *)

\* The table shows the entries that EntryAt reads, and no entry in a hole.
LEMMA EntryTypesInTable ==
  ASSUME DiskTypeOK, NEW d \in Inodes, NEW q \in Positions
  PROVE  /\ Table[d][q] \in dirent
         /\ dinode[d].addr[q[1]] # 0 =>
              Table[d][q] = EntryAt(dinode[d], q) /\ Table[d][q] = EntryAt(get_inode(d), q)
         /\ dinode[d].addr[q[1]] = 0 => Table[d][q] = NoEntry
<1>1. dinode[d].addr[q[1]] \in Blocks /\ q[2] \in Slots /\ q[1] \in Logical
  BY DEF DiskTypeOK, disk_inode, Positions
<1>2. Table[d][q] = View(dirents, dinode[d], q)
  BY DEF Table, Row
<1>3. NoEntry \in dirent
  BY EntryTypes
<1>4. dirents[dinode[d].addr[q[1]]][q[2]] \in dirent
  BY <1>1 DEF DiskTypeOK
<1>5. get_inode(d).addr = dinode[d].addr
  BY DEF get_inode, InCore
<1> QED
  BY <1>2, <1>3, <1>4, <1>5 DEF View, EntryAt

\* An entry is its inode number and its name.
LEMMA EntryEquals ==
  ASSUME NEW e \in dirent, NEW i, NEW name, e.ino = i, e.name = name
  PROVE  e = [ino |-> i, name |-> name]
  BY DEF dirent

\* search_dir of a directory as it is on the disk.
LEMMA SearchFound ==
  ASSUME DiskTypeOK, NEW d \in Inodes, NEW c, c.addr = dinode[d].addr,
         NEW name, NEW i \in Inodes, search_dir(c, name, i)
  PROVE  /\ c.mode = "dir"
         /\ \E q \in Positions : /\ dinode[d].addr[q[1]] # 0
                                 /\ Table[d][q] = [ino |-> i, name |-> name]
<1>1. i # 0 /\ i # ENOTDIR
  BY DEF Inodes, ENOTDIR
<1>2. c.mode = "dir"
  BY <1>1 DEF search_dir
<1>3. PICK q \in Hits(c, name) : i = EntryAt(c, q).ino
  BY <1>1, <1>2 DEF search_dir
<1>4. q \in Positions /\ \A l \in 0 .. q[1] : c.addr[l] # 0
  BY <1>3 DEF Hits, Searched
<1>5. q[1] \in 0 .. q[1]
  BY <1>4, GeometryAssumption DEF Positions, Logical
<1>6. dinode[d].addr[q[1]] # 0
  BY <1>4, <1>5
<1>7. Table[d][q] = EntryAt(dinode[d], q) /\ Table[d][q] \in dirent
  BY <1>4, <1>6, EntryTypesInTable
<1>8. Table[d][q].ino = i /\ Table[d][q].name = name
  BY <1>3, <1>7 DEF Hits, EntryAt
<1>9. Table[d][q] = [ino |-> i, name |-> name]
  BY <1>7, <1>8, EntryEquals
<1> QED
  BY <1>2, <1>4, <1>6, <1>9

\* In a directory without gaps, search_dir gets to every block (dir.c:22-26).
LEMMA DenseSearched ==
  ASSUME DiskTypeOK, NEW d \in Inodes, NEW c, c.addr = dinode[d].addr, Dense(dinode[d]),
         NEW q \in Positions, dinode[d].addr[q[1]] # 0
  PROVE  q \in Searched(c)
<1> SUFFICES ASSUME NEW l \in 0 .. q[1]
             PROVE  c.addr[l] # 0
  BY DEF Searched
<1>1. q[1] \in Logical /\ l \in Logical /\ (l = q[1] \/ l < q[1])
  BY GeometryAssumption DEF Positions, Logical
<1> QED
  BY <1>1 DEF Dense

\* A name that search_dir does not find there is not there.
LEMMA SearchMissed ==
  ASSUME DiskTypeOK, NEW d \in Inodes, NEW c, c.addr = dinode[d].addr, Dense(dinode[d]),
         NEW name, search_dir(c, name, 0)
  PROVE  /\ c.mode = "dir"
         /\ \A q \in Positions : Table[d][q].ino # 0 => Table[d][q].name # name
<1>1. c.mode = "dir" /\ Hits(c, name) = {}
  <2>1. \A p \in Hits(c, name) : EntryAt(c, p).ino # 0
    BY DEF Hits
  <2> QED
    BY <2>1 DEF search_dir, ENOTDIR
<1> SUFFICES ASSUME NEW q \in Positions, Table[d][q].ino # 0
             PROVE  Table[d][q].name # name
  BY <1>1
<1>2. dinode[d].addr[q[1]] # 0
  <2>1. NoEntry.ino = 0
    BY DEF NoEntry
  <2>2. dinode[d].addr[q[1]] = 0 => Table[d][q] = NoEntry
    BY EntryTypesInTable
  <2> QED
    BY <2>1, <2>2
<1>3. Table[d][q] = EntryAt(dinode[d], q)
  BY <1>2, EntryTypesInTable
<1>4. q \in Searched(c)
  BY <1>2, DenseSearched
<1> QED
  BY <1>1, <1>3, <1>4 DEF Hits, EntryAt

\* Every entry of a live directory names a live inode.
LEMMA EntriesLive ==
  ASSUME NEW L, LiveDisk(L), NEW d \in L \cap Dirs, NEW q \in Positions, Table[d][q].ino # 0
  PROVE  Table[d][q].ino \in L
<1>1. TreeOf(L, Table, Dirs) /\ ROOT_INODE \in L
  BY DEF LiveDisk, InodesOf
<1>2. CASE Table[d][q].name \notin Dots
  BY <1>1, <1>2 DEF TreeOf, KidsStay, Kids
<1>3. CASE Table[d][q].name = "."
  BY <1>1, <1>3 DEF TreeOf, SelfDots
<1>4. CASE Table[d][q].name = ".."
  BY <1>1, <1>4 DEF TreeOf, UpDots, LeadsUp
<1> QED
  BY <1>2, <1>3, <1>4 DEF Dots

-----------------------------------------------------------------------------
(* Walking.                                                                *)

\* namei comes to inode n.
LEMMA WalkTo ==
  ASSUME NEW L, Before(L), NEW n \in L, core' = [core EXCEPT !["parent"] = get_inode(n)],
         UNCHANGED <<diskVars, who, fresh, k, status, faults>>, pc' = "walk",
         base' \in Names, who = "target", target = NULL,
         parent.num \in L \cap Dirs => Near(dinode[parent.num].nlink, LinksOf(parent.num), kills)
  PROVE  LiveInv(L)'
<1>1. /\ LiveDisk(L) /\ L \subseteq Inodes /\ DiskTypeOK /\ LiveLinks(L) /\ Inv
      /\ core \in [Inodes2 -> inode]
  BY BeforeParts
<1>2. Unharmed(L) /\ kills' = kills
  BY <1>1, UnharmedWrites DEF Allocating, faults
<1>3. parent' = get_inode(n) /\ parent'.num = n /\ target' = NULL /\ who' = "target"
  BY <1>1 DEF parent, target, Inodes2, get_inode, InCore
<1>4. LiveDisk(L)' /\ \A d \in L \cap Dirs : LinksOf(d)' = LinksOf(d)
  BY <1>1, <1>2, UnharmedDisk
<1>5. LiveLinks(L)'
  BY <1>1, <1>2, <1>3, LinksKept
<1>6. n \in Dirs => Near(dinode[n].nlink, LinksOf(n), kills)
  <2>1. ASSUME n \in Dirs, n # parent.num
        PROVE  Near(dinode[n].nlink, LinksOf(n), kills)
    BY <1>1, <2>1 DEF LiveLinks
  <2>2. n = parent.num => dinode[n] = dinode[parent.num] /\ LinksOf(n) = LinksOf(parent.num)
    OBVIOUS
  <2> QED
    BY <2>1, <2>2
<1>7. ParentRead(L)'
  <2>1. dinode'[n] = dinode[n] /\ (n \in Dirs' <=> n \in Dirs)
    BY <1>1, <1>2, UnharmedView
  <2>2. n \in Dirs => LinksOf(n)' = LinksOf(n)
    BY <1>4
  <2>3. LinksOf(parent.num)' = LinksOf(n)'
    BY <1>3 DEF LinksOf
  <2>4. get_inode(parent.num)' = get_inode(n) /\ parent'.nlink = dinode[n].nlink
    BY <1>3, <2>1 DEF get_inode, InCore
  <2>5. parent.num' \in Dirs' => Near(parent'.nlink, LinksOf(parent.num)', kills')
    BY <1>2, <1>3, <1>6, <2>1, <2>2, <2>3, <2>4
  <2>6. parent.num' \in L /\ parent' = get_inode(parent.num)'
    BY <1>3, <2>4
  <2> QED
    BY <2>5, <2>6 DEF ParentRead
<1>8. LiveTool(L)'
  BY <1>3, <1>7 DEF LiveTool, Reading, Creating, Started, Filling, Adding, Holding, Putting
<1> QED
  BY <1>4, <1>5, <1>8 DEF LiveInv

\* A tool in namei or in search_dir of the parent.
LEMMA WalkingTool ==
  ASSUME NEW L, Before(L), pc \in {"walk", "lookup"}
  PROVE  /\ ParentRead(L) /\ target = NULL /\ who = "target" /\ base \in Names
         /\ parent.num \in L /\ parent.num \in Inodes /\ parent = get_inode(parent.num)
         /\ parent.addr = dinode[parent.num].addr /\ parent.mode = dinode[parent.num].mode
         /\ parent.mode = "dir" => parent.num \in Dirs /\ Dense(dinode[parent.num])
<1>1. ParentRead(L) /\ target = NULL /\ who = "target" /\ base \in Names
  BY BeforeParts DEF LiveTool, Reading, Putting
<1>2. parent.num \in L /\ parent.num \in Inodes /\ parent = get_inode(parent.num)
  BY <1>1, BeforeParts DEF ParentRead
<1>3. parent.addr = dinode[parent.num].addr /\ parent.mode = dinode[parent.num].mode
  BY <1>2 DEF get_inode, InCore
<1>4. parent.mode = "dir" => parent.num \in Dirs /\ Dense(dinode[parent.num])
  BY <1>2, <1>3, BeforeParts DEF Dirs, LiveDisk, InodesOf
<1> QED
  BY <1>1, <1>2, <1>3, <1>4

\* A tool starts and namei walks to its parent directory.
LEMMA LiveWalk ==
  ASSUME NEW L, Before(L), Start \/ WalkDown \/ WalkFails \/ WalkEnds
  PROVE  LiveInv(L)'
<1>1. /\ LiveDisk(L) /\ L \subseteq Inodes /\ DiskTypeOK /\ LiveLinks(L) /\ Inv /\ LiveTool(L)
      /\ core \in [Inodes2 -> inode] /\ 0 \notin L
  BY BeforeParts
<1>2. CASE Start
  <2>1. PICK t \in Creators \cup {"rm"}, name \in Names \cup Dots, size \in 0 .. NDIRECT :
          Invoke(t, name, size)
    BY <1>2 DEF Start
  <2>2. core = NoInodes /\ who = "target"
    BY <1>1, <2>1 DEF Invoke, LiveTool, Putting
  <2>3. parent.num = 0 /\ target = NULL
    BY <2>2 DEF parent, target, NoInodes, NULL
  <2>4. base' \in Names /\ pc' = "walk" /\ core' = [core EXCEPT !["parent"] = get_inode(ROOT_INODE)]
    BY <2>1 DEF Invoke, base_name_ok
  <2>5. UNCHANGED <<diskVars, who, fresh, k, status, faults>>
    BY <2>1 DEF Invoke
  <2>6. ROOT_INODE \in L
    BY <1>1 DEF LiveDisk, InodesOf
  <2> QED
    BY <1>1, <2>2, <2>3, <2>4, <2>5, <2>6, WalkTo
<1>3. CASE WalkDown
  <2>1. PICK token \in Names \cup Dots, n \in Inodes :
          search_dir(parent, token, n) /\ core' = [core EXCEPT !["parent"] = get_inode(n)]
    BY <1>3 DEF WalkDown, parent
  <2>2. pc = "walk" /\ UNCHANGED <<diskVars, pc, args, who, fresh, k, status, faults>>
    BY <1>3 DEF WalkDown
  <2>3. /\ ParentRead(L) /\ target = NULL /\ who = "target" /\ base \in Names
        /\ parent.num \in L /\ parent.num \in Inodes /\ parent = get_inode(parent.num)
        /\ parent.addr = dinode[parent.num].addr
        /\ parent.mode = "dir" => parent.num \in Dirs
    BY <2>2, WalkingTool
  <2>4. parent.mode = "dir" /\ \E q \in Positions : Table[parent.num][q] = [ino |-> n, name |-> token]
    BY <1>1, <2>1, <2>3, SearchFound
  <2>5. n \in L
    <3>1. PICK q \in Positions : Table[parent.num][q] = [ino |-> n, name |-> token]
      BY <2>4
    <3>2. Table[parent.num][q].ino = n /\ n # 0
      BY <3>1 DEF Inodes
    <3> QED
      BY <1>1, <2>3, <2>4, <3>2, EntriesLive
  <2>6. Near(dinode[parent.num].nlink, LinksOf(parent.num), kills)
    BY <2>3, <2>4 DEF ParentRead, get_inode, InCore
  <2>7. pc' = "walk" /\ base' \in Names /\ UNCHANGED <<diskVars, who, fresh, k, status, faults>>
    BY <2>2, <2>3 DEF args
  <2> QED
    BY <2>1, <2>3, <2>5, <2>6, <2>7, WalkTo
<1>4. CASE WalkFails
  <2>1. pc \in {"walk", "lookup"} /\ error_handler(core) /\ UNCHANGED <<diskVars, faults>>
    BY <1>4 DEF WalkFails
  <2> QED
    BY <2>1, WalkingTool, FailsUntouched
<1>5. CASE WalkEnds
  <2>1. pc = "walk" /\ pc' = "lookup" /\ UNCHANGED <<diskVars, args, core, who, fresh, k, status, faults>>
    BY <1>5 DEF WalkEnds
  <2>2. /\ ParentRead(L) /\ target = NULL /\ who = "target" /\ base \in Names
    BY <2>1, WalkingTool
  <2>3. Unharmed(L) /\ kills' = kills /\ parent' = parent /\ target' = target /\ base' = base
    BY <1>1, <2>1, UnharmedWrites DEF Allocating, faults, parent, target, args
  <2>4. LiveDisk(L)' /\ LiveLinks(L)' /\ ParentRead(L)'
    BY <1>1, <2>2, <2>3, UnharmedDisk, LinksKept, ReadKept
  <2>5. LiveTool(L)'
    BY <2>1, <2>2, <2>3, <2>4
       DEF LiveTool, Reading, Creating, Started, Filling, Adding, Holding, Putting
  <2> QED
    BY <2>4, <2>5 DEF LiveInv
<1> QED
  BY <1>2, <1>3, <1>4, <1>5

-----------------------------------------------------------------------------
(* mkdir and cp, up to the new entry.                                      *)

\* mkdir or cp between search_dir and add_entry.
LEMMA CreatingTool ==
  ASSUME NEW L, Before(L), pc \in Creating \ {"ewrite"}
  PROVE  /\ ParentRead(L) /\ CreatesIn(L) /\ base \in Names /\ who = "target" /\ tool \in Creators
         /\ pc \in Started => TargetStarted(L)
<1>1. pc \in Reading /\ pc \in Creating /\ pc \notin Putting /\ pc # "idle"
  BY DEF Creating, Reading, Putting
<1> QED
  BY <1>1, BeforeParts DEF LiveTool, CreatesIn

\* A step that only allocates, or writes what nobody maps.
LEMMA AllocatingKeeps ==
  ASSUME NEW L, Before(L), Allocating(L), ParentRead(L), CreatesIn(L),
         parent' = parent, tool' = tool, base' = base, kills' = kills
  PROVE  /\ LiveDisk(L)' /\ LiveLinks(L)' /\ ParentRead(L)' /\ CreatesIn(L)'
         /\ Spare(L) \subseteq Spare(L)'
         /\ dinode'[parent.num] = dinode[parent.num]
<1>1. LiveDisk(L) /\ L \subseteq Inodes /\ LiveLinks(L) /\ Inv
  BY BeforeParts
<1>2. Unharmed(L)
  BY DEF Allocating
<1>3. LiveDisk(L)' /\ LiveLinks(L)' /\ ParentRead(L)'
  BY <1>1, <1>2, UnharmedDisk, LinksKept, ReadKept
<1>4. CreatesIn(L)'
  BY <1>1, <1>2, CreatesKept
<1>5. Spare(L) \subseteq Spare(L)'
  BY <1>1, SpareKept
<1>6. dinode'[parent.num] = dinode[parent.num]
  BY <1>2 DEF ParentRead, Unharmed
<1> QED
  BY <1>3, <1>4, <1>5, <1>6

\* mkdir and cp give up: what they made is not live, and put_inode will release it.
LEMMA LiveCreateFails ==
  ASSUME NEW L, Before(L),
         \/ CreateLookupFails \/ NoFreeInode \/ NoFreeBlock \/ HostFails \/ AddEntryFails
  PROVE  LiveInv(L)'
<1>1. CASE CreateLookupFails
  BY <1>1, WalkingTool, FailsUntouched DEF CreateLookupFails
<1>2. CASE NoFreeInode
  <2>1. pc = "ibit" /\ error_handler(core) /\ UNCHANGED <<diskVars, faults>>
    BY <1>2 DEF NoFreeInode
  <2>2. ParentRead(L) /\ base \in Names /\ target = NULL
    BY <2>1, CreatingTool, BeforeParts DEF Creating, LiveTool
  <2> QED
    BY <2>1, <2>2, FailsUntouched
<1>3. CASE NoFreeBlock \/ HostFails \/ AddEntryFails
  <2>1. pc \in {"block", "entry"} /\ error_handler(core) /\ UNCHANGED <<diskVars, faults>>
    BY <1>3 DEF NoFreeBlock, HostFails, AddEntryFails
  <2>2. pc \in Creating \ {"ewrite"} /\ pc \in Started
    BY <2>1 DEF Creating, Started
  <2> QED
    BY <2>1, <2>2, CreatingTool, FailsStarted
<1> QED
  BY <1>1, <1>2, <1>3

\* alloc_inode: the new inode is not live yet.
LEMMA LiveAllocInode ==
  ASSUME NEW L, Before(L), CreateLookup \/ alloc_inode \/ InitInode
  PROVE  LiveInv(L)'
<1>1. /\ LiveDisk(L) /\ L \subseteq Inodes /\ DiskTypeOK /\ LiveLinks(L) /\ Inv /\ LiveTool(L)
      /\ core \in [Inodes2 -> inode] /\ InFlight
  BY BeforeParts
<1>2. CASE CreateLookup
  <2>1. /\ pc = "lookup" /\ pc' = "ibit" /\ tool \in Creators /\ search_dir(parent, base, 0)
        /\ UNCHANGED <<diskVars, args, core, who, fresh, k, status, faults>>
    BY <1>2 DEF CreateLookup, parent
  <2>2. /\ ParentRead(L) /\ target = NULL /\ who = "target" /\ base \in Names
        /\ parent.num \in L /\ parent.num \in Inodes
        /\ parent.addr = dinode[parent.num].addr
        /\ parent.mode = "dir" => parent.num \in Dirs /\ Dense(dinode[parent.num])
    BY <2>1, WalkingTool
  <2>3. parent.mode = "dir"
    BY <2>1 DEF search_dir, ENOTDIR, Hits
  <2>4. \A q \in Positions : Table[parent.num][q].ino # 0 => Table[parent.num][q].name # base
    BY <1>1, <2>1, <2>2, <2>3, SearchMissed
  <2>5. CreatesIn(L)
    BY <2>1, <2>2, <2>3, <2>4 DEF CreatesIn, NameFree
  <2>6. /\ Allocating(L) /\ kills' = kills /\ parent' = parent /\ target' = target
        /\ base' = base /\ tool' = tool /\ who' = who
    BY <1>1, <2>1, UnharmedWrites DEF faults, parent, target, args
  <2>7. LiveDisk(L)' /\ LiveLinks(L)' /\ ParentRead(L)' /\ CreatesIn(L)'
    BY <2>2, <2>5, <2>6, AllocatingKeeps
  <2>8. LiveTool(L)'
    BY <2>1, <2>2, <2>6, <2>7
       DEF LiveTool, Reading, Creating, Started, Filling, Adding, Holding, Putting
  <2> QED
    BY <2>7, <2>8 DEF LiveInv
<1>3. CASE alloc_inode
  <2>1. PICK n \in FreeInodes : SetInodeBit(n) /\ fresh' = n
    BY <1>3 DEF alloc_inode
  <2>2. pc = "ibit" /\ pc' = "iwrite" /\ UNCHANGED <<args, core, who, k, status, faults>>
    BY <1>3 DEF alloc_inode
  <2>3. ParentRead(L) /\ CreatesIn(L) /\ base \in Names /\ who = "target" /\ target = NULL
    BY <1>1, <2>2, CreatingTool DEF Creating, LiveTool
  <2>4. /\ Allocating(L) /\ kills' = kills /\ parent' = parent /\ target' = target
        /\ base' = base /\ tool' = tool /\ who' = who
    BY <1>1, <2>1, <2>2, UnharmedWrites DEF faults, parent, target, args
  <2>5. LiveDisk(L)' /\ LiveLinks(L)' /\ ParentRead(L)' /\ CreatesIn(L)'
    BY <2>3, <2>4, AllocatingKeeps
  <2>6. fresh' \in ibits' \ L
    BY <1>1, <2>1 DEF FreeInodes, SetInodeBit, LiveDisk, InodesOf
  <2>7. LiveTool(L)'
    BY <2>2, <2>3, <2>4, <2>5, <2>6
       DEF LiveTool, Reading, Creating, Started, Filling, Adding, Holding, Putting
  <2> QED
    BY <2>5, <2>7 DEF LiveInv
<1>4. CASE InitInode
  <2>1. /\ pc = "iwrite" /\ pc' = "block" /\ write_disk_inode(fresh, NewInode)
        /\ core' = [core EXCEPT !["target"] = InCore(fresh, NewInode)]
        /\ UNCHANGED <<args, who, k, status, faults>>
    BY <1>4 DEF InitInode
  <2>2. /\ ParentRead(L) /\ CreatesIn(L) /\ base \in Names /\ who = "target" /\ tool \in Creators
        /\ fresh \in ibits \ L /\ fresh \in Inodes
    BY <1>1, <2>1, CreatingTool DEF Creating, LiveTool, InFlight
  <2>3. /\ Allocating(L) /\ kills' = kills /\ parent' = parent /\ target' = InCore(fresh, NewInode)
        /\ base' = base /\ tool' = tool /\ who' = who
    BY <1>1, <2>1, <2>2, UnharmedWrites DEF faults, parent, target, args, Inodes2
  <2>4. LiveDisk(L)' /\ LiveLinks(L)' /\ ParentRead(L)' /\ CreatesIn(L)'
    BY <2>2, <2>3, AllocatingKeeps
  <2>5. TargetStarted(L)' /\ target'.addr = Unmapped
    <3>1. /\ NewInode.mode = (IF tool = "mkdir" THEN "dir" ELSE "reg")
          /\ NewInode.nlink = (IF tool = "mkdir" THEN 2 ELSE 1)
          /\ NewInode.addr = Unmapped
      <4>1. CASE tool = "mkdir"
        BY <4>1 DEF NewInode, BlankInode
      <4>2. CASE tool # "mkdir"
        BY <4>2 DEF NewInode, BlankInode
      <4> QED
        BY <4>1, <4>2
    <3>2. /\ target'.num = fresh /\ target'.dirty = CLEAN /\ target'.mode = NewInode.mode
          /\ target'.nlink = NewInode.nlink /\ target'.addr = Unmapped
      BY <2>3, <3>1 DEF InCore
    <3>3. dinode'[fresh] = NewInode /\ fresh \in ibits'
      BY <1>1, <2>1, <2>2 DEF write_disk_inode, DiskTypeOK
    <3>4. Private(Spare(L)', target')
      BY <3>2 DEF Private, Unmapped
    <3> QED
      BY <2>2, <2>3, <3>1, <3>2, <3>3, <3>4 DEF TargetStarted, TargetOnDisk
  <2>6. LiveTool(L)'
    BY <2>1, <2>2, <2>3, <2>4, <2>5
       DEF LiveTool, Reading, Creating, Started, Filling, Adding, Holding, Putting
  <2> QED
    BY <2>4, <2>6 DEF LiveInv
<1> QED
  BY <1>2, <1>3, <1>4

\* alloc_block hands out a block that neither L nor the target maps.
LEMMA NewBlock ==
  ASSUME NEW L, Before(L), NEW b \in FreeBlocks, SetBlockBit(b), Private(Spare(L), target)
  PROVE  /\ b \in Spare(L)' /\ Allocating(L)
         /\ \A l \in Logical : target.addr[l] # b
<1>1. LiveDisk(L) /\ L \subseteq Inodes /\ DiskTypeOK
  BY BeforeParts
<1>2. b \in Blocks /\ b \notin bbits /\ ~badblock(b) /\ b # 0
  BY GeometryAssumption DEF FreeBlocks, badblock
<1>3. Allocating(L) /\ Taken(L)' = Taken(L)
  BY <1>1, UnharmedWrites, UnharmedView DEF Allocating
<1>4. b \notin Taken(L) /\ b \in bbits'
  BY <1>1, <1>2 DEF LiveDisk, BlocksOf, SetBlockBit
<1>5. \A l \in Logical : target.addr[l] # b
  BY <1>2 DEF Private, Spare
<1> QED
  BY <1>2, <1>3, <1>4, <1>5 DEF Spare

\* alloc_block for the new inode, the block zeroed, and the end of cp's loop.
LEMMA LiveFill ==
  ASSUME NEW L, Before(L), alloc_block \/ ZeroFresh \/ FileCopied
  PROVE  LiveInv(L)'
<1>1. /\ LiveDisk(L) /\ L \subseteq Inodes /\ DiskTypeOK /\ LiveLinks(L) /\ Inv /\ LiveTool(L)
      /\ core \in [Inodes2 -> inode] /\ InFlight
  BY BeforeParts
<1>2. pc \in Filling
  BY DEF alloc_block, ZeroFresh, FileCopied, Filling
<1>3. /\ ParentRead(L) /\ CreatesIn(L) /\ base \in Names /\ who = "target" /\ tool \in Creators
      /\ TargetStarted(L) /\ Private(Spare(L), target) /\ (tool = "mkdir" => target.addr = Unmapped)
  BY <1>1, <1>2, CreatingTool DEF Filling, Creating, Started, LiveTool, TargetStarted
<1>4. CASE alloc_block
  <2>1. PICK b \in FreeBlocks : SetBlockBit(b) /\ fresh' = b
    BY <1>4 DEF alloc_block
  <2>2. pc' = "bzero" /\ UNCHANGED <<args, core, who, k, status, faults>>
    BY <1>4 DEF alloc_block
  <2>3. /\ kills' = kills /\ parent' = parent /\ target' = target /\ base' = base
        /\ tool' = tool /\ who' = who /\ dinode' = dinode
    BY <2>1, <2>2 DEF faults, parent, target, args, SetBlockBit
  <2>4. FreshBlock(L)' /\ Allocating(L)
    BY <1>3, <2>1, <2>3, NewBlock DEF FreshBlock
  <2>5. LiveDisk(L)' /\ LiveLinks(L)' /\ ParentRead(L)' /\ CreatesIn(L)' /\ TargetStarted(L)'
    BY <1>1, <1>3, <2>3, <2>4, AllocatingKeeps, StartedKept
  <2>6. LiveTool(L)'
    BY <1>3, <2>2, <2>3, <2>4, <2>5
       DEF LiveTool, Reading, Creating, Started, Filling, Adding, Holding, Putting
  <2> QED
    BY <2>5, <2>6 DEF LiveInv
<1>5. CASE ZeroFresh
  <2>1. /\ pc = "bzero" /\ pc' = "content" /\ zero_block(fresh)
        /\ UNCHANGED <<args, core, who, fresh, k, status, faults>>
    BY <1>5 DEF ZeroFresh
  <2>2. FreshBlock(L) /\ fresh \in Blocks
    BY <1>1, <2>1 DEF LiveTool, Holding, InFlight
  <2>3. Allocating(L) /\ dirents'[fresh] = ZeroBlock
    BY <1>1, <2>1, <2>2, UnharmedWrites DEF FreshBlock, Spare, zero_block, DiskTypeOK
  <2>4. /\ kills' = kills /\ parent' = parent /\ target' = target /\ base' = base
        /\ tool' = tool /\ who' = who /\ dinode' = dinode /\ fresh' = fresh
    BY <2>1 DEF faults, parent, target, args, zero_block
  <2>5. /\ LiveDisk(L)' /\ LiveLinks(L)' /\ ParentRead(L)' /\ CreatesIn(L)' /\ TargetStarted(L)'
        /\ Spare(L) \subseteq Spare(L)'
    BY <1>1, <1>3, <2>3, <2>4, AllocatingKeeps, StartedKept
  <2>6. FreshBlock(L)'
    BY <2>2, <2>4, <2>5 DEF FreshBlock
  <2>7. LiveTool(L)'
    BY <1>3, <2>1, <2>3, <2>4, <2>5, <2>6
       DEF LiveTool, Reading, Creating, Started, Filling, Adding, Holding, Putting
  <2> QED
    BY <2>5, <2>7 DEF LiveInv
<1>6. CASE FileCopied
  <2>1. /\ pc' = "entry" /\ tool # "mkdir"
        /\ core' = [core EXCEPT !["target"] = [@ EXCEPT !.size = fsz, !.nlink = 1]]
        /\ UNCHANGED <<diskVars, args, who, fresh, status, faults>>
    BY <1>6 DEF FileCopied, NeedsBlock
  <2>2. /\ kills' = kills /\ parent' = parent /\ base' = base /\ tool' = tool /\ who' = who
        /\ dinode' = dinode /\ dirents' = dirents
    BY <1>1, <2>1 DEF faults, parent, args, diskVars, Inodes2
  <2>3. /\ target'.num = target.num /\ target'.addr = target.addr /\ target'.mode = target.mode
        /\ target'.nlink = 1 /\ target'.dirty = target.dirty
    BY <1>1, <2>1 DEF target, Inodes2, inode
  <2>4. Allocating(L)
    BY <1>1, <2>1, UnharmedWrites
  <2>5. /\ LiveDisk(L)' /\ LiveLinks(L)' /\ ParentRead(L)' /\ CreatesIn(L)'
        /\ Spare(L) \subseteq Spare(L)'
    BY <1>1, <1>3, <2>2, <2>4, AllocatingKeeps
  <2>6. Private(Spare(L)', target')
    BY <1>3, <2>3, <2>5 DEF Private
  <2>7. TargetStarted(L)'
    BY <1>3, <2>1, <2>2, <2>3, <2>4, <2>6 DEF TargetStarted, TargetOnDisk, Allocating
  <2>8. Newborn(Spare(L)', dirents', target'.num, target', parent'.num)
    BY <1>3, <2>1, <2>3, <2>6 DEF Newborn, TargetStarted
  <2>9. LiveTool(L)'
    BY <1>3, <2>1, <2>2, <2>5, <2>7, <2>8
       DEF LiveTool, Reading, Creating, Started, Filling, Adding, Holding, Putting
  <2> QED
    BY <2>5, <2>9 DEF LiveInv
<1> QED
  BY <1>4, <1>5, <1>6

\* One block more for an in-core inode.
LEMMA PrivateMapped ==
  ASSUME NEW S, NEW c, NEW c2, NEW l \in Logical, NEW b \in S, Private(S, c),
         \A j \in Logical : c.addr[j] # b,
         \A j \in Logical : c2.addr[j] = IF j = l THEN b ELSE c.addr[j]
  PROVE  Private(S, c2)
  BY DEF Private

\* The blocks and entries of a directory that mkdir has just made.
LEMMA DotsNewborn ==
  ASSUME NEW D, NEW c, NEW b, b # 0, NEW n, NEW up,
         \A l \in Logical : c.addr[l] = IF l = 0 THEN b ELSE 0,
         D[b] = [ZeroBlock EXCEPT ![0] = [ino |-> n, name |-> "."],
                                  ![1] = [ino |-> up, name |-> ".."]]
  PROVE  Dense(c) /\ OnlyDots(Row(D, c), n, up)
<1>1. Dense(c)
  BY GeometryAssumption DEF Dense, Logical
<1>2. \A q \in Positions :
        Row(D, c)[q] = IF q[1] # 0 THEN NoEntry
                       ELSE IF q[2] = 0 THEN [ino |-> n, name |-> "."]
                       ELSE IF q[2] = 1 THEN [ino |-> up, name |-> ".."] ELSE NoEntry
  <2> SUFFICES ASSUME NEW q \in Positions
               PROVE  Row(D, c)[q] = IF q[1] # 0 THEN NoEntry
                        ELSE IF q[2] = 0 THEN [ino |-> n, name |-> "."]
                        ELSE IF q[2] = 1 THEN [ino |-> up, name |-> ".."] ELSE NoEntry
    OBVIOUS
  <2>1. q[1] \in Logical /\ q[2] \in Slots
    BY DEF Positions
  <2>2. D[b][q[2]] = IF q[2] = 0 THEN [ino |-> n, name |-> "."]
                     ELSE IF q[2] = 1 THEN [ino |-> up, name |-> ".."] ELSE NoEntry
    BY <2>1 DEF ZeroBlock
  <2>3. Row(D, c)[q] = IF q[1] # 0 THEN NoEntry ELSE D[b][q[2]]
    BY <2>1 DEF Row, View
  <2> QED
    BY <2>2, <2>3
<1>3. NoEntry.ino = 0
  BY DEF NoEntry
<1>4. \A q \in Positions : Row(D, c)[q].ino # 0 =>
        /\ q[1] = 0 /\ q[2] \in {0, 1}
        /\ Row(D, c)[q] = IF q[2] = 0 THEN [ino |-> n, name |-> "."] ELSE [ino |-> up, name |-> ".."]
        /\ Row(D, c)[q].name = IF q[2] = 0 THEN "." ELSE ".."
  <2> HIDE DEF Row
  <2> QED
    BY <1>2, <1>3
<1>5. \A q, r \in Positions : q[1] = r[1] /\ q[2] = r[2] => q = r
  BY DEF Positions
<1> HIDE DEF Row
<1>6. \A q, r \in Positions : Row(D, c)[q].ino # 0 /\ Row(D, c)[r].ino # 0
                                /\ Row(D, c)[q].name = Row(D, c)[r].name => q = r
  BY <1>4, <1>5
<1> QED
  BY <1>1, <1>4, <1>6 DEF OnlyDots

\* The entries or the chunk for a new block, which the new inode maps in core.
LEMMA LiveContent ==
  ASSUME NEW L, Before(L), WriteDotEntries \/ CopyChunk
  PROVE  LiveInv(L)'
<1>1. /\ LiveDisk(L) /\ L \subseteq Inodes /\ DiskTypeOK /\ LiveLinks(L) /\ Inv /\ LiveTool(L)
      /\ core \in [Inodes2 -> inode] /\ InFlight /\ ProcTypeOK
  BY BeforeParts
<1>2. pc = "content" /\ UNCHANGED <<args, who, status, faults>>
  BY DEF WriteDotEntries, CopyChunk
<1>3. /\ ParentRead(L) /\ CreatesIn(L) /\ base \in Names /\ who = "target" /\ tool \in Creators
      /\ TargetStarted(L) /\ Private(Spare(L), target) /\ (tool = "mkdir" => target.addr = Unmapped)
      /\ FreshBlock(L) /\ fresh \in Blocks /\ (tool = "mkdir" => dirents[fresh] = ZeroBlock)
      /\ (tool = "cp" => k < fsz)
  BY <1>1, <1>2, CreatingTool
     DEF Filling, Holding, Creating, Started, LiveTool, TargetStarted, InFlight
<1>4. fresh \notin Taken(L) /\ fresh \in Spare(L) /\ fresh # 0
  BY <1>3, BlockRange, <1>1 DEF FreshBlock, Spare
<1>5. target \in inode /\ target.addr \in [Logical -> Blocks]
  BY <1>1 DEF target, Inodes2, inode
<1>6. CASE WriteDotEntries
  <2>1. /\ pc' = "entry" /\ tool = "mkdir" /\ WriteDots(fresh, target.num, parent.num)
        /\ core' = [core EXCEPT !["target"] = [@ EXCEPT !.size = 2, !.nlink = 2, !.addr[0] = fresh]]
    BY <1>6 DEF WriteDotEntries, target, parent
  <2>2. /\ kills' = kills /\ parent' = parent /\ base' = base /\ tool' = tool /\ who' = who
        /\ dinode' = dinode
    BY <1>1, <1>2, <2>1 DEF faults, parent, args, WriteDots, Inodes2
  <2>3. target' = [target EXCEPT !.size = 2, !.nlink = 2, !.addr[0] = fresh]
    BY <1>1, <2>1 DEF target, Inodes2
  <2>4. /\ target'.num = target.num /\ target'.mode = target.mode /\ target'.nlink = 2
        /\ target'.dirty = target.dirty
        /\ \A l \in Logical : target'.addr[l] = IF l = 0 THEN fresh ELSE target.addr[l]
    BY <1>5, <2>3 DEF inode
  <2>5. Allocating(L)
    BY <1>1, <1>4, <2>1, UnharmedWrites
  <2>6. /\ LiveDisk(L)' /\ LiveLinks(L)' /\ ParentRead(L)' /\ CreatesIn(L)'
        /\ Spare(L) \subseteq Spare(L)'
    BY <1>3, <2>2, <2>5, AllocatingKeeps
  <2>7. 0 \in Logical
    BY GeometryAssumption DEF Logical
  <2>8. Private(Spare(L), target')
    BY <1>3, <1>4, <2>4, <2>7, PrivateMapped DEF FreshBlock
  <2>9. Private(Spare(L)', target')
    BY <2>6, <2>8, PrivateMore
  <2>10. TargetStarted(L)'
    BY <1>3, <2>1, <2>2, <2>4, <2>5, <2>9 DEF TargetStarted, TargetOnDisk, Allocating
  <2>11. dirents'[fresh] = [ZeroBlock EXCEPT ![0] = [ino |-> target.num, name |-> "."],
                                             ![1] = [ino |-> parent.num, name |-> ".."]]
    BY <1>1, <1>3, <2>1 DEF WriteDots, DiskTypeOK
  <2>12. \A l \in Logical : target'.addr[l] = IF l = 0 THEN fresh ELSE 0
    BY <1>3, <2>1, <2>4 DEF Unmapped
  <2>13. Dense(target') /\ OnlyDots(Row(dirents', target'), target.num, parent.num)
    BY <1>4, <2>11, <2>12, DotsNewborn
  <2>14. Newborn(Spare(L)', dirents', target'.num, target', parent'.num)
    BY <1>3, <2>1, <2>2, <2>4, <2>9, <2>13 DEF Newborn, TargetStarted
  <2>15. LiveTool(L)'
    BY <1>3, <2>1, <2>2, <2>6, <2>10, <2>14
       DEF LiveTool, Reading, Creating, Started, Filling, Adding, Holding, Putting
  <2> QED
    BY <2>6, <2>15 DEF LiveInv
<1>7. CASE CopyChunk
  <2>1. /\ pc' = "block" /\ tool = "cp" /\ WriteChunk(fresh, k)
        /\ core' = [core EXCEPT !["target"] = [@ EXCEPT !.addr[k] = fresh]]
    BY <1>7 DEF CopyChunk
  <2>2. /\ kills' = kills /\ parent' = parent /\ base' = base /\ tool' = tool /\ who' = who
        /\ dinode' = dinode
    BY <1>1, <1>2, <2>1 DEF faults, parent, args, WriteChunk, Inodes2
  <2>3. target' = [target EXCEPT !.addr[k] = fresh]
    BY <1>1, <2>1 DEF target, Inodes2
  <2>4. /\ target'.num = target.num /\ target'.mode = target.mode /\ target'.nlink = target.nlink
        /\ target'.dirty = target.dirty
        /\ \A l \in Logical : target'.addr[l] = IF l = k THEN fresh ELSE target.addr[l]
    BY <1>5, <2>3 DEF inode
  <2>5. Allocating(L)
    BY <1>1, <2>1, UnharmedWrites
  <2>6. /\ LiveDisk(L)' /\ LiveLinks(L)' /\ ParentRead(L)' /\ CreatesIn(L)'
        /\ Spare(L) \subseteq Spare(L)'
    BY <1>3, <2>2, <2>5, AllocatingKeeps
  <2>7. k \in Logical
    BY <1>1, <1>3, <2>1, IndexTypes
  <2>8. Private(Spare(L), target')
    BY <1>3, <1>4, <2>4, <2>7, PrivateMapped DEF FreshBlock
  <2>9. Private(Spare(L)', target')
    BY <2>6, <2>8, PrivateMore
  <2>10. TargetStarted(L)'
    BY <1>3, <2>1, <2>2, <2>4, <2>5, <2>9 DEF TargetStarted, TargetOnDisk, Allocating
  <2>11. LiveTool(L)'
    BY <1>3, <2>1, <2>2, <2>6, <2>10
       DEF LiveTool, Reading, Creating, Started, Filling, Adding, Holding, Putting
  <2> QED
    BY <2>6, <2>11 DEF LiveInv
<1> QED
  BY <1>6, <1>7

\* The lowest hole of a directory whose blocks come before its holes.
LEMMA LowestIsFirst ==
  ASSUME NEW c, Dense(c), NEW l \in Logical, c.addr[l] = 0,
         \A m \in Logical : c.addr[m] = 0 => l <= m
  PROVE  FirstHole(c.addr, l)
<1> SUFFICES ASSUME NEW m \in Logical
             PROVE  c.addr[m] = 0 <=> ~(m < l)
  BY DEF FirstHole
<1>1. l \in Int /\ m \in Int
  BY DEF Logical
<1> QED
  BY <1>1 DEF Dense

\* mkdir or cp in add_entry.
LEMMA AddingTool ==
  ASSUME NEW L, Before(L), pc \in {"entry", "ezero"}
  PROVE  /\ ParentRead(L) /\ CreatesIn(L) /\ base \in Names /\ who = "target" /\ tool \in Creators
         /\ TargetStarted(L) /\ Private(Spare(L), target)
         /\ Newborn(Spare(L), dirents, target.num, target, parent.num)
         /\ parent.num \in L \cap Dirs /\ parent.num \in Inodes /\ Dense(dinode[parent.num])
         /\ parent = get_inode(parent.num) /\ parent.addr = dinode[parent.num].addr
         /\ parent.mode = "dir" /\ parent.nlink = dinode[parent.num].nlink
<1>1. /\ ParentRead(L) /\ CreatesIn(L) /\ base \in Names /\ who = "target" /\ tool \in Creators
      /\ TargetStarted(L) /\ Private(Spare(L), target)
  BY CreatingTool DEF Creating, Started, TargetStarted
<1>2. Newborn(Spare(L), dirents, target.num, target, parent.num)
  BY BeforeParts DEF LiveTool, Adding
<1>3. parent.num \in L \cap Dirs /\ parent.num \in Inodes /\ Dense(dinode[parent.num])
  BY <1>1, BeforeParts DEF CreatesIn, LiveDisk, InodesOf
<1>4. /\ parent = get_inode(parent.num) /\ parent.addr = dinode[parent.num].addr
      /\ parent.mode = "dir" /\ parent.nlink = dinode[parent.num].nlink
  BY <1>1, <1>3 DEF ParentRead, get_inode, InCore, Dirs
<1> QED
  BY <1>1, <1>2, <1>3, <1>4

\* add_entry allocates a block for the parent, which only the core maps.
LEMMA LiveAddBlock ==
  ASSUME NEW L, Before(L), AddEntryAllocates \/ AddEntryZeroes
  PROVE  LiveInv(L)'
<1>1. /\ LiveDisk(L) /\ L \subseteq Inodes /\ DiskTypeOK /\ LiveLinks(L) /\ Inv /\ LiveTool(L)
      /\ core \in [Inodes2 -> inode] /\ InFlight
  BY BeforeParts
<1>2. pc \in {"entry", "ezero"} /\ UNCHANGED <<args, who, status, faults>>
  BY DEF AddEntryAllocates, AddEntryZeroes
<1>3. /\ ParentRead(L) /\ CreatesIn(L) /\ base \in Names /\ who = "target" /\ tool \in Creators
      /\ TargetStarted(L) /\ Private(Spare(L), target)
      /\ Newborn(Spare(L), dirents, target.num, target, parent.num)
      /\ parent.num \in L \cap Dirs /\ parent.num \in Inodes /\ Dense(dinode[parent.num])
      /\ parent.addr = dinode[parent.num].addr
  BY <1>2, AddingTool
<1>4. CASE AddEntryAllocates
  <2>1. PICK b \in FreeBlocks : SetBlockBit(b) /\ fresh' = b
    BY <1>4 DEF AddEntryAllocates
  <2>2. PICK l \in Holes(parent) : Lowest(l, Holes(parent)) /\ k' = l
    BY <1>4 DEF AddEntryAllocates, parent
  <2>3. pc' = "ezero" /\ core' = core
    BY <1>4 DEF AddEntryAllocates
  <2>4. /\ kills' = kills /\ parent' = parent /\ target' = target /\ base' = base
        /\ tool' = tool /\ who' = who /\ dinode' = dinode /\ dirents' = dirents
    BY <1>2, <2>1, <2>3 DEF faults, parent, target, args, SetBlockBit
  <2>5. FreshBlock(L)' /\ Allocating(L)
    BY <1>3, <2>1, <2>4, NewBlock DEF FreshBlock
  <2>6. /\ LiveDisk(L)' /\ LiveLinks(L)' /\ ParentRead(L)' /\ CreatesIn(L)' /\ TargetStarted(L)'
        /\ Spare(L) \subseteq Spare(L)'
    BY <1>1, <1>3, <2>4, <2>5, AllocatingKeeps, StartedKept
  <2>7. Newborn(Spare(L)', dirents', target'.num, target', parent'.num)
    <3>1. Newborn(Spare(L)', dirents, target.num, target, parent.num)
      BY <1>3, <2>6, NewbornMore
    <3> QED
      BY <2>4, <3>1
  <2>8. FirstHole(dinode[parent.num].addr, l)
    BY <1>3, <2>2, LowestIsFirst DEF Holes, Lowest
  <2>9. FirstHole(dinode'[parent'.num].addr, k')
    BY <2>2, <2>4, <2>8
  <2>10. LiveTool(L)'
    BY <1>3, <2>3, <2>4, <2>5, <2>6, <2>7, <2>9
       DEF LiveTool, Reading, Creating, Started, Filling, Adding, Holding, Putting
  <2> QED
    BY <2>6, <2>10 DEF LiveInv
<1>5. CASE AddEntryZeroes
  <2>1. /\ pc = "ezero" /\ pc' = "ewrite" /\ zero_block(fresh) /\ fresh' = fresh /\ k' = k
        /\ core' = [core EXCEPT !["parent"] = [@ EXCEPT !.addr[k] = fresh]]
    BY <1>5 DEF AddEntryZeroes
  <2>2. FreshBlock(L) /\ fresh \in Blocks /\ FirstHole(dinode[parent.num].addr, k)
    BY <1>1, <2>1 DEF LiveTool, Holding, InFlight
  <2>3. Allocating(L) /\ Unharmed(L) /\ dirents'[fresh] = ZeroBlock
        /\ \A b \in Blocks : b # fresh => dirents'[b] = dirents[b]
    BY <1>1, <2>1, <2>2, UnharmedWrites
       DEF FreshBlock, Spare, zero_block, DiskTypeOK, Allocating
  <2>4. parent' = [parent EXCEPT !.addr[k] = fresh] /\ target' = target
    BY <1>1, <2>1 DEF parent, target, Inodes2
  <2>5. /\ kills' = kills /\ base' = base /\ tool' = tool /\ who' = who /\ dinode' = dinode
        /\ parent'.num = parent.num /\ parent'.nlink = parent.nlink
    BY <1>1, <1>2, <2>1, <2>4 DEF faults, parent, target, args, zero_block, Inodes2, inode
  <2>6. /\ LiveDisk(L)' /\ LiveLinks(L)' /\ CreatesIn(L)' /\ TargetStarted(L)'
        /\ Spare(L) \subseteq Spare(L)'
    <3>1. LiveDisk(L)' /\ LiveLinks(L)'
      BY <1>1, <2>3, <2>5, UnharmedDisk, LinksKept
    <3>2. CreatesIn(L)' /\ TargetStarted(L)'
      BY <1>1, <1>3, <2>3, <2>4, <2>5, CreatesKept, StartedKept
    <3> QED
      BY <1>1, <2>3, <3>1, <3>2, SpareKept
  <2>7. FreshBlock(L)'
    BY <2>1, <2>2, <2>4, <2>6 DEF FreshBlock
  <2>8. Newborn(Spare(L)', dirents', target'.num, target', parent'.num)
    <3>1. target.addr \in [Logical -> Blocks]
      BY <1>1 DEF target, Inodes2, inode
    <3>2. Newborn(Spare(L)', dirents', target.num, target, parent.num)
      BY <1>3, <2>2, <2>3, <2>6, <3>1, NewbornMore DEF FreshBlock
    <3> QED
      BY <2>4, <2>5, <3>2
  <2>9. FirstHole(dinode'[parent'.num].addr, k')
    BY <2>1, <2>2, <2>5
  <2>10. parent' = [get_inode(parent.num)' EXCEPT !.addr[k'] = fresh']
    BY <1>3, <2>1, <2>4, <2>5 DEF ParentRead, get_inode
  <2>11. Near(parent'.nlink, LinksOf(parent.num)', kills')
    <3>1. Near(parent.nlink, LinksOf(parent.num), kills)
      BY <1>3 DEF ParentRead
    <3>2. ASSUME NEW d, d = parent.num
          PROVE  LinksOf(d)' = LinksOf(d)
      BY <1>1, <1>3, <2>3, <3>2, UnharmedDisk
    <3> QED
      BY <2>5, <3>1, <3>2 DEF LinksOf
  <2>12. LiveTool(L)'
    BY <1>3, <2>1, <2>3, <2>5, <2>6, <2>7, <2>8, <2>9, <2>10, <2>11
       DEF LiveTool, Reading, Creating, Started, Filling, Adding, Holding, Putting
  <2> QED
    BY <2>6, <2>12 DEF LiveInv
<1> QED
  BY <1>4, <1>5

-----------------------------------------------------------------------------
(* Link counts of at most one killed tool.                                 *)

\* A directory's count never reaches the ends of an uint16_t.
LEMMA LinkStep ==
  ASSUME MaxKills <= 1, NEW n \in NLinks, NEW c \in Nat, c <= NDIRECT * DirentsPerBlock,
         NEW m \in 0 .. MaxKills, Near(n, c, m)
  PROVE  /\ n # 0 /\ LinkedOnce(n) = n + 1 /\ LinkedOnce(n) # 0 /\ Near(n + 1, c + 1, m)
         /\ c > 0 => Unlinked(n) = n - 1 /\ Unlinked(n) # 0 /\ Near(n - 1, c - 1, m)
<1> DEFINE room == NDIRECT * DirentsPerBlock
<1>1. n \in Nat /\ m \in Nat /\ m <= 1 /\ UINT16_MAX \in Nat
  BY FaultAssumption DEF NLinks, UINT16_MAX
<1>2. room \in Nat /\ room + 3 < UINT16_MAX /\ c <= room
  <2>1. \A i \in Nat, j \in Nat : i * j \in Nat
    OBVIOUS
  <2> QED
    BY <2>1, GeometryAssumption, LinkAssumption
<1> HIDE DEF room
<1>3. n >= 1 /\ n < UINT16_MAX
  BY <1>1, <1>2 DEF Near
<1>4. LinkedOnce(n) = n + 1 /\ LinkedOnce(n) # 0 /\ Near(n + 1, c + 1, m)
  BY <1>1, <1>3 DEF LinkedOnce, Near
<1>5. c > 0 => Unlinked(n) = n - 1 /\ Unlinked(n) # 0 /\ Near(n - 1, c - 1, m)
  BY <1>1, <1>3 DEF Unlinked, Near
<1> QED
  BY <1>3, <1>4, <1>5

\* What the core holds after add_entry.
LEMMA LinkedFields ==
  ASSUME core \in [Inodes2 -> inode], NEW size, core' = Linked(size)
  PROVE  /\ parent'.num = parent.num /\ parent'.addr = parent.addr /\ parent'.mode = parent.mode
         /\ parent'.dirty = DIRTY /\ parent'.nlink = ParentLinks
         /\ target'.num = target.num /\ target'.addr = target.addr /\ target'.mode = target.mode
         /\ target'.dirty = DIRTY /\ target'.nlink = target.nlink
<1>1. core["parent"] \in inode /\ core["target"] \in inode
  BY DEF Inodes2
<1> DEFINE t == [core["target"] EXCEPT !.dirty = DIRTY]
           p == [core["parent"] EXCEPT !.dirty = DIRTY, !.size = size, !.nlink = ParentLinks]
<1>2. Linked(size) = [core EXCEPT !["target"] = t, !["parent"] = p]
  BY Zenon DEF Linked
<1>3. target' = t /\ parent' = p
  <2> HIDE DEF t, p
  <2> QED
    BY <1>2 DEF target, parent, Inodes2
<1>4. /\ t.num = target.num /\ t.addr = target.addr /\ t.mode = target.mode
      /\ t.dirty = DIRTY /\ t.nlink = target.nlink
  BY <1>1 DEF inode, target
<1>5. /\ p.num = parent.num /\ p.addr = parent.addr /\ p.mode = parent.mode
      /\ p.dirty = DIRTY /\ p.nlink = ParentLinks
  BY <1>1 DEF inode, parent
<1> QED
  BY <1>3, <1>4, <1>5

\* The parent's link count once mkdir or cp has linked it.
LEMMA ParentLinked ==
  ASSUME MaxKills <= 1, NEW L, Before(L), TargetStarted(L), tool \in Creators,
         Near(parent.nlink, LinksOf(parent.num), kills)
  PROVE  /\ ParentLinks # 0
         /\ Near(ParentLinks, LinksOf(parent.num) + (IF target.mode = "dir" THEN 1 ELSE 0), kills)
<1>1. parent \in inode /\ kills \in 0 .. MaxKills
  BY BeforeParts DEF parent, Inodes2, ProcTypeOK
<1>2. parent.nlink \in NLinks
  BY <1>1 DEF inode
<1>3. LinksOf(parent.num) \in Nat /\ LinksOf(parent.num) <= NDIRECT * DirentsPerBlock
  BY SubdirsFinite DEF LinksOf
<1>4. /\ parent.nlink # 0 /\ LinkedOnce(parent.nlink) = parent.nlink + 1
      /\ LinkedOnce(parent.nlink) # 0
      /\ Near(parent.nlink + 1, LinksOf(parent.num) + 1, kills)
  BY <1>1, <1>2, <1>3, LinkStep
<1>5. target.mode = IF tool = "mkdir" THEN "dir" ELSE "reg"
  BY DEF TargetStarted
<1>6. ParentLinks = IF tool = "mkdir" THEN LinkedOnce(parent.nlink) ELSE parent.nlink
  BY DEF ParentLinks, parent
<1> QED
  BY <1>3, <1>4, <1>5, <1>6

-----------------------------------------------------------------------------
(* Writing an entry.                                                       *)

\* One slot of a block of P changes, and nobody else has that block.
LEMMA SlotWrite ==
  ASSUME DiskTypeOK, NEW L, LiveDisk(L), NEW P \in L, NEW p \in Positions,
         dinode[P].addr[p[1]] # 0, NEW e, WriteDirent(dinode[P].addr[p[1]], p[2], e)
  PROVE  /\ \A m \in L, q \in Positions : m # P \/ q # p => Table'[m][q] = Table[m][q]
         /\ Table'[P][p] = e
         /\ dinode' = dinode /\ ibits' = ibits /\ bbits' = bbits
<1> DEFINE b == dinode[P].addr[p[1]]
<1>1. L \subseteq Inodes /\ p[1] \in Logical /\ p[2] \in Slots
  BY DEF LiveDisk, InodesOf, Positions
<1>2. \A m \in L, l \in Logical : dinode[m].addr[l] \in Blocks
  BY <1>1 DEF DiskTypeOK, disk_inode
<1>3. /\ \A c \in Blocks : c # b => dirents'[c] = dirents[c]
      /\ \A s \in Slots : s # p[2] => dirents'[b][s] = dirents[b][s]
      /\ dirents'[b][p[2]] = e
  BY <1>1, <1>2 DEF WriteDirent, DiskTypeOK
<1>4. dinode' = dinode /\ ibits' = ibits /\ bbits' = bbits
  BY DEF WriteDirent
<1>5. \A m \in L, q \in Positions : /\ Table[m][q] = View(dirents, dinode[m], q)
                                   /\ Table'[m][q] = View(dirents', dinode[m], q)
  BY <1>1, <1>4 DEF Table, Row
<1>6. Table'[P][p] = e
  BY <1>3, <1>5 DEF View
<1>7. ASSUME NEW m \in L, NEW q \in Positions, m # P \/ q # p
      PROVE  Table'[m][q] = Table[m][q]
  <2>1. q[1] \in Logical /\ q[2] \in Slots
    BY DEF Positions
  <2>2. CASE dinode[m].addr[q[1]] = b
    <3>1. m = P /\ q[1] = p[1]
      BY <1>1, <2>1, <2>2 DEF LiveDisk, BlocksOf
    <3>2. q[2] # p[2]
      BY <1>7, <3>1 DEF Positions
    <3> QED
      BY <1>3, <1>5, <2>1, <2>2, <3>2 DEF View
  <2>3. CASE dinode[m].addr[q[1]] # b
    BY <1>2, <1>3, <1>5, <2>1, <2>3 DEF View
  <2> QED
    BY <2>2, <2>3
<1> QED
  BY <1>4, <1>6, <1>7

\* Only mode, links and blocks of an in-core inode matter to what it holds.
LEMMA NewbornFields ==
  ASSUME NEW S, NEW D, NEW n, NEW c, NEW c2, NEW up, Newborn(S, D, n, c, up),
         c2.mode = c.mode, c2.nlink = c.nlink, c2.addr = c.addr
  PROVE  Newborn(S, D, n, c2, up)
<1>1. Row(D, c2) = Row(D, c)
  BY DEF Row, View
<1> QED
  BY <1>1 DEF Newborn, Private, Dense

\* Two writes bring a new entry into the tree: that of a slot, and that of a parent
\* with one block more.  What both have in common: the tree that comes out, and the
\* link counts.
LEMMA TreeGrows ==
  ASSUME NEW L, LiveDisk(L), NEW n, NEW P, NEW p, NEW name,
         Adds(L, Table, Dirs, Table', Dirs', n, P, p, name)
  PROVE  /\ TreeOf(L \cup {n}, Table', Dirs')
         /\ p \in Kids(Table', P)
         /\ LinksOf(P)' = LinksOf(P) + (IF n \in Dirs' THEN 1 ELSE 0)
         /\ \A d \in L \cap Dirs : d # P => SubdirsIn(Table', Dirs', d) = SubdirsIn(Table, Dirs, d)
         /\ n \in Dirs' => LinksOf(n)' = 0
<1>1. TreeOf(L, Table, Dirs)
  BY DEF LiveDisk
<1>2. /\ TreeOf(L \cup {n}, Table', Dirs')
      /\ SubdirsIn(Table', Dirs', P) = SubdirsIn(Table, Dirs, P) \cup (IF n \in Dirs' THEN {p} ELSE {})
      /\ p \notin SubdirsIn(Table, Dirs, P)
      /\ \A d \in L \cap Dirs : d # P => SubdirsIn(Table', Dirs', d) = SubdirsIn(Table, Dirs, d)
      /\ n \in Dirs' => SubdirsIn(Table', Dirs', n) = {}
  <2>1. Added(L, Table, Dirs, Table', Dirs', n, P, p)
    BY <1>1, TreeAdd
  <2> QED
    BY <2>1 DEF Added
<1>3. LinksOf(P)' = LinksOf(P) + (IF n \in Dirs' THEN 1 ELSE 0)
  <2>1. CASE n \in Dirs'
    BY <1>2, <2>1, SubdirsCount DEF LinksOf
  <2>2. CASE n \notin Dirs'
    BY <1>2, <2>2, SubdirsFinite DEF LinksOf
  <2> QED
    BY <2>1, <2>2
<1>4. n \in Dirs' => LinksOf(n)' = 0
  BY <1>2, FS_EmptySet DEF LinksOf
<1>5. p \in Kids(Table', P)
  BY DEF Adds, Kids
<1> QED
  BY <1>2, <1>3, <1>4, <1>5

\* The write that makes the new entry visible in a block the parent has: the new inode
\* is live from now on.
LEMMA LiveAddSlot ==
  ASSUME MaxKills <= 1, NEW L, Before(L), AddEntryInSlot
  PROVE  \E n \in Inodes, P \in Inodes, p \in Positions :
           /\ n = target.num /\ P = parent.num /\ LiveInv(L \cup {n})'
           /\ Adds(L, Table, Dirs, Table', Dirs', n, P, p, base)
<1>1. /\ LiveDisk(L) /\ L \subseteq Inodes /\ DiskTypeOK /\ LiveLinks(L) /\ Inv /\ LiveTool(L)
      /\ core \in [Inodes2 -> inode] /\ ROOT_INODE \in L /\ kills \in 0 .. MaxKills
  BY BeforeParts DEF LiveDisk, InodesOf, ProcTypeOK
<1>2. pc = "entry" /\ pc' = "put" /\ UNCHANGED <<args, who, fresh, k, status, faults>>
  BY DEF AddEntryInSlot
<1>3. /\ ParentRead(L) /\ CreatesIn(L) /\ base \in Names /\ who = "target" /\ tool \in Creators
      /\ TargetStarted(L) /\ Private(Spare(L), target)
      /\ Newborn(Spare(L), dirents, target.num, target, parent.num)
      /\ parent.num \in L \cap Dirs /\ parent.num \in Inodes /\ Dense(dinode[parent.num])
      /\ parent.addr = dinode[parent.num].addr /\ parent.mode = "dir"
      /\ parent.nlink = dinode[parent.num].nlink
  BY <1>2, AddingTool
<1>4. PICK p \in FreeSlots(parent) :
        /\ WriteDirent(parent.addr[p[1]], p[2], NewEntry)
        /\ core' = Linked(SizeWith(p))
  BY DEF AddEntryInSlot, parent
<1>5. PICK n : n = target.num
  OBVIOUS
<1>6. PICK P : P = parent.num
  OBVIOUS
<1>7. /\ n \in Inodes \ L /\ n # 0 /\ P \in L \cap Dirs /\ P \in Inodes /\ P # n
      /\ NewEntry = [ino |-> n, name |-> base] /\ base \notin Dots
  <2>1. n \in Inodes \ L /\ n # 0
    BY <1>3, <1>5 DEF TargetStarted, TargetOnDisk, Inodes
  <2>2. NewEntry = [ino |-> n, name |-> base]
    BY <1>5 DEF NewEntry, target
  <2>3. base \notin Dots
    BY <1>3, NamesAssumption DEF Dots
  <2> QED
    BY <1>3, <1>6, <2>1, <2>2, <2>3
<1>8. p \in Positions /\ dinode[P].addr[p[1]] # 0 /\ Table[P][p].ino = 0
  BY <1>1, <1>3, <1>6, <1>7, EntryTypesInTable DEF FreeSlots, Mapped, EntryAt
<1>9. /\ \A m \in L, q \in Positions : m # P \/ q # p => Table'[m][q] = Table[m][q]
      /\ Table'[P][p] = [ino |-> n, name |-> base]
      /\ dinode' = dinode /\ ibits' = ibits /\ bbits' = bbits
  <2>1. WriteDirent(dinode[P].addr[p[1]], p[2], [ino |-> n, name |-> base])
    BY <1>3, <1>4, <1>6, <1>7
  <2> QED
    BY <1>1, <1>7, <1>8, <2>1, SlotWrite
<1>10. Dirs' = Dirs
  BY <1>9 DEF Dirs
<1>11. /\ dinode[n].addr = Unmapped /\ n \in ibits /\ dinode[n].mode = target.mode
       /\ target.mode \in {"reg", "dir"} /\ (n \in Dirs => dinode[n].nlink = 2)
  BY <1>3, <1>5 DEF TargetStarted, TargetOnDisk, Dirs
<1>12. \A q \in Positions : Table'[n][q].ino = 0
  BY <1>7, <1>9, <1>11 DEF Table, Row, View, Unmapped, NoEntry, Positions
<1>13. /\ TreeOf(L \cup {n}, Table', Dirs') /\ p \in Kids(Table', P)
       /\ LinksOf(P)' = LinksOf(P) + (IF n \in Dirs THEN 1 ELSE 0)
       /\ \A d \in L \cap Dirs : d # P => LinksOf(d)' = LinksOf(d)
       /\ n \in Dirs => LinksOf(n)' = 0
       /\ Adds(L, Table, Dirs, Table', Dirs', n, P, p, base)
  <2>1. OnlyDots(Table'[n], n, P)
    BY <1>12 DEF OnlyDots
  <2>2. \A q \in Positions : Table[P][q].ino # 0 => Table[P][q].name # base
    BY <1>3, <1>6 DEF CreatesIn, NameFree
  <2>3. Adds(L, Table, Dirs, Table', Dirs', n, P, p, base)
    BY <1>1, <1>7, <1>8, <1>9, <1>10, <2>1, <2>2 DEF Adds
  <2>4. /\ TreeOf(L \cup {n}, Table', Dirs') /\ p \in Kids(Table', P)
        /\ LinksOf(P)' = LinksOf(P) + (IF n \in Dirs' THEN 1 ELSE 0)
        /\ \A d \in L \cap Dirs : d # P => LinksOf(d)' = LinksOf(d)
        /\ n \in Dirs' => LinksOf(n)' = 0
    <3>1. LiveDisk(L)
      BY <1>1
    <3>2. TreeOf(L \cup {n}, Table', Dirs') /\ p \in Kids(Table', P)
      BY <2>3, <3>1, TreeGrows
    <3>3. LinksOf(P)' = LinksOf(P) + (IF n \in Dirs' THEN 1 ELSE 0)
      BY <2>3, <3>1, TreeGrows
    <3>4. n \in Dirs' => LinksOf(n)' = 0
      BY <2>3, <3>1, TreeGrows
    <3>5. \A d \in L \cap Dirs : d # P => SubdirsIn(Table', Dirs', d) = SubdirsIn(Table, Dirs, d)
      BY <2>3, <3>1, TreeGrows
    <3>6. \A d \in L \cap Dirs : d # P => LinksOf(d)' = LinksOf(d)
      BY <3>5 DEF LinksOf
    <3> QED
      BY <3>2, <3>3, <3>4, <3>6
  <2> QED
    BY <1>10, <2>3, <2>4
<1> DEFINE K == L \cup {n}
<1>14. Taken(K)' = Taken(L) \cup {0}
  <2>1. 0 \in Logical
    BY GeometryAssumption DEF Logical
  <2> QED
    BY <1>9, <1>11, <2>1 DEF Taken, Unmapped
<1>15. LiveDisk(K)'
  <2>1. InodesOf(K)'
    BY <1>1, <1>7, <1>9, <1>10, <1>11 DEF LiveDisk, InodesOf, Dense, Unmapped
  <2>2. BlocksOf(K)'
    <3>1. \A b \in Taken(K)' \ {0} : ~badblock(b) /\ b \in bbits'
      BY <1>1, <1>9, <1>14 DEF LiveDisk, BlocksOf
    <3>2. \A m \in K, l \in Logical : dinode[m].addr[l] # 0 => m \in L
      BY <1>11 DEF Unmapped
    <3>3. \A i, m \in K : \A l, j \in Logical :
            dinode[i].addr[l] # 0 /\ dinode[i].addr[l] = dinode[m].addr[j] => i = m /\ l = j
      BY <1>1, <3>2 DEF LiveDisk, BlocksOf
    <3> QED
      BY <1>9, <3>1, <3>3 DEF BlocksOf
  <2> QED
    BY <1>13, <2>1, <2>2 DEF LiveDisk
<1>16. Spare(K)' = Spare(L)
  BY <1>9, <1>14, BlockRange, <1>1 DEF Spare
<1>17. /\ parent'.num = P /\ parent'.addr = parent.addr /\ parent'.mode = parent.mode
       /\ parent'.dirty = DIRTY /\ parent'.nlink = ParentLinks
       /\ target'.num = n /\ target'.addr = target.addr /\ target'.mode = target.mode
       /\ target'.dirty = DIRTY /\ target'.nlink = target.nlink
       /\ kills' = kills /\ base' = base /\ who' = "target"
  BY <1>1, <1>2, <1>3, <1>4, <1>5, <1>6, LinkedFields DEF faults, args
<1>18. LiveLinks(K)'
  <2> SUFFICES ASSUME NEW d \in K, d \in Dirs
               PROVE  Near(dinode[d].nlink, LinksOf(d)', IF d = P THEN kills + 1 ELSE kills)
    BY <1>9, <1>10, <1>17 DEF LiveLinks
  <2>1. kills \in Nat
    BY <1>1, FaultAssumption
  <2>2. CASE d = n
    BY <1>7, <1>11, <1>13, <2>1, <2>2 DEF Near
  <2>3. CASE d = P
    <3>1. Near(dinode[P].nlink, LinksOf(P), kills)
      BY <1>3, <1>6 DEF ParentRead
    <3>2. dinode[P].nlink \in Int /\ LinksOf(P) \in Int
      BY <1>1, <1>7, LinkTypes
    <3> QED
      BY <1>13, <2>1, <2>3, <3>1, <3>2 DEF Near
  <2>4. CASE d \in L /\ d # P
    BY <1>1, <1>6, <1>13, <2>4 DEF LiveLinks
  <2> QED
    BY <2>2, <2>3, <2>4
<1>19. Settled(K)'
  <2>1. /\ ParentLinks # 0
        /\ Near(ParentLinks, LinksOf(P) + (IF target.mode = "dir" THEN 1 ELSE 0), kills)
    BY <1>3, <1>6, ParentLinked DEF ParentRead
  <2>2. target.mode = "dir" <=> n \in Dirs
    BY <1>7, <1>11 DEF Dirs
  <2>3. LinksOf(parent.num)' = LinksOf(P)'
    BY <1>17 DEF LinksOf
  <2>4. Near(ParentLinks, LinksOf(P)', kills)
    BY <1>13, <2>1, <2>2
  <2>5. parent'.dirty # CLEAN
    BY <1>17 DEF DIRTY, CLEAN
  <2>6. parent'.addr = dinode'[parent'.num].addr /\ parent'.mode = dinode'[parent'.num].mode
    BY <1>3, <1>6, <1>9, <1>17 DEF Dirs
  <2>7. parent'.nlink # 0 /\ Near(parent'.nlink, LinksOf(parent.num)', kills')
    BY <1>17, <2>1, <2>3, <2>4
  <2> QED
    BY <2>5, <2>6, <2>7 DEF Settled
<1>20. Newborn(Spare(K)', dirents', target'.num, target', parent'.num)
  <2>1. \A l \in Logical : target.addr[l] # 0 => dirents'[target.addr[l]] = dirents[target.addr[l]]
    <3>1. parent.addr[p[1]] \in Taken(L)
      BY <1>3, <1>8 DEF Taken, Positions
    <3>2. \A l \in Logical : target.addr[l] # 0 =>
            target.addr[l] \notin Taken(L) /\ target.addr[l] \in Blocks
      BY <1>1, <1>3 DEF Private, Spare, DiskTypeOK
    <3> QED
      BY <1>1, <1>4, <3>1, <3>2 DEF WriteDirent, DiskTypeOK
  <2>2. Newborn(Spare(L), dirents', n, target, P)
    BY <1>3, <1>5, <1>6, <2>1, NewbornMore
  <2> QED
    BY <1>16, <1>17, <2>2, NewbornFields
<1>21. ToFill(K)'
  <2>1. TargetOnDisk'
    BY <1>7, <1>9, <1>11, <1>17 DEF TargetOnDisk, Dirs
  <2>2. Table'[P][p].ino = n
    BY <1>9
  <2>3. \E q \in Kids(Table', parent'.num) : Table'[parent'.num][q].ino = target'.num
    BY <1>13, <1>17, <2>2
  <2>4. parent'.num \in Dirs' /\ target'.num \in K /\ target'.dirty = DIRTY
    BY <1>7, <1>10, <1>17
  <2> QED
    BY <1>19, <1>20, <2>1, <2>3, <2>4 DEF ToFill
<1>22. ParentDone(K)' /\ TargetDone(K)'
  BY <1>7, <1>17, <1>19, <1>21 DEF ParentDone, TargetDone
<1>23. LiveTool(K)'
  BY <1>2, <1>3, <1>17, <1>22, PutTool
<1>24. LiveInv(K)'
  BY <1>15, <1>18, <1>23 DEF LiveInv
<1> QED
  BY <1>5, <1>6, <1>7, <1>8, <1>13, <1>24

\* The entry in a new block of the parent: visible when put_inode writes the parent.
LEMMA LiveAddLast ==
  ASSUME MaxKills <= 1, NEW L, Before(L), AddEntryInNewBlock
  PROVE  LiveInv(L)' /\ Grown(L, target.num, target)'
<1>1. /\ LiveDisk(L) /\ L \subseteq Inodes /\ DiskTypeOK /\ LiveLinks(L) /\ Inv /\ LiveTool(L)
      /\ core \in [Inodes2 -> inode] /\ InFlight
  BY BeforeParts
<1>2. /\ pc = "ewrite" /\ pc' = "put" /\ WriteDirent(fresh, 0, NewEntry)
      /\ core' = Linked(SizeAt(<<k, 0>>)) /\ UNCHANGED <<args, who, status, faults>>
  BY DEF AddEntryInNewBlock
<1>3. /\ CreatesIn(L) /\ base \in Names /\ who = "target" /\ TargetStarted(L) /\ FreshBlock(L)
      /\ Newborn(Spare(L), dirents, target.num, target, parent.num)
      /\ FirstHole(dinode[parent.num].addr, k)
      /\ parent = [get_inode(parent.num) EXCEPT !.addr[k] = fresh]
      /\ dirents[fresh] = ZeroBlock /\ Near(parent.nlink, LinksOf(parent.num), kills)
      /\ fresh \in Blocks
  BY <1>1, <1>2 DEF LiveTool, Creating, Started, Adding, Holding, Putting, InFlight
<1>4. PICK P : P = parent.num
  OBVIOUS
<1>5. /\ P \in L /\ P \in Dirs /\ P \in Inodes /\ tool \in Creators
      /\ fresh \notin Taken(L) /\ fresh \in Spare(L) /\ k \in Logical
  BY <1>1, <1>3, <1>4 DEF CreatesIn, FreshBlock, Spare, FirstHole
<1>6. Allocating(L) /\ Unharmed(L)
  BY <1>1, <1>2, <1>5, UnharmedWrites DEF Allocating
<1>7. /\ dinode' = dinode /\ ibits' = ibits
      /\ dirents'[fresh] = [ZeroBlock EXCEPT ![0] = [ino |-> target.num, name |-> base]]
      /\ \A b \in Blocks : b # fresh => dirents'[b] = dirents[b]
  BY <1>1, <1>2, <1>3 DEF WriteDirent, DiskTypeOK, NewEntry, target
<1>8. /\ parent'.num = P /\ parent'.addr = parent.addr /\ parent'.mode = parent.mode
      /\ parent'.dirty = DIRTY /\ parent'.nlink = ParentLinks
      /\ target'.num = target.num /\ target'.addr = target.addr /\ target'.mode = target.mode
      /\ target'.dirty = DIRTY /\ target'.nlink = target.nlink
      /\ kills' = kills /\ base' = base /\ who' = "target" /\ tool' = tool
  BY <1>1, <1>2, <1>3, <1>4, LinkedFields DEF faults, args
<1>9. LiveDisk(L)' /\ LiveLinks(L)' /\ CreatesIn(L)' /\ Spare(L) \subseteq Spare(L)'
  <2>1. parent.num' = parent.num
    BY <1>4, <1>8
  <2>2. LiveDisk(L)' /\ LiveLinks(L)'
    BY <1>1, <1>6, <1>8, <2>1, UnharmedDisk, LinksKept
  <2>3. CreatesIn(L)'
    BY <1>1, <1>3, <1>6, <1>8, <2>1, CreatesKept
  <2> QED
    BY <1>1, <1>6, <2>2, <2>3, SpareKept
<1>10. LinksOf(P)' = LinksOf(P) /\ P \in Dirs'
  BY <1>1, <1>5, <1>6, UnharmedDisk, UnharmedView
<1>11. Newborn(Spare(L)', dirents', target'.num, target', parent'.num)
  <2>1. target.addr \in [Logical -> Blocks]
    BY <1>1 DEF target, Inodes2, inode
  <2>2. Newborn(Spare(L)', dirents', target.num, target, P)
    BY <1>3, <1>4, <1>7, <1>9, <2>1, NewbornMore DEF FreshBlock
  <2> QED
    BY <1>8, <2>2, NewbornFields
<1>12. /\ parent'.nlink # 0
       /\ Near(parent'.nlink, LinksOf(P)' + (IF target'.mode = "dir" THEN 1 ELSE 0), kills')
  <2>1. /\ ParentLinks # 0
        /\ Near(ParentLinks, LinksOf(P) + (IF target.mode = "dir" THEN 1 ELSE 0), kills)
    BY <1>3, <1>4, <1>5, ParentLinked
  <2> QED
    BY <1>8, <1>10, <2>1
<1>13. parent'.addr = [dinode'[P].addr EXCEPT ![k] = fresh] /\ parent'.mode = "dir"
  <2>1. get_inode(P).addr = dinode[P].addr /\ get_inode(P).mode = "dir"
    BY <1>5 DEF get_inode, InCore, Dirs
  <2>2. get_inode(P) \in inode
    BY <1>1, <1>5, GetInodeType
  <2>3. parent.addr = [dinode[P].addr EXCEPT ![k] = fresh] /\ parent.mode = "dir"
    BY <1>3, <1>4, <2>1, <2>2 DEF inode
  <2> QED
    BY <1>7, <1>8, <2>3
<1>14. Grown(L, target.num, target)'
  <2>1. target'.num \in ibits' /\ dinode'[target'.num].mode = target'.mode
    BY <1>3, <1>7, <1>8 DEF TargetStarted, TargetOnDisk
  <2>2. NameFree'
    BY <1>9 DEF CreatesIn
  <2>3. Near(parent'.nlink, LinksOf(parent.num)' + (IF target'.mode = "dir" THEN 1 ELSE 0), kills')
    BY <1>8, <1>12 DEF LinksOf
  <2>4. \A j \in Logical : target'.addr[j] # fresh
    BY <1>3, <1>8 DEF FreshBlock
  <2>5. /\ FirstHole(dinode'[parent'.num].addr, k)
        /\ parent'.addr = [dinode'[parent'.num].addr EXCEPT ![k] = fresh]
        /\ dirents'[fresh] = [ZeroBlock EXCEPT ![0] = [ino |-> target'.num, name |-> base']]
    BY <1>3, <1>4, <1>7, <1>8, <1>13
  <2>6. \E l \in Logical, b \in Spare(L)' :
          /\ FirstHole(dinode'[parent'.num].addr, l)
          /\ parent'.addr = [dinode'[parent'.num].addr EXCEPT ![l] = b]
          /\ dirents'[b] = [ZeroBlock EXCEPT ![0] = [ino |-> target'.num, name |-> base']]
          /\ \A j \in Logical : target'.addr[j] # b
    BY <1>5, <1>9, <2>4, <2>5
  <2> QED
    BY <1>8, <1>10, <1>11, <1>12, <1>13, <2>1, <2>2, <2>3, <2>6 DEF Grown
<1>15. ParentDone(L)' /\ TargetDone(L)'
  <2>1. target'.num \in Inodes \ L /\ target'.nlink # 0
    BY <1>3, <1>8 DEF TargetStarted, TargetOnDisk
  <2> QED
    BY <1>5, <1>8, <1>14, <2>1 DEF ParentDone, TargetDone
<1>16. LiveTool(L)'
  BY <1>2, <1>3, <1>8, <1>15, PutTool
<1> QED
  BY <1>9, <1>14, <1>16 DEF LiveInv

-----------------------------------------------------------------------------
(* rm, up to the entry.                                                    *)

\* A live inode has links, a mode and, in core, what the disk says of it.
LEMMA LiveInode ==
  ASSUME NEW L, Before(L), NEW n \in L
  PROVE  /\ dinode[n] \in disk_inode /\ dinode[n].nlink # 0 /\ dinode[n].mode \in {"reg", "dir"}
         /\ get_inode(n) \in inode /\ get_inode(n).num = n /\ get_inode(n).dirty = CLEAN
         /\ get_inode(n).nlink = dinode[n].nlink /\ get_inode(n).addr = dinode[n].addr
         /\ get_inode(n).mode = dinode[n].mode
<1>1. DiskTypeOK /\ UnlinkedIsBlank /\ n \in Inodes /\ dinode[n].mode # "none"
  BY BeforeParts DEF LiveDisk, InodesOf
<1>2. dinode[n] \in disk_inode
  BY <1>1 DEF DiskTypeOK
<1>3. dinode[n].nlink # 0
  BY <1>1 DEF UnlinkedIsBlank, BlankInode
<1>4. dinode[n].mode \in {"reg", "dir"}
  BY <1>1, <1>2 DEF disk_inode
<1> QED
  BY <1>1, <1>2, <1>3, <1>4, GetInodeType DEF get_inode, InCore

\* The inode rm finds is live, and an entry of the parent names it.
LEMMA TargetLive ==
  ASSUME NEW L, Before(L), NEW n \in Inodes, Target(n)
  PROVE  /\ parent.num \in L \cap Dirs /\ n \in L \ {ROOT_INODE} /\ tool = "rm"
         /\ \E q \in Kids(Table, parent.num) : Table[parent.num][q] = [ino |-> n, name |-> base]
<1>1. pc = "lookup" /\ tool = "rm" /\ search_dir(parent, base, n)
  BY DEF Target, parent
<1>2. /\ base \in Names /\ parent.num \in L /\ parent.num \in Inodes
      /\ parent.addr = dinode[parent.num].addr /\ (parent.mode = "dir" => parent.num \in Dirs)
      /\ DiskTypeOK /\ LiveDisk(L)
  BY <1>1, WalkingTool, BeforeParts
<1>3. /\ parent.mode = "dir"
      /\ \E q \in Positions : Table[parent.num][q] = [ino |-> n, name |-> base]
  BY <1>1, <1>2, SearchFound
<1>4. PICK q \in Positions : Table[parent.num][q] = [ino |-> n, name |-> base]
  BY <1>3
<1>5. q \in Kids(Table, parent.num) /\ Table[parent.num][q].ino = n
  <2>1. Table[parent.num][q].ino = n /\ Table[parent.num][q].name = base /\ n # 0
    BY <1>4 DEF Inodes
  <2>2. base \notin Dots
    BY <1>2, NamesAssumption DEF Dots
  <2> QED
    BY <2>1, <2>2 DEF Kids
<1>6. n \in L \ {ROOT_INODE}
  BY <1>2, <1>3, <1>5 DEF LiveDisk, TreeOf, KidsStay
<1> QED
  BY <1>1, <1>2, <1>3, <1>4, <1>5, <1>6

\* A directory in whose blocks rm finds nothing has no children.
LEMMA EmptyKids ==
  ASSUME DiskTypeOK, NEW n \in Inodes, Occupants(get_inode(n), Logical) = {}
  PROVE  Kids(Table, n) = {}
<1> SUFFICES ASSUME NEW q \in Kids(Table, n)
             PROVE  FALSE
  OBVIOUS
<1>1. q \in Positions /\ q[1] \in Logical /\ Table[n][q].ino # 0 /\ Table[n][q].name \notin Dots
  BY DEF Kids, Positions
<1>2. dinode[n].addr[q[1]] # 0 /\ Table[n][q] = EntryAt(get_inode(n), q)
  <2>1. NoEntry.ino = 0
    BY DEF NoEntry
  <2> QED
    BY <1>1, <2>1, EntryTypesInTable
<1>3. get_inode(n).addr = dinode[n].addr
  BY DEF get_inode, InCore
<1>4. q \in Occupants(get_inode(n), Logical)
  BY <1>1, <1>2, <1>3 DEF Occupants, Mapped
<1> QED
  BY <1>4

\* rm decides what to do with its target: nothing is written yet.
LEMMA LiveRmLookup ==
  ASSUME MaxKills <= 1, NEW L, Before(L),
         RmLookupFails \/ RmFile \/ RmEmptyDir \/ RmNotEmpty
  PROVE  LiveInv(L)'
<1>1. /\ LiveDisk(L) /\ L \subseteq Inodes /\ DiskTypeOK /\ LiveLinks(L) /\ Inv
      /\ UnlinkedIsBlank /\ core \in [Inodes2 -> inode] /\ kills \in 0 .. MaxKills
  BY BeforeParts DEF ProcTypeOK
<1>2. CASE RmLookupFails
  BY <1>2, WalkingTool, FailsUntouched DEF RmLookupFails
<1>3. ASSUME NEW n \in Inodes, Target(n), UNCHANGED <<diskVars, faults>>
      PROVE  /\ ParentRead(L) /\ target = NULL /\ who = "target" /\ base \in Names /\ pc = "lookup"
             /\ parent = get_inode(parent.num)
             /\ parent.num \in L \cap Dirs /\ n \in L \ {ROOT_INODE} /\ tool = "rm"
             /\ \E q \in Kids(Table, parent.num) : Table[parent.num][q] = [ino |-> n, name |-> base]
             /\ Unharmed(L) /\ kills' = kills /\ dinode' = dinode /\ dirents' = dirents
             /\ Table' = Table /\ Dirs' = Dirs
  <2>1. pc = "lookup"
    BY <1>3 DEF Target
  <2>2. Unharmed(L) /\ kills' = kills /\ dinode' = dinode /\ dirents' = dirents
    BY <1>1, <1>3, UnharmedWrites DEF Allocating, faults, diskVars
  <2>3. Table' = Table /\ Dirs' = Dirs
    BY <2>2 DEF Table, Dirs
  <2> QED
    BY <1>3, <2>1, <2>2, <2>3, WalkingTool, TargetLive
<1>4. ASSUME NEW n \in L, target' = [get_inode(n) EXCEPT !.nlink = target'.nlink],
             parent' = [get_inode(parent.num) EXCEPT !.nlink = parent'.nlink],
             Target(n), UNCHANGED <<diskVars, faults>>,
             parent'.nlink # 0,
             IF n \in Dirs
             THEN target'.nlink = 0 /\ Kids(Table, n) = {}
                  /\ Near(parent'.nlink, LinksOf(parent.num) - 1, kills)
             ELSE Near(parent'.nlink, LinksOf(parent.num), kills),
             pc' = "detach", UNCHANGED <<args, who>>
      PROVE  LiveInv(L)'
  <2>1. /\ ParentRead(L) /\ who = "target" /\ base \in Names
        /\ parent.num \in L \cap Dirs /\ n \in L \ {ROOT_INODE} /\ tool = "rm"
        /\ \E q \in Kids(Table, parent.num) : Table[parent.num][q] = [ino |-> n, name |-> base]
        /\ Unharmed(L) /\ kills' = kills /\ dinode' = dinode /\ Table' = Table /\ Dirs' = Dirs
    BY <1>1, <1>3, <1>4
  <2>2. target'.num = n /\ target'.addr = dinode[n].addr /\ parent'.num = parent.num
    BY <1>4, <2>1, LiveInode DEF inode
  <2>3. LiveDisk(L)' /\ LiveLinks(L)'
    BY <1>1, <2>1, <2>2, UnharmedDisk, LinksKept
  <2>4. LinksOf(parent.num)' = LinksOf(parent.num)
    BY <2>1, <2>2 DEF LinksOf
  <2>5. Near(dinode[parent.num].nlink, LinksOf(parent.num), kills)
    BY <2>1 DEF ParentRead, get_inode, InCore
  <2>6. get_inode(parent.num)' = get_inode(parent.num)
    BY <2>1, <2>2 DEF get_inode
  <2>7. base' = base /\ tool' = tool /\ who' = who
    BY <1>4 DEF args
  <2>8. Detaching(L)'
    <3>1. tool' = "rm" /\ parent'.num \in L \cap Dirs' /\ target'.num \in L \ {ROOT_INODE}
      BY <2>1, <2>2, <2>7
    <3>2. \E q \in Kids(Table', parent'.num) :
            Table'[parent'.num][q] = [ino |-> target'.num, name |-> base']
      BY <2>1, <2>2, <2>7
    <3>3. parent' = [get_inode(parent.num)' EXCEPT !.nlink = parent'.nlink]
      BY <1>4, <2>6
    <3>4. target'.addr = dinode'[target'.num].addr
      BY <2>1, <2>2
    <3>5. Near(dinode'[parent'.num].nlink, LinksOf(parent.num)', kills')
      BY <2>1, <2>2, <2>4, <2>5
    <3>6. IF target'.num \in Dirs'
          THEN target'.nlink = 0 /\ Kids(Table', target'.num) = {}
               /\ Near(parent'.nlink, LinksOf(parent.num)' - 1, kills')
          ELSE Near(parent'.nlink, LinksOf(parent.num)', kills')
      BY <1>4, <2>1, <2>2, <2>4
    <3> QED
      BY <1>4, <3>1, <3>2, <3>3, <3>4, <3>5, <3>6 DEF Detaching
  <2>9. LiveTool(L)'
    BY <1>4, <2>1, <2>7, <2>8
       DEF LiveTool, Reading, Creating, Started, Filling, Adding, Holding, Putting
  <2> QED
    BY <2>3, <2>9 DEF LiveInv
<1>5. CASE RmFile
  <2>1. PICK n \in Inodes :
          /\ Target(n) /\ dinode[n].mode # "dir"
          /\ core' = [core EXCEPT !["target"] =
               [get_inode(n) EXCEPT !.nlink = IF dinode[n].mode = "reg" THEN Unlinked(@) ELSE @]]
    BY <1>5 DEF RmFile
  <2>2. pc' = "detach" /\ UNCHANGED <<diskVars, args, who, fresh, k, status, faults>>
    BY <1>5 DEF RmFile
  <2>3. /\ ParentRead(L) /\ parent = get_inode(parent.num) /\ n \in L
        /\ parent.num \in L \cap Dirs
    BY <1>3, <2>1, <2>2
  <2>4. /\ target' = [get_inode(n) EXCEPT !.nlink = IF dinode[n].mode = "reg" THEN Unlinked(@) ELSE @]
        /\ parent' = parent
    BY <1>1, <2>1 DEF target, parent, Inodes2
  <2>5. target' = [get_inode(n) EXCEPT !.nlink = target'.nlink]
    BY <2>3, <2>4, LiveInode DEF inode
  <2>6. parent' = [get_inode(parent.num) EXCEPT !.nlink = parent'.nlink] /\ parent'.nlink # 0
    BY <2>3, <2>4, LiveInode DEF inode
  <2>7. n \notin Dirs /\ Near(parent'.nlink, LinksOf(parent.num), kills)
    BY <2>1, <2>3, <2>4 DEF Dirs, ParentRead
  <2> QED
    BY <1>4, <2>1, <2>2, <2>3, <2>5, <2>6, <2>7
<1>6. CASE RmEmptyDir
  <2>1. PICK n \in Inodes :
          /\ Target(n) /\ dinode[n].mode = "dir" /\ Occupants(get_inode(n), Logical) = {}
          /\ core' = [core EXCEPT !["target"] = [get_inode(n) EXCEPT !.nlink = 0],
                                  !["parent"].nlink = Unlinked(@)]
    BY <1>6 DEF RmEmptyDir, RmDirectory
  <2>2. pc' = "detach" /\ UNCHANGED <<diskVars, args, who, fresh, k, status, faults>>
    BY <1>6 DEF RmEmptyDir, RmDirectory
  <2>3. /\ ParentRead(L) /\ parent = get_inode(parent.num) /\ n \in L
        /\ parent.num \in L \cap Dirs
        /\ \E q \in Kids(Table, parent.num) : Table[parent.num][q] = [ino |-> n, name |-> base]
    BY <1>3, <2>1, <2>2
  <2>4. /\ target' = [get_inode(n) EXCEPT !.nlink = 0]
        /\ parent' = [parent EXCEPT !.nlink = Unlinked(@)]
    BY <1>1, <2>1 DEF target, parent, Inodes2
  <2>5. target' = [get_inode(n) EXCEPT !.nlink = target'.nlink] /\ target'.nlink = 0
    BY <2>3, <2>4, LiveInode DEF inode
  <2>6. /\ parent' = [get_inode(parent.num) EXCEPT !.nlink = parent'.nlink]
        /\ parent'.nlink = Unlinked(parent.nlink) /\ parent.nlink \in NLinks
    BY <2>3, <2>4, LiveInode DEF inode
  <2>7. n \in Dirs /\ Kids(Table, n) = {}
    BY <1>1, <2>1, EmptyKids DEF Dirs
  <2>8. LinksOf(parent.num) > 0
    <3>1. PICK q \in Kids(Table, parent.num) : Table[parent.num][q] = [ino |-> n, name |-> base]
      BY <2>3
    <3>2. q \in SubdirsIn(Table, Dirs, parent.num)
      BY <2>7, <3>1 DEF SubdirsIn
    <3> QED
      BY <3>2, SubdirsCount DEF LinksOf
  <2>9. parent'.nlink # 0 /\ Near(parent'.nlink, LinksOf(parent.num) - 1, kills)
    <3>1. LinksOf(parent.num) \in Nat /\ LinksOf(parent.num) <= NDIRECT * DirentsPerBlock
      BY SubdirsFinite DEF LinksOf
    <3>2. Near(parent.nlink, LinksOf(parent.num), kills)
      BY <2>3 DEF ParentRead
    <3>3. /\ Unlinked(parent.nlink) = parent.nlink - 1 /\ Unlinked(parent.nlink) # 0
          /\ Near(parent.nlink - 1, LinksOf(parent.num) - 1, kills)
      BY <1>1, <2>6, <2>8, <3>1, <3>2, LinkStep
    <3> QED
      BY <2>6, <3>3
  <2> QED
    BY <1>4, <2>1, <2>2, <2>3, <2>5, <2>6, <2>7, <2>9
<1>7. CASE RmNotEmpty
  <2>1. PICK n \in Inodes : Target(n) /\ error_handler([core EXCEPT !["target"] = get_inode(n)])
    BY <1>7 DEF RmNotEmpty
  <2>2. UNCHANGED <<diskVars, faults>>
    BY <1>7 DEF RmNotEmpty
  <2>3. /\ ParentRead(L) /\ tool = "rm" /\ base \in Names /\ n \in L
        /\ Unharmed(L) /\ kills' = kills
    BY <1>3, <2>1, <2>2
  <2>4. core' = [core EXCEPT !["target"] = get_inode(n)] /\ pc' = "put" /\ who' = "target"
        /\ base' = base
    BY <2>1, <2>3 DEF error_handler, args, Creators
  <2>5. target' = get_inode(n) /\ parent' = parent
    BY <1>1, <2>4 DEF target, parent, Inodes2
  <2>6. LiveDisk(L)' /\ LiveLinks(L)'
    BY <1>1, <2>3, <2>5, UnharmedDisk, LinksKept
  <2>7. Settled(L)' /\ parent'.num \in L
    BY <1>1, <2>3, <2>5, ReadSettled, SettledKept
  <2>8. target'.dirty = CLEAN /\ target'.nlink # 0
    BY <2>3, <2>5, LiveInode
  <2>9. ParentDone(L)' /\ TargetDone(L)'
    BY <2>7, <2>8 DEF ParentDone, TargetDone
  <2>10. LiveTool(L)'
    BY <2>3, <2>4, <2>9, PutTool
  <2> QED
    BY <2>6, <2>10 DEF LiveInv
<1> QED
  BY <1>2, <1>5, <1>6, <1>7

\* The tree and the link counts when an entry is cleared.
LEMMA TreeShrinks ==
  ASSUME NEW L, LiveDisk(L), NEW n, NEW P, NEW p,
         Removes(L, Table, Dirs, Table', Dirs', n, P, p)
  PROVE  /\ TreeOf(L \ {n}, Table', Dirs') /\ P # n
         /\ LinksOf(P)' = IF n \in Dirs THEN LinksOf(P) - 1 ELSE LinksOf(P)
         /\ \A d \in L \cap Dirs : d # P => SubdirsIn(Table', Dirs', d) = SubdirsIn(Table, Dirs, d)
<1>1. TreeOf(L, Table, Dirs)
  BY DEF LiveDisk
<1>2. /\ TreeOf(L \ {n}, Table', Dirs') /\ P # n
      /\ SubdirsIn(Table', Dirs', P) = SubdirsIn(Table, Dirs, P) \ {p}
      /\ p \in SubdirsIn(Table, Dirs, P) <=> n \in Dirs
      /\ \A d \in L \cap Dirs : d # P => SubdirsIn(Table', Dirs', d) = SubdirsIn(Table, Dirs, d)
  <2>1. Removed(L, Table, Dirs, Table', Dirs', n, P, p)
    BY <1>1, TreeRemove
  <2> QED
    BY <2>1 DEF Removed
<1>3. CASE n \in Dirs
  BY <1>2, <1>3, SubdirsCount DEF LinksOf
<1>4. CASE n \notin Dirs
  <2>1. SubdirsIn(Table', Dirs', P) = SubdirsIn(Table, Dirs, P)
    BY <1>2, <1>4
  <2> QED
    BY <1>2, <1>4, <2>1 DEF LinksOf
<1> QED
  BY <1>3, <1>4

\* detach_entry takes the target out of the tree.
LEMMA LiveDetach ==
  ASSUME NEW L, Before(L), detach_entry
  PROVE  \E n \in Inodes, P \in Inodes, p \in Positions :
           /\ n = target.num /\ P = parent.num /\ LiveInv(L \ {n})'
           /\ Removes(L, Table, Dirs, Table', Dirs', n, P, p)
<1>1. /\ LiveDisk(L) /\ L \subseteq Inodes /\ DiskTypeOK /\ LiveLinks(L) /\ Inv /\ LiveTool(L)
      /\ core \in [Inodes2 -> inode] /\ ROOT_INODE \in L /\ kills \in 0 .. MaxKills /\ 0 \notin L
  BY BeforeParts DEF LiveDisk, InodesOf, ProcTypeOK
<1>2. /\ pc = "detach" /\ pc' = "put" /\ UNCHANGED <<args, who, fresh, k, status, faults>>
      /\ core' = [core EXCEPT !["target"].dirty = DIRTY, !["parent"].dirty = DIRTY]
  BY DEF detach_entry
<1>3. Detaching(L) /\ who = "target" /\ base \in Names
  BY <1>1, <1>2 DEF LiveTool, Putting
<1>4. PICK i \in Inodes, p \in Mapped(parent) :
        /\ IsFirst(p, Detachable(parent, base, i))
        /\ WriteDirent(parent.addr[p[1]], p[2], NoEntry)
  BY DEF detach_entry, parent
<1>5. PICK n : n = target.num
  OBVIOUS
<1>6. PICK P : P = parent.num
  OBVIOUS
<1>7. /\ P \in L \cap Dirs /\ P \in Inodes /\ n \in L \ {ROOT_INODE}
      /\ parent = [get_inode(P) EXCEPT !.nlink = parent.nlink]
      /\ parent.nlink # 0 /\ target.addr = dinode[n].addr
      /\ Near(dinode[P].nlink, LinksOf(P), kills)
      /\ n \in Dirs => target.nlink = 0 /\ Kids(Table, n) = {}
                       /\ Near(parent.nlink, LinksOf(P) - 1, kills)
      /\ n \notin Dirs => Near(parent.nlink, LinksOf(P), kills)
  BY <1>1, <1>3, <1>5, <1>6 DEF Detaching
<1>8. parent.addr = dinode[P].addr /\ parent.mode = dinode[P].mode
  BY <1>7, LiveInode DEF inode
<1>9. p \in Kids(Table, P) /\ dinode[P].addr[p[1]] # 0 /\ Table[P][p].ino = n
  <2>1. p \in Positions /\ dinode[P].addr[p[1]] # 0 /\ EntryAt(parent, p) = [ino |-> i, name |-> base]
    BY <1>4, <1>8 DEF IsFirst, Detachable, Mapped
  <2>2. Table[P][p] = [ino |-> i, name |-> base]
    BY <1>1, <1>7, <1>8, <2>1, EntryTypesInTable DEF EntryAt
  <2>3. PICK q \in Kids(Table, P) : Table[P][q] = [ino |-> n, name |-> base]
    BY <1>3, <1>5, <1>6 DEF Detaching
  <2>4. i # 0 /\ q \in Positions /\ Table[P][q].ino # 0
    BY DEF Kids, Inodes
  <2>5. Table[P][p].ino # 0 /\ Table[P][p].name = Table[P][q].name
    BY <2>2, <2>3, <2>4
  <2>6. NamesOnce(L, Table, Dirs)
    BY <1>1 DEF LiveDisk, TreeOf
  <2>7. p = q
    BY <1>7, <2>1, <2>4, <2>5, <2>6 DEF NamesOnce
  <2> QED
    BY <2>1, <2>3, <2>7
<1>10. /\ \A m \in L, q \in Positions : m # P \/ q # p => Table'[m][q] = Table[m][q]
       /\ Table'[P][p] = NoEntry
       /\ dinode' = dinode /\ ibits' = ibits /\ bbits' = bbits
  <2>1. WriteDirent(dinode[P].addr[p[1]], p[2], NoEntry) /\ p \in Positions
    BY <1>4, <1>8, <1>9 DEF Kids
  <2> QED
    BY <1>1, <1>7, <1>9, <2>1, SlotWrite
<1>11. Dirs' = Dirs
  BY <1>10 DEF Dirs
<1>12. Removes(L, Table, Dirs, Table', Dirs', n, P, p)
  <2>1. Table'[P][p].ino = 0
    <3>1. NoEntry.ino = 0
      BY DEF NoEntry
    <3> QED
      BY <1>10, <3>1
  <2>2. \A m \in L \cap Dirs : \A q \in Positions : m # P \/ q # p => Table'[m][q] = Table[m][q]
    BY <1>10
  <2> QED
    BY <1>1, <1>7, <1>9, <1>11, <2>1, <2>2 DEF Removes
<1>13. /\ TreeOf(L \ {n}, Table', Dirs') /\ P # n
       /\ LinksOf(P)' = IF n \in Dirs THEN LinksOf(P) - 1 ELSE LinksOf(P)
       /\ \A d \in L \cap Dirs : d # P => LinksOf(d)' = LinksOf(d)
  <2>1. LiveDisk(L)
    BY <1>1
  <2>2. TreeOf(L \ {n}, Table', Dirs') /\ P # n
    BY <1>12, <2>1, TreeShrinks
  <2>3. LinksOf(P)' = IF n \in Dirs THEN LinksOf(P) - 1 ELSE LinksOf(P)
    BY <1>12, <2>1, TreeShrinks
  <2>4. \A d \in L \cap Dirs : d # P => SubdirsIn(Table', Dirs', d) = SubdirsIn(Table, Dirs, d)
    BY <1>12, <2>1, TreeShrinks
  <2> QED
    BY <2>2, <2>3, <2>4 DEF LinksOf
<1> DEFINE K == L \ {n}
<1>14. Taken(K)' \subseteq Taken(L)
  BY <1>10 DEF Taken
<1>15. LiveDisk(K)'
  <2>1. InodesOf(K)'
    BY <1>1, <1>7, <1>10, <1>11 DEF LiveDisk, InodesOf
  <2>2. BlocksOf(K)'
    <3>1. \A b \in Taken(K)' \ {0} : ~badblock(b) /\ b \in bbits'
      BY <1>1, <1>10, <1>14 DEF LiveDisk, BlocksOf
    <3>2. \A i1, m \in K : \A l, j \in Logical :
            dinode[i1].addr[l] # 0 /\ dinode[i1].addr[l] = dinode[m].addr[j] => i1 = m /\ l = j
      BY <1>1 DEF LiveDisk, BlocksOf
    <3> HIDE DEF K
    <3> QED
      BY <1>10, <3>1, <3>2 DEF BlocksOf
  <2> QED
    BY <1>13, <2>1, <2>2 DEF LiveDisk
<1>16. /\ parent' = [parent EXCEPT !.dirty = DIRTY] /\ target' = [target EXCEPT !.dirty = DIRTY]
       /\ kills' = kills /\ base' = base /\ who' = "target"
  BY <1>1, <1>2, <1>3 DEF faults, args, parent, target, Inodes2
<1>17. /\ parent'.num = P /\ parent'.addr = parent.addr /\ parent'.mode = parent.mode
       /\ parent'.dirty = DIRTY /\ parent'.nlink = parent.nlink
       /\ target'.num = n /\ target'.addr = target.addr /\ target'.nlink = target.nlink
       /\ target'.dirty = DIRTY
  <2>1. parent \in inode /\ target \in inode
    BY <1>1 DEF parent, target, Inodes2
  <2> QED
    BY <1>5, <1>6, <1>16, <2>1 DEF inode
<1>18. LiveLinks(K)'
  <2> SUFFICES ASSUME NEW d \in K, d \in Dirs
               PROVE  Near(dinode[d].nlink, LinksOf(d)', IF d = P THEN kills + 1 ELSE kills)
    BY <1>10, <1>11, <1>16, <1>17 DEF LiveLinks
  <2>1. CASE d = P
    <3>1. dinode[P].nlink \in Int /\ LinksOf(P) \in Int /\ kills \in Nat
      BY <1>1, <1>7, LinkTypes, FaultAssumption
    <3> QED
      BY <1>7, <1>13, <2>1, <3>1 DEF Near
  <2>2. CASE d # P
    BY <1>1, <1>6, <1>13, <2>2 DEF LiveLinks
  <2> QED
    BY <2>1, <2>2
<1>19. Settled(K)'
  <2>1. Near(parent.nlink, LinksOf(P)', kills)
    BY <1>7, <1>13
  <2>2. LinksOf(parent.num)' = LinksOf(P)'
    BY <1>17 DEF LinksOf
  <2>3. parent'.dirty # CLEAN
    BY <1>17 DEF DIRTY, CLEAN
  <2> QED
    BY <1>7, <1>8, <1>10, <1>16, <1>17, <2>1, <2>2, <2>3 DEF Settled
<1>20. TargetDone(K)'
  <2>1. CASE target.nlink = 0
    <3>1. \A l \in Logical : dinode[n].addr[l] # 0 => dinode[n].addr[l] \in Taken(L)
      BY <1>7 DEF Taken
    <3>2. \A l \in Logical : dinode[n].addr[l] # 0 => dinode[n].addr[l] \notin Taken(K)'
      BY <1>1, <1>7, <1>10 DEF LiveDisk, BlocksOf, Taken
    <3>3. \A l \in Logical : dinode[n].addr[l] # 0 =>
            /\ dinode[n].addr[l] \in bbits /\ ~badblock(dinode[n].addr[l])
      BY <1>1, <3>1 DEF LiveDisk, BlocksOf
    <3>4. \A l \in Logical : dinode[n].addr[l] # 0 => dinode[n].addr[l] \in Spare(K)'
      BY <1>10, <3>2, <3>3 DEF Spare
    <3>5. \A l, j \in Logical : dinode[n].addr[l] # 0 /\ dinode[n].addr[l] = dinode[n].addr[j]
                                  => l = j
      BY <1>1, <1>7 DEF LiveDisk, BlocksOf
    <3>6. Private(Spare(K)', target')
      <4>1. target'.addr = dinode[n].addr
        BY <1>7, <1>17
      <4> HIDE DEF K
      <4> QED
        BY <3>4, <3>5, <4>1 DEF Private
    <3>7. ToRelease(K)'
      BY <1>17, <1>19, <2>1, <3>6 DEF ToRelease
    <3> QED
      BY <3>7 DEF TargetDone
  <2>2. CASE target.nlink # 0
    BY <1>17, <2>2 DEF TargetDone
  <2> QED
    BY <2>1, <2>2
<1>21. ParentDone(K)'
  BY <1>7, <1>13, <1>17, <1>19 DEF ParentDone
<1>22. LiveTool(K)'
  BY <1>2, <1>3, <1>16, <1>20, <1>21, PutTool
<1>23. LiveInv(K)'
  BY <1>15, <1>18, <1>22 DEF LiveInv
<1>24. n \in Inodes /\ p \in Positions
  BY <1>1, <1>7, <1>9 DEF Kids
<1> QED
  BY <1>5, <1>6, <1>7, <1>12, <1>23, <1>24

-----------------------------------------------------------------------------
(* put_inode.                                                              *)

\* What is known of both in-core inodes while they are put.
LEMMA PuttingTool ==
  ASSUME NEW L, Before(L), pc \in Putting
  PROVE  /\ ParentDone(L) /\ base \in Names /\ parent.num \in L \ {0} /\ parent.num \in Inodes
         /\ parent.nlink # 0 /\ parent \in inode /\ target \in inode
         /\ (who = "target" => TargetDone(L)) /\ (who = "parent" => pc = "put" /\ target = NULL)
         /\ who \in {"target", "parent"}
         /\ held = (IF who = "target" THEN target ELSE parent)
<1>1. ParentDone(L) /\ base \in Names
  BY BeforeParts DEF LiveTool, Putting
<1>2. parent.num \in L \ {0} /\ parent.num \in Inodes /\ parent.nlink # 0
  BY <1>1, BeforeParts DEF ParentDone, Settled, Grown
<1>3. parent \in inode /\ target \in inode /\ who \in {"target", "parent"}
  BY BeforeParts DEF parent, target, Inodes2, ProcTypeOK
<1>4. (who = "target" => TargetDone(L)) /\ (who = "parent" => pc = "put" /\ target = NULL)
  BY BeforeParts DEF LiveTool
<1>5. held = IF who = "target" THEN target ELSE parent
  BY <1>3 DEF held, target, parent
<1> QED
  BY <1>1, <1>2, <1>3, <1>4, <1>5

\* put_inode releases nothing but the target.
LEMMA ReleasesTarget ==
  ASSUME NEW L, Before(L), pc \in Putting, held.num # 0, held.nlink = 0
  PROVE  who = "target" /\ held = target /\ ToRelease(L)
<1>1. who = "target" /\ held = target /\ TargetDone(L)
  BY PuttingTool
<1> QED
  BY <1>1 DEF TargetDone, ToFill, Newborn

\* A target that put_inode releases stays out of the live disk.
LEMMA ReleaseKept ==
  ASSUME NEW L, Before(L), pc \in Putting, ToRelease(L), Unharmed(L), bbits' = bbits,
         parent' = parent, target' = target, kills' = kills
  PROVE  ToRelease(L)'
<1>1. LiveDisk(L) /\ L \subseteq Inodes /\ parent.num \in L
  BY BeforeParts, PuttingTool
<1>2. Settled(L)'
  BY <1>1, SettledKept DEF ToRelease
<1>3. Spare(L)' = Spare(L)
  BY <1>1, UnharmedView DEF Spare
<1>4. Private(Spare(L)', target')
  BY <1>3 DEF ToRelease
<1> QED
  BY <1>2, <1>4 DEF ToRelease

\* The target is put, the tool goes on with the parent.
LEMMA PutNext ==
  ASSUME NEW L, Before(L), pc \in Putting, who = "target", PutDone, UNCHANGED faults,
         Unharmed(L), parent' = parent => ParentDone(L)'
  PROVE  LiveInv(L)'
<1>1. /\ LiveDisk(L) /\ L \subseteq Inodes /\ LiveLinks(L) /\ Inv /\ core \in [Inodes2 -> inode]
  BY BeforeParts
<1>2. /\ pc' = "put" /\ who' = "parent" /\ core' = [core EXCEPT !["target"] = NULL]
      /\ base' = base /\ kills' = kills
  BY DEF PutDone, args, faults
<1>3. parent' = parent /\ target' = NULL
  BY <1>1, <1>2 DEF parent, target, Inodes2
<1>4. LiveDisk(L)' /\ LiveLinks(L)'
  BY <1>1, <1>2, <1>3, UnharmedDisk, LinksKept
<1>5. LiveTool(L)'
  BY <1>2, <1>3, PuttingTool, PutTool
<1> QED
  BY <1>4, <1>5 DEF LiveInv

\* put_inode of an inode that was only read.
LEMMA LivePutClean ==
  ASSUME NEW L, Before(L), PutClean
  PROVE  LiveInv(L)'
<1>1. /\ LiveDisk(L) /\ L \subseteq Inodes /\ LiveLinks(L) /\ Inv /\ DiskTypeOK
  BY BeforeParts
<1>2. pc \in Putting /\ PutDone /\ UNCHANGED faults /\ UNCHANGED diskVars
  BY DEF PutClean, Putting
<1>3. held.num = 0 \/ held.dirty = CLEAN
  BY DEF PutClean
<1>4. Unharmed(L) /\ kills' = kills
  BY <1>1, <1>2, UnharmedWrites DEF Allocating, faults
<1>5. CASE who = "target"
  <2>1. target.num = 0 \/ target.dirty = CLEAN
    BY <1>2, <1>3, <1>5, PuttingTool
  <2>2. Settled(L) /\ parent.num \in L
    BY <1>2, <1>5, <2>1, PuttingTool DEF ParentDone, CLEAN, DIRTY, Inodes
  <2>3. parent' = parent => ParentDone(L)'
    BY <1>1, <1>4, <2>2, SettledKept DEF ParentDone
  <2> QED
    BY <1>2, <1>4, <1>5, <2>3, PutNext
<1>6. CASE who = "parent"
  <2>1. parent.dirty = CLEAN /\ parent.num \in L
    BY <1>2, <1>3, <1>6, PuttingTool
  <2>2. Settled(L)
    BY <1>2, <1>6, <2>1, PuttingTool DEF ParentDone, Grown, CLEAN, DIRTY
  <2>3. Exit
    BY <1>2, <1>6 DEF PutDone
  <2>4. parent.num \in Dirs => Near(dinode[parent.num].nlink, LinksOf(parent.num), kills)
    BY <2>1, <2>2 DEF Settled
  <2>5. LiveDisk(L)' /\ LiveLinks(L)'
    BY <1>1, <1>4, <2>4, UnharmedDisk, LinksKept
  <2> QED
    BY <2>3, <2>5, ExitTool DEF LiveInv
<1> QED
  BY <1>2, <1>5, <1>6, PuttingTool

\* put_inode releases the target only, and nothing that is live.
LEMMA ReleasingTool ==
  ASSUME NEW L, Before(L), free_block \/ ZeroFreed \/ BlankOut \/ free_inode
  PROVE  /\ pc \in Putting /\ UNCHANGED faults
         /\ who = "target" /\ held = target /\ ToRelease(L) /\ target.num # 0
         /\ target.nlink = 0 /\ target.num \notin L /\ Private(Spare(L), target) /\ Settled(L)
         /\ parent.num \in L /\ base \in Names
<1>1. LiveTool(L)
  BY BeforeParts
<1>2. /\ pc \in Putting /\ UNCHANGED faults
      /\ pc = "put" => held.num # 0 /\ held.nlink = 0
  BY DEF free_block, Unmaps, Releasing, ZeroFreed, BlankOut, free_inode, Putting, faults
<1>3. /\ who = "target" /\ held = target /\ ToRelease(L) /\ target.num # 0 /\ target.nlink = 0
  <2>1. CASE pc = "put"
    BY <1>2, <2>1, ReleasesTarget
  <2>2. CASE pc \in {"pzero", "ifree"}
    <3>1. target.nlink = 0 /\ target.num # 0
      BY <1>1, <2>2 DEF LiveTool
    <3>2. who = "target" /\ held = target
      BY <1>2, <2>2, PuttingTool
    <3> QED
      BY <1>2, <3>1, <3>2, ReleasesTarget
  <2> QED
    BY <1>2, <2>1, <2>2 DEF Putting
<1> QED
  BY <1>2, <1>3, PuttingTool DEF ToRelease

\* truncate_inode and the rest of a release keep away from the live inodes.
LEMMA LiveRelease ==
  ASSUME NEW L, Before(L), free_block \/ ZeroFreed \/ BlankOut \/ free_inode
  PROVE  LiveInv(L)'
<1>1. /\ LiveDisk(L) /\ L \subseteq Inodes /\ LiveLinks(L) /\ Inv /\ DiskTypeOK /\ LiveTool(L)
      /\ core \in [Inodes2 -> inode]
  BY BeforeParts
<1>2. pc \in Putting /\ kills' = kills /\ UNCHANGED faults
  BY ReleasingTool DEF faults
<1>3. /\ who = "target" /\ held = target /\ ToRelease(L) /\ target.num # 0 /\ target.nlink = 0
  BY ReleasingTool
<1>4. /\ target.num \notin L /\ Private(Spare(L), target) /\ Settled(L)
      /\ parent.num \in L /\ base \in Names
  BY ReleasingTool
<1>5. ASSUME ToRelease(L)', Unharmed(L), parent' = parent, target'.num = target.num,
             pc' \in Putting, pc' = "pzero" => fresh' \notin Taken(L), UNCHANGED <<args, who>>
      PROVE  LiveInv(L)'
  <2>1. LiveDisk(L)' /\ LiveLinks(L)' /\ Taken(L)' = Taken(L)
    BY <1>1, <1>2, <1>5, UnharmedDisk, UnharmedView, LinksKept
  <2>2. ParentDone(L)' /\ TargetDone(L)' /\ target'.nlink = 0
    BY <1>4, <1>5 DEF ParentDone, TargetDone, ToRelease
  <2>3. LiveTool(L)'
    BY <1>3, <1>4, <1>5, <2>1, <2>2
       DEF LiveTool, Reading, Creating, Started, Filling, Adding, Holding, Putting, args
  <2> QED
    BY <2>1, <2>3 DEF LiveInv
<1>6. CASE free_block
  <2>1. PICK l \in Logical :
          /\ Unmaps(l)
          /\ IF badblock(held.addr[l])
             THEN pc' = "put" /\ fresh' = 0 /\ UNCHANGED diskVars
             ELSE pc' = "pzero" /\ fresh' = held.addr[l] /\ ClearBlockBit(held.addr[l])
    BY <1>6 DEF free_block
  <2>2. target.addr[l] # 0 /\ UNCHANGED <<args, who, k, status>>
        /\ core' = [core EXCEPT !["target"] = [@ EXCEPT !.addr[l] = 0]]
    BY <1>3, <2>1 DEF Unmaps, Lowest, Holes
  <2>3. PICK b : b = target.addr[l]
    OBVIOUS
  <2>4. b \in Spare(L) /\ b \notin Taken(L) /\ ~badblock(b)
    BY <1>4, <2>2, <2>3 DEF Private, Spare
  <2>5. pc' = "pzero" /\ fresh' = b /\ ClearBlockBit(b)
    BY <1>3, <2>1, <2>3, <2>4
  <2>6. parent' = parent /\ target' = [target EXCEPT !.addr[l] = 0]
    BY <1>1, <2>2 DEF parent, target, Inodes2
  <2>7. target \in inode
    BY <1>2, PuttingTool
  <2>8. /\ target'.num = target.num /\ target'.nlink = 0
        /\ \A j \in Logical : target'.addr[j] = IF j = l THEN 0 ELSE target.addr[j]
    BY <1>3, <2>6, <2>7 DEF inode
  <2>9. Unharmed(L)
    BY <1>1, <2>4, <2>5, UnharmedFrees
  <2>10. Spare(L)' = Spare(L) \ {b}
    <3>1. Taken(L)' = Taken(L)
      BY <1>1, <2>9, UnharmedView
    <3> QED
      BY <2>5, <3>1 DEF Spare, ClearBlockBit
  <2>11. Private(Spare(L)', target')
    BY <1>4, <2>3, <2>8, <2>10 DEF Private
  <2>12. Settled(L)'
    BY <1>1, <1>2, <1>4, <2>6, <2>9, SettledKept
  <2>13. ToRelease(L)'
    BY <1>4, <2>8, <2>11, <2>12 DEF ToRelease
  <2> QED
    BY <1>5, <2>2, <2>4, <2>5, <2>6, <2>8, <2>9, <2>13 DEF Putting
<1>7. CASE ZeroFreed
  <2>1. /\ pc = "pzero" /\ pc' = "put" /\ zero_block(fresh)
        /\ UNCHANGED <<args, core, who, k, status, faults>>
    BY <1>7 DEF ZeroFreed
  <2>2. fresh \notin Taken(L)
    BY <1>1, <2>1 DEF LiveTool
  <2>3. Unharmed(L) /\ bbits' = bbits /\ parent' = parent /\ target' = target
    BY <1>1, <2>1, <2>2, UnharmedWrites DEF Allocating, zero_block, parent, target
  <2> QED
    BY <1>2, <1>3, <1>5, <2>1, <2>3, ReleaseKept DEF Putting
<1>8. CASE BlankOut
  <2>1. /\ pc' = "ifree" /\ write_disk_inode(target.num, Released)
        /\ UNCHANGED <<args, core, who, fresh, k, status, faults>>
    BY <1>3, <1>8 DEF BlankOut
  <2>2. Unharmed(L) /\ bbits' = bbits /\ parent' = parent /\ target' = target
    BY <1>1, <1>4, <2>1, UnharmedWrites DEF Allocating, write_disk_inode, parent, target
  <2> QED
    BY <1>2, <1>3, <1>5, <2>1, <2>2, ReleaseKept DEF Putting
<1>9. CASE free_inode
  <2>1. ClearInodeBit(target.num) /\ PutDone
    BY <1>3, <1>9 DEF free_inode
  <2>2. Unharmed(L)
    BY <1>1, <1>4, <2>1, UnharmedFrees
  <2>3. parent' = parent => ParentDone(L)'
    BY <1>1, <1>2, <1>4, <2>2, SettledKept DEF ParentDone
  <2> QED
    BY <1>2, <1>3, <2>1, <2>2, <2>3, PutNext
<1> QED
  BY <1>6, <1>7, <1>8, <1>9

\* The disk inode of the target is written, and nobody of the tree is touched.
LEMMA LivePutUnnamed ==
  ASSUME NEW L, Before(L), update_inode, who = "target", target.num \notin L
  PROVE  /\ LiveInv(L)' /\ Unharmed(L)
         /\ Grown(L, target.num, target) /\ target.num \in Inodes =>
              \E n \in Inodes : n = target.num /\ Grown(L, n, dinode[n])'
<1>1. /\ LiveDisk(L) /\ L \subseteq Inodes /\ LiveLinks(L) /\ Inv /\ DiskTypeOK
      /\ core \in [Inodes2 -> inode]
  BY BeforeParts
<1>2. pc \in Putting /\ PutDone /\ UNCHANGED faults
  BY DEF update_inode, Putting
<1>3. held = target /\ ParentDone(L) /\ parent.num \in L \ {0} /\ parent.num \in Inodes
      /\ base \in Names /\ target \in inode
  BY <1>2, PuttingTool
<1>4. write_disk_inode(target.num, OnDisk(target)) /\ target.num # 0
  BY <1>3 DEF update_inode
<1>5. Allocating(L) /\ Unharmed(L)
  BY <1>1, <1>4, UnharmedWrites DEF Allocating
<1>6. ASSUME Settled(L)
      PROVE  LiveInv(L)'
  <2>1. parent' = parent => ParentDone(L)'
    BY <1>1, <1>2, <1>3, <1>5, <1>6, SettledKept DEF ParentDone, faults
  <2>2. LiveInv(L)'
    BY <1>2, <1>5, <2>1, PutNext
  <2> QED
    BY <2>2
<1>7. ASSUME target.num \in Inodes \ L, Grown(L, target.num, target), parent' = parent
      PROVE  ParentDone(L)' /\ \E n \in Inodes : n = target.num /\ Grown(L, n, dinode[n])'
  <2>1. PICK n : n = target.num
    OBVIOUS
  <2>2. PICK P : P = parent.num
    OBVIOUS
  <2>3. n \in Inodes \ L /\ Grown(L, n, target)
    BY <1>7, <2>1
  <2>4. /\ dinode'[n] = OnDisk(target) /\ dinode'[P] = dinode[P] /\ dirents' = dirents
        /\ ibits' = ibits /\ bbits' = bbits
    BY <1>1, <1>3, <1>4, <2>1, <2>2, <2>3 DEF write_disk_inode, DiskTypeOK
  <2>5. /\ dinode'[n].mode = target.mode /\ dinode'[n].nlink = target.nlink
        /\ dinode'[n].addr = target.addr
    BY <2>4 DEF OnDisk
  <2>6. Taken(L)' = Taken(L) /\ Spare(L)' = Spare(L)
    BY <1>1, <1>5, <2>4, UnharmedView DEF Spare
  <2>7. /\ P \in Dirs' <=> P \in Dirs
        /\ \A q \in Positions : Table'[P][q] = Table[P][q]
    BY <1>1, <1>3, <1>5, <2>2, UnharmedView
  <2>8. LinksOf(P)' = LinksOf(P) /\ P \in Dirs
    BY <1>1, <1>3, <1>5, <2>2, <2>3, UnharmedDisk DEF Grown
  <2>9. base' = base /\ kills' = kills /\ who' = "parent" /\ parent'.num = P
    BY <1>2, <1>7, <2>2 DEF PutDone, args, faults
  <2>10. Grown(L, n, dinode[n])'
    <3>1. Newborn(Spare(L)', dirents', n, dinode'[n], parent'.num)
      <4>1. Newborn(Spare(L), dirents, n, target, P)
        BY <2>2, <2>3 DEF Grown
      <4> QED
        BY <2>4, <2>5, <2>6, <2>9, <4>1, NewbornFields
    <3>2. NameFree'
      BY <2>2, <2>3, <2>7, <2>9 DEF Grown, NameFree
    <3>3. Near(parent'.nlink, LinksOf(parent.num)' + (IF dinode'[n].mode = "dir" THEN 1 ELSE 0), kills')
      <4>1. LinksOf(parent.num)' = LinksOf(parent.num)
        BY <2>2, <2>8, <2>9 DEF LinksOf
      <4> QED
        BY <1>7, <2>3, <2>5, <2>9, <4>1 DEF Grown
    <3>4. \E l \in Logical, b \in Spare(L)' :
            /\ FirstHole(dinode'[parent'.num].addr, l)
            /\ parent'.addr = [dinode'[parent'.num].addr EXCEPT ![l] = b]
            /\ dirents'[b] = [ZeroBlock EXCEPT ![0] = [ino |-> n, name |-> base']]
            /\ \A j \in Logical : dinode'[n].addr[j] # b
      BY <1>7, <2>2, <2>3, <2>4, <2>5, <2>6, <2>9 DEF Grown
    <3>5. n \in ibits' /\ parent'.num \in Dirs'
      BY <2>3, <2>4, <2>7, <2>8, <2>9 DEF Grown
    <3>6. parent'.dirty = DIRTY /\ parent'.mode = "dir" /\ parent'.nlink # 0
      BY <1>7, <2>3 DEF Grown
    <3> QED
      BY <3>1, <3>2, <3>3, <3>4, <3>5, <3>6 DEF Grown
  <2> QED
    BY <1>3, <1>7, <2>1, <2>3, <2>9, <2>10 DEF ParentDone
<1>8. ASSUME ~Settled(L)
      PROVE  LiveInv(L)'
  <2>1. target.num \in Inodes \ L /\ Grown(L, target.num, target)
    BY <1>3, <1>8 DEF ParentDone
  <2>2. parent' = parent => ParentDone(L)'
    BY <1>7, <2>1
  <2> QED
    BY <1>2, <1>5, <2>2, PutNext
<1>9. parent' = parent
  BY <1>1, <1>2 DEF PutDone, parent, Inodes2
<1>10. Grown(L, target.num, target) /\ target.num \in Inodes =>
         \E n \in Inodes : n = target.num /\ Grown(L, n, dinode[n])'
  BY <1>7, <1>9
<1> QED
  BY <1>5, <1>6, <1>8, <1>10

\* A new inode that an entry names gets its content: the tree stays as it is.
LEMMA LivePutNamed ==
  ASSUME NEW L, Before(L), update_inode, who = "target", target.num \in L
  PROVE  /\ LiveInv(L)'
         /\ \E n \in Inodes, P \in Inodes, p \in Positions :
              /\ n = target.num /\ P = parent.num
              /\ Fills(L, Table, Dirs, Table', Dirs', n, P, p)
<1>1. /\ LiveDisk(L) /\ L \subseteq Inodes /\ LiveLinks(L) /\ Inv /\ DiskTypeOK
      /\ core \in [Inodes2 -> inode]
  BY BeforeParts
<1>2. pc \in Putting /\ PutDone /\ UNCHANGED faults
  BY DEF update_inode, Putting
<1>3. /\ held = target /\ TargetDone(L) /\ parent.num \in L \ {0} /\ parent.num \in Inodes
      /\ base \in Names /\ target \in inode
  BY <1>2, PuttingTool
<1>4. /\ write_disk_inode(target.num, OnDisk(target)) /\ target.num # 0 /\ target.nlink > 0
      /\ target.dirty = DIRTY
  BY <1>3 DEF update_inode
<1>5. ToFill(L)
  BY <1>3, <1>4 DEF TargetDone, ToRelease, CLEAN, DIRTY
<1>6. PICK n : n = target.num
  OBVIOUS
<1>7. PICK P : P = parent.num
  OBVIOUS
<1>8. /\ n \in L /\ n \in Inodes /\ P \in L \cap Dirs /\ P \in Inodes
      /\ dinode[n].addr = Unmapped /\ dinode[n].mode = target.mode
      /\ target.mode \in {"reg", "dir"} /\ (target.mode = "dir" => dinode[n].nlink = 2)
      /\ Newborn(Spare(L), dirents, n, target, P) /\ Settled(L)
  BY <1>1, <1>3, <1>5, <1>6, <1>7 DEF ToFill, TargetOnDisk
<1>9. PICK q0 \in Kids(Table, P) : Table[P][q0].ino = n
  BY <1>5, <1>6, <1>7 DEF ToFill
<1>10. /\ dinode'[n] = OnDisk(target) /\ dirents' = dirents /\ ibits' = ibits /\ bbits' = bbits
       /\ \A m \in Inodes : m # n => dinode'[m] = dinode[m]
  BY <1>1, <1>4, <1>6, <1>8 DEF write_disk_inode, DiskTypeOK
<1>11. /\ dinode'[n].mode = target.mode /\ dinode'[n].nlink = target.nlink
       /\ dinode'[n].addr = target.addr
  BY <1>10 DEF OnDisk
<1>12. \A m \in Inodes : m \in Dirs <=> m \in Dirs'
  BY <1>8, <1>10, <1>11 DEF Dirs
<1>13. \A m \in L \cap Dirs : \A q \in Positions : m # n => Table'[m][q] = Table[m][q]
  BY <1>1, <1>10 DEF Table, Row
<1>14. n \in Dirs => target.nlink = 2 /\ Dense(target) /\ OnlyDots(Table'[n], n, P)
  <2>1. n \in Dirs => target.mode = "dir"
    BY <1>8 DEF Dirs
  <2>2. Table'[n] = Row(dirents, dinode'[n])
    BY <1>8, <1>10 DEF Table
  <2>3. Row(dirents, dinode'[n]) = Row(dirents, target)
    BY <1>11 DEF Row, View
  <2> QED
    BY <1>8, <2>1, <2>2, <2>3 DEF Newborn
<1>15. /\ P # n /\ TreeOf(L, Table', Dirs')
       /\ \A d \in L \cap Dirs : LinksOf(d)' = LinksOf(d)
       /\ Fills(L, Table, Dirs, Table', Dirs', n, P, q0)
  <2>1. \A q \in Positions : Table[n][q].ino = 0
    BY <1>8 DEF Table, Row, View, Unmapped, NoEntry, Positions
  <2>2. Fills(L, Table, Dirs, Table', Dirs', n, P, q0)
    BY <1>1, <1>8, <1>9, <1>12, <1>13, <1>14, <2>1 DEF Fills
  <2>3. TreeOf(L, Table, Dirs)
    BY <1>1 DEF LiveDisk
  <2>4. Filled(L, Table, Dirs, Table', Dirs', n, P, q0)
    BY <2>2, <2>3, TreeFill
  <2> QED
    BY <2>2, <2>4 DEF Filled, LinksOf
<1>16. /\ dinode'[P] = dinode[P]
       /\ \A d \in L \cap Dirs : dinode'[d].nlink = dinode[d].nlink
  BY <1>1, <1>8, <1>10, <1>11, <1>14, <1>15 DEF Dirs
<1>17. LiveDisk(L)'
  <2>1. InodesOf(L)'
    <3>1. \A m \in L : m \in ibits' /\ dinode'[m].mode # "none"
      BY <1>1, <1>8, <1>10, <1>11 DEF LiveDisk, InodesOf
    <3>2. ASSUME NEW d \in L \cap Dirs'
          PROVE  Dense(dinode'[d])
      <4>1. CASE d = n
        BY <1>8, <1>11, <1>12, <1>14, <4>1 DEF Dense
      <4>2. CASE d # n
        BY <1>1, <1>10, <1>12, <4>2 DEF LiveDisk, InodesOf
      <4> QED
        BY <4>1, <4>2
    <3>3. ROOT_INODE \in L \cap Dirs'
      BY <1>1, <1>12 DEF LiveDisk, InodesOf
    <3> QED
      BY <1>1, <3>1, <3>2, <3>3 DEF InodesOf
  <2>2. BlocksOf(L)'
    <3>1. \A l \in Logical : target.addr[l] # 0 =>
            target.addr[l] \in bbits /\ ~badblock(target.addr[l]) /\ target.addr[l] \notin Taken(L)
      BY <1>8 DEF Newborn, Private, Spare
    <3>2. \A m \in L, l \in Logical : dinode[m].addr[l] \in Taken(L)
      BY DEF Taken
    <3>3. \A m \in L, l \in Logical : m # n => dinode'[m].addr[l] = dinode[m].addr[l]
      BY <1>1, <1>10
    <3>4. \A m \in L, l \in Logical : dinode'[m].addr[l] # 0 =>
            ~badblock(dinode'[m].addr[l]) /\ dinode'[m].addr[l] \in bbits'
      BY <1>1, <1>10, <1>11, <3>1, <3>2, <3>3 DEF LiveDisk, BlocksOf
    <3>5. \A l, j \in Logical : target.addr[l] # 0 /\ target.addr[l] = target.addr[j] => l = j
      BY <1>8 DEF Newborn, Private
    <3>6. ASSUME NEW m \in L, NEW i \in L, NEW l \in Logical, NEW j \in Logical,
                 dinode'[m].addr[l] # 0, dinode'[m].addr[l] = dinode'[i].addr[j]
          PROVE  m = i /\ l = j
      <4>1. CASE m = n /\ i = n
        BY <1>11, <3>5, <3>6, <4>1
      <4>2. CASE m = n /\ i # n
        BY <1>11, <3>1, <3>2, <3>3, <3>6, <4>2
      <4>3. CASE m # n /\ i = n
        BY <1>11, <3>1, <3>2, <3>3, <3>6, <4>3
      <4>4. CASE m # n /\ i # n
        BY <1>1, <3>3, <3>6, <4>4 DEF LiveDisk, BlocksOf
      <4> QED
        BY <4>1, <4>2, <4>3, <4>4
    <3> QED
      BY <3>4, <3>6 DEF BlocksOf, Taken
  <2> QED
    BY <1>15, <2>1, <2>2 DEF LiveDisk
<1>18. /\ pc' = "put" /\ who' = "parent" /\ core' = [core EXCEPT !["target"] = NULL]
       /\ base' = base /\ kills' = kills
  BY <1>2 DEF PutDone, args, faults
<1>19. parent' = parent /\ target' = NULL
  BY <1>1, <1>18 DEF parent, target, Inodes2
<1>20. LiveLinks(L)'
  BY <1>1, <1>12, <1>15, <1>16, <1>18, <1>19 DEF LiveLinks
<1>21. Settled(L)'
  <2>1. LinksOf(parent.num)' = LinksOf(parent.num)
    BY <1>7, <1>8, <1>15, <1>19 DEF LinksOf
  <2> QED
    BY <1>7, <1>8, <1>12, <1>16, <1>18, <1>19, <2>1 DEF Settled
<1>22. LiveTool(L)'
  BY <1>3, <1>18, <1>19, <1>21, PutTool DEF ParentDone
<1>23. q0 \in Positions
  BY DEF Kids
<1> QED
  BY <1>6, <1>7, <1>8, <1>15, <1>17, <1>20, <1>22, <1>23 DEF LiveInv

\* The parent is written as the last thing: its links are exact again, but for those
\* of killed tools.
LEMMA LivePutSettled ==
  ASSUME NEW L, Before(L), update_inode, who = "parent", Settled(L)
  PROVE  LiveInv(L)' /\ Table' = Table /\ Dirs' = Dirs /\ Taken(L)' = Taken(L)
<1>1. /\ LiveDisk(L) /\ L \subseteq Inodes /\ LiveLinks(L) /\ Inv /\ DiskTypeOK
  BY BeforeParts
<1>2. pc \in Putting /\ Exit /\ kills' = kills
  BY DEF update_inode, Putting, PutDone, faults
<1>3. PICK P : P = parent.num
  OBVIOUS
<1>4. held = parent /\ P \in L \ {0} /\ P \in Inodes
  BY <1>2, <1>3, PuttingTool
<1>5. write_disk_inode(P, OnDisk(parent))
  BY <1>3, <1>4 DEF update_inode
<1>6. /\ dinode'[P] = OnDisk(parent) /\ dirents' = dirents /\ ibits' = ibits /\ bbits' = bbits
      /\ \A m \in Inodes : m # P => dinode'[m] = dinode[m]
  BY <1>1, <1>4, <1>5 DEF write_disk_inode, DiskTypeOK
<1>7. \A m \in Inodes : dinode'[m].mode = dinode[m].mode /\ dinode'[m].addr = dinode[m].addr
  BY <1>3, <1>6 DEF OnDisk, Settled
<1>8. Dirs' = Dirs /\ Table' = Table /\ Taken(L)' = Taken(L)
  <2>1. Dirs' = Dirs
    BY <1>7 DEF Dirs
  <2>2. \A m \in Inodes : Row(dirents', dinode'[m]) = Row(dirents, dinode[m])
    BY <1>6, <1>7 DEF Row, View
  <2>3. Taken(L)' = Taken(L)
    BY <1>1, <1>7 DEF Taken
  <2> QED
    BY <2>1, <2>2, <2>3 DEF Table
<1>9. LiveDisk(L)'
  <2>1. InodesOf(L)'
    BY <1>1, <1>6, <1>7, <1>8 DEF LiveDisk, InodesOf, Dense
  <2>2. BlocksOf(L)'
    <3>1. \A m \in L : dinode'[m].addr = dinode[m].addr
      BY <1>1, <1>7
    <3> QED
      BY <1>1, <1>6, <1>8, <3>1 DEF LiveDisk, BlocksOf
  <2> QED
    BY <1>1, <1>8, <2>1, <2>2 DEF LiveDisk
<1>10. LiveTool(L)' /\ parent.num' = 0
  BY <1>2, ExitTool
<1>11. LiveLinks(L)'
  <2> SUFFICES ASSUME NEW d \in L, d \in Dirs
               PROVE  Near(dinode'[d].nlink, LinksOf(d)', kills)
    BY <1>1, <1>2, <1>8, <1>10 DEF LiveLinks, Inodes
  <2>1. LinksOf(d)' = LinksOf(d)
    BY <1>8 DEF LinksOf
  <2>2. CASE d = P
    <3>1. Near(parent.nlink, LinksOf(P), kills) /\ dinode'[P].nlink = parent.nlink
      BY <1>3, <1>6, <2>2 DEF Settled, OnDisk
    <3> QED
      BY <2>1, <2>2, <3>1
  <2>3. CASE d # P
    BY <1>1, <1>3, <1>6, <2>1, <2>3 DEF LiveLinks
  <2> QED
    BY <2>2, <2>3
<1> QED
  BY <1>8, <1>9, <1>10, <1>11 DEF LiveInv

\* The parent is written, and one more of its blocks with it: that shows the new entry.
LEMMA LivePutGrown ==
  ASSUME NEW L, Before(L), update_inode, who = "parent",
         NEW n \in Inodes \ L, Grown(L, n, dinode[n])
  PROVE  /\ LiveInv(L \cup {n})'
         /\ \E P \in Inodes, p \in Positions :
              P = parent.num /\ Adds(L, Table, Dirs, Table', Dirs', n, P, p, base)
<1>1. /\ LiveDisk(L) /\ L \subseteq Inodes /\ LiveLinks(L) /\ Inv /\ DiskTypeOK
      /\ ROOT_INODE \in L /\ 0 \notin L /\ kills \in 0 .. MaxKills
  BY BeforeParts DEF LiveDisk, InodesOf, ProcTypeOK
<1>2. pc \in Putting /\ Exit /\ kills' = kills
  BY DEF update_inode, Putting, PutDone, faults
<1>3. PICK P : P = parent.num
  OBVIOUS
<1>4. held = parent /\ P \in L \ {0} /\ P \in Inodes /\ base \in Names /\ n # 0 /\ P # n
  BY <1>2, <1>3, PuttingTool DEF Inodes
<1>5. write_disk_inode(P, OnDisk(parent))
  BY <1>3, <1>4 DEF update_inode
<1>6. /\ dinode'[P] = OnDisk(parent) /\ dirents' = dirents /\ ibits' = ibits /\ bbits' = bbits
      /\ \A m \in Inodes : m # P => dinode'[m] = dinode[m]
  BY <1>1, <1>4, <1>5 DEF write_disk_inode, DiskTypeOK
<1>7. PICK l \in Logical, b \in Spare(L) :
        /\ FirstHole(dinode[P].addr, l) /\ parent.addr = [dinode[P].addr EXCEPT ![l] = b]
        /\ dirents[b] = [ZeroBlock EXCEPT ![0] = [ino |-> n, name |-> base]]
        /\ \A j \in Logical : dinode[n].addr[j] # b
  BY <1>3 DEF Grown
<1>8. /\ P \in Dirs /\ parent.mode = "dir" /\ n \in ibits
      /\ \A q \in Positions : Table[P][q].ino # 0 => Table[P][q].name # base
      /\ Newborn(Spare(L), dirents, n, dinode[n], P)
      /\ Near(parent.nlink, LinksOf(P) + (IF dinode[n].mode = "dir" THEN 1 ELSE 0), kills)
  BY <1>3 DEF Grown, NameFree
<1>9. b \notin Taken(L) /\ b \in bbits /\ ~badblock(b) /\ b # 0
  BY <1>1, BlockRange DEF Spare
<1>10. /\ dinode'[P].mode = "dir" /\ dinode'[P].nlink = parent.nlink
       /\ \A j \in Logical : dinode'[P].addr[j] = IF j = l THEN b ELSE dinode[P].addr[j]
       /\ dinode'[n] = dinode[n]
  <2>1. dinode[P].addr \in [Logical -> Blocks]
    BY <1>1, <1>4 DEF DiskTypeOK, disk_inode
  <2> QED
    BY <1>4, <1>6, <1>7, <1>8, <2>1 DEF OnDisk
<1>11. \A m \in Inodes : m \in Dirs' <=> m \in Dirs
  BY <1>4, <1>6, <1>8, <1>10 DEF Dirs
<1> DEFINE p == <<l, 0>>
<1>12. p \in Positions /\ p[1] = l /\ p[2] = 0
  BY GeometryAssumption DEF Positions, Slots
<1>13. /\ Table[P][p].ino = 0 /\ Table'[P][p] = [ino |-> n, name |-> base]
       /\ \A q \in Positions : q # p => Table'[P][q] = Table[P][q]
  <2>1. \A q \in Positions : /\ q[1] \in Logical /\ q[2] \in Slots
                            /\ Table[P][q] = View(dirents, dinode[P], q)
                            /\ Table'[P][q] = View(dirents, dinode'[P], q)
    BY <1>4, <1>6 DEF Table, Row, Positions
  <2>2. dinode[P].addr[l] = 0
    BY <1>7 DEF FirstHole, Logical
  <2>3. Table[P][p].ino = 0
    <3>1. NoEntry.ino = 0
      BY DEF NoEntry
    <3> QED
      BY <1>12, <2>1, <2>2, <3>1 DEF View
  <2>4. 0 \in Slots
    BY <1>12 DEF Positions
  <2>5. Table'[P][p] = [ino |-> n, name |-> base]
    BY <1>7, <1>9, <1>10, <1>12, <2>1, <2>4 DEF View, ZeroBlock
  <2>6. ASSUME NEW q \in Positions, q # p
        PROVE  Table'[P][q] = Table[P][q]
    <3>1. CASE q[1] = l
      <4>1. q[2] # 0
        BY <2>6, <3>1 DEF Positions
      <4>2. dirents[b][q[2]] = NoEntry
        BY <1>7, <2>1, <4>1 DEF ZeroBlock
      <4> QED
        BY <1>9, <1>10, <2>1, <2>2, <3>1, <4>2 DEF View
    <3>2. CASE q[1] # l
      BY <1>10, <2>1, <3>2 DEF View
    <3> QED
      BY <3>1, <3>2
  <2> QED
    BY <2>3, <2>5, <2>6
<1>14. \A m \in L \cap Dirs : \A q \in Positions : m # P \/ q # p => Table'[m][q] = Table[m][q]
  <2>1. \A m \in L : m # P => Table'[m] = Table[m]
    BY <1>1, <1>6 DEF Table
  <2> QED
    BY <1>13, <2>1
<1>15. n \in Dirs <=> dinode[n].mode = "dir"
  BY DEF Dirs
<1>16. n \in Dirs => dinode[n].nlink = 2 /\ Dense(dinode[n]) /\ OnlyDots(Table'[n], n, P)
  <2>1. Table'[n] = Row(dirents, dinode[n])
    BY <1>6, <1>10 DEF Table
  <2> QED
    BY <1>8, <1>15, <2>1 DEF Newborn
<1> HIDE DEF p
<1>17. /\ TreeOf(L \cup {n}, Table', Dirs')
       /\ LinksOf(P)' = LinksOf(P) + (IF n \in Dirs THEN 1 ELSE 0)
       /\ \A d \in L \cap Dirs : d # P => LinksOf(d)' = LinksOf(d)
       /\ n \in Dirs => LinksOf(n)' = 0
       /\ Adds(L, Table, Dirs, Table', Dirs', n, P, p, base)
  <2>1. base \notin Dots
    BY <1>4, NamesAssumption DEF Dots
  <2>2. Adds(L, Table, Dirs, Table', Dirs', n, P, p, base)
    BY <1>1, <1>4, <1>8, <1>11, <1>12, <1>13, <1>14, <1>16, <2>1 DEF Adds
  <2>3. LiveDisk(L)
    BY <1>1
  <2>4. TreeOf(L \cup {n}, Table', Dirs') /\ p \in Kids(Table', P)
    BY <2>2, <2>3, TreeGrows
  <2>5. LinksOf(P)' = LinksOf(P) + (IF n \in Dirs' THEN 1 ELSE 0)
    BY <2>2, <2>3, TreeGrows
  <2>6. n \in Dirs' => LinksOf(n)' = 0
    BY <2>2, <2>3, TreeGrows
  <2>7. \A d \in L \cap Dirs : d # P => SubdirsIn(Table', Dirs', d) = SubdirsIn(Table, Dirs, d)
    <3>1. TreeOf(L, Table, Dirs)
      BY <2>3 DEF LiveDisk
    <3>2. Added(L, Table, Dirs, Table', Dirs', n, P, p)
      BY <2>2, <3>1, TreeAdd
    <3> QED
      BY <3>2 DEF Added
  <2>8. \A d \in L \cap Dirs : d # P => LinksOf(d)' = LinksOf(d)
    BY <2>7 DEF LinksOf
  <2> QED
    BY <1>11, <2>2, <2>4, <2>5, <2>6, <2>8
<1>18. PICK K : K = L \cup {n}
  OBVIOUS
<1>19. LiveDisk(K)'
  <2>1. InodesOf(K)'
    <3>1. K \subseteq Inodes /\ ROOT_INODE \in K \cap Dirs'
      BY <1>1, <1>11, <1>18 DEF LiveDisk, InodesOf
    <3>2. ASSUME NEW m \in K
          PROVE  m \in ibits' /\ dinode'[m].mode # "none"
      <4>1. CASE m = n
        BY <1>6, <1>8, <1>10, <4>1 DEF Newborn
      <4>2. CASE m = P
        BY <1>1, <1>4, <1>6, <1>10, <4>2 DEF LiveDisk, InodesOf
      <4>3. CASE m # n /\ m # P
        BY <1>1, <1>6, <1>18, <4>3 DEF LiveDisk, InodesOf
      <4> QED
        BY <4>1, <4>2, <4>3
    <3>3. ASSUME NEW d \in K \cap Dirs'
          PROVE  Dense(dinode'[d])
      <4>1. CASE d = n
        BY <1>10, <1>11, <1>16, <4>1
      <4>2. CASE d = P
        <5> SUFFICES ASSUME NEW i \in Logical, NEW j \in Logical, j < i, dinode'[P].addr[i] # 0
                     PROVE  dinode'[P].addr[j] # 0
          BY <4>2 DEF Dense
        <5>1. \A m \in Logical : dinode[P].addr[m] = 0 <=> ~(m < l)
          BY <1>7 DEF FirstHole
        <5>2. i \in Int /\ j \in Int /\ l \in Int
          BY DEF Logical
        <5> QED
          BY <1>9, <1>10, <5>1, <5>2
      <4>3. CASE d # n /\ d # P
        BY <1>1, <1>6, <1>11, <1>18, <4>3 DEF LiveDisk, InodesOf
      <4> QED
        BY <4>1, <4>2, <4>3
    <3> QED
      BY <3>1, <3>2, <3>3 DEF InodesOf
  <2>2. BlocksOf(K)'
    <3>1. \A m \in L, j \in Logical : dinode[m].addr[j] \in Taken(L)
      BY DEF Taken
    <3>2. \A m \in L, j \in Logical : m # P => dinode'[m].addr[j] = dinode[m].addr[j]
      BY <1>1, <1>6
    <3>3. \A j \in Logical : dinode[n].addr[j] # 0 =>
            /\ dinode[n].addr[j] \in bbits /\ ~badblock(dinode[n].addr[j])
            /\ dinode[n].addr[j] \notin Taken(L) /\ dinode[n].addr[j] # b
      BY <1>7, <1>8 DEF Newborn, Private, Spare
    <3>4. \A i, j \in Logical : dinode[n].addr[i] # 0 /\ dinode[n].addr[i] = dinode[n].addr[j]
                                  => i = j
      BY <1>8 DEF Newborn, Private
    <3>5. ASSUME NEW m \in K, NEW j \in Logical, dinode'[m].addr[j] # 0
          PROVE  ~badblock(dinode'[m].addr[j]) /\ dinode'[m].addr[j] \in bbits'
      <4>1. CASE m = n
        BY <1>6, <1>10, <3>3, <3>5, <4>1
      <4>2. CASE m = P
        BY <1>1, <1>4, <1>6, <1>9, <1>10, <3>1, <3>5, <4>2 DEF LiveDisk, BlocksOf
      <4>3. CASE m # n /\ m # P
        BY <1>1, <1>6, <1>18, <3>1, <3>2, <3>5, <4>3 DEF LiveDisk, BlocksOf
      <4> QED
        BY <4>1, <4>2, <4>3
    <3>6. \A m \in L, j \in Logical :
            dinode'[m].addr[j] = dinode[m].addr[j] \/ (m = P /\ j = l /\ dinode'[m].addr[j] = b)
      BY <1>10, <3>2
    <3>7. ASSUME NEW m \in L, NEW i \in L, NEW h \in Logical, NEW j \in Logical,
                 dinode'[m].addr[h] # 0, dinode'[m].addr[h] = dinode'[i].addr[j]
          PROVE  m = i /\ h = j
      <4>1. \A x, y \in L : \A h1, j1 \in Logical :
              dinode[x].addr[h1] # 0 /\ dinode[x].addr[h1] = dinode[y].addr[j1] => x = y /\ h1 = j1
        BY <1>1 DEF LiveDisk, BlocksOf
      <4>2. CASE dinode'[m].addr[h] = dinode[m].addr[h] /\ dinode'[i].addr[j] = dinode[i].addr[j]
        <5>1. dinode[m].addr[h] # 0 /\ dinode[m].addr[h] = dinode[i].addr[j]
          BY <3>7, <4>2
        <5> QED
          BY <4>1, <5>1
      <4>3. CASE m = P /\ h = l /\ dinode'[m].addr[h] = b
        BY <1>9, <3>1, <3>6, <3>7, <4>3
      <4>4. CASE i = P /\ j = l /\ dinode'[i].addr[j] = b
        BY <1>9, <3>1, <3>6, <3>7, <4>4
      <4> QED
        BY <3>6, <4>2, <4>3, <4>4
    <3>8. \A m \in L, h, j \in Logical :
            dinode'[n].addr[j] # 0 => dinode'[m].addr[h] # dinode'[n].addr[j]
      BY <1>10, <3>1, <3>3, <3>6
    <3>9. ASSUME NEW m \in K, NEW i \in K, NEW h \in Logical, NEW j \in Logical,
                 dinode'[m].addr[h] # 0, dinode'[m].addr[h] = dinode'[i].addr[j]
          PROVE  m = i /\ h = j
      <4>1. CASE m \in L /\ i \in L
        BY <3>7, <3>9, <4>1
      <4>2. CASE m = n /\ i = n
        BY <1>10, <3>4, <3>9, <4>2
      <4>3. CASE m = n /\ i \in L
        BY <3>8, <3>9, <4>3
      <4>4. CASE m \in L /\ i = n
        BY <3>8, <3>9, <4>4
      <4> QED
        BY <1>18, <4>1, <4>2, <4>3, <4>4
    <3> QED
      BY <3>5, <3>9 DEF BlocksOf, Taken
  <2> QED
    BY <1>17, <1>18, <2>1, <2>2 DEF LiveDisk
<1>20. LiveTool(K)' /\ parent.num' = 0
  BY <1>2, ExitTool
<1>21. LiveLinks(K)'
  <2> SUFFICES ASSUME NEW d \in K, d \in Dirs
               PROVE  Near(dinode'[d].nlink, LinksOf(d)', kills)
    <3>1. K \subseteq Inodes /\ 0 \notin K
      BY <1>1, <1>4, <1>18
    <3> QED
      BY <1>2, <1>11, <1>20, <3>1 DEF LiveLinks
  <2>1. kills \in Nat
    BY <1>1, FaultAssumption
  <2>2. CASE d = n
    BY <1>10, <1>16, <1>17, <2>1, <2>2 DEF Near
  <2>3. CASE d = P
    <3>1. Near(parent.nlink, LinksOf(P)', kills)
      BY <1>8, <1>15, <1>17
    <3> QED
      BY <1>10, <2>3, <3>1
  <2>4. CASE d # n /\ d # P
    BY <1>1, <1>3, <1>6, <1>17, <1>18, <2>4 DEF LiveLinks
  <2> QED
    BY <2>2, <2>3, <2>4
<1>22. LiveInv(K)'
  BY <1>19, <1>20, <1>21 DEF LiveInv
<1> QED
  BY <1>3, <1>4, <1>12, <1>17, <1>18, <1>22

\* put_inode writes the disk inode of the target, then that of the parent.
LEMMA LiveUpdate ==
  ASSUME NEW L, Before(L), update_inode
  PROVE  LiveTree'
<1>1. pc \in Putting /\ L \subseteq Inodes
  BY BeforeParts DEF update_inode, Putting
<1>2. CASE who = "target"
  <2>1. LiveInv(L)'
    BY <1>2, LivePutUnnamed, LivePutNamed
  <2> QED
    BY <1>1, <2>1 DEF LiveTree
<1>3. CASE who = "parent"
  <2>1. Settled(L) \/ \E n \in Inodes \ L : Grown(L, n, dinode[n])
    BY <1>1, <1>3, PuttingTool DEF ParentDone
  <2>2. CASE Settled(L)
    BY <1>1, <1>3, <2>2, LivePutSettled DEF LiveTree
  <2>3. ASSUME NEW n \in Inodes \ L, Grown(L, n, dinode[n])
        PROVE  LiveTree'
    <3>1. LiveInv(L \cup {n})'
      BY <1>3, <2>3, LivePutGrown
    <3>2. L \cup {n} \in SUBSET Inodes
      BY <1>1, <2>3
    <3>3. \E K \in SUBSET Inodes : LiveInv(K)'
      BY <3>1, <3>2
    <3> QED
      BY <3>3 DEF LiveTree
  <2> QED
    BY <2>1, <2>2, <2>3
<1> QED
  BY <1>1, <1>2, <1>3, PuttingTool

-----------------------------------------------------------------------------
(* The invariant.                                                          *)

\* A killed tool leaves the tree as it is, and its parent's link count off by one.
LEMMA LiveKill ==
  ASSUME NEW L, Before(L), Kill
  PROVE  LiveInv(L)'
<1>1. /\ LiveDisk(L) /\ L \subseteq Inodes /\ DiskTypeOK /\ LiveLinks(L) /\ Inv
  BY BeforeParts
<1>2. Exit /\ kills' = kills + 1 /\ UNCHANGED diskVars
  BY DEF Kill
<1>3. kills' # kills
  <2>1. kills \in 0 .. MaxKills
    BY <1>1 DEF Inv, TypeOK, ProcTypeOK
  <2> QED
    BY <1>2, <2>1, FaultAssumption
<1>4. Unharmed(L)
  BY <1>1, <1>2, UnharmedWrites DEF Allocating
<1> QED
  BY <1>1, <1>2, <1>3, <1>4, UnharmedDisk, LinksKept, ExitTool DEF LiveInv

\* A step that does nothing.
LEMMA LiveStutter ==
  ASSUME NEW L, LiveInv(L), UNCHANGED vars
  PROVE  LiveInv(L)'
<1>1. /\ ibits' = ibits /\ bbits' = bbits /\ dinode' = dinode /\ dirents' = dirents
      /\ pc' = pc /\ tool' = tool /\ base' = base /\ core' = core /\ who' = who
      /\ fresh' = fresh /\ k' = k /\ kills' = kills
  BY DEF vars
<1>2. parent' = parent /\ target' = target /\ Table' = Table /\ Dirs' = Dirs
      /\ Taken(L)' = Taken(L) /\ Spare(L)' = Spare(L) /\ \A d : LinksOf(d)' = LinksOf(d)
      /\ \A n : get_inode(n)' = get_inode(n)
  BY <1>1 DEF parent, target, Table, Dirs, Taken, Spare, LinksOf, get_inode
<1>3. LiveDisk(L)'
  BY <1>1, <1>2 DEF LiveInv, LiveDisk, InodesOf, BlocksOf
<1>4. LiveLinks(L)'
  BY <1>1, <1>2 DEF LiveInv, LiveLinks
<1>5. LiveTool(L)'
  <2>1. /\ ParentRead(L)' = ParentRead(L) /\ CreatesIn(L)' = CreatesIn(L)
        /\ TargetStarted(L)' = TargetStarted(L) /\ FreshBlock(L)' = FreshBlock(L)
    BY <1>1, <1>2 DEF ParentRead, CreatesIn, NameFree, TargetStarted, TargetOnDisk, FreshBlock
  <2>2. Detaching(L)' = Detaching(L)
    BY <1>1, <1>2 DEF Detaching
  <2>3. Settled(L)' = Settled(L)
    BY <1>1, <1>2 DEF Settled
  <2>4. ASSUME NEW n, NEW c
        PROVE  Grown(L, n, c)' = Grown(L, n, c)
    <3>1. NameFree' = NameFree /\ LinksOf(parent.num)' = LinksOf(parent.num)
      BY <1>1, <1>2 DEF NameFree, LinksOf
    <3> QED
      BY <1>1, <1>2, <3>1 DEF Grown
  <2>5. Grown(L, target.num, target)' = Grown(L, target.num, target)
    BY <1>2, <2>4
  <2>6. ParentDone(L)' = ParentDone(L)
    BY <1>1, <1>2, <2>3, <2>4, <2>5 DEF ParentDone
  <2>7. TargetDone(L)' = TargetDone(L)
    BY <1>1, <1>2, <2>3 DEF TargetDone, ToRelease, ToFill, TargetOnDisk
  <2>8. LiveTool(L)
    BY DEF LiveInv
  <2> QED
    BY <1>1, <1>2, <2>1, <2>2, <2>6, <2>7, <2>8 DEF LiveTool
<1> QED
  BY <1>3, <1>4, <1>5 DEF LiveInv

\* No read or write fails, and at most one tool is killed.
OneKill == MaxKills <= 1 /\ MaxIoErrs = 0

\* Without I/O errors a fault is a kill.
LEMMA NoFailedIo ==
  ASSUME OneKill, ProcTypeOK, Fault
  PROVE  Kill
<1>1. ioerrs \in 0 .. MaxIoErrs /\ MaxIoErrs = 0
  BY DEF OneKill, ProcTypeOK
<1>2. ~IoError
  BY <1>1 DEF IoError
<1> QED
  BY <1>2 DEF Fault, IoErrorFails, IoErrorReload, IoErrorInRm, IoErrorInPut

\* Every step of such a run leaves a tree of live inodes.
LEMMA LiveStep ==
  ASSUME OneKill, Inv, UnlinkedIsBlank, LiveTree, [Next]_vars
  PROVE  LiveTree'
<1>1. PICK L \in SUBSET Inodes : LiveInv(L)
  BY DEF LiveTree
<1>2. Before(L) /\ MaxKills <= 1 /\ ProcTypeOK
  BY <1>1 DEF Before, OneKill, Inv, TypeOK
<1>3. LiveInv(L)' => LiveTree'
  BY DEF LiveTree
<1>4. CASE Start \/ WalkDown \/ WalkFails \/ WalkEnds
  BY <1>2, <1>3, <1>4, LiveWalk
<1>5. CASE Create
  <2>1. CASE CreateLookupFails \/ NoFreeInode \/ NoFreeBlock \/ HostFails \/ AddEntryFails
    BY <1>2, <1>3, <2>1, LiveCreateFails
  <2>2. CASE CreateLookup \/ alloc_inode \/ InitInode
    BY <1>2, <1>3, <2>2, LiveAllocInode
  <2>3. CASE alloc_block \/ ZeroFresh \/ FileCopied
    BY <1>2, <1>3, <2>3, LiveFill
  <2>4. CASE WriteDotEntries \/ CopyChunk
    BY <1>2, <1>3, <2>4, LiveContent
  <2>5. CASE AddEntryAllocates \/ AddEntryZeroes
    BY <1>2, <1>3, <2>5, LiveAddBlock
  <2>6. CASE AddEntryInSlot
    <3>1. \E n \in Inodes : LiveInv(L \cup {n})'
      BY <1>2, <2>6, LiveAddSlot
    <3> QED
      BY <3>1 DEF LiveTree
  <2>7. CASE AddEntryInNewBlock
    BY <1>2, <1>3, <2>7, LiveAddLast
  <2> QED
    BY <1>5, <2>1, <2>2, <2>3, <2>4, <2>5, <2>6, <2>7 DEF Create
<1>6. CASE Remove
  <2>1. CASE detach_entry
    <3>1. \E n \in Inodes : LiveInv(L \ {n})'
      BY <1>2, <2>1, LiveDetach
    <3> QED
      BY <3>1 DEF LiveTree
  <2>2. CASE RmLookupFails \/ RmFile \/ RmEmptyDir \/ RmNotEmpty
    BY <1>2, <1>3, <2>2, LiveRmLookup
  <2> QED
    BY <1>6, <2>1, <2>2 DEF Remove
<1>7. CASE put_inode
  <2>1. CASE PutClean
    BY <1>2, <1>3, <2>1, LivePutClean
  <2>2. CASE update_inode
    BY <1>2, <2>2, LiveUpdate
  <2>3. CASE free_block \/ ZeroFreed \/ BlankOut \/ free_inode
    BY <1>2, <1>3, <2>3, LiveRelease
  <2> QED
    BY <1>7, <2>1, <2>2, <2>3 DEF put_inode
<1>8. CASE Fault
  BY <1>2, <1>3, <1>8, NoFailedIo, LiveKill
<1>9. CASE UNCHANGED vars
  BY <1>1, <1>3, <1>9, LiveStutter
<1> QED
  BY <1>4, <1>5, <1>6, <1>7, <1>8, <1>9 DEF Next, Step

\* mkfs leaves a tree of one directory.
LEMMA LiveRoot == Init => LiveInv({ROOT_INODE})
<1> SUFFICES ASSUME Init
             PROVE  LiveInv({ROOT_INODE})
  OBVIOUS
<1> DEFINE L == {ROOT_INODE}
<1>1. /\ ibits = {0, ROOT_INODE} /\ bbits = 0 .. FirstData /\ dinode[ROOT_INODE] = RootInode
      /\ dirents[FirstData] = DotEntries(ROOT_INODE, ROOT_INODE)
      /\ pc = "idle" /\ core = NoInodes /\ kills = 0 /\ who = "target"
  <2>1. mkfs /\ pc = "idle" /\ core = NoInodes /\ kills = 0 /\ who = "target"
    BY DEF Init
  <2>2. FirstData \in Blocks
    BY GeometryAssumption DEF Blocks
  <2>3. dirents[FirstData] = DotEntries(ROOT_INODE, ROOT_INODE)
    BY <2>1, <2>2 DEF mkfs
  <2>4. dinode[ROOT_INODE] = RootInode
    BY <2>1, RootType DEF mkfs
  <2> QED
    BY <2>1, <2>3, <2>4 DEF mkfs
<1>2. /\ RootInode.mode = "dir" /\ RootInode.nlink = 2
      /\ \A l \in Logical : RootInode.addr[l] = IF l = 0 THEN FirstData ELSE 0
  BY DEF RootInode, Unmapped
<1>3. FirstData # 0 /\ FirstData \in bbits /\ ~badblock(FirstData)
  BY <1>1, GeometryAssumption DEF badblock
<1>4. ROOT_INODE \in Dirs /\ Table[ROOT_INODE] = Row(dirents, RootInode)
  BY <1>1, <1>2, RootType DEF Dirs, Table
<1>5. Dense(RootInode) /\ OnlyDots(Table[ROOT_INODE], ROOT_INODE, ROOT_INODE)
  <2>1. dirents[FirstData] = [ZeroBlock EXCEPT ![0] = [ino |-> ROOT_INODE, name |-> "."],
                                               ![1] = [ino |-> ROOT_INODE, name |-> ".."]]
    BY <1>1 DEF DotEntries
  <2>2. Dense(RootInode) /\ OnlyDots(Row(dirents, RootInode), ROOT_INODE, ROOT_INODE)
    BY <1>2, <1>3, <2>1, DotsNewborn
  <2> QED
    BY <1>4, <2>2
<1>6. Kids(Table, ROOT_INODE) = {}
  BY <1>5, OnlyDotsKids
<1>7. LinksOf(ROOT_INODE) = 0
  <2>1. SubdirsIn(Table, Dirs, ROOT_INODE) = {}
    BY <1>6 DEF SubdirsIn
  <2> QED
    BY <2>1, FS_EmptySet DEF LinksOf
<1>8. TreeOf(L, Table, Dirs)
  <2>1. KidsStay(L, Table, Dirs) /\ KidsOnce(L, Table, Dirs)
    BY <1>6 DEF KidsStay, KidsOnce
  <2>2. NamesOnce(L, Table, Dirs)
    BY <1>5 DEF NamesOnce, OnlyDots
  <2>3. SelfDots(L, Table, Dirs)
    BY <1>5 DEF SelfDots, OnlyDots
  <2>4. UpDots(L, Table, Dirs)
    BY <1>5 DEF UpDots, OnlyDots, LeadsUp
  <2> QED
    BY <2>1, <2>2, <2>3, <2>4 DEF TreeOf
<1>9. LiveDisk(L)
  <2>1. InodesOf(L)
    BY <1>1, <1>2, <1>4, <1>5, RootType DEF InodesOf
  <2>2. BlocksOf(L)
    BY <1>1, <1>2, <1>3 DEF BlocksOf, Taken
  <2> QED
    BY <1>8, <2>1, <2>2 DEF LiveDisk
<1>10. LiveLinks(L)
  BY <1>1, <1>2, <1>7 DEF LiveLinks, Near
<1>11. LiveTool(L)
  BY <1>1 DEF LiveTool, Reading, Creating, Started, Filling, Adding, Holding, Putting
<1> QED
  BY <1>9, <1>10, <1>11 DEF LiveInv

\* The image of a finished mkfs: the root is live, nothing else.
LEMMA LiveStart == Init => LiveTree
  BY LiveRoot, RootType DEF LiveTree

\* As long as no read or write fails and at most one tool is killed, what the root
\* leads to is a tree of inodes whose blocks are theirs alone (mkdir.c, cp.c, rm.c,
\* allocator.c, dir.c).
THEOREM TreeLives ==
  ASSUME OneKill
  PROVE  Spec => []LiveTree
<1>1. Init => Inv /\ UnlinkedIsBlank /\ LiveTree
  BY InvInit, InitIsHalf, UnlinkedInit, LiveStart
<1>2. Inv /\ UnlinkedIsBlank /\ LiveTree /\ [Next]_vars => (Inv /\ UnlinkedIsBlank /\ LiveTree)'
  BY InvStep, UnlinkedStep, LiveStep
<1> QED
  BY <1>1, <1>2, PTL DEF Spec

-----------------------------------------------------------------------------
(* What the root leads to.                                                 *)

\* Induction: a set that holds 0 and with n also n + 1 holds every natural number.
LEMMA NatSetInduction ==
  ASSUME NEW S, 0 \in S, \A n \in Nat : n \in S => n + 1 \in S
  PROVE  Nat \subseteq S
<1> DEFINE Rest == Nat \ S
<1> SUFFICES ASSUME Rest # {} PROVE FALSE
  OBVIOUS
<1>1. PICK x \in Rest : \A y \in Rest : ~ (<<y, x>> \in OpToRel(<, Nat))
  <2> HIDE DEF Rest
  <2>1. Rest \subseteq Nat
    BY DEF Rest
  <2> QED BY <2>1, NatLessThanWellFounded, WFMin
<1>2. x \in Nat /\ x # 0
  BY <1>1
<1>3. x - 1 \in Nat /\ x = (x - 1) + 1 /\ x - 1 < x
  BY <1>2
<1>4. x - 1 \in S
  <2>1. SUFFICES ASSUME x - 1 \notin S PROVE FALSE
    OBVIOUS
  <2>2. x - 1 \in Rest
    BY <1>3, <2>1
  <2>3. <<x - 1, x>> \in OpToRel(<, Nat)
    BY <1>2, <1>3 DEF OpToRel
  <2> QED BY <1>1, <2>2, <2>3
<1>5. x \in S
  BY <1>3, <1>4
<1> QED
  BY <1>1, <1>5

\* The same on an interval that starts at 0.
LEMMA IntervalInduction ==
  ASSUME NEW N \in Nat, NEW S, 0 \in S, \A n \in 0 .. N - 1 : n \in S => n + 1 \in S
  PROVE  0 .. N \subseteq S
<1> DEFINE U == {n \in Nat : n <= N => n \in S}
<1>1. 0 \in U
  OBVIOUS
<1>2. \A n \in Nat : n \in U => n + 1 \in U
  OBVIOUS
<1>3. Nat \subseteq U
  <2> HIDE DEF U
  <2> QED BY <1>1, <1>2, NatSetInduction
<1> QED
  BY <1>3

-----------------------------------------------------------------------------
(* What the root leads to, stage by stage.                                 *)

\* The stages 0 to N of what the root leads to, when stage S grows to Grow[S].
Stages(Grow, N, g) ==
  g = [i \in 0 .. N |-> IF i = 0 THEN {ROOT_INODE} ELSE Grow[g[i - 1]]]

\* There are such stages, within every set L that holds the root and that Grow never
\* leaves.
LEMMA StagesExist ==
  ASSUME NEW L, ROOT_INODE \in L, NEW Grow \in [SUBSET L -> SUBSET L], NEW N \in Nat
  PROVE  \E g \in [0 .. N -> SUBSET L] : Stages(Grow, N, g)
<1> DEFINE Done == {n \in Nat : \E g \in [0 .. n -> SUBSET L] : Stages(Grow, n, g)}
<1>1. 0 \in Done
  <2>1. Stages(Grow, 0, [i \in 0 .. 0 |-> {ROOT_INODE}])
    BY DEF Stages
  <2>2. [i \in 0 .. 0 |-> {ROOT_INODE}] \in [0 .. 0 -> SUBSET L]
    OBVIOUS
  <2> QED
    BY <2>1, <2>2
<1>2. ASSUME NEW n \in Nat, n \in Done
      PROVE  n + 1 \in Done
  <2>1. PICK g \in [0 .. n -> SUBSET L] : Stages(Grow, n, g)
    BY <1>2
  <2> DEFINE h == [i \in 0 .. n + 1 |-> IF i = n + 1 THEN Grow[g[n]] ELSE g[i]]
  <2>2. h \in [0 .. n + 1 -> SUBSET L]
    <3> SUFFICES ASSUME NEW i \in 0 .. n + 1
                 PROVE  (IF i = n + 1 THEN Grow[g[n]] ELSE g[i]) \in SUBSET L
      OBVIOUS
    <3>1. n \in 0 .. n /\ (i # n + 1 => i \in 0 .. n)
      OBVIOUS
    <3> QED
      BY <2>1, <3>1
  <2>3. Stages(Grow, n + 1, h)
    <3> SUFFICES ASSUME NEW i \in 0 .. n + 1
                 PROVE  h[i] = IF i = 0 THEN {ROOT_INODE} ELSE Grow[h[i - 1]]
      BY DEF Stages
    <3>1. CASE i = n + 1
      BY <3>1
    <3>2. CASE i # n + 1
      <4>1. i \in 0 .. n /\ (i # 0 => i - 1 \in 0 .. n + 1 /\ i - 1 # n + 1)
        BY <3>2
      <4> QED
        BY <2>1, <4>1, <3>2 DEF Stages
    <3> QED
      BY <3>1, <3>2
  <2> HIDE DEF h
  <2> QED
    BY <2>2, <2>3
<1>3. Nat \subseteq Done
  <2> HIDE DEF Done
  <2> QED
    BY <1>1, <1>2, NatSetInduction
<1> QED
  BY <1>3

\* The reachable inodes come in NInodes stages, the first of which is the root.
LEMMA ReachableStages ==
  ASSUME NEW L, ROOT_INODE \in L, \A d \in L : Children(d) \subseteq L
  PROVE  \E W : /\ Reachable = W[NInodes] /\ W[0] = {ROOT_INODE}
               /\ \A i \in 0 .. NInodes - 1 : W[i + 1] = W[i] \cup UNION {Children(d) : d \in W[i]}
<1> DEFINE Larger(S) == S \cup UNION {Children(d) : d \in S}
           Within(g) == g = [i \in 0 .. NInodes |->
                              IF i = 0 THEN {ROOT_INODE} ELSE Larger(g[i - 1])]
           W == CHOOSE g : Within(g)
<1>1. Reachable = W[NInodes]
  BY DEF Reachable
<1>2. NInodes \in Nat
  BY GeometryAssumption
<1>3. Within(W)
  <2> DEFINE Grow == [S \in SUBSET L |-> Larger(S)]
  <2>1. Grow \in [SUBSET L -> SUBSET L]
    OBVIOUS
  <2>2. PICK g \in [0 .. NInodes -> SUBSET L] : Stages(Grow, NInodes, g)
    <3> HIDE DEF Grow
    <3> QED
      BY <1>2, <2>1, StagesExist
  <2>3. \A i \in 0 .. NInodes : i # 0 => Grow[g[i - 1]] = Larger(g[i - 1])
    <3> SUFFICES ASSUME NEW i \in 0 .. NInodes, i # 0
                 PROVE  g[i - 1] \in SUBSET L
      OBVIOUS
    <3>1. i - 1 \in 0 .. NInodes
      BY <1>2
    <3> QED
      BY <2>2, <3>1
  <2>4. Within(g)
    <3> HIDE DEF Larger, Grow
    <3> QED
      BY <2>2, <2>3 DEF Stages
  <2> HIDE DEF Within
  <2> QED
    BY <2>4
<1> HIDE DEF W
<1>4. \A i \in 0 .. NInodes - 1 : W[i + 1] = Larger(W[i])
  <2> SUFFICES ASSUME NEW i \in 0 .. NInodes - 1
               PROVE  W[i + 1] = Larger(W[i])
    OBVIOUS
  <2>1. i + 1 \in 0 .. NInodes /\ i + 1 # 0 /\ (i + 1) - 1 = i
    BY <1>2
  <2> HIDE DEF Larger
  <2> QED
    BY <1>3, <2>1
<1>5. W[0] = {ROOT_INODE}
  BY <1>2, <1>3
<1> QED
  BY <1>1, <1>4, <1>5

\* They are in every set that holds the root and the children of its inodes.
LEMMA ReachableWithin ==
  ASSUME NEW L, ROOT_INODE \in L, \A d \in L : Children(d) \subseteq L
  PROVE  Reachable \subseteq L
<1>1. PICK W : /\ Reachable = W[NInodes] /\ W[0] = {ROOT_INODE}
               /\ \A i \in 0 .. NInodes - 1 : W[i + 1] = W[i] \cup UNION {Children(d) : d \in W[i]}
  BY ReachableStages
<1>2. NInodes \in Nat
  BY GeometryAssumption
<1> DEFINE In == {i \in 0 .. NInodes : W[i] \subseteq L}
<1>3. 0 \in In
  BY <1>1, <1>2
<1>4. ASSUME NEW n \in 0 .. NInodes - 1, n \in In
      PROVE  n + 1 \in In
  <2>1. n + 1 \in 0 .. NInodes /\ W[n] \subseteq L
    BY <1>2, <1>4
  <2>2. W[n + 1] \subseteq L
    BY <1>1, <2>1
  <2> QED
    BY <2>1, <2>2
<1>5. 0 .. NInodes \subseteq In
  <2> HIDE DEF In
  <2> QED
    BY <1>2, <1>3, <1>4, IntervalInduction
<1> QED
  BY <1>1, <1>2, <1>5

\* After NInodes stages nothing new is found.
LEMMA ReachableClosed ==
  ASSUME NEW L, L \subseteq Inodes, ROOT_INODE \in L, \A d \in L : Children(d) \subseteq L
  PROVE  ROOT_INODE \in Reachable /\ \A d \in Reachable : Children(d) \subseteq Reachable
<1> DEFINE Larger(S) == S \cup UNION {Children(d) : d \in S}
<1>1. PICK W : /\ Reachable = W[NInodes] /\ W[0] = {ROOT_INODE}
               /\ \A i \in 0 .. NInodes - 1 : W[i + 1] = Larger(W[i])
  BY ReachableStages
<1>2. NInodes \in Nat /\ NInodes > 1
  BY GeometryAssumption
<1>3. IsFiniteSet(Inodes) /\ Cardinality(Inodes) = NInodes - 1
  BY <1>2, FS_Interval DEF Inodes
<1>4. \A S \in SUBSET L : Larger(S) \in SUBSET L /\ S \subseteq Larger(S)
  OBVIOUS
<1>5. \A S \in SUBSET L : IsFiniteSet(S) /\ Cardinality(S) \in Nat /\ Cardinality(S) <= NInodes - 1
  <2> SUFFICES ASSUME NEW S \in SUBSET L
               PROVE  IsFiniteSet(S) /\ Cardinality(S) \in Nat /\ Cardinality(S) <= NInodes - 1
    OBVIOUS
  <2>1. S \in SUBSET Inodes
    OBVIOUS
  <2> QED
    BY <1>3, <2>1, FS_Subset, FS_CardinalityType
<1> HIDE DEF Larger
<1>6. \A S \in SUBSET L : Larger(S) = S \/ Cardinality(Larger(S)) > Cardinality(S)
  <2> SUFFICES ASSUME NEW S \in SUBSET L, Larger(S) # S
               PROVE  Cardinality(Larger(S)) > Cardinality(S)
    OBVIOUS
  <2>1. IsFiniteSet(Larger(S)) /\ S \in SUBSET Larger(S)
    BY <1>4, <1>5
  <2>2. Cardinality(S) <= Cardinality(Larger(S)) /\ Cardinality(S) # Cardinality(Larger(S))
    BY <2>1, FS_Subset
  <2>3. Cardinality(S) \in Nat /\ Cardinality(Larger(S)) \in Nat
    BY <1>4, <1>5
  <2> QED
    BY <2>2, <2>3
<1> DEFINE Far == {i \in 0 .. NInodes : /\ W[i] \subseteq L /\ ROOT_INODE \in W[i]
                                        /\ Larger(W[i]) = W[i] \/ Cardinality(W[i]) >= i + 1}
<1>7. 0 \in Far
  <2>1. W[0] = {ROOT_INODE}
    BY <1>1
  <2>2. Cardinality(W[0]) = 1
    BY <2>1, FS_Singleton
  <2>3. Cardinality(W[0]) >= 0 + 1
    BY <2>2
  <2>4. 0 \in 0 .. NInodes
    BY <1>2
  <2> QED
    BY <2>1, <2>3, <2>4
<1>8. ASSUME NEW n \in 0 .. NInodes - 1, n \in Far
      PROVE  n + 1 \in Far
  <2>1. n + 1 \in 0 .. NInodes /\ W[n] \in SUBSET L /\ ROOT_INODE \in W[n]
    BY <1>2, <1>8
  <2>2. W[n + 1] = Larger(W[n])
    BY <1>1
  <2>3. W[n + 1] \in SUBSET L /\ ROOT_INODE \in W[n + 1]
    BY <1>4, <2>1, <2>2
  <2>4. CASE Larger(W[n]) = W[n]
    BY <2>1, <2>2, <2>3, <2>4
  <2>5. CASE Larger(W[n]) # W[n]
    <3>1. Cardinality(W[n]) >= n + 1 /\ Cardinality(W[n + 1]) > Cardinality(W[n])
      BY <1>6, <1>8, <2>1, <2>2, <2>5
    <3>2. Cardinality(W[n]) \in Nat /\ Cardinality(W[n + 1]) \in Nat
      BY <1>5, <2>1, <2>3
    <3>3. Cardinality(W[n + 1]) >= (n + 1) + 1
      BY <3>1, <3>2
    <3> QED
      BY <2>1, <2>3, <3>3
  <2> QED
    BY <2>4, <2>5
<1>9. 0 .. NInodes \subseteq Far
  <2> HIDE DEF Far
  <2> QED
    BY <1>2, <1>7, <1>8, IntervalInduction
<1>10. NInodes \in Far
  BY <1>2, <1>9
<1>11. W[NInodes] \in SUBSET L /\ ROOT_INODE \in W[NInodes]
  BY <1>10
<1>12. Cardinality(W[NInodes]) \in Nat /\ Cardinality(W[NInodes]) <= NInodes - 1
  BY <1>5, <1>11
<1>13. Larger(W[NInodes]) = W[NInodes]
  BY <1>2, <1>10, <1>12
<1> QED
  BY <1>1, <1>11, <1>13 DEF Larger

\* Likewise for what a path names, through "." and ".." as well.
LEMMA PathsWithin ==
  ASSUME NEW L, ROOT_INODE \in L,
         \A d \in L, token \in Names \cup Dots, n \in Inodes :
           search_dir(dinode[d], token, n) => n \in L
  PROVE  Paths \subseteq L
<1> DEFINE Larger(S) == S \cup {n \in Inodes : \E d \in S, token \in Names \cup Dots :
                                                 search_dir(dinode[d], token, n)}
           Within(g) == g = [i \in 0 .. NInodes |->
                              IF i = 0 THEN {ROOT_INODE} ELSE Larger(g[i - 1])]
           W == CHOOSE g : Within(g)
<1>1. Paths = W[NInodes]
  BY DEF Paths
<1>2. NInodes \in Nat
  BY GeometryAssumption
<1>3. \A S \in SUBSET L : Larger(S) \in SUBSET L
  OBVIOUS
<1>4. Within(W)
  <2> DEFINE Grow == [S \in SUBSET L |-> Larger(S)]
  <2>1. Grow \in [SUBSET L -> SUBSET L]
    <3> HIDE DEF Larger
    <3> QED
      BY <1>3
  <2>2. PICK g \in [0 .. NInodes -> SUBSET L] : Stages(Grow, NInodes, g)
    <3> HIDE DEF Grow
    <3> QED
      BY <1>2, <2>1, StagesExist
  <2>3. \A i \in 0 .. NInodes : i # 0 => Grow[g[i - 1]] = Larger(g[i - 1])
    <3> SUFFICES ASSUME NEW i \in 0 .. NInodes, i # 0
                 PROVE  g[i - 1] \in SUBSET L
      <4> HIDE DEF Larger
      <4> QED
        OBVIOUS
    <3>1. i - 1 \in 0 .. NInodes
      BY <1>2
    <3> QED
      BY <2>2, <3>1
  <2>4. Within(g)
    <3> HIDE DEF Larger, Grow
    <3> QED
      BY <2>2, <2>3 DEF Stages
  <2> HIDE DEF Within
  <2> QED
    BY <2>4
<1> HIDE DEF W, Larger
<1>5. \A i \in 0 .. NInodes : W[i] \subseteq L
  <2> DEFINE In == {i \in 0 .. NInodes : W[i] \subseteq L}
  <2>1. 0 \in In
    BY <1>2, <1>4
  <2>2. ASSUME NEW n \in 0 .. NInodes - 1, n \in In
        PROVE  n + 1 \in In
    <3>1. n + 1 \in 0 .. NInodes /\ n + 1 # 0 /\ (n + 1) - 1 = n
      BY <1>2
    <3>2. W[n + 1] = Larger(W[n])
      BY <1>4, <3>1
    <3> QED
      BY <1>3, <2>2, <3>1, <3>2
  <2> HIDE DEF In
  <2>3. 0 .. NInodes \subseteq In
    BY <1>2, <2>1, <2>2, IntervalInduction
  <2> QED
    BY <2>3 DEF In
<1> QED
  BY <1>1, <1>2, <1>5

-----------------------------------------------------------------------------
(* What is reachable is live.                                              *)

\* The disk between two writes, with its live inodes.
Alive(L) == DiskTypeOK /\ UnlinkedIsBlank /\ LiveInv(L)

\* The entries of a directory, as the table shows them.
LEMMA EntriesAreKids ==
  ASSUME DiskTypeOK, NEW d \in Inodes
  PROVE  /\ Entries(d) = IF d \in Dirs THEN Kids(Table, d) ELSE {}
         /\ \A p \in Entries(d) : Table[d][p] = EntryAt(dinode[d], p) /\ p \in Positions
<1>1. CASE d \in Dirs
  <2>1. dinode[d].mode = "dir"
    BY <1>1 DEF Dirs
  <2>2. \A p \in Positions :
          p \in Entries(d) <=> /\ dinode[d].addr[p[1]] # 0 /\ EntryAt(dinode[d], p).ino # 0
                               /\ EntryAt(dinode[d], p).name \notin Dots
    BY <2>1 DEF Entries, Used, Mapped
  <2>3. Entries(d) \subseteq Positions
    BY <2>1 DEF Entries, Used, Mapped
  <2>4. NoEntry.ino = 0
    BY DEF NoEntry
  <2>5. \A p \in Positions : p \in Entries(d) <=> p \in Kids(Table, d)
    <3> SUFFICES ASSUME NEW p \in Positions
                 PROVE  p \in Entries(d) <=> p \in Kids(Table, d)
      OBVIOUS
    <3>1. p \in Kids(Table, d) <=> Table[d][p].ino # 0 /\ Table[d][p].name \notin Dots
      BY DEF Kids
    <3>2. CASE dinode[d].addr[p[1]] # 0
      BY <2>2, <3>1, <3>2, EntryTypesInTable
    <3>3. CASE dinode[d].addr[p[1]] = 0
      BY <2>2, <2>4, <3>1, <3>3, EntryTypesInTable
    <3> QED
      BY <3>2, <3>3
  <2>6. Kids(Table, d) \subseteq Positions
    BY DEF Kids
  <2> QED
    BY <1>1, <2>2, <2>3, <2>5, <2>6, EntryTypesInTable
<1>2. CASE d \notin Dirs
  BY <1>2 DEF Dirs, Entries
<1> QED
  BY <1>1, <1>2

\* The inodes of L, and what their entries name.
LEMMA AliveParts ==
  ASSUME NEW L, Alive(L)
  PROVE  /\ LiveDisk(L) /\ LiveLinks(L) /\ LiveTool(L) /\ TreeOf(L, Table, Dirs)
         /\ L \subseteq Inodes /\ ROOT_INODE \in L
         /\ \A n \in L : n \in ibits /\ dinode[n].mode \in {"reg", "dir"} /\ dinode[n].nlink # 0
         /\ \A d \in L : d \in Dirs <=> dinode[d].mode = "dir"
         /\ \A d \in L : \A p \in Entries(d) :
              /\ d \in L \cap Dirs /\ p \in Kids(Table, d)
              /\ Table[d][p] = EntryAt(dinode[d], p) /\ p \in Positions
              /\ Child(d, p) = Table[d][p].ino /\ Child(d, p) \in L \ {ROOT_INODE}
<1>1. /\ LiveDisk(L) /\ LiveLinks(L) /\ LiveTool(L) /\ DiskTypeOK
      /\ InodesOf(L) /\ TreeOf(L, Table, Dirs)
  BY DEF Alive, LiveInv, LiveDisk
<1>2. L \subseteq Inodes /\ ROOT_INODE \in L
  BY <1>1 DEF InodesOf
<1>3. \A n \in L : dinode[n] \in disk_inode /\ n \in ibits /\ dinode[n].mode # "none"
  BY <1>1, <1>2 DEF DiskTypeOK, InodesOf
<1>4. \A n \in L : dinode[n].mode \in {"reg", "dir"} /\ dinode[n].nlink # 0
  BY <1>2, <1>3 DEF disk_inode, Alive, UnlinkedIsBlank, BlankInode
<1>5. \A d \in L : d \in Dirs <=> dinode[d].mode = "dir"
  BY <1>2 DEF Dirs
<1>6. ASSUME NEW d \in L, NEW p \in Entries(d)
      PROVE  /\ d \in L \cap Dirs /\ p \in Kids(Table, d)
             /\ Table[d][p] = EntryAt(dinode[d], p) /\ p \in Positions
             /\ Child(d, p) = Table[d][p].ino /\ Child(d, p) \in L \ {ROOT_INODE}
  <2>1. /\ d \in L \cap Dirs /\ p \in Kids(Table, d)
        /\ Table[d][p] = EntryAt(dinode[d], p) /\ p \in Positions
    BY <1>1, <1>2, EntriesAreKids
  <2>2. Child(d, p) = Table[d][p].ino
    BY <2>1 DEF Child
  <2> QED
    BY <1>1, <2>1, <2>2 DEF TreeOf, KidsStay
<1> QED
  BY <1>1, <1>2, <1>3, <1>4, <1>5, <1>6

\* What the root leads to is live.
LEMMA ReachableLives ==
  ASSUME NEW L, Alive(L)
  PROVE  Reachable \subseteq L
<1>1. \A d \in L : Children(d) \subseteq L
  BY AliveParts DEF Children
<1> QED
  BY <1>1, AliveParts, ReachableWithin

\* What namei gets to is live.
LEMMA PathsLive ==
  ASSUME NEW L, Alive(L)
  PROVE  Paths \subseteq L
<1>1. ASSUME NEW d \in L, NEW token \in Names \cup Dots, NEW n \in Inodes,
             search_dir(dinode[d], token, n)
      PROVE  n \in L
  <2>1. d \in Inodes /\ DiskTypeOK /\ LiveDisk(L)
    BY AliveParts DEF Alive
  <2>2. PICK q \in Positions : Table[d][q] = [ino |-> n, name |-> token]
    BY <1>1, <2>1, SearchFound
  <2>3. dinode[d].mode = "dir"
    BY <1>1, <2>1, SearchFound
  <2>4. d \in L \cap Dirs /\ n # 0
    BY <2>1, <2>3 DEF Dirs, Inodes
  <2> QED
    BY <2>1, <2>2, <2>4, EntriesLive
<1> QED
  BY <1>1, AliveParts, PathsWithin

\* The edges start in L, and what they lead to.
LEMMA EdgesLive ==
  ASSUME NEW L, Alive(L), NEW e \in Edges
  PROVE  /\ e[1] \in L /\ e[2] \in Entries(e[1]) /\ e = <<e[1], e[2]>>
<1>1. PICK d \in Reachable : e \in {d} \X Entries(d)
  BY DEF Edges
<1> QED
  BY <1>1, ReachableLives

-----------------------------------------------------------------------------
(* What a run checks of the reachable inodes.                              *)

\* Entries of live directories name live inodes.
LEMMA AliveEntries ==
  ASSUME NEW L, Alive(L)
  PROVE  NoDanglingEntries
<1> SUFFICES ASSUME NEW e \in Edges
             PROVE  Child(e[1], e[2]) \in ibits /\ dinode[Child(e[1], e[2])].mode # "none"
  BY DEF NoDanglingEntries
<1>1. Child(e[1], e[2]) \in L
  BY EdgesLive, AliveParts
<1> QED
  BY <1>1, AliveParts

\* Blocks of live inodes have one user.
LEMMA AliveBlocks ==
  ASSUME NEW L, Alive(L)
  PROVE  ReachableBlocksSafe
<1>1. BlocksOf(L)
  BY AliveParts DEF LiveDisk
<1>2. \A u \in Uses : /\ u[1] \in L /\ u[2] \in Logical /\ u = <<u[1], u[2]>>
                      /\ dinode[u[1]].addr[u[2]] # 0
  BY ReachableLives DEF Uses
<1>3. ASSUME NEW u \in Uses
      PROVE  ~badblock(Use(u)) /\ Use(u) \in bbits
  <2>1. Use(u) \in Taken(L) \ {0}
    BY <1>2 DEF Use, Taken
  <2> QED
    BY <1>1, <2>1 DEF BlocksOf
<1>4. ASSUME NEW u \in Uses, NEW v \in Uses, Use(u) = Use(v)
      PROVE  u = v
  <2>1. u[1] = v[1] /\ u[2] = v[2]
    BY <1>1, <1>2, <1>4 DEF BlocksOf, Use
  <2> QED
    BY <1>2, <2>1
<1> QED
  BY <1>3, <1>4 DEF ReachableBlocksSafe

\* Entries of live directories lead to inodes of their own, by names of their own.
LEMMA AliveTree ==
  ASSUME NEW L, Alive(L)
  PROVE  TreeShaped
<1>1. KidsOnce(L, Table, Dirs) /\ NamesOnce(L, Table, Dirs)
  BY AliveParts DEF TreeOf
<1>2. \A e \in Edges :
        /\ e[1] \in L \cap Dirs /\ e[2] \in Kids(Table, e[1]) /\ e = <<e[1], e[2]>>
        /\ Table[e[1]][e[2]] = EntryAt(dinode[e[1]], e[2]) /\ e[2] \in Positions
        /\ Child(e[1], e[2]) = Table[e[1]][e[2]].ino /\ Child(e[1], e[2]) # ROOT_INODE
  BY EdgesLive, AliveParts
<1>3. ASSUME NEW e \in Edges, NEW f \in Edges, e # f
      PROVE  Child(e[1], e[2]) # Child(f[1], f[2])
  <2>1. e[1] # f[1] \/ e[2] # f[2]
    BY <1>2, <1>3
  <2> QED
    BY <1>1, <1>2, <2>1 DEF KidsOnce
<1>4. ASSUME NEW e \in Edges, NEW f \in Edges, e # f, e[1] = f[1]
      PROVE  EntryAt(dinode[e[1]], e[2]).name # EntryAt(dinode[f[1]], f[2]).name
  <2>1. e[2] # f[2]
    BY <1>2, <1>4
  <2>2. Table[e[1]][e[2]].ino # 0 /\ Table[f[1]][f[2]].ino # 0
    BY <1>2 DEF Kids
  <2> QED
    BY <1>1, <1>2, <1>4, <2>1, <2>2 DEF NamesOnce
<1> QED
  BY <1>2, <1>3, <1>4 DEF TreeShaped

\* The subdirectories of a live directory, as the table shows them.
LEMMA SubdirsAsKids ==
  ASSUME NEW L, Alive(L), NEW n \in L, n \in Dirs
  PROVE  Subdirs(n) = SubdirsIn(Table, Dirs, n)
<1>1. Entries(n) = Kids(Table, n)
  <2>1. n \in Inodes /\ DiskTypeOK
    BY AliveParts DEF Alive
  <2> QED
    BY <2>1, EntriesAreKids
<1>2. \A p \in Entries(n) : Child(n, p) = Table[n][p].ino /\ Child(n, p) \in L
  BY AliveParts
<1>3. \A p \in Entries(n) : dinode[Child(n, p)].mode = "dir" <=> Table[n][p].ino \in Dirs
  BY <1>2, AliveParts
<1> QED
  BY <1>1, <1>3 DEF Subdirs, SubdirsIn

\* Link counts of live directories, between two tools, when no tool's parent is in core.
LEMMA AliveLinks ==
  ASSUME NEW L, Alive(L), TypeOK
  PROVE  LinkCountsWithinKills
<1> SUFFICES ASSUME pc = "idle", NEW n \in Reachable, dinode[n].mode = "dir"
             PROVE  LET exact == 2 + Cardinality(Subdirs(n))
                    IN  dinode[n].nlink \in exact - kills .. exact + kills
  BY DEF LinkCountsWithinKills, Quiet
<1>1. n \in L \cap Dirs /\ n \in Inodes /\ n # 0 /\ DiskTypeOK
  BY ReachableLives, AliveParts DEF Alive, Inodes
<1>2. core = NoInodes
  BY AliveParts DEF LiveTool
<1>3. parent.num = 0
  BY <1>2 DEF parent, NoInodes, NULL
<1>4. Near(dinode[n].nlink, LinksOf(n), kills)
  <2>1. LiveLinks(L)
    BY AliveParts
  <2> QED
    BY <1>1, <1>3, <2>1 DEF LiveLinks
<1>5. Subdirs(n) = SubdirsIn(Table, Dirs, n)
  BY <1>1, SubdirsAsKids
<1>6. Cardinality(Subdirs(n)) = LinksOf(n)
  BY <1>5 DEF LinksOf
<1>7. dinode[n].nlink \in Int /\ LinksOf(n) \in Int
  BY <1>1, LinkTypes
<1>8. kills \in Int
  <2>1. kills \in 0 .. MaxKills
    BY DEF TypeOK, ProcTypeOK
  <2> QED
    BY <2>1
<1> QED
  BY <1>4, <1>6, <1>7, <1>8 DEF Near

\* The root is live.
LEMMA AliveRoot ==
  ASSUME NEW L, Alive(L)
  PROVE  RootNeverDeleted
<1>1. ROOT_INODE \in L \cap Dirs
  BY AliveParts DEF LiveDisk, InodesOf
<1> QED
  BY <1>1, AliveParts DEF RootNeverDeleted

\* A live inode has links and a mode.
LEMMA AliveStat ==
  ASSUME NEW L, Alive(L)
  PROVE  NothingUnknownShown
<1> SUFFICES ASSUME NEW n \in Paths
             PROVE  stat(n).type # "UNK" /\ stat(n).links > 0
  BY DEF NothingUnknownShown
<1>1. n \in L /\ n \in Inodes
  BY PathsLive, AliveParts
<1>2. dinode[n].mode \in {"reg", "dir"} /\ dinode[n].nlink # 0
  BY <1>1, AliveParts
<1>3. dinode[n].nlink \in Nat
  BY <1>1 DEF Alive, DiskTypeOK, disk_inode, NLinks
<1> QED
  BY <1>2, <1>3 DEF stat, get_file_type_name

\* In a live directory, what search_dir answers for the name of an entry.
LEMMA LiveSearch ==
  ASSUME NEW L, Alive(L), NEW d \in L \cap Dirs, NEW p \in Mapped(dinode[d]),
         EntryAt(dinode[d], p).ino # 0
  PROVE  search_dir(dinode[d], EntryAt(dinode[d], p).name, EntryAt(dinode[d], p).ino)
<1> DEFINE name == EntryAt(dinode[d], p).name
<1>1. d \in Inodes /\ DiskTypeOK /\ Dense(dinode[d]) /\ dinode[d].mode = "dir"
  BY AliveParts DEF Alive, LiveDisk, InodesOf
<1>2. p \in Positions /\ dinode[d].addr[p[1]] # 0
  BY DEF Mapped
<1>3. p \in Searched(dinode[d])
  BY <1>1, <1>2, DenseSearched
<1>4. p \in Hits(dinode[d], name)
  BY <1>3 DEF Hits
<1>5. ASSUME NEW q \in Hits(dinode[d], name)
      PROVE  p = q
  <2>1. /\ q \in Positions /\ \A l \in 0 .. q[1] : dinode[d].addr[l] # 0
        /\ EntryAt(dinode[d], q).ino # 0 /\ EntryAt(dinode[d], q).name = name
    BY DEF Hits, Searched
  <2>2. q[1] \in 0 .. q[1]
    BY <2>1 DEF Positions, Logical
  <2>3. /\ Table[d][p] = EntryAt(dinode[d], p)
        /\ Table[d][q] = EntryAt(dinode[d], q)
    BY <1>1, <1>2, <2>1, <2>2, EntryTypesInTable
  <2>4. NamesOnce(L, Table, Dirs)
    BY AliveParts DEF TreeOf
  <2> QED
    BY <1>2, <2>1, <2>3, <2>4 DEF NamesOnce
<1>6. IsFirst(p, Hits(dinode[d], name))
  BY <1>4, <1>5 DEF IsFirst
<1> HIDE DEF name
<1>7. search_dir(dinode[d], name, EntryAt(dinode[d], p).ino)
  BY <1>1, <1>4, <1>6 DEF search_dir
<1> QED
  BY <1>7 DEF name

\* So every entry is found.
LEMMA AliveFound ==
  ASSUME NEW L, Alive(L)
  PROVE  EntriesFound
<1> SUFFICES ASSUME NEW e \in Edges
             PROVE  search_dir(dinode[e[1]], EntryAt(dinode[e[1]], e[2]).name, Child(e[1], e[2]))
  BY DEF EntriesFound
<1>1. e[1] \in L \cap Dirs /\ e[2] \in Entries(e[1])
  BY EdgesLive, AliveParts
<1>2. e[2] \in Mapped(dinode[e[1]]) /\ EntryAt(dinode[e[1]], e[2]).ino # 0
  BY <1>1, AliveParts DEF Entries, Used
<1> QED
  BY <1>1, <1>2, LiveSearch DEF Child

\* ls prints a line of its own for each entry of a live directory.
LEMMA LineForEach ==
  ASSUME NEW L, Alive(L), NEW n \in L \cap Dirs
  PROVE  Cardinality(ls(dinode[n])) = Cardinality(Listed(dinode[n]))
<1> DEFINE d == dinode[n]
           line == [p \in Listed(d) |-> Line(d, p)]
<1>1. n \in Inodes /\ DiskTypeOK /\ NamesOnce(L, Table, Dirs)
  BY AliveParts DEF Alive, TreeOf
<1>2. \A p \in Listed(d) : /\ p \in Positions /\ Table[n][p] = EntryAt(d, p)
                           /\ EntryAt(d, p).ino # 0
  BY <1>1, EntryTypesInTable DEF Listed, Mapped
<1>3. \A p, q \in Listed(d) : EntryAt(d, p).name = EntryAt(d, q).name => p = q
  <2> HIDE DEF d
  <2> QED
    BY <1>1, <1>2 DEF NamesOnce
<1>4. line \in [Listed(d) -> ls(d)]
  BY DEF ls
<1>5. \A p, q \in Listed(d) : line[p] = line[q] => p = q
  <2> SUFFICES ASSUME NEW p \in Listed(d), NEW q \in Listed(d), Line(d, p) = Line(d, q)
               PROVE  p = q
    OBVIOUS
  <2>1. Line(d, p).name = EntryAt(d, p).name /\ Line(d, q).name = EntryAt(d, q).name
    BY DEF Line
  <2> HIDE DEF d
  <2> QED
    BY <1>3, <2>1
<1>6. \A x \in ls(d) : \E p \in Listed(d) : line[p] = x
  BY DEF ls
<1>7. ExistsBijection(Listed(d), ls(d))
  <2> HIDE DEF line
  <2>1. line \in Bijection(Listed(d), ls(d))
    BY <1>4, <1>5, <1>6, Fun_IsBij
  <2> QED
    BY <2>1, Fun_ExistsBij
<1>8. IsFiniteSet(Listed(d))
  <2>1. Listed(d) \subseteq Positions
    BY DEF Listed, Mapped
  <2> QED
    BY <2>1, PositionsFinite, FS_Subset
<1> QED
  BY <1>7, <1>8, FS_Bijection

\* ls and search_dir read the same entries of a live directory.
LEMMA AliveLs ==
  ASSUME NEW L, Alive(L)
  PROVE  LsAgreesWithNamei
<1> SUFFICES ASSUME NEW n \in Paths, dinode[n].mode = "dir"
             PROVE  LET d == dinode[n]
                    IN  /\ \A token \in Names \cup Dots, i \in Inodes :
                             search_dir(d, token, i)
                               => \E line \in ls(d) : /\ line.name = token
                                                      /\ SameInode(line, stat(i))
                        /\ \A line \in ls(d) : search_dir(d, line.name, line.inode)
                        /\ Cardinality(ls(d)) = Cardinality(Listed(d))
  BY DEF LsAgreesWithNamei
<1> DEFINE d == dinode[n]
<1>1. n \in L \cap Dirs
  BY PathsLive, AliveParts
<1>2. ASSUME NEW token \in Names \cup Dots, NEW i \in Inodes, search_dir(d, token, i)
      PROVE  \E line \in ls(d) : line.name = token /\ SameInode(line, stat(i))
  <2>1. i # 0 /\ i # ENOTDIR
    BY DEF Inodes, ENOTDIR
  <2>2. PICK p \in Hits(d, token) : i = EntryAt(d, p).ino
    BY <1>2, <2>1 DEF search_dir
  <2>3. /\ p \in Searched(d) /\ p \in Positions /\ EntryAt(d, p).name = token
        /\ \A l \in 0 .. p[1] : d.addr[l] # 0
    BY <2>2 DEF Hits, Searched
  <2>4. p[1] \in 0 .. p[1]
    BY <2>3 DEF Positions, Logical
  <2>5. p \in Listed(d)
    BY <2>1, <2>2, <2>3, <2>4 DEF Listed, Mapped
  <2>6. Line(d, p) \in ls(d)
    BY <2>5 DEF ls
  <2>7. Line(d, p).name = token /\ SameInode(Line(d, p), stat(i))
    BY <2>2, <2>3 DEF Line, SameInode, stat
  <2> QED
    BY <2>6, <2>7
<1>3. ASSUME NEW line \in ls(d)
      PROVE  search_dir(d, line.name, line.inode)
  <2>1. PICK p \in Listed(d) : line = Line(d, p)
    BY DEF ls
  <2>2. line.name = EntryAt(d, p).name /\ line.inode = EntryAt(d, p).ino
    BY <2>1 DEF Line
  <2>3. p \in Mapped(d) /\ EntryAt(d, p).ino # 0
    BY DEF Listed
  <2>4. search_dir(d, EntryAt(d, p).name, EntryAt(d, p).ino)
    BY <1>1, <2>3, LiveSearch
  <2> QED
    BY <2>2, <2>4
<1>4. Cardinality(ls(d)) = Cardinality(Listed(d))
  BY <1>1, LineForEach
<1> QED
  BY <1>2, <1>3, <1>4

-----------------------------------------------------------------------------
(* What a step does to the tree of the reachable inodes.                   *)

\* The entries of table t do not lead out of S.
Shut(S, t, dirs) == \A d \in S \cap dirs : \A q \in Kids(t, d) : t[d][q].ino \in S

\* R is the least set with the root for which that is so; its entries.
LeastShut(R, t, dirs) ==
  /\ ROOT_INODE \in R /\ R \subseteq Inodes /\ Shut(R, t, dirs)
  /\ \A S \in SUBSET Inodes : ROOT_INODE \in S /\ Shut(S, t, dirs) => R \subseteq S

EdgesIn(R, t, dirs) == UNION {{d} \X Kids(t, d) : d \in R \cap dirs}

\* The reachable inodes and their entries, in terms of the table.
Seen ==
  /\ LeastShut(Reachable, Table, Dirs)
  /\ Edges = EdgesIn(Reachable, Table, Dirs)
  /\ \A d \in Reachable : Entries(d) = IF d \in Dirs THEN Kids(Table, d) ELSE {}

\* That is what they are: NInodes stages are enough.
LEMMA AliveSeen ==
  ASSUME NEW L, Alive(L)
  PROVE  Seen
<1>1. L \subseteq Inodes /\ ROOT_INODE \in L /\ Reachable \subseteq L /\ DiskTypeOK
  BY AliveParts, ReachableLives DEF Alive
<1>2. \A d \in L : Children(d) \subseteq L
  BY AliveParts DEF Children
<1>3. ROOT_INODE \in Reachable /\ \A d \in Reachable : Children(d) \subseteq Reachable
  BY <1>1, <1>2, ReachableClosed
<1>4. \A d \in Inodes : Entries(d) = IF d \in Dirs THEN Kids(Table, d) ELSE {}
  BY <1>1, EntriesAreKids
<1>5. \A d \in Inodes : \A q \in Entries(d) : Child(d, q) = Table[d][q].ino
  BY <1>1, EntriesAreKids DEF Child
<1>6. \A d \in Inodes \cap Dirs : Children(d) = {Table[d][q].ino : q \in Kids(Table, d)}
  BY <1>4, <1>5 DEF Children
<1>7. \A d \in Inodes \ Dirs : Children(d) = {}
  BY <1>4 DEF Children
<1>8. Shut(Reachable, Table, Dirs)
  BY <1>1, <1>3, <1>6 DEF Shut
<1>9. ASSUME NEW S \in SUBSET Inodes, ROOT_INODE \in S, Shut(S, Table, Dirs)
      PROVE  Reachable \subseteq S
  <2>1. \A d \in S : Children(d) \subseteq S
    BY <1>6, <1>7, <1>9 DEF Shut
  <2> QED
    BY <1>9, <2>1, ReachableWithin
<1>10. LeastShut(Reachable, Table, Dirs)
  BY <1>1, <1>3, <1>8, <1>9 DEF LeastShut
<1>11. Edges = EdgesIn(Reachable, Table, Dirs)
  <2>1. \A d \in Reachable \ Dirs : {d} \X Entries(d) = {}
    BY <1>1, <1>4
  <2>2. \A d \in Reachable \cap Dirs : {d} \X Entries(d) = {d} \X Kids(Table, d)
    BY <1>1, <1>4
  <2> QED
    BY <2>1, <2>2 DEF Edges, EdgesIn
<1> QED
  BY <1>1, <1>4, <1>10, <1>11 DEF Seen

\* A write that leaves the live directories as they are.
SameOn(L, t, dirs, t2, dirs2) ==
  /\ \A n \in L : n \in dirs <=> n \in dirs2
  /\ \A n \in L \cap dirs, q \in Positions : t2[n][q] = t[n][q]

\* It changes neither what is reachable nor an entry.
LEMMA ShutSame ==
  ASSUME NEW L \in SUBSET Inodes, NEW R, NEW R2, NEW t, NEW t2, NEW dirs, NEW dirs2,
         ROOT_INODE \in L, Shut(L, t, dirs), SameOn(L, t, dirs, t2, dirs2),
         LeastShut(R, t, dirs), LeastShut(R2, t2, dirs2)
  PROVE  R2 = R /\ EdgesIn(R2, t2, dirs2) = EdgesIn(R, t, dirs)
<1>1. \A n \in L \cap dirs : Kids(t2, n) = Kids(t, n) /\ \A q \in Kids(t, n) : t2[n][q] = t[n][q]
  BY DEF Kids, SameOn
<1>2. \A S \in SUBSET L : S \cap dirs2 = S \cap dirs
  BY DEF SameOn
<1>3. \A S \in SUBSET L : Shut(S, t, dirs) <=> Shut(S, t2, dirs2)
  BY <1>1, <1>2 DEF Shut
<1>4. R \subseteq L
  BY DEF LeastShut
<1>5. Shut(L, t2, dirs2)
  BY <1>3
<1>6. R2 \subseteq L
  BY <1>5 DEF LeastShut
<1>7. R2 = R
  BY <1>3, <1>4, <1>6 DEF LeastShut
<1>8. R \cap dirs2 = R \cap dirs /\ \A d \in R \cap dirs : Kids(t2, d) = Kids(t, d)
  BY <1>1, <1>2, <1>4
<1> QED
  BY <1>7, <1>8 DEF EdgesIn

\* One more live inode: whatever was reachable still is.
LEMMA ShutAdds ==
  ASSUME NEW L \in SUBSET Inodes, NEW R, NEW R2, NEW t, NEW t2, NEW dirs, NEW dirs2,
         Shut(L, t, dirs), LeastShut(R, t, dirs), LeastShut(R2, t2, dirs2),
         NEW n, NEW p, NEW q0, NEW name, Adds(L, t, dirs, t2, dirs2, n, p, q0, name)
  PROVE  R \subseteq R2
<1> DEFINE S == R2 \cap L
<1>1. ROOT_INODE \in S /\ S \in SUBSET Inodes
  BY DEF LeastShut, Adds
<1>2. Shut(S, t, dirs)
  <2> SUFFICES ASSUME NEW d \in S \cap dirs, NEW q \in Kids(t, d) PROVE t[d][q].ino \in S
    BY DEF Shut
  <2>1. d \in dirs2 /\ t2[d][q] = t[d][q] /\ q \in Positions
    BY DEF Adds, Kids
  <2>2. q \in Kids(t2, d)
    BY <2>1 DEF Kids
  <2> QED
    BY <2>1, <2>2 DEF LeastShut, Shut
<1> QED
  BY <1>1, <1>2 DEF LeastShut

\* So it is when a new directory gets its dots.
LEMMA ShutFills ==
  ASSUME NEW L \in SUBSET Inodes, NEW R, NEW R2, NEW t, NEW t2, NEW dirs, NEW dirs2,
         ROOT_INODE \in L, Shut(L, t, dirs), LeastShut(R, t, dirs), LeastShut(R2, t2, dirs2),
         NEW n, NEW p, NEW q0, Fills(L, t, dirs, t2, dirs2, n, p, q0)
  PROVE  R \subseteq R2
<1> DEFINE S == R2 \cap L
<1>1. ROOT_INODE \in S /\ S \in SUBSET Inodes
  BY DEF LeastShut
<1>2. Shut(S, t, dirs)
  <2> SUFFICES ASSUME NEW d \in S \cap dirs, NEW q \in Kids(t, d) PROVE t[d][q].ino \in S
    BY DEF Shut
  <2>1. d \in dirs2 /\ t2[d][q] = t[d][q] /\ q \in Positions
    BY DEF Fills, Kids
  <2>2. q \in Kids(t2, d)
    BY <2>1 DEF Kids
  <2> QED
    BY <2>1, <2>2 DEF LeastShut, Shut
<1> QED
  BY <1>1, <1>2 DEF LeastShut

\* One less, which has no entries: nothing else is lost.
LEMMA ShutRemoves ==
  ASSUME NEW L \in SUBSET Inodes, NEW R, NEW R2, NEW t, NEW t2, NEW dirs, NEW dirs2,
         Shut(L, t, dirs), LeastShut(R, t, dirs), LeastShut(R2, t2, dirs2),
         NEW n, NEW p, NEW q0, Removes(L, t, dirs, t2, dirs2, n, p, q0)
  PROVE  R \ {n} \subseteq R2
<1> DEFINE S == (R2 \cup {n}) \cap L
<1>1. ROOT_INODE \in S /\ S \in SUBSET Inodes
  BY DEF LeastShut, Removes
<1>2. Shut(S, t, dirs)
  <2> SUFFICES ASSUME NEW d \in S \cap dirs, NEW q \in Kids(t, d), t[d][q].ino # n
               PROVE  t[d][q].ino \in S
    BY DEF Shut, Removes
  <2>1. d # n /\ d \in dirs2 /\ t2[d][q] = t[d][q] /\ q \in Positions
    BY DEF Removes, Kids
  <2>2. q \in Kids(t2, d)
    BY <2>1 DEF Kids
  <2> QED
    BY <2>1, <2>2 DEF LeastShut, Shut
<1> QED
  BY <1>1, <1>2 DEF LeastShut


\* What writes an inode or an entry, when no read or write fails.
LEMMA TreeWriters ==
  ASSUME OneKill, ProcTypeOK, Next, TreeWritten
  PROVE  \/ InitInode \/ ZeroFresh \/ WriteDotEntries \/ AddEntryZeroes \/ AddEntryInNewBlock
         \/ ZeroFreed \/ BlankOut
         \/ AddEntryInSlot \/ detach_entry \/ update_inode
<1>1. ~ UNCHANGED <<dinode, dirents>>
  BY DEF TreeWritten
<1>2. ~Fault
  BY <1>1, NoFailedIo DEF Kill, diskVars
<1>3. ~Start
  BY <1>1 DEF Start, Invoke, diskVars
<1>4. ~(WalkDown \/ WalkFails \/ WalkEnds)
  BY <1>1 DEF WalkDown, WalkFails, WalkEnds, diskVars
<1>5. ~(CreateLookup \/ CreateLookupFails \/ NoFreeInode \/ NoFreeBlock \/ HostFails
        \/ FileCopied \/ AddEntryFails)
  BY <1>1 DEF CreateLookup, CreateLookupFails, NoFreeInode, NoFreeBlock, HostFails, FileCopied,
              AddEntryFails, diskVars
<1>6. ~(alloc_inode \/ alloc_block \/ CopyChunk \/ AddEntryAllocates)
  BY <1>1 DEF alloc_inode, alloc_block, CopyChunk, AddEntryAllocates, SetInodeBit, SetBlockBit,
              WriteChunk
<1>7. ~(RmLookupFails \/ RmFile \/ RmEmptyDir \/ RmNotEmpty)
  BY <1>1 DEF RmLookupFails, RmFile, RmEmptyDir, RmDirectory, RmNotEmpty, diskVars
<1>8. ~(PutClean \/ free_block \/ free_inode)
  BY <1>1 DEF PutClean, free_block, free_inode, ClearBlockBit, ClearInodeBit, diskVars
<1> QED
  BY <1>2, <1>3, <1>4, <1>5, <1>6, <1>7, <1>8 DEF Next, Step, Create, Remove, put_inode

\* The writes that keep away from the live directories.
LEMMA WritesElsewhere ==
  ASSUME NEW L, Before(L),
         \/ InitInode \/ ZeroFresh \/ WriteDotEntries \/ AddEntryZeroes \/ AddEntryInNewBlock
         \/ ZeroFreed \/ BlankOut
  PROVE  Unharmed(L)
<1>1. /\ LiveDisk(L) /\ L \subseteq Inodes /\ DiskTypeOK /\ LiveTool(L)
  BY BeforeParts
<1>2. CASE InitInode
  <2>1. fresh \notin L /\ write_disk_inode(fresh, NewInode)
    BY <1>1, <1>2 DEF InitInode, LiveTool
  <2> QED
    BY <1>1, <2>1, UnharmedWrites DEF Allocating
<1>3. CASE ZeroFresh \/ WriteDotEntries \/ AddEntryZeroes \/ AddEntryInNewBlock
  <2>1. pc \in Holding
    BY <1>3 DEF ZeroFresh, WriteDotEntries, AddEntryZeroes, AddEntryInNewBlock, Holding
  <2>2. fresh \notin Taken(L)
    BY <1>1, <2>1 DEF LiveTool, FreshBlock, Spare
  <2>3. \/ zero_block(fresh) \/ WriteDots(fresh, core["target"].num, core["parent"].num)
        \/ WriteDirent(fresh, 0, NewEntry)
    BY <1>3 DEF ZeroFresh, WriteDotEntries, AddEntryZeroes, AddEntryInNewBlock
  <2> QED
    BY <1>1, <2>2, <2>3, UnharmedWrites DEF Allocating
<1>4. CASE ZeroFreed
  <2>1. fresh \notin Taken(L) /\ zero_block(fresh)
    BY <1>1, <1>4 DEF ZeroFreed, LiveTool
  <2> QED
    BY <1>1, <2>1, UnharmedWrites DEF Allocating
<1>5. CASE BlankOut
  <2>1. target.num \notin L /\ write_disk_inode(target.num, Released)
    BY <1>5, ReleasingTool DEF BlankOut
  <2> QED
    BY <1>1, <2>1, UnharmedWrites DEF Allocating
<1> QED
  BY <1>2, <1>3, <1>4, <1>5

\* The others add one live inode, fill a new directory, or take one away.
Changes(L, t, dirs, t2, dirs2) ==
  \E n \in Inodes, P \in Inodes, p \in Positions :
    \/ Adds(L, t, dirs, t2, dirs2, n, P, p, base)
    \/ Fills(L, t, dirs, t2, dirs2, n, P, p)
    \/ Removes(L, t, dirs, t2, dirs2, n, P, p)

\* They do nothing else; put_inode may also write what the disk shows already.
LEMMA WritesTree ==
  ASSUME MaxKills <= 1, NEW L, Before(L), AddEntryInSlot \/ detach_entry \/ update_inode
  PROVE  \/ SameOn(L, Table, Dirs, Table', Dirs')
         \/ Changes(L, Table, Dirs, Table', Dirs')
<1>1. L \subseteq Inodes /\ LiveTool(L)
  BY BeforeParts
<1>2. CASE AddEntryInSlot
  BY <1>2, LiveAddSlot DEF Changes
<1>3. CASE detach_entry
  BY <1>3, LiveDetach DEF Changes
<1>4. CASE update_inode
  <2>1. pc \in Putting /\ pc = "put"
    BY <1>4 DEF update_inode, Putting
  <2>2. who \in {"target", "parent"} /\ ParentDone(L)
    BY <2>1, PuttingTool
  <2>3. CASE who = "target" /\ target.num \notin L
    <3>1. Unharmed(L)
      BY <1>4, <2>3, LivePutUnnamed
    <3> QED
      BY <1>1, <3>1, UnharmedView DEF SameOn
  <2>4. CASE who = "target" /\ target.num \in L
    BY <1>4, <2>4, LivePutNamed DEF Changes
  <2>5. CASE who = "parent" /\ Settled(L)
    BY <1>4, <2>5, LivePutSettled DEF SameOn
  <2>6. CASE who = "parent" /\ ~Settled(L)
    <3>1. PICK n \in Inodes \ L : Grown(L, n, dinode[n])
      BY <2>2, <2>6 DEF ParentDone
    <3> QED
      BY <1>4, <2>6, <3>1, LivePutGrown DEF Changes
  <2> QED
    BY <2>2, <2>3, <2>4, <2>5, <2>6
<1> QED
  BY <1>2, <1>3, <1>4

\* Until put_inode nothing in core is DIRTY and nothing has failed; after a failure
\* nothing is DIRTY either.
DirtyLast ==
  /\ pc \notin Putting => status = EXIT_SUCCESS
  /\ pc \notin Putting \/ status = EXIT_FAILURE => parent.dirty = CLEAN /\ target.dirty = CLEAN

\* Every step keeps it so.
LEMMA DirtyLastStep ==
  ASSUME OneKill, ProcTypeOK, DirtyLast, [Next]_vars
  PROVE  DirtyLast'
<1>1. core \in [{"parent", "target"} -> inode] /\ status \in {EXIT_SUCCESS, EXIT_FAILURE}
  BY DEF ProcTypeOK
<1>2. /\ parent = core["parent"] /\ parent' = core'["parent"]
      /\ target = core["target"] /\ target' = core'["target"]
  BY DEF parent, target
<1>3. ASSUME Exit
      PROVE  DirtyLast'
  BY <1>2, <1>3 DEF Exit, DirtyLast, NoInodes, NULL, Putting
<1>4. ASSUME NEW c \in [{"parent", "target"} -> inode], error_handler(c),
             c["parent"].dirty = CLEAN, c["target"].dirty = CLEAN
      PROVE  DirtyLast'
  <2>1. core'["parent"].dirty = CLEAN /\ core'["target"].dirty = CLEAN /\ pc' = "put"
    BY <1>4 DEF error_handler, inode
  <2> QED
    BY <1>2, <2>1 DEF DirtyLast, Putting
<1>5. ASSUME pc \notin Putting, error_handler(core)
      PROVE  DirtyLast'
  BY <1>1, <1>2, <1>4, <1>5 DEF DirtyLast
<1>6. ASSUME pc \notin Putting, status' = status,
             core'["parent"].dirty = CLEAN, core'["target"].dirty = CLEAN
      PROVE  DirtyLast'
  BY <1>2, <1>6 DEF DirtyLast
<1>7. ASSUME pc \notin Putting, pc' = "put", status' = status
      PROVE  DirtyLast'
  BY <1>7 DEF DirtyLast, Putting, EXIT_SUCCESS, EXIT_FAILURE
<1>8. ASSUME pc \in Putting, pc' \in Putting, status' = status,
             core'["parent"].dirty = core["parent"].dirty,
             core'["target"].dirty \in {CLEAN, core["target"].dirty}
      PROVE  DirtyLast'
  BY <1>2, <1>8 DEF DirtyLast
<1>9. ASSUME pc \in Putting, PutDone
      PROVE  DirtyLast'
  <2>1. CASE who = "target"
    <3>1. pc' = "put" /\ status' = status /\ core' = [core EXCEPT !["target"] = NULL]
      BY <1>9, <2>1 DEF PutDone
    <3>2. core'["parent"] = core["parent"] /\ core'["target"].dirty = CLEAN
      BY <1>1, <3>1 DEF NULL
    <3> QED
      BY <1>8, <1>9, <3>1, <3>2 DEF Putting
  <2>2. CASE who # "target"
    BY <1>3, <1>9, <2>2 DEF PutDone
  <2> QED
    BY <2>1, <2>2
<1>10. CASE Fault
  BY <1>3, <1>10, NoFailedIo DEF Kill
<1>11. CASE Start \/ WalkDown \/ WalkEnds \/ WalkFails
  <2>1. pc \notin Putting
    BY <1>11 DEF Start, Invoke, WalkDown, WalkEnds, WalkFails, Putting
  <2>2. CASE WalkFails
    BY <1>5, <2>1, <2>2 DEF WalkFails
  <2>3. CASE WalkEnds
    BY <1>2, <1>6, <2>1, <2>3 DEF WalkEnds, DirtyLast
  <2>4. CASE Start \/ WalkDown
    <3>1. \E n : core' = [core EXCEPT !["parent"] = get_inode(n)]
      BY <2>4 DEF Start, Invoke, WalkDown
    <3>2. status' = status
      BY <2>4 DEF Start, Invoke, WalkDown
    <3>3. core'["parent"].dirty = CLEAN /\ core'["target"] = core["target"]
      BY <1>1, <3>1 DEF get_inode, InCore
    <3> QED
      BY <1>2, <1>6, <2>1, <3>2, <3>3 DEF DirtyLast
  <2> QED
    BY <1>11, <2>2, <2>3, <2>4
<1>12. CASE Create
  <2>1. pc \notin Putting
    BY <1>12 DEF Create, CreateLookup, CreateLookupFails, alloc_inode, NoFreeInode, InitInode,
                 alloc_block, NoFreeBlock, HostFails, ZeroFresh, WriteDotEntries, CopyChunk,
                 FileCopied, AddEntryInSlot, AddEntryAllocates, AddEntryZeroes,
                 AddEntryInNewBlock, AddEntryFails, Putting
  <2>2. CASE CreateLookupFails \/ NoFreeInode \/ NoFreeBlock \/ HostFails \/ AddEntryFails
    BY <1>5, <2>1, <2>2 DEF CreateLookupFails, NoFreeInode, NoFreeBlock, HostFails, AddEntryFails
  <2>3. CASE CreateLookup \/ alloc_inode \/ alloc_block \/ ZeroFresh \/ AddEntryAllocates
    BY <1>2, <1>6, <2>1, <2>3
       DEF CreateLookup, alloc_inode, alloc_block, ZeroFresh, AddEntryAllocates, DirtyLast
  <2>4. CASE InitInode
    <3>1. core' = [core EXCEPT !["target"] = InCore(fresh, NewInode)] /\ status' = status
      BY <2>4 DEF InitInode
    <3>2. core'["target"].dirty = CLEAN /\ core'["parent"] = core["parent"]
      BY <1>1, <3>1 DEF InCore
    <3> QED
      BY <1>2, <1>6, <2>1, <3>1, <3>2 DEF DirtyLast
  <2>5. CASE WriteDotEntries \/ CopyChunk \/ FileCopied \/ AddEntryZeroes
    <3>1. status' = status
      BY <2>5 DEF WriteDotEntries, CopyChunk, FileCopied, AddEntryZeroes
    <3>2. /\ core'["target"].dirty = core["target"].dirty
          /\ core'["parent"].dirty = core["parent"].dirty
      BY <1>1, <2>5 DEF WriteDotEntries, CopyChunk, FileCopied, AddEntryZeroes, inode
    <3> QED
      BY <1>2, <1>6, <2>1, <3>1, <3>2 DEF DirtyLast
  <2>6. CASE AddEntryInSlot \/ AddEntryInNewBlock
    BY <1>7, <2>1, <2>6 DEF AddEntryInSlot, AddEntryInNewBlock
  <2> QED
    BY <1>12, <2>2, <2>3, <2>4, <2>5, <2>6 DEF Create
<1>13. CASE Remove
  <2>1. pc \notin Putting
    BY <1>13 DEF Remove, RmLookupFails, RmFile, RmEmptyDir, RmDirectory, RmNotEmpty, Target,
                 detach_entry, Putting
  <2>2. CASE RmLookupFails
    BY <1>5, <2>1, <2>2 DEF RmLookupFails
  <2>3. CASE RmFile \/ RmEmptyDir
    <3>1. status' = status
      BY <2>3 DEF RmFile, RmEmptyDir, RmDirectory
    <3>2. /\ core'["target"].dirty = CLEAN
          /\ core'["parent"].dirty = core["parent"].dirty
      <4>1. CASE RmFile
        <5>1. PICK n \in Inodes :
                \E m : core' = [core EXCEPT !["target"] = [get_inode(n) EXCEPT !.nlink = m]]
          BY <4>1 DEF RmFile
        <5> QED
          BY <1>1, <5>1 DEF get_inode, InCore
      <4>2. CASE RmEmptyDir
        <5>1. PICK n \in Inodes :
                core' = [core EXCEPT !["target"] = [get_inode(n) EXCEPT !.nlink = 0],
                                     !["parent"].nlink = Unlinked(@)]
          BY <4>2 DEF RmEmptyDir, RmDirectory
        <5> QED
          BY <1>1, <5>1 DEF get_inode, InCore, inode
      <4> QED
        BY <2>3, <4>1, <4>2
    <3> QED
      BY <1>2, <1>6, <2>1, <3>1, <3>2 DEF DirtyLast
  <2>4. CASE RmNotEmpty
    <3>1. PICK n \in Inodes : error_handler([core EXCEPT !["target"] = get_inode(n)]) /\ Target(n)
      BY <2>4 DEF RmNotEmpty
    <3>2. status' = EXIT_FAILURE /\ tool = "rm" /\ pc' = "put"
          /\ core' = [core EXCEPT !["target"] = get_inode(n)]
      BY <3>1 DEF error_handler, Target, Creators
    <3>3. core'["target"].dirty = CLEAN /\ core'["parent"] = core["parent"]
      BY <1>1, <3>2 DEF get_inode, InCore
    <3> QED
      BY <1>2, <2>1, <3>2, <3>3 DEF DirtyLast, Putting
  <2>5. CASE detach_entry
    BY <1>7, <2>1, <2>5 DEF detach_entry
  <2> QED
    BY <1>13, <2>2, <2>3, <2>4, <2>5 DEF Remove
<1>14. CASE put_inode
  <2>1. pc \in Putting
    BY <1>14 DEF put_inode, PutClean, update_inode, free_block, Unmaps, Releasing, ZeroFreed,
                 BlankOut, free_inode, Putting
  <2>2. CASE PutClean \/ update_inode \/ free_inode
    BY <1>9, <2>1, <2>2 DEF PutClean, update_inode, free_inode
  <2>3. CASE free_block \/ ZeroFreed \/ BlankOut
    <3>1. status' = status /\ pc' \in Putting
      BY <2>3 DEF free_block, Unmaps, ZeroFreed, BlankOut, Putting
    <3>2. /\ core'["target"].dirty = core["target"].dirty
          /\ core'["parent"].dirty = core["parent"].dirty
      <4>1. CASE free_block
        <5>1. PICK l \in Logical : core' = [core EXCEPT ![who] = [@ EXCEPT !.addr[l] = 0]]
          BY <4>1 DEF free_block, Unmaps
        <5> QED
          BY <1>1, <5>1 DEF inode
      <4>2. CASE ZeroFreed \/ BlankOut
        BY <4>2 DEF ZeroFreed, BlankOut
      <4> QED
        BY <2>3, <4>1, <4>2
    <3> QED
      BY <1>8, <2>1, <3>1, <3>2
  <2> QED
    BY <1>14, <2>2, <2>3 DEF put_inode
<1>15. CASE UNCHANGED vars
  BY <1>15, <1>2 DEF vars, DirtyLast
<1> QED
  BY <1>10, <1>11, <1>12, <1>13, <1>14, <1>15 DEF Next, Step

\* What the action properties need of a state.
Ready == Inv /\ UnlinkedIsBlank /\ LiveTree /\ DirtyLast /\ Seen

\* At every step of a run of OneKill.
LEMMA AlwaysReady ==
  ASSUME OneKill
  PROVE  Spec => []Ready
<1>1. Init => DirtyLast
  <2> SUFFICES ASSUME Init PROVE DirtyLast
    OBVIOUS
  <2>1. NULL.dirty = CLEAN
    BY DEF NULL
  <2>2. parent = NULL /\ target = NULL
    BY DEF Init, parent, target, NoInodes
  <2>3. pc = "idle" /\ status = EXIT_SUCCESS
    BY DEF Init
  <2> QED
    BY <2>1, <2>2, <2>3 DEF DirtyLast, Putting
<1>2. Inv /\ UnlinkedIsBlank /\ LiveTree => Seen
  BY AliveSeen DEF Inv, TypeOK, LiveTree, Alive
<1>3. Inv => ProcTypeOK
  BY DEF Inv, TypeOK
<1>4. Init => Inv /\ UnlinkedIsBlank
  BY InvInit, InitIsHalf, UnlinkedInit
<1>5. Inv /\ UnlinkedIsBlank /\ DirtyLast /\ [Next]_vars
        => (Inv /\ UnlinkedIsBlank /\ DirtyLast)'
  BY <1>3, InvStep, UnlinkedStep, DirtyLastStep
<1> QED
  BY <1>1, <1>2, <1>4, <1>5, TreeLives, PTL DEF Spec, Ready

\* One write of the tree, and what it does to the reachable inodes.
LEMMA TreeWrite ==
  ASSUME OneKill, Ready, Seen', Next, TreeWritten
  PROVE  /\ Edges' = Edges \/ AddEntryInSlot \/ detach_entry \/ update_inode
         /\ \A d \in Reachable : Entries(d) # {} => d \in Reachable'
<1>1. PICK L \in SUBSET Inodes : LiveInv(L)
  BY DEF Ready, LiveTree
<1>2. Before(L) /\ ProcTypeOK /\ MaxKills <= 1
  BY <1>1 DEF Ready, Before, Inv, TypeOK, OneKill
<1>3. ROOT_INODE \in L /\ Shut(L, Table, Dirs)
  <2>1. LiveDisk(L)
    BY <1>1 DEF LiveInv
  <2>2. ROOT_INODE \in L /\ KidsStay(L, Table, Dirs)
    BY <2>1 DEF LiveDisk, InodesOf, TreeOf
  <2> QED
    BY <2>2 DEF KidsStay, Shut
<1>4. /\ LeastShut(Reachable, Table, Dirs) /\ Edges = EdgesIn(Reachable, Table, Dirs)
      /\ \A d \in Reachable : Entries(d) # {} => d \in Dirs /\ Kids(Table, d) # {}
  BY DEF Ready, Seen
<1>5. PICK R, t, dirs : /\ R = Reachable' /\ t = Table' /\ dirs = Dirs'
                        /\ LeastShut(R, t, dirs) /\ Edges' = EdgesIn(R, t, dirs)
  BY DEF Seen
<1>6. ASSUME SameOn(L, Table, Dirs, Table', Dirs')
      PROVE  R = Reachable /\ Edges' = Edges
  BY <1>3, <1>4, <1>5, <1>6, ShutSame
<1>7. CASE InitInode \/ ZeroFresh \/ WriteDotEntries \/ AddEntryZeroes \/ AddEntryInNewBlock
           \/ ZeroFreed \/ BlankOut
  <2>1. Unharmed(L)
    BY <1>2, <1>7, WritesElsewhere
  <2>2. SameOn(L, Table, Dirs, Table', Dirs')
    BY <2>1, UnharmedView DEF SameOn
  <2> QED
    BY <1>5, <1>6, <2>2
<1>8. CASE AddEntryInSlot \/ detach_entry \/ update_inode
  <2>1. CASE SameOn(L, Table, Dirs, Table', Dirs')
    BY <1>5, <1>6, <1>8, <2>1
  <2>2. CASE Changes(L, Table, Dirs, Table', Dirs')
    <3>1. PICK n \in Inodes, P \in Inodes, p \in Positions :
            \/ Adds(L, Table, Dirs, t, dirs, n, P, p, base)
            \/ Fills(L, Table, Dirs, t, dirs, n, P, p)
            \/ Removes(L, Table, Dirs, t, dirs, n, P, p)
      BY <1>5, <2>2 DEF Changes
    <3>2. CASE Adds(L, Table, Dirs, t, dirs, n, P, p, base)
      BY <1>3, <1>4, <1>5, <1>8, <3>2, ShutAdds
    <3>3. CASE Fills(L, Table, Dirs, t, dirs, n, P, p)
      BY <1>3, <1>4, <1>5, <1>8, <3>3, ShutFills
    <3>4. CASE Removes(L, Table, Dirs, t, dirs, n, P, p)
      <4>1. Reachable \ {n} \subseteq R
        BY <1>3, <1>4, <1>5, <3>4, ShutRemoves
      <4>2. n \in Dirs => Kids(Table, n) = {}
        BY <3>4 DEF Removes
      <4> QED
        BY <1>4, <1>5, <1>8, <4>1, <4>2
    <3> QED
      BY <3>1, <3>2, <3>3, <3>4
  <2> QED
    BY <1>2, <1>8, <2>1, <2>2, WritesTree
<1> QED
  BY <1>2, <1>7, <1>8, TreeWriters

-----------------------------------------------------------------------------
(* The theorems.                                                           *)

\* At every step of a run of OneKill.
LEMMA AlwaysAlive ==
  ASSUME OneKill
  PROVE  Spec => [](TypeOK /\ \E L \in SUBSET Inodes : Alive(L))
<1>1. Inv /\ UnlinkedIsBlank /\ LiveTree => TypeOK /\ \E L \in SUBSET Inodes : Alive(L)
  BY DEF Inv, TypeOK, LiveTree, Alive
<1>2. Inv /\ UnlinkedIsBlank /\ [Next]_vars => (Inv /\ UnlinkedIsBlank)'
  BY InvStep, UnlinkedStep
<1>3. Init => Inv /\ UnlinkedIsBlank
  BY InvInit, InitIsHalf, UnlinkedInit
<1>4. Spec => []LiveTree
  BY TreeLives
<1> QED
  BY <1>1, <1>2, <1>3, <1>4, PTL DEF Spec

\* No entry that can be reached names an inode that is free or blank, at every step
\* and wherever mkdir, cp or rm is killed (alloc_inode, detach_entry, free_inode).
THEOREM EntriesNameInodes ==
  ASSUME OneKill
  PROVE  Spec => []NoDanglingEntries
<1>1. (\E L \in SUBSET Inodes : Alive(L)) => NoDanglingEntries
  BY AliveEntries
<1> QED
  BY <1>1, AlwaysAlive, PTL

\* No block of a reachable inode is free, metadata or shared, wherever a tool is killed:
\* no later alloc_block hands out a block of the tree (allocator.c, truncate_inode).
THEOREM BlocksAreOwned ==
  ASSUME OneKill
  PROVE  Spec => []ReachableBlocksSafe
<1>1. (\E L \in SUBSET Inodes : Alive(L)) => ReachableBlocksSafe
  BY AliveBlocks
<1> QED
  BY <1>1, AlwaysAlive, PTL

\* The reachable directories make up a tree without cycles or second names, wherever a
\* tool is killed (add_entry, detach_entry).
THEOREM TreeStaysTree ==
  ASSUME OneKill
  PROVE  Spec => []TreeShaped
<1>1. (\E L \in SUBSET Inodes : Alive(L)) => TreeShaped
  BY AliveTree
<1> QED
  BY <1>1, AlwaysAlive, PTL

\* A directory's link count is wrong by one at most after a kill (mkdir.c:198, rm.c:199).
THEOREM LinkCountsNear ==
  ASSUME OneKill
  PROVE  Spec => []LinkCountsWithinKills
<1>1. TypeOK /\ (\E L \in SUBSET Inodes : Alive(L)) => LinkCountsWithinKills
  BY AliveLinks
<1> QED
  BY <1>1, AlwaysAlive, PTL

\* The root directory keeps its inode and its mode (rm.c:117).
THEOREM RootStays ==
  ASSUME OneKill
  PROVE  Spec => []RootNeverDeleted
<1>1. (\E L \in SUBSET Inodes : Alive(L)) => RootNeverDeleted
  BY AliveRoot
<1> QED
  BY <1>1, AlwaysAlive, PTL

\* search_dir finds every entry of the tree, also after a kill: blocks are mapped without
\* gaps and no name occurs twice (dir.c:22-26).
THEOREM EntriesAreFound ==
  ASSUME OneKill
  PROVE  Spec => []EntriesFound
<1>1. (\E L \in SUBSET Inodes : Alive(L)) => EntriesFound
  BY AliveFound
<1> QED
  BY <1>1, AlwaysAlive, PTL

\* ls prints what namei finds, a line for each entry, also after a kill (ls.c, dir.c).
THEOREM LsAndNameiAgree ==
  ASSUME OneKill
  PROVE  Spec => []LsAgreesWithNamei
<1>1. (\E L \in SUBSET Inodes : Alive(L)) => LsAgreesWithNamei
  BY AliveLs
<1> QED
  BY <1>1, AlwaysAlive, PTL

\* stat and ls never show an inode that is free, also after a kill (stat.c, ls.c).
THEOREM NothingUnknown ==
  ASSUME OneKill
  PROVE  Spec => []NothingUnknownShown
<1>1. (\E L \in SUBSET Inodes : Alive(L)) => NothingUnknownShown
  BY AliveStat
<1> QED
  BY <1>1, AlwaysAlive, PTL

\* Nothing that holds entries drops out of the tree, wherever mkdir, cp or rm is killed:
\* rm looks at every block of a directory before it detaches it (rm.c:169-185).
THEOREM FullDirsStay ==
  ASSUME OneKill
  PROVE  Spec => NonEmptyDirsStay
<1>1. Ready /\ Ready' /\ [Next]_vars
        => [TreeWritten => {d \in Reachable : Entries(d) # {}} \subseteq Reachable']_vars
  <2> SUFFICES ASSUME Ready, Ready', Next, TreeWritten
               PROVE  {d \in Reachable : Entries(d) # {}} \subseteq Reachable'
    OBVIOUS
  <2> QED
    BY TreeWrite DEF Ready
<1> QED
  BY <1>1, AlwaysReady, PTL DEF Spec, NonEmptyDirsStay

\* A tool that reports failure has added no entry to the tree and removed none: that is
\* left to the last fallible step and to put_inode of what is DIRTY (mkdir.c:200, rm.c:210).
THEOREM NamesOutliveFailure ==
  ASSUME OneKill
  PROVE  Spec => FailureKeepsNames
<1>1. Ready /\ Ready' /\ [Next]_vars
        => [TreeWritten /\ Edges' # Edges => status = EXIT_SUCCESS /\ pc' \in {"put", "idle"}]_vars
  <2> SUFFICES ASSUME Ready, Ready', Next, TreeWritten, Edges' # Edges
               PROVE  status = EXIT_SUCCESS /\ pc' \in {"put", "idle"}
    OBVIOUS
  <2>1. AddEntryInSlot \/ detach_entry \/ update_inode
    BY TreeWrite DEF Ready
  <2>2. CASE AddEntryInSlot \/ detach_entry
    BY <2>2 DEF AddEntryInSlot, detach_entry, Ready, DirtyLast, Putting
  <2>3. CASE update_inode
    <3>1. held.dirty = DIRTY /\ PutDone
      BY <2>3 DEF update_inode
    <3>2. status \in {EXIT_SUCCESS, EXIT_FAILURE} /\ who \in {"parent", "target"}
      BY DEF Ready, Inv, TypeOK, ProcTypeOK
    <3>3. parent.dirty = DIRTY \/ target.dirty = DIRTY
      BY <3>1, <3>2 DEF held, parent, target
    <3>4. status = EXIT_SUCCESS
      BY <3>2, <3>3 DEF Ready, DirtyLast, CLEAN, DIRTY
    <3> QED
      BY <3>1, <3>4 DEF PutDone, Exit
  <2> QED
    BY <2>1, <2>2, <2>3
<1> QED
  BY <1>1, AlwaysReady, PTL DEF Spec, FailureKeepsNames

-----------------------------------------------------------------------------
(* Sizes and blocks as stat prints them.                                   *)

\* Quotient and remainder, as the library defines them.
LEMMA Division ==
  ASSUME NEW n \in Nat, NEW d \in Nat \ {0}
  PROVE  n \div d \in Nat /\ (n % d) \in 0 .. d - 1 /\ n = (n \div d) * d + (n % d)
<1>1. n \div d \in Nat
  BY SMT
<1>2. (n % d) \in 0 .. d - 1
  BY SMT
<1>3. n = d * (n \div d) + (n % d)
  BY SMT
<1>4. d * (n \div d) = (n \div d) * d
  BY <1>1
<1> QED
  BY <1>1, <1>2, <1>3, <1>4

\* More parts are no shorter.
LEMMA Multiples ==
  ASSUME NEW m \in Nat, NEW n \in Nat, NEW d \in Nat, m <= n
  PROVE  m * d <= n * d /\ m * d \in Nat /\ n * d \in Nat
<1>1. PICK j \in Nat : n = m + j
  BY n = m + (n - m)
<1>2. n * d = m * d + j * d /\ j * d \in Nat /\ m * d \in Nat
  BY <1>1
<1> QED
  BY <1>2

\* Quotient and remainder are unique.
LEMMA Quotient ==
  ASSUME NEW d \in Nat \ {0}, NEW a \in Nat, NEW r \in 0 .. d - 1, NEW n \in Nat, n = a * d + r
  PROVE  n \div d = a
<1>1. PICK c \in Nat, t \in 0 .. d - 1 : c = n \div d /\ n = c * d + t
  BY Division
<1>2. ASSUME NEW x \in Nat, NEW y \in Nat, NEW u \in 0 .. d - 1, NEW v \in 0 .. d - 1,
             x * d + u = y * d + v, x < y
      PROVE  FALSE
  <2>1. (x + 1) * d <= y * d /\ y * d \in Nat
    BY <1>2, Multiples
  <2>2. (x + 1) * d = x * d + d /\ x * d \in Nat
    OBVIOUS
  <2> QED
    BY <1>2, <2>1, <2>2
<1>3. ~ (a < c) /\ ~ (c < a)
  BY <1>1, <1>2
<1> QED
  BY <1>1, <1>3

\* The first m blocks are m blocks.
LEMMA BlocksOfShape ==
  ASSUME NEW d, NEW m \in 0 .. NDIRECT, HasBlocks(d, m)
  PROVE  Cardinality(Logical \ Holes(d)) = m
<1>1. m \in Nat /\ \A l \in Logical : l \in Nat /\ (l < m <=> l \in 0 .. m - 1)
  BY SizesNat DEF Logical
<1>2. 0 .. m - 1 \subseteq Logical
  BY <1>1, SizesNat DEF Logical
<1>3. Logical \ Holes(d) = 0 .. m - 1
  BY <1>1, <1>2 DEF Holes, HasBlocks
<1>4. PICK z \in Int, n \in Int : z = 0 /\ n = m - 1
  BY <1>1
<1>5. Cardinality(z .. n) = IF z > n THEN 0 ELSE n - z + 1
  BY FS_Interval
<1>6. Logical \ Holes(d) = z .. n /\ (IF z > n THEN 0 ELSE n - z + 1) = m
  BY <1>1, <1>3, <1>4
<1> QED
  BY <1>5, <1>6

\* A size that ends in block m - 1 takes m blocks.
LEMMA Shown ==
  ASSUME NEW m \in Nat, NEW n \in Nat, NEW b \in Nat \ {0}, b = BLOCKSIZE,
         n <= m * b, m # 0 => (m - 1) * b < n
  PROVE  get_file_block_size(n) = m
<1>1. m * b \in Nat
  OBVIOUS
<1>2. CASE m = 0
  <2>1. n = 0 /\ n + b - 1 = 0 * b + (b - 1) /\ n + b - 1 \in Nat /\ b - 1 \in 0 .. b - 1 /\ 0 \in Nat
    BY <1>2
  <2>2. (n + b - 1) \div b = 0
    BY <2>1, Quotient
  <2> QED
    BY <1>2, <2>2 DEF get_file_block_size
<1>3. CASE m # 0
  <2>1. (m - 1) * b = m * b - b
    OBVIOUS
  <2>2. PICK t \in 0 .. b - 1 : n + b - 1 = m * b + t
    <3>1. n + b - 1 - m * b \in 0 .. b - 1
      BY <1>1, <1>3, <2>1
    <3>2. n + b - 1 = m * b + (n + b - 1 - m * b)
      BY <1>1
    <3> QED
      BY <3>1, <3>2
  <2>3. n + b - 1 \in Nat
    OBVIOUS
  <2>4. (n + b - 1) \div b = m
    BY <2>2, <2>3, Quotient
  <2> QED
    BY <2>4 DEF get_file_block_size
<1> QED
  BY <1>2, <1>3

\* What stat prints for an inode that has a shape.
LEMMA ShapeShown ==
  ASSUME NEW d \in disk_inode, Shaped(d), d.mode = "reg" \/ Unused(d) < DIRENT_SIZE
  PROVE  get_file_block_size(i_size0(d)) = Cardinality(Logical \ Holes(d))
<1>1. PICK m \in 0 .. NDIRECT : HasBlocks(d, m) /\ SizeEndsIn(d, m)
  BY DEF Shaped
<1>2. Cardinality(Logical \ Holes(d)) = m /\ m \in Nat
  BY <1>1, BlocksOfShape, SizesNat
<1>3. d.size \in Nat /\ d.mode \in {"none", "reg", "dir"}
  BY DEF disk_inode
<1>4. PICK b \in Nat \ {0}, e \in Nat \ {0}, q \in Nat, r \in Nat :
        /\ b = BLOCKSIZE /\ e = DIRENT_SIZE /\ q = DirentsPerBlock /\ q > 1
        /\ r = BLOCKSIZE % DIRENT_SIZE /\ b = q * e + r
  <2>1. BLOCKSIZE \in Nat /\ DIRENT_SIZE \in Nat \ {0} /\ BLOCKSIZE \div DIRENT_SIZE = DirentsPerBlock
    BY DirentAssumption
  <2>2. /\ (BLOCKSIZE % DIRENT_SIZE) \in 0 .. DIRENT_SIZE - 1
        /\ BLOCKSIZE = DirentsPerBlock * DIRENT_SIZE + (BLOCKSIZE % DIRENT_SIZE)
    BY <2>1, Division
  <2>3. BLOCKSIZE # 0
    <3>1. PICK q \in Nat, e \in Nat \ {0}, r \in Nat :
            q = DirentsPerBlock /\ e = DIRENT_SIZE /\ r = BLOCKSIZE % DIRENT_SIZE /\ q > 1
      <4>1. BLOCKSIZE % DIRENT_SIZE \in Nat
        BY <2>1, <2>2
      <4> QED
        BY <2>1, <4>1, SizesNat
    <3>2. BLOCKSIZE = q * e + r
      BY <2>2, <3>1
    <3>3. 1 * e <= q * e /\ q * e \in Nat
      BY <3>1, Multiples
    <3> QED
      BY <3>1, <3>2, <3>3
  <2> QED
    BY <2>1, <2>2, <2>3, SizesNat
<1>5. CASE d.mode # "dir"
  <2>1. i_size0(d) = d.size * b /\ d.size = m
    BY <1>1, <1>3, <1>4, <1>5 DEF i_size0, SizeEndsIn
  <2>2. m * b \in Nat /\ m * b <= m * b /\ (m # 0 => (m - 1) * b < m * b)
    <3>1. m * b \in Nat /\ (m - 1) * b = m * b - b
      BY <1>2
    <3> QED
      BY <3>1
  <2>3. get_file_block_size(m * b) = m
    BY <1>2, <1>4, <2>2, Shown
  <2> QED
    BY <1>2, <2>1, <2>3
<1>6. CASE d.mode = "dir"
  <2>1. PICK s \in Nat : s = d.size
    BY <1>3
  <2>2. (m - 1) * q < s /\ s <= m * q
    BY <1>1, <1>4, <1>6, <2>1 DEF SizeEndsIn
  <2>3. (m - 1) * r < e
    BY <1>2, <1>4, <1>6 DEF Unused
  <2>4. i_size0(d) = s * e
    BY <1>4, <1>6, <2>1 DEF i_size0
  <2>5. s * e \in Nat /\ m * q \in Nat
    BY <1>2
  <2>6. s * e <= m * b
    <3>1. s * e <= (m * q) * e
      BY <2>2, <2>5, Multiples
    <3>2. m * b = (m * q) * e + m * r /\ m * r \in Nat /\ (m * q) * e \in Nat
      BY <1>2, <1>4
    <3> QED
      BY <2>5, <3>1, <3>2
  <2>7. ASSUME m # 0 PROVE (m - 1) * b < s * e
    <3>1. PICK j \in Nat : j = m - 1
      BY <1>2, <2>7
    <3>2. j * q \in Nat /\ j * q + 1 \in Nat /\ j * q + 1 <= s
      BY <2>2, <3>1
    <3>3. (j * q + 1) * e <= s * e
      BY <3>2, Multiples
    <3>4. (j * q + 1) * e = (j * q) * e + e /\ j * b = (j * q) * e + j * r
          /\ (j * q) * e \in Nat /\ j * r \in Nat
      BY <1>4, <3>2
    <3>5. j * r < e
      BY <2>3, <3>1
    <3> QED
      BY <2>5, <3>1, <3>3, <3>4, <3>5
  <2>8. get_file_block_size(s * e) = m
    BY <1>2, <1>4, <2>5, <2>6, <2>7, Shown
  <2> QED
    BY <1>2, <2>4, <2>8
<1> QED
  BY <1>5, <1>6

\* What stat prints for each inode of the inode list.
LEMMA AllShown ==
  ASSUME DiskTypeOK, ShapesDisk, NEW n \in Inodes,
         dinode[n].mode = "reg" \/ Unused(dinode[n]) < DIRENT_SIZE
  PROVE  stat(n).blocks = Cardinality(Logical \ Holes(dinode[n]))
<1>1. dinode[n] \in disk_inode /\ Shaped(dinode[n])
  BY DEF DiskTypeOK, ShapesDisk
<1> QED
  BY <1>1, ShapeShown DEF stat

\* Whatever is killed and whatever fails, stat prints the blocks that a file, or a
\* directory of few enough blocks, occupies: a size never ends before or after the last
\* mapped block (cp.c:209, dir.c:158, 200; get_file_block_size, fs_utils.c).
THEOREM BlocksAreShown == Spec => []BlocksShown
<1>1. DiskTypeOK /\ ShapesDisk => BlocksShown
  <2> SUFFICES ASSUME DiskTypeOK, ShapesDisk, NEW n \in Paths,
                      dinode[n].mode = "reg" \/ Unused(dinode[n]) < DIRENT_SIZE
               PROVE  stat(n).blocks = Cardinality(Logical \ Holes(dinode[n]))
    BY DEF BlocksShown
  <2>1. n \in Inodes
    BY RootType, PathsWithin
  <2> QED
    BY <2>1, AllShown
<1>2. TypeOK => DiskTypeOK
  BY DEF TypeOK
<1> QED
  BY <1>1, <1>2, TypeCorrect, AlwaysShapes, PTL
=============================================================================
