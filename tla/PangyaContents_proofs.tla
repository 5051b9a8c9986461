------------------------ MODULE PangyaContents_proofs ------------------------
(***************************************************************************)
(* What live inodes contain as long as no tool is interrupted, for every   *)
(* image size and set of names: see PangyaContents.                        *)
(***************************************************************************)
EXTENDS PangyaContents, PangyaClean_proofs

-----------------------------------------------------------------------------
(* Directories.                                                            *)

\* A directory begins with a block that has room for two entries.
LEMMA DotPositions ==
  /\ 0 \in Logical /\ <<0, 0>> \in Positions /\ <<0, 1>> \in Positions
  /\ <<0, 0>>[1] = 0 /\ <<0, 0>>[2] = 0 /\ <<0, 1>>[1] = 0 /\ <<0, 1>>[2] = 1
  BY GeometryAssumption DEF Positions, Logical, Slots

\* Two rows that show the same.
LEMMA RowSame ==
  ASSUME NEW r, NEW r2, \A q \in Positions : r2[q] = r[q],
         NEW c, NEW c2, c2.addr = c.addr, c2.size = c.size, NEW n
  PROVE  /\ HasDots(r, n) => HasDots(r2, n)
         /\ SizeFits(r, c) => SizeFits(r2, c2)
  BY DotPositions DEF HasDots, SizeFits

\* Positions, and the sizes they call for.
LEMMA SizeBounds ==
  ASSUME NEW p \in Positions
  PROVE  /\ p[1] \in Logical /\ p[2] \in Slots /\ p[1] \in Nat /\ p[2] \in Nat
         /\ SizeAt(p) \in Nat /\ SizeAt(p) <= (p[1] + 1) * DirentsPerBlock
         /\ \A l \in Nat : p[1] < l => SizeAt(p) <= l * DirentsPerBlock
<1>1. /\ p[1] \in Logical /\ p[2] \in Slots /\ p[1] \in Nat /\ p[2] \in Nat
      /\ p[2] + 1 <= DirentsPerBlock /\ DirentsPerBlock \in Nat
  BY GeometryAssumption DEF Positions, Logical, Slots
<1>2. PICK x \in Nat : x = p[1]
  BY <1>1
<1>3. PICK D \in Nat : D = DirentsPerBlock
  BY <1>1
<1>4. x * D \in Nat /\ (x + 1) * D = x * D + D
  BY <1>2, <1>3
<1>5. SizeAt(p) = x * D + p[2] + 1
  BY <1>2, <1>3 DEF SizeAt
<1>6. ASSUME NEW l \in Nat, x < l
      PROVE  (x + 1) * D <= l * D
  <2>1. PICK m \in Nat : l = (x + 1) + m
    <3>1. l - (x + 1) \in Nat /\ l = (x + 1) + (l - (x + 1))
      BY <1>6
    <3> QED
      BY <3>1
  <2>2. l * D = (x + 1) * D + m * D
    BY <2>1
  <2>3. m * D \in Nat
    OBVIOUS
  <2>4. (x + 1) * D \in Nat
    OBVIOUS
  <2> QED
    BY <2>2, <2>3, <2>4
<1>7. SizeAt(p) \in Nat /\ SizeAt(p) <= (x + 1) * D
  BY <1>1, <1>3, <1>4, <1>5
<1>8. ASSUME NEW l \in Nat, x < l
      PROVE  SizeAt(p) <= l * D
  <2>1. (x + 1) * D \in Nat /\ l * D \in Nat /\ (x + 1) * D <= l * D
    BY <1>4, <1>6, <1>8
  <2> QED
    BY <1>7, <2>1
<1> QED
  BY <1>1, <1>2, <1>3, <1>7, <1>8

-----------------------------------------------------------------------------
(* Writes that keep away from the live inodes.                             *)

\* Unharmed, and no chunk is written over.
Untouched(L) == Unharmed(L) /\ \A b \in Taken(L) \ {0} : chunk'[b] = chunk[b]

\* The writes that change what a block stores.
LEMMA ChunksKept ==
  ASSUME DiskTypeOK, NEW L, L \subseteq Inodes, NEW b, NEW x,
         \/ chunk' = chunk
         \/ b \notin Taken(L) /\ (zero_block(b) \/ WriteChunk(b, x))
  PROVE  \A c \in Taken(L) : chunk'[c] = chunk[c]
<1>1. Taken(L) \subseteq Blocks
  BY BlockRange
<1> QED
  BY <1>1 DEF zero_block, WriteChunk, DiskTypeOK

\* A file shows the same chunks.
LEMMA ChunksSame ==
  ASSUME NEW c, NEW m, Chunks(c, m),
         \A l \in Logical : c.addr[l] # 0 => chunk'[c.addr[l]] = chunk[c.addr[l]],
         NEW c2, c2.addr = c.addr
  PROVE  Chunks(c2, m)'
  BY DEF Chunks

\* What the live inodes contain stays as it is, when such a write is made.
LEMMA ContentsKept ==
  ASSUME NEW L, LiveDisk(L), Untouched(L), ContentsWhole(L),
         \A n \in L : Unwritten(n) => Unwritten(n)',
         \A n \in L : Unsized(n) => Unsized(n)'
  PROVE  ContentsWhole(L)'
<1>1. L \subseteq Inodes /\ Unharmed(L)
  BY DEF LiveDisk, InodesOf, Untouched
<1>2. /\ \A n \in L, q \in Positions : Table'[n][q] = Table[n][q]
      /\ \A n \in L : n \in Dirs' <=> n \in Dirs
      /\ \A n \in L : dinode'[n] = dinode[n]
  BY <1>1, UnharmedView
<1> SUFFICES ASSUME NEW n \in L
             PROVE  \/ Unwritten(n)'
                    \/ n \notin Dirs' /\ Chunks(dinode[n], dinode[n].size)'
                    \/ /\ n \in Dirs' /\ HasDots(Table'[n], n)
                       /\ Unsized(n)' \/ SizeFits(Table'[n], dinode'[n])
  BY DEF ContentsWhole
<1>3. CASE Unwritten(n)
  BY <1>3
<1>4. CASE n \notin Dirs /\ Chunks(dinode[n], dinode[n].size)
  <2>1. \A l \in Logical : dinode[n].addr[l] # 0 =>
          chunk'[dinode[n].addr[l]] = chunk[dinode[n].addr[l]]
    BY DEF Untouched, Taken
  <2>2. PICK c : c = dinode[n]
    OBVIOUS
  <2>3. dinode'[n] = c
    BY <1>2, <2>2
  <2>4. Chunks(c, c.size)'
    BY <1>4, <2>1, <2>2, ChunksSame
  <2>5. Chunks(dinode[n], dinode[n].size)'
    BY <2>3, <2>4 DEF Chunks
  <2> QED
    BY <1>2, <1>4, <2>5
<1>5. CASE n \in Dirs /\ HasDots(Table[n], n) /\ (Unsized(n) \/ SizeFits(Table[n], dinode[n]))
  <2>1. /\ HasDots(Table'[n], n)
        /\ SizeFits(Table[n], dinode[n]) => SizeFits(Table'[n], dinode'[n])
    BY <1>2, <1>5, RowSame
  <2> QED
    BY <1>2, <1>5, <2>1
<1> QED
  BY <1>3, <1>4, <1>5 DEF ContentsWhole

\* The writes that keep away from them.
LEMMA UntouchedBy ==
  ASSUME DiskTypeOK, NEW L, LiveDisk(L), NEW n, NEW b, NEW x, NEW y,
         \/ SetInodeBit(n) \/ SetBlockBit(b) \/ UNCHANGED diskVars
         \/ n \notin L /\ (write_disk_inode(n, x) \/ ClearInodeBit(n))
         \/ /\ b \notin Taken(L)
            /\ \/ zero_block(b) \/ WriteDots(b, x, y) \/ WriteDirent(b, x, y)
               \/ WriteChunk(b, x) \/ ClearBlockBit(b)
  PROVE  Untouched(L)
<1>1. Unharmed(L)
  <2>1. CASE ClearInodeBit(n) \/ ClearBlockBit(b)
    <3>1. (n \notin L /\ ClearInodeBit(n)) \/ (b \notin Taken(L) /\ ClearBlockBit(b)) \/ Allocating(L)
      BY <2>1, UnharmedWrites
    <3> QED
      BY <3>1, UnharmedFrees DEF Allocating
  <2>2. CASE ~(ClearInodeBit(n) \/ ClearBlockBit(b))
    BY <2>2, UnharmedWrites DEF Allocating
  <2> QED
    BY <2>1, <2>2
<1>2. L \subseteq Inodes
  BY DEF LiveDisk, InodesOf
<1>3. chunk' = chunk \/ (b \notin Taken(L) /\ (zero_block(b) \/ WriteChunk(b, x)))
  BY DEF SetInodeBit, SetBlockBit, diskVars, write_disk_inode, ClearInodeBit, WriteDots,
     WriteDirent, ClearBlockBit
<1>4. \A c \in Taken(L) : chunk'[c] = chunk[c]
  BY <1>2, <1>3, ChunksKept
<1> QED
  BY <1>1, <1>4 DEF Untouched

-----------------------------------------------------------------------------
(* Steps before put_inode.                                                 *)

\* While nothing is put, only the target of a creating tool matters besides.
LEMMA ContentsRead ==
  ASSUME NEW L, LiveDisk(L), ContentsInv(L), Untouched(L), pc \notin Putting, pc' \notin Putting,
         pc' \in Adding => Whole(target, target.num)'
  PROVE  ContentsInv(L)'
<1>1. \A n \in L : ~Unwritten(n) /\ ~Unsized(n)
  BY DEF Unwritten, Unsized, Putting
<1>2. ContentsWhole(L)'
  BY <1>1, ContentsKept DEF ContentsInv
<1>3. TargetWhole' /\ ParentWhole' /\ NewWhole(L)'
  BY DEF TargetWhole, ParentWhole, NewWhole, Appears, Putting
<1> QED
  BY <1>2, <1>3 DEF ContentsInv

\* The walk, allocation, and what rm does before it clears the entry.
LEMMA ContentsAlloc ==
  ASSUME NEW L, Before(L), ContentsInv(L),
         \/ Start \/ WalkDown \/ WalkEnds \/ CreateLookup \/ alloc_inode \/ InitInode
         \/ alloc_block \/ ZeroFresh \/ CopyChunk \/ RmFile \/ RmEmptyDir
  PROVE  ContentsInv(L)'
<1>1. /\ LiveDisk(L) /\ DiskTypeOK /\ LiveTool(L)
  BY BeforeParts
<1>2. /\ pc \in {"idle", "walk", "lookup", "ibit", "iwrite", "block", "bzero", "content"}
      /\ pc' \in {"walk", "lookup", "ibit", "iwrite", "block", "bzero", "content", "detach"}
      /\ \/ UNCHANGED diskVars \/ SetInodeBit(fresh') \/ SetBlockBit(fresh')
         \/ pc = "iwrite" /\ write_disk_inode(fresh, NewInode)
         \/ pc = "bzero" /\ zero_block(fresh)
         \/ pc = "content" /\ WriteChunk(fresh, k)
  BY DEF Start, Invoke, WalkDown, WalkEnds, CreateLookup, alloc_inode, InitInode, alloc_block,
     ZeroFresh, CopyChunk, RmFile, RmEmptyDir, RmDirectory, Target
<1>3. pc = "iwrite" => fresh \notin L
  BY <1>1 DEF LiveTool
<1>4. pc \in {"bzero", "content"} => fresh \notin Taken(L)
  BY <1>1 DEF LiveTool, Holding, FreshBlock, Spare
<1>5. Untouched(L)
  BY <1>1, <1>2, <1>3, <1>4, UntouchedBy
<1>6. pc \notin Putting /\ pc' \notin Putting /\ pc' \notin Adding
  BY <1>2 DEF Putting, Adding
<1> QED
  BY <1>1, <1>5, <1>6, ContentsRead

\* The content of a directory that mkdir has just made.
LEMMA DotsWhole ==
  ASSUME NEW D, NEW c, NEW b, b # 0, NEW n, n # 0, NEW up, up # 0, c.size = 2,
         \A l \in Logical : c.addr[l] = IF l = 0 THEN b ELSE 0,
         D[b] = [ZeroBlock EXCEPT ![0] = [ino |-> n, name |-> "."],
                                  ![1] = [ino |-> up, name |-> ".."]]
  PROVE  HasDots(Row(D, c), n) /\ SizeFits(Row(D, c), c)
<1>1. DirentsPerBlock \in Nat /\ DirentsPerBlock > 1 /\ 0 \in Logical /\ 0 \in Slots /\ 1 \in Slots
  BY GeometryAssumption DEF Logical, Slots
<1>2. ASSUME NEW q \in Positions
      PROVE  /\ q[1] \in Logical /\ q[2] \in Slots
             /\ q[1] = 0 => Row(D, c)[q] = D[b][q[2]]
             /\ q[1] # 0 => Row(D, c)[q].ino = 0
  <2>1. q[1] \in Logical /\ q[2] \in Slots
    BY DEF Positions
  <2>2. NoEntry.ino = 0
    BY DEF NoEntry
  <2> QED
    BY <2>1, <2>2 DEF Row, View
<1>3. /\ D[b][0] = [ino |-> n, name |-> "."] /\ D[b][1] = [ino |-> up, name |-> ".."]
      /\ \A s \in Slots : s # 0 /\ s # 1 => D[b][s].ino = 0
  <2>1. NoEntry.ino = 0
    BY DEF NoEntry
  <2> QED
    BY <1>1, <2>1 DEF ZeroBlock
<1>4. HasDots(Row(D, c), n)
  BY <1>2, <1>3, DotPositions DEF HasDots
<1>5. ASSUME NEW q \in Positions, Row(D, c)[q].ino # 0
      PROVE  SizeAt(q) <= 2
  <2>1. q[1] = 0 /\ (q[2] = 0 \/ q[2] = 1)
    BY <1>2, <1>3, <1>5
  <2>2. SizeAt(q) = 0 * DirentsPerBlock + q[2] + 1
    BY <2>1 DEF SizeAt
  <2> QED
    BY <1>1, <2>1, <2>2
<1>6. c.addr[0] # 0 /\ 2 <= (0 + 1) * DirentsPerBlock
  BY <1>1
<1> QED
  BY <1>1, <1>4, <1>5, <1>6 DEF SizeFits

\* mkdir fills its block.
LEMMA ContentsDots ==
  ASSUME NEW L, Before(L), ContentsInv(L), WriteDotEntries
  PROVE  ContentsInv(L)'
<1>1. /\ LiveDisk(L) /\ DiskTypeOK /\ LiveTool(L) /\ core \in [Inodes2 -> inode]
      /\ target \in inode /\ parent \in inode /\ InFlight /\ 0 \notin L
  BY BeforeParts DEF target, parent, Inodes2
<1>2. /\ pc = "content" /\ pc' = "entry" /\ tool = "mkdir"
      /\ WriteDots(fresh, target.num, parent.num)
      /\ core' = [core EXCEPT !["target"] = [target EXCEPT !.size = 2, !.nlink = 2, !.addr[0] = fresh]]
  BY DEF WriteDotEntries, target, parent
<1>3. /\ TargetStarted(L) /\ FreshBlock(L) /\ target.addr = Unmapped /\ dirents[fresh] = ZeroBlock
      /\ parent.num # 0 /\ fresh \in Blocks /\ fresh # 0 /\ fresh \notin Taken(L)
  <2>1. /\ TargetStarted(L) /\ FreshBlock(L) /\ target.addr = Unmapped /\ dirents[fresh] = ZeroBlock
        /\ CreatesIn(L) /\ fresh \in Blocks
    BY <1>1, <1>2 DEF LiveTool, Started, Holding, Filling, Creating, InFlight
  <2>2. ~badblock(fresh) /\ fresh \notin Taken(L)
    BY <2>1 DEF FreshBlock, Spare
  <2>3. badblock(0)
    BY GeometryAssumption DEF badblock
  <2> QED
    BY <1>1, <2>1, <2>2, <2>3 DEF CreatesIn
<1>4. target.num # 0 /\ target.mode = "dir"
  BY <1>2, <1>3, GeometryAssumption DEF TargetStarted, TargetOnDisk, Inodes
<1>5. target' = [target EXCEPT !.size = 2, !.nlink = 2, !.addr[0] = fresh] /\ parent' = parent
  BY <1>1, <1>2, CoreFields
<1>6. /\ target'.num = target.num /\ target'.mode = "dir" /\ target'.size = 2
      /\ \A l \in Logical : target'.addr[l] = IF l = 0 THEN fresh ELSE 0
  BY <1>1, <1>3, <1>4, <1>5, DotPositions DEF inode, Unmapped
<1>7. dirents'[fresh] = [ZeroBlock EXCEPT ![0] = [ino |-> target.num, name |-> "."],
                                         ![1] = [ino |-> parent.num, name |-> ".."]]
  BY <1>1, <1>2, <1>3 DEF WriteDots, DiskTypeOK
<1>8. WholeDir(target, target.num)'
  BY <1>3, <1>4, <1>6, <1>7, DotsWhole DEF WholeDir
<1>9. Untouched(L)
  BY <1>1, <1>2, <1>3, UntouchedBy
<1> QED
  BY <1>1, <1>2, <1>6, <1>8, <1>9, ContentsRead DEF Whole, Putting

\* cp has copied the last chunk.
LEMMA ContentsCopied ==
  ASSUME NEW L, Before(L), MarksInv(L), ContentsInv(L), FileCopied
  PROVE  ContentsInv(L)'
<1>1. /\ LiveDisk(L) /\ DiskTypeOK /\ LiveTool(L) /\ core \in [Inodes2 -> inode]
      /\ target \in inode /\ ProcTypeOK
  BY BeforeParts DEF target, Inodes2
<1>2. /\ pc = "block" /\ pc' = "entry" /\ UNCHANGED diskVars /\ ~NeedsBlock
      /\ core' = [core EXCEPT !["target"] = [target EXCEPT !.size = fsz, !.nlink = 1]]
  BY DEF FileCopied, target
<1>3. TargetStarted(L) /\ tool \in Creators
  BY <1>1, <1>2 DEF LiveTool, Started, Creating, CreatesIn
<1>4. tool = "cp" /\ ~(k < fsz) /\ target.mode = "reg"
  BY <1>2, <1>3 DEF NeedsBlock, Creators, TargetStarted
<1>5. k <= fsz /\ Chunks(target, k)
  BY <1>2, <1>4 DEF MarksInv, Copied, Filling
<1>6. k = fsz
  <2>1. k \in 0 .. NDIRECT /\ fsz \in 0 .. NDIRECT
    BY <1>1 DEF ProcTypeOK
  <2>2. k \in Int /\ fsz \in Int
    BY <2>1, GeometryAssumption
  <2> QED
    BY <1>4, <1>5, <2>2
<1>7. target' = [target EXCEPT !.size = fsz, !.nlink = 1]
  BY <1>1, <1>2, CoreFields
<1>8. target'.mode = "reg" /\ target'.size = fsz /\ target'.addr = target.addr
  BY <1>1, <1>4, <1>7 DEF inode
<1>9. chunk' = chunk
  BY <1>2 DEF diskVars
<1>10. Whole(target, target.num)'
  BY <1>5, <1>6, <1>8, <1>9 DEF Whole, Chunks
<1>11. Untouched(L)
  BY <1>1, <1>2, UntouchedBy
<1> QED
  BY <1>1, <1>2, <1>10, <1>11, ContentsRead DEF Putting

-----------------------------------------------------------------------------
(* add_entry and detach_entry in one directory.                            *)

\* Row r2 of directory n shows, besides r, an entry in the free slot p; its content c
\* became c2.
FillsAt(r, r2, n, p, c, c2) ==
  /\ n # 0 /\ p \in Positions /\ r[p].ino = 0 /\ \A q \in Positions : q # p => r2[q] = r[q]
  /\ c2.addr = c.addr /\ c.addr[p[1]] # 0 /\ c.size \in Nat
  /\ c2.size = IF SizeAt(p) > c.size THEN SizeAt(p) ELSE c.size
  /\ HasDots(r, n) /\ SizeFits(r, c)

\* That is a complete directory again.
LEMMA SlotAdded ==
  ASSUME NEW r, NEW r2, NEW n, NEW p, NEW c, NEW c2, FillsAt(r, r2, n, p, c, c2)
  PROVE  HasDots(r2, n) /\ SizeFits(r2, c2)
<1>0. /\ n # 0 /\ p \in Positions /\ r[p].ino = 0 /\ \A q \in Positions : q # p => r2[q] = r[q]
      /\ c2.addr = c.addr /\ c.addr[p[1]] # 0 /\ c.size \in Nat
      /\ c2.size = IF SizeAt(p) > c.size THEN SizeAt(p) ELSE c.size
      /\ HasDots(r, n) /\ SizeFits(r, c)
  BY DEF FillsAt
<1>1. HasDots(r2, n)
  BY <1>0, DotPositions DEF HasDots
<1>2. /\ SizeAt(p) \in Nat /\ SizeAt(p) <= (p[1] + 1) * DirentsPerBlock
      /\ p[1] \in Logical
  BY <1>0, SizeBounds
<1>3. c.size <= c2.size /\ SizeAt(p) <= c2.size /\ c2.size \in Nat
  BY <1>0, <1>2
<1>4. ASSUME NEW q \in Positions, r2[q].ino # 0
      PROVE  SizeAt(q) <= c2.size
  <2>1. CASE q = p
    BY <1>3, <2>1
  <2>2. CASE q # p
    <3>1. SizeAt(q) <= c.size
      BY <1>0, <1>4, <2>2 DEF SizeFits
    <3>2. SizeAt(q) \in Nat
      BY SizeBounds
    <3> QED
      BY <1>0, <1>3, <3>1, <3>2
  <2> QED
    BY <2>1, <2>2
<1>5. \E l \in Logical : c2.addr[l] # 0 /\ c2.size <= (l + 1) * DirentsPerBlock
  <2>1. CASE c2.size = SizeAt(p)
    BY <1>0, <1>2, <2>1
  <2>2. CASE c2.size = c.size
    BY <1>0, <2>2 DEF SizeFits
  <2> QED
    BY <1>0, <2>1, <2>2
<1> QED
  BY <1>1, <1>4, <1>5 DEF SizeFits

\* Row r2 of directory n shows, besides r, an entry in the first slot of a new block:
\* block j, the first that the block list a does not map. Its content is c now.
GrowsAt(r, r2, n, a, j, c) ==
  /\ n # 0 /\ j \in Logical /\ FirstHole(a, j) /\ HasDots(r, n)
  /\ \A q \in Positions : a[q[1]] = 0 => r[q].ino = 0
  /\ \A q \in Positions : q[1] # j => r2[q] = r[q]
  /\ \A q \in Positions : q[1] = j /\ q[2] # 0 => r2[q].ino = 0
  /\ c.addr[j] # 0 /\ c.size = SizeAt(<<j, 0>>)

\* That is a complete directory again.
LEMMA BlockAdded ==
  ASSUME NEW r, NEW r2, NEW n, NEW a, NEW j, NEW c, GrowsAt(r, r2, n, a, j, c)
  PROVE  HasDots(r2, n) /\ SizeFits(r2, c)
<1>0. /\ n # 0 /\ j \in Logical /\ FirstHole(a, j) /\ HasDots(r, n)
      /\ \A q \in Positions : a[q[1]] = 0 => r[q].ino = 0
      /\ \A q \in Positions : q[1] # j => r2[q] = r[q]
      /\ \A q \in Positions : q[1] = j /\ q[2] # 0 => r2[q].ino = 0
      /\ c.addr[j] # 0 /\ c.size = SizeAt(<<j, 0>>)
  BY DEF GrowsAt
<1>1. j \in Nat /\ ~(j < j) /\ 0 \in Slots /\ DirentsPerBlock \in Nat /\ DirentsPerBlock > 1
  BY <1>0, GeometryAssumption DEF Logical, Slots
<1>2. a[j] = 0 /\ a[0] # 0
  <2>1. a[j] = 0
    BY <1>0, <1>1 DEF FirstHole
  <2>2. r[<<0, 0>>].ino # 0
    BY <1>0 DEF HasDots
  <2> QED
    BY <1>0, <2>1, <2>2, DotPositions
<1>3. HasDots(r2, n)
  <2>1. j # 0
    BY <1>2
  <2> QED
    BY <1>0, <2>1, DotPositions DEF HasDots
<1>4. PICK x : x = j * DirentsPerBlock
  OBVIOUS
<1>5. x \in Nat /\ c.size = x + 0 + 1 /\ (j + 1) * DirentsPerBlock = x + DirentsPerBlock
  <2>1. c.size = j * DirentsPerBlock + 0 + 1
    BY <1>0 DEF SizeAt
  <2>2. \A D \in Nat : j * D \in Nat /\ (j + 1) * D = j * D + D
    BY <1>1
  <2> QED
    BY <1>1, <1>4, <2>1, <2>2
<1>6. ASSUME NEW q \in Positions, r2[q].ino # 0
      PROVE  SizeAt(q) <= c.size
  <2>1. CASE q[1] = j
    <3>1. q[2] = 0
      BY <1>0, <1>6, <2>1
    <3>2. SizeAt(q) = c.size
      BY <1>0, <2>1, <3>1 DEF SizeAt
    <3> QED
      BY <1>5, <3>2
  <2>2. CASE q[1] # j
    <3>1. q[1] \in Logical /\ a[q[1]] # 0
      BY <1>0, <1>6, <2>2, SizeBounds
    <3>2. q[1] < j
      BY <1>0, <3>1 DEF FirstHole
    <3>3. SizeAt(q) <= x /\ SizeAt(q) \in Nat
      BY <1>1, <1>4, <3>2, SizeBounds
    <3> QED
      BY <1>5, <3>3
  <2> QED
    BY <2>1, <2>2
<1>7. c.addr[j] # 0 /\ c.size <= (j + 1) * DirentsPerBlock
  BY <1>0, <1>1, <1>5
<1> QED
  BY <1>0, <1>3, <1>6, <1>7 DEF SizeFits

\* An entry other than the dots less.
LEMMA SlotCleared ==
  ASSUME NEW r, NEW r2, NEW n, NEW p \in Positions, r[p].name \notin Dots, r2[p].ino = 0,
         \A q \in Positions : q # p => r2[q] = r[q],
         NEW c, NEW c2, c2.addr = c.addr, c2.size = c.size, HasDots(r, n), SizeFits(r, c)
  PROVE  HasDots(r2, n) /\ SizeFits(r2, c2)
<1>1. p # <<0, 0>> /\ p # <<0, 1>>
  BY DEF HasDots, Dots
<1>2. HasDots(r2, n)
  BY <1>1, DotPositions DEF HasDots
<1>3. \A q \in Positions : r2[q].ino # 0 => r[q].ino # 0
  OBVIOUS
<1> QED
  BY <1>2, <1>3 DEF SizeFits

\* The row of a directory, read through an in-core inode.
LEMMA RowRead ==
  ASSUME NEW n \in Inodes, NEW c, c.addr = dinode[n].addr
  PROVE  \A q \in Positions : Row(dirents, c)[q] = Table[n][q]
  BY DEF Row, View, Table

\* The content of a live inode, before put_inode.
LEMMA LiveWhole ==
  ASSUME NEW L, L \subseteq Inodes, ContentsInv(L), pc \notin Putting, NEW n \in L
  PROVE  IF n \in Dirs THEN HasDots(Table[n], n) /\ SizeFits(Table[n], dinode[n])
         ELSE Chunks(dinode[n], dinode[n].size)
<1>1. ~Unwritten(n) /\ ~Unsized(n)
  BY DEF Unwritten, Unsized, Putting
<1> QED
  BY <1>1 DEF ContentsInv, ContentsWhole

-----------------------------------------------------------------------------
(* What is in core.                                                        *)

\* The target stays complete when nothing it maps is written.
LEMMA TargetSame ==
  ASSUME Whole(target, target.num), target'.num = target.num, target'.mode = target.mode,
         target'.size = target.size, target'.addr = target.addr,
         \A l \in Logical : target.addr[l] # 0 => /\ dirents'[target.addr[l]] = dirents[target.addr[l]]
                                                  /\ chunk'[target.addr[l]] = chunk[target.addr[l]]
  PROVE  Whole(target, target.num)'
<1>1. CASE target.mode = "dir"
  <2>1. \A q \in Positions : q[1] \in Logical
    BY DEF Positions
  <2>2. \A q \in Positions : Row(dirents', target')[q] = Row(dirents, target)[q]
    BY <2>1 DEF Row, View
  <2>3. HasDots(Row(dirents, target), target.num) /\ SizeFits(Row(dirents, target), target)
    BY <1>1 DEF Whole, WholeDir
  <2>4. HasDots(Row(dirents', target'), target'.num) /\ SizeFits(Row(dirents', target'), target')
    BY <2>2, <2>3, RowSame
  <2> QED
    BY <1>1, <2>4 DEF Whole, WholeDir
<1>2. CASE target.mode # "dir"
  <2>1. Chunks(target, target.size)
    BY <1>2 DEF Whole
  <2>2. PICK m : m = target.size
    OBVIOUS
  <2>3. Chunks(target, m)'
    BY <2>1, <2>2 DEF Chunks
  <2>4. Chunks(target, target.size)'
    BY <2>2, <2>3 DEF Chunks
  <2> QED
    BY <1>2, <2>4 DEF Whole
<1> QED
  BY <1>1, <1>2

\* So does the parent.
LEMMA ParentSame ==
  ASSUME NEW L, parent.num \in L, parent.addr = dinode[parent.num].addr,
         Untouched(L), parent' = parent, WholeDir(parent, parent.num)
  PROVE  WholeDir(parent, parent.num)'
<1>1. \A l \in Logical : parent.addr[l] # 0 => dirents'[parent.addr[l]] = dirents[parent.addr[l]]
  BY DEF Untouched, Unharmed, Taken
<1>2. \A q \in Positions : q[1] \in Logical
  BY DEF Positions
<1>3. \A q \in Positions : Row(dirents', parent)[q] = Row(dirents, parent)[q]
  BY <1>1, <1>2 DEF Row, View
<1>4. HasDots(Row(dirents', parent), parent.num) /\ SizeFits(Row(dirents', parent), parent)
  BY <1>3, RowSame DEF WholeDir
<1> QED
  BY <1>4 DEF WholeDir

\* add_entry gives the parent its size and leaves the target's alone.
LEMMA LinkedSizes ==
  ASSUME core \in [Inodes2 -> inode], NEW size, core' = Linked(size)
  PROVE  parent'.size = size /\ target'.size = target.size
<1>1. core["parent"] \in inode /\ core["target"] \in inode
  BY DEF Inodes2
<1> DEFINE t == [core["target"] EXCEPT !.dirty = DIRTY]
           p == [core["parent"] EXCEPT !.dirty = DIRTY, !.size = size, !.nlink = ParentLinks]
<1>2. Linked(size) = [core EXCEPT !["target"] = t, !["parent"] = p]
  BY Zenon DEF Linked
<1>3. target' = t /\ parent' = p
  <2> HIDE DEF t, p
  <2> QED
    BY <1>2 DEF target, parent, Inodes2
<1>4. t.size = target.size /\ p.size = size
  BY <1>1 DEF inode, target
<1> QED
  BY <1>3, <1>4

\* What is mapped of a block private to it, no write to a live block or to fresh touches.
LEMMA TargetAway ==
  ASSUME DiskTypeOK, NEW L, Private(Spare(L), target), NEW b, NEW s, NEW e,
         \A l \in Logical : target.addr[l] # 0 => target.addr[l] # b,
         SetBlockBit(b) \/ zero_block(b) \/ WriteDirent(b, s, e)
  PROVE  \A l \in Logical : target.addr[l] # 0 =>
           /\ dirents'[target.addr[l]] = dirents[target.addr[l]]
           /\ chunk'[target.addr[l]] = chunk[target.addr[l]]
<1>1. \A l \in Logical : target.addr[l] # 0 => target.addr[l] \in Blocks
  BY DEF Private, Spare, DiskTypeOK
<1> QED
  BY <1>1 DEF SetBlockBit, zero_block, WriteDirent, DiskTypeOK

\* A tool that gives up leaves the disk alone.
LEMMA ContentsFail ==
  ASSUME NEW L, Before(L), ContentsInv(L),
         \/ WalkFails \/ CreateLookupFails \/ NoFreeInode \/ RmLookupFails
         \/ NoFreeBlock \/ HostFails \/ AddEntryFails \/ RmNotEmpty
  PROVE  ContentsInv(L)'
<1>1. /\ LiveDisk(L) /\ L \subseteq Inodes /\ DiskTypeOK /\ core \in [Inodes2 -> inode]
      /\ LiveTool(L)
  BY BeforeParts
<1>2. /\ UNCHANGED diskVars /\ pc \in Reading /\ pc \notin Putting
      /\ \/ error_handler(core) /\ pc \in {"walk", "lookup", "ibit", "block", "entry"}
         \/ /\ pc = "lookup" /\ tool = "rm"
            /\ \E n \in Inodes : error_handler([core EXCEPT !["target"] = get_inode(n)])
  BY DEF WalkFails, CreateLookupFails, NoFreeInode, RmLookupFails, NoFreeBlock, HostFails,
     AddEntryFails, RmNotEmpty, Target, Reading, Putting
<1>3. ParentRead(L)
  BY <1>1, <1>2 DEF LiveTool
<1>4. pc' = "put" /\ who' = "target" /\ parent' = parent /\ target'.dirty = CLEAN
  <2>1. CASE error_handler(core) /\ pc \in {"walk", "lookup", "ibit", "block", "entry"}
    <3>1. target.dirty = CLEAN
      BY <1>1, <2>1 DEF LiveTool, Started, TargetStarted, NULL
    <3> QED
      BY <1>1, <2>1, <3>1, HandlerFields
  <2>2. CASE /\ pc = "lookup" /\ tool = "rm"
             /\ \E n \in Inodes : error_handler([core EXCEPT !["target"] = get_inode(n)])
    <3>1. PICK n \in Inodes : error_handler([core EXCEPT !["target"] = get_inode(n)])
      BY <2>2
    <3>2. core' = [core EXCEPT !["target"] = get_inode(n)] /\ pc' = "put" /\ who' = "target"
      BY <2>2, <3>1 DEF error_handler, Creators
    <3>3. target' = get_inode(n) /\ parent' = parent
      BY <1>1, <3>2, CoreFields
    <3> QED
      BY <3>2, <3>3 DEF get_inode, InCore
  <2> QED
    BY <1>2, <2>1, <2>2
<1>5. Untouched(L)
  BY <1>1, <1>2, UntouchedBy
<1>6. \A n \in L : ~Unwritten(n) /\ ~Unsized(n)
  BY <1>2 DEF Unwritten, Unsized, Putting
<1>7. ContentsWhole(L)'
  BY <1>1, <1>5, <1>6, ContentsKept DEF ContentsInv
<1>8. TargetWhole'
  BY <1>4 DEF TargetWhole, Adding, CLEAN, DIRTY
<1>9. ParentWhole'
  <2>1. dinode' = dinode /\ dirents' = dirents
    BY <1>2 DEF diskVars
  <2>2. Dirs' = Dirs /\ parent' = get_inode(parent.num)'
    BY <1>3, <1>4, <2>1 DEF ParentRead, get_inode, Dirs
  <2>3. ASSUME parent.num \in Dirs
        PROVE  WholeDir(parent, parent.num)
    <3>1. parent.num \in L /\ parent.addr = dinode[parent.num].addr /\ parent.size = dinode[parent.num].size
      BY <1>3 DEF ParentRead, get_inode, InCore
    <3>2. HasDots(Table[parent.num], parent.num) /\ SizeFits(Table[parent.num], dinode[parent.num])
      BY <1>1, <1>2, <2>3, <3>1, LiveWhole
    <3>3. \A q \in Positions : Row(dirents, parent)[q] = Table[parent.num][q]
      BY <1>1, <3>1, RowRead
    <3> QED
      BY <3>1, <3>2, <3>3, RowSame DEF WholeDir
  <2>4. parent.num \in Dirs => WholeDir(parent, parent.num)'
    BY <1>4, <2>1, <2>3 DEF WholeDir
  <2> QED
    BY <1>4, <2>2, <2>4 DEF ParentWhole
<1>10. NewWhole(L)'
  BY <1>4 DEF NewWhole, Appears
<1> QED
  BY <1>7, <1>8, <1>9, <1>10 DEF ContentsInv

\* add_entry, before it writes the entry in a new block.
LEMMA ContentsAddBlock ==
  ASSUME NEW L, Before(L), ContentsInv(L), AddEntryAllocates \/ AddEntryZeroes
  PROVE  ContentsInv(L)'
<1>1. /\ LiveDisk(L) /\ L \subseteq Inodes /\ DiskTypeOK /\ core \in [Inodes2 -> inode]
      /\ LiveTool(L)
  BY BeforeParts
<1>2. /\ pc \in {"entry", "ezero"} /\ pc' \in {"ezero", "ewrite"}
      /\ \/ core' = core /\ \E b \in FreeBlocks : SetBlockBit(b)
         \/ /\ pc = "ezero" /\ zero_block(fresh)
            /\ core' = [core EXCEPT !["parent"] = [parent EXCEPT !.addr[k] = fresh]]
  BY DEF AddEntryAllocates, AddEntryZeroes, parent
<1>3. Private(Spare(L), target) /\ Whole(target, target.num)
  <2>1. pc \in Adding
    BY <1>2 DEF Adding
  <2> QED
    BY <1>2, <2>1, AddingTool DEF ContentsInv, TargetWhole
<1>4. target' = target
  BY <1>1, <1>2, CoreFields
<1>5. pc = "ezero" => fresh \notin Taken(L) /\ \A l \in Logical : target.addr[l] # fresh
  <2>1. pc = "ezero" => FreshBlock(L)
    BY <1>1 DEF LiveTool, Holding
  <2> QED
    BY <2>1 DEF FreshBlock, Spare
<1>6. Untouched(L)
  BY <1>1, <1>2, <1>5, UntouchedBy
<1>7. \A l \in Logical : target.addr[l] # 0 => /\ dirents'[target.addr[l]] = dirents[target.addr[l]]
                                               /\ chunk'[target.addr[l]] = chunk[target.addr[l]]
  <2>1. CASE \E b \in FreeBlocks : SetBlockBit(b)
    BY <2>1 DEF SetBlockBit
  <2>2. CASE pc = "ezero" /\ zero_block(fresh)
    BY <1>1, <1>3, <1>5, <2>2, TargetAway
  <2> QED
    BY <1>2, <2>1, <2>2
<1>8. Whole(target, target.num)'
  BY <1>3, <1>4, <1>7, TargetSame
<1> QED
  BY <1>1, <1>2, <1>6, <1>8, ContentsRead DEF Putting

\* The entry in a new block.
LEMMA ContentsAddLast ==
  ASSUME NEW L, Before(L), ContentsInv(L), AddEntryInNewBlock
  PROVE  ContentsInv(L)'
<1>1. /\ LiveDisk(L) /\ L \subseteq Inodes /\ DiskTypeOK /\ core \in [Inodes2 -> inode]
      /\ LiveTool(L) /\ InFlight
  BY BeforeParts
<1>2. /\ pc = "ewrite" /\ pc' = "put" /\ WriteDirent(fresh, 0, NewEntry)
      /\ core' = Linked(SizeAt(<<k, 0>>)) /\ who' = who
  BY DEF AddEntryInNewBlock
<1>3. /\ who = "target" /\ TargetStarted(L) /\ FreshBlock(L) /\ CreatesIn(L)
      /\ FirstHole(dinode[parent.num].addr, k) /\ dirents[fresh] = ZeroBlock
      /\ parent = [get_inode(parent.num) EXCEPT !.addr[k] = fresh]
      /\ fresh \in Blocks /\ k \in Logical
  BY <1>1, <1>2 DEF LiveTool, Creating, Started, Holding, Putting, InFlight
<1>4. PICK P : P = parent.num
  OBVIOUS
<1>5. /\ P \in L /\ P \in Dirs /\ P \in Inodes /\ P # 0 /\ fresh \notin Taken(L) /\ fresh # 0
      /\ \A l \in Logical : target.addr[l] # fresh
  <2>1. badblock(0)
    BY GeometryAssumption DEF badblock
  <2> QED
    BY <1>1, <1>3, <1>4, <2>1 DEF CreatesIn, FreshBlock, Spare, Inodes
<1>6. /\ parent'.num = P /\ parent'.addr = parent.addr /\ parent'.dirty = DIRTY
      /\ parent'.size = SizeAt(<<k, 0>>)
      /\ target'.num = target.num /\ target'.addr = target.addr /\ target'.mode = target.mode
      /\ target'.size = target.size
  BY <1>1, <1>2, <1>4, LinkedFields, LinkedSizes
<1>7. /\ dinode' = dinode
      /\ dirents'[fresh] = [ZeroBlock EXCEPT ![0] = NewEntry]
      /\ \A b \in Blocks : b # fresh => dirents'[b] = dirents[b]
  BY <1>1, <1>2, <1>3 DEF WriteDirent, DiskTypeOK
<1>8. Untouched(L)
  BY <1>1, <1>2, <1>5, UntouchedBy
<1>9. ContentsWhole(L)'
  <2>1. \A n \in L : ~Unwritten(n) /\ ~Unsized(n)
    BY <1>2 DEF Unwritten, Unsized, Putting
  <2> QED
    BY <1>1, <1>8, <2>1, ContentsKept DEF ContentsInv
<1>10. Whole(target, target.num)'
  <2>1. Whole(target, target.num)
    BY <1>2 DEF ContentsInv, TargetWhole, Adding
  <2>2. Private(Spare(L), target)
    BY <1>3 DEF TargetStarted
  <2>3. \A l \in Logical : target.addr[l] # 0 => /\ dirents'[target.addr[l]] = dirents[target.addr[l]]
                                                 /\ chunk'[target.addr[l]] = chunk[target.addr[l]]
    BY <1>1, <1>2, <1>5, <2>2, TargetAway
  <2> QED
    BY <1>6, <2>1, <2>3, TargetSame
<1>11. WholeDir(parent, parent.num)'
  <2>1. HasDots(Table[P], P)
    BY <1>1, <1>2, <1>5, LiveWhole DEF Putting
  <2>2. PICK a : a = dinode[P].addr
    OBVIOUS
  <2>3. a \in [Logical -> Blocks] /\ parent.addr = [a EXCEPT ![k] = fresh]
    <3>1. get_inode(P) \in inode /\ get_inode(P).addr = a
      BY <1>1, <1>5, <2>2, GetInodeType DEF get_inode, InCore
    <3> QED
      BY <1>3, <1>4, <3>1 DEF inode
  <2>4. \A q \in Positions : q[1] \in Logical /\ q[2] \in Slots
    BY DEF Positions
  <2>5. NoEntry.ino = 0
    BY DEF NoEntry
  <2>6. \A q \in Positions : Table[P][q] = View(dirents, dinode[P], q)
    BY <1>5 DEF Table, Row
  <2>7. \A q \in Positions : a[q[1]] = 0 => Table[P][q].ino = 0
    BY <2>2, <2>5, <2>6 DEF View
  <2>8. \A q \in Positions : Row(dirents', parent')[q] =
          IF parent.addr[q[1]] # 0 THEN dirents'[parent.addr[q[1]]][q[2]] ELSE NoEntry
    BY <1>6 DEF Row, View
  <2>9. ASSUME NEW q \in Positions, q[1] # k
        PROVE  Row(dirents', parent')[q] = Table[P][q]
    <3>1. parent.addr[q[1]] = a[q[1]] /\ a[q[1]] \in Blocks
      BY <2>3, <2>4, <2>9
    <3>2. a[q[1]] # 0 => a[q[1]] # fresh
      BY <1>5, <2>2, <2>4 DEF Taken
    <3> QED
      BY <1>7, <2>2, <2>6, <2>8, <3>1, <3>2 DEF View
  <2>10. ASSUME NEW q \in Positions, q[1] = k, q[2] # 0
         PROVE  Row(dirents', parent')[q].ino = 0
    <3>1. parent.addr[q[1]] = fresh
      BY <1>3, <2>3, <2>10
    <3>2. dirents'[fresh][q[2]] = NoEntry
      BY <1>7, <2>4, <2>10 DEF ZeroBlock
    <3> QED
      BY <1>5, <2>5, <2>8, <3>1, <3>2
  <2>11. parent'.addr[k] # 0
    BY <1>3, <1>5, <1>6, <2>3
  <2>12. FirstHole(a, k)
    BY <1>3, <1>4, <2>2
  <2>13. PICK r, c, t, j : r = Row(dirents', parent') /\ c = parent' /\ t = Table[P] /\ j = k
    OBVIOUS
  <2>14. GrowsAt(t, r, P, a, j, c)
    BY <1>3, <1>5, <1>6, <2>1, <2>7, <2>9, <2>10, <2>11, <2>12, <2>13 DEF GrowsAt
  <2>15. HasDots(r, P) /\ SizeFits(r, c)
    BY <2>14, BlockAdded
  <2> QED
    BY <1>6, <2>13, <2>15 DEF WholeDir
<1>12. TargetWhole' /\ NewWhole(L)'
  BY <1>2, <1>3, <1>10 DEF TargetWhole, NewWhole, Appears, Adding
<1>13. ParentWhole'
  <2>1. parent'.num \in Dirs'
    BY <1>5, <1>6, <1>7 DEF Dirs
  <2> QED
    BY <1>6, <1>11, <2>1 DEF ParentWhole, CLEAN, DIRTY
<1> QED
  BY <1>9, <1>12, <1>13 DEF ContentsInv

\* A write of e to slot p of the live inode P changes nothing else of the live inodes.
SlotLeaves(L, P, p, e) ==
  /\ \A m \in L, q \in Positions : m # P \/ q # p => Table'[m][q] = Table[m][q]
  /\ Table'[P][p] = e /\ dinode' = dinode /\ chunk' = chunk

\* write_block of one entry does that and nothing else.
LEMMA SlotWritten ==
  ASSUME DiskTypeOK, NEW L, LiveDisk(L), NEW P, P \in L, NEW p, p \in Positions,
         dinode[P].addr[p[1]] # 0, NEW e, WriteDirent(dinode[P].addr[p[1]], p[2], e)
  PROVE  SlotLeaves(L, P, p, e)
<1>1. /\ \A m \in L, q \in Positions : m # P \/ q # p => Table'[m][q] = Table[m][q]
      /\ Table'[P][p] = e
      /\ dinode' = dinode /\ ibits' = ibits /\ bbits' = bbits
  BY SlotWrite
<1>2. chunk' = chunk
  BY DEF WriteDirent
<1> QED
  BY <1>1, <1>2 DEF SlotLeaves

\* A write to one slot of a live directory leaves the other live inodes complete.
LEMMA OthersWhole ==
  ASSUME NEW L, Before(L), ContentsInv(L), pc \notin Putting, NEW P,
         NEW m \in L, m # P, dinode' = dinode, chunk' = chunk,
         \A q \in Positions : Table'[m][q] = Table[m][q]
  PROVE  \/ m \notin Dirs' /\ Chunks(dinode[m], dinode[m].size)'
         \/ m \in Dirs' /\ HasDots(Table'[m], m) /\ SizeFits(Table'[m], dinode'[m])
<1>1. L \subseteq Inodes
  BY BeforeParts
<1>2. Dirs' = Dirs
  BY DEF Dirs
<1>3. CASE m \in Dirs
  <2>1. HasDots(Table[m], m) /\ SizeFits(Table[m], dinode[m])
    BY <1>1, <1>3, LiveWhole
  <2> QED
    BY <1>2, <1>3, <2>1, RowSame
<1>4. CASE m \notin Dirs
  <2>1. Chunks(dinode[m], dinode[m].size)
    BY <1>1, <1>4, LiveWhole
  <2> QED
    BY <1>2, <1>4, <2>1 DEF Chunks
<1> QED
  BY <1>3, <1>4

\* add_entry in a block the parent has: the target is live, its content comes later.
LEMMA ContentsAddSlot ==
  ASSUME NEW L, Before(L), ContentsInv(L), AddEntryInSlot, NEW n, n = target.num
  PROVE  ContentsInv(L \cup {n})'
<1>1. /\ LiveDisk(L) /\ L \subseteq Inodes /\ DiskTypeOK /\ core \in [Inodes2 -> inode]
      /\ parent \in inode
  BY BeforeParts DEF parent, Inodes2
<1>2. pc = "entry" /\ pc' = "put" /\ who' = who
  BY DEF AddEntryInSlot
<1>3. /\ who = "target" /\ Private(Spare(L), target)
      /\ TargetStarted(L) /\ parent.num \in L \cap Dirs /\ parent.num \in Inodes
      /\ parent.addr = dinode[parent.num].addr /\ parent = get_inode(parent.num)
  BY <1>2, AddingTool
<1>4. PICK p \in FreeSlots(parent) :
        /\ WriteDirent(parent.addr[p[1]], p[2], NewEntry)
        /\ core' = Linked(SizeWith(p))
  BY DEF AddEntryInSlot, parent
<1>5. PICK P : P = parent.num
  OBVIOUS
<1>6. p \in Positions /\ dinode[P].addr[p[1]] # 0 /\ Table[P][p].ino = 0 /\ P # 0
  BY <1>1, <1>3, <1>5, EntryTypesInTable DEF FreeSlots, Mapped, EntryAt, Inodes
<1>7. /\ \A m \in L, q \in Positions : m # P \/ q # p => Table'[m][q] = Table[m][q]
      /\ dinode' = dinode /\ chunk' = chunk
  <2>1. PICK e : WriteDirent(dinode[P].addr[p[1]], p[2], e)
    BY <1>3, <1>4, <1>5
  <2>2. DiskTypeOK /\ LiveDisk(L) /\ P \in L /\ p \in Positions /\ dinode[P].addr[p[1]] # 0
    BY <1>1, <1>3, <1>5, <1>6
  <2>3. SlotLeaves(L, P, p, e)
    BY <2>1, <2>2, SlotWritten
  <2> QED
    BY <2>3 DEF SlotLeaves
<1>8. /\ parent'.num = P /\ parent'.addr = dinode[P].addr /\ parent'.dirty = DIRTY
      /\ parent'.size = SizeWith(p)
      /\ target'.num = n /\ target'.addr = target.addr /\ target'.mode = target.mode
      /\ target'.size = target.size /\ target'.dirty = DIRTY
  BY <1>1, <1>3, <1>4, <1>5, LinkedFields, LinkedSizes
<1>9. Dirs' = Dirs /\ P \in Dirs /\ P \in L
  BY <1>3, <1>5, <1>7 DEF Dirs
<1>10. HasDots(Table'[P], P) /\ WholeDir(parent, parent.num)'
  <2>1. HasDots(Table[P], P) /\ SizeFits(Table[P], dinode[P])
    BY <1>1, <1>2, <1>9, LiveWhole DEF Putting
  <2>2. parent.size = dinode[P].size /\ parent.size \in Nat
    BY <1>1, <1>3, <1>5 DEF get_inode, InCore, inode
  <2>3. SizeWith(p) = IF SizeAt(p) > dinode[P].size THEN SizeAt(p) ELSE dinode[P].size
    BY <2>2 DEF SizeWith, parent
  <2>4. PICK r, c, r2, c2 : r = Table[P] /\ c = dinode[P] /\ r2 = Table'[P] /\ c2 = parent'
    OBVIOUS
  <2>5. FillsAt(r, r2, P, p, c, c2)
    BY <1>6, <1>7, <1>8, <1>9, <2>1, <2>2, <2>3, <2>4 DEF FillsAt
  <2>6. HasDots(r2, P) /\ SizeFits(r2, c2)
    BY <2>5, SlotAdded
  <2>7. \A q \in Positions : Row(dirents', parent')[q] = Table'[P][q]
    BY <1>3, <1>5, <1>7, <1>8 DEF Table, Row, View
  <2>8. HasDots(Row(dirents', parent'), P) /\ SizeFits(Row(dirents', parent'), parent')
    BY <2>4, <2>6, <2>7, RowSame
  <2> QED
    BY <1>8, <2>4, <2>6, <2>8 DEF WholeDir
<1>11. ContentsWhole(L \cup {n})'
  <2> SUFFICES ASSUME NEW m \in L \cup {n}
               PROVE  \/ Unwritten(m)'
                      \/ m \notin Dirs' /\ Chunks(dinode[m], dinode[m].size)'
                      \/ /\ m \in Dirs' /\ HasDots(Table'[m], m)
                         /\ Unsized(m)' \/ SizeFits(Table'[m], dinode'[m])
    BY DEF ContentsWhole
  <2>1. CASE m = n
    BY <1>2, <1>3, <1>8, <2>1 DEF Unwritten
  <2>2. CASE m = P
    BY <1>2, <1>8, <1>9, <1>10, <2>2 DEF Unsized, Putting
  <2>3. CASE m # n /\ m # P
    <3>1. m \in L /\ \A q \in Positions : Table'[m][q] = Table[m][q]
      BY <1>7, <2>3
    <3> QED
      BY <1>2, <1>7, <2>3, <3>1, OthersWhole DEF Putting
  <2> QED
    BY <2>1, <2>2, <2>3
<1>12. Whole(target, target.num)'
  <2>1. Whole(target, target.num)
    BY <1>2 DEF ContentsInv, TargetWhole, Adding
  <2>2. parent.addr[p[1]] \in Taken(L)
    BY <1>3, <1>6 DEF Taken, Positions
  <2>3. \A l \in Logical : target.addr[l] # 0 => target.addr[l] # parent.addr[p[1]]
    BY <1>3, <2>2 DEF Private, Spare
  <2>4. \A l \in Logical : target.addr[l] # 0 => /\ dirents'[target.addr[l]] = dirents[target.addr[l]]
                                                 /\ chunk'[target.addr[l]] = chunk[target.addr[l]]
    BY <1>1, <1>3, <1>4, <2>3, TargetAway
  <2> QED
    BY <1>8, <2>1, <2>4, TargetSame
<1>13. TargetWhole' /\ NewWhole(L \cup {n})'
  BY <1>2, <1>3, <1>12 DEF TargetWhole, NewWhole, Appears, Adding
<1>14. ParentWhole'
  BY <1>8, <1>9, <1>10 DEF ParentWhole, CLEAN, DIRTY
<1> QED
  BY <1>11, <1>13, <1>14 DEF ContentsInv

\* detach_entry takes the target's entry: the parent keeps its dots, its size still fits.
LEMMA ContentsDetach ==
  ASSUME NEW L, Before(L), MarksInv(L), ContentsInv(L), detach_entry, NEW n, n = target.num
  PROVE  ContentsInv(L \ {n})'
<1>1. /\ LiveDisk(L) /\ L \subseteq Inodes /\ DiskTypeOK /\ LiveTool(L)
      /\ core \in [Inodes2 -> inode] /\ parent \in inode
  BY BeforeParts DEF parent, Inodes2
<1>2. /\ pc = "detach" /\ pc' = "put" /\ who' = who
      /\ core' = [core EXCEPT !["target"].dirty = DIRTY, !["parent"].dirty = DIRTY]
  BY DEF detach_entry
<1>3. Detaching(L) /\ who = "target" /\ base \in Names
  BY <1>1, <1>2 DEF LiveTool, Putting
<1>4. PICK i \in Inodes, p \in Mapped(parent) :
        /\ IsFirst(p, Detachable(parent, base, i))
        /\ WriteDirent(parent.addr[p[1]], p[2], NoEntry)
  BY DEF detach_entry, parent
<1>5. PICK P : P = parent.num
  OBVIOUS
<1>6. P \in L /\ P \in Dirs /\ P \in Inodes /\ parent = [get_inode(P) EXCEPT !.nlink = parent.nlink]
  BY <1>1, <1>3, <1>5 DEF Detaching
<1>7. parent.addr = dinode[P].addr /\ parent.size = dinode[P].size
  BY <1>1, <1>6 DEF get_inode, InCore
<1>8. /\ p \in Positions /\ dinode[P].addr[p[1]] # 0 /\ Table[P][p].name = base
      /\ base \notin Dots
  <2>1. p \in Positions /\ dinode[P].addr[p[1]] # 0 /\ EntryAt(parent, p) = [ino |-> i, name |-> base]
    BY <1>4, <1>7 DEF IsFirst, Detachable, Mapped
  <2>2. Table[P][p] = [ino |-> i, name |-> base]
    BY <1>1, <1>6, <1>7, <2>1, EntryTypesInTable DEF EntryAt
  <2>3. Table[P][p].name = base
    BY <2>2
  <2>4. base \notin Dots
    BY <1>3, NamesAssumption DEF Dots
  <2> QED
    BY <2>1, <2>3, <2>4
<1>9. SlotLeaves(L, P, p, NoEntry)
  <2>1. WriteDirent(dinode[P].addr[p[1]], p[2], NoEntry)
    BY <1>4, <1>7
  <2> QED
    BY <1>1, <1>6, <1>8, <2>1, SlotWritten
<1>10. /\ \A m \in L, q \in Positions : m # P \/ q # p => Table'[m][q] = Table[m][q]
       /\ dinode' = dinode /\ chunk' = chunk /\ Table'[P][p].ino = 0
  <2>1. NoEntry.ino = 0
    BY DEF NoEntry
  <2> QED
    BY <1>9, <2>1 DEF SlotLeaves
<1>11. /\ parent'.num = P /\ parent'.addr = dinode[P].addr /\ parent'.dirty = DIRTY
       /\ parent'.size = dinode[P].size
       /\ target'.num = n /\ target'.nlink = target.nlink
  BY <1>1, <1>2, <1>5, <1>7 DEF parent, target, inode, Inodes2
<1>12. Dirs' = Dirs
  BY <1>10 DEF Dirs
<1>13. HasDots(Table'[P], P) /\ WholeDir(parent, parent.num)'
  <2>1. HasDots(Table[P], P) /\ SizeFits(Table[P], dinode[P])
    BY <1>1, <1>2, <1>6, LiveWhole DEF Putting
  <2>2. \A q \in Positions : q # p => Table'[P][q] = Table[P][q]
    BY <1>6, <1>10
  <2>3. PICK r, c, r2, c2 : r = Table[P] /\ c = dinode[P] /\ r2 = Table'[P] /\ c2 = parent'
    OBVIOUS
  <2>4. HasDots(r2, P) /\ SizeFits(r2, c2)
    BY <1>8, <1>10, <1>11, <2>1, <2>2, <2>3, SlotCleared
  <2>5. \A q \in Positions : Row(dirents', parent')[q] = Table'[P][q]
    BY <1>6, <1>10, <1>11 DEF Table, Row, View
  <2>6. HasDots(Row(dirents', parent'), P) /\ SizeFits(Row(dirents', parent'), parent')
    BY <2>3, <2>4, <2>5, RowSame
  <2> QED
    BY <1>11, <2>3, <2>4, <2>6 DEF WholeDir
<1>14. ContentsWhole(L \ {n})'
  <2> SUFFICES ASSUME NEW m \in L \ {n}
               PROVE  \/ Unwritten(m)'
                      \/ m \notin Dirs' /\ Chunks(dinode[m], dinode[m].size)'
                      \/ /\ m \in Dirs' /\ HasDots(Table'[m], m)
                         /\ Unsized(m)' \/ SizeFits(Table'[m], dinode'[m])
    BY DEF ContentsWhole
  <2>1. CASE m = P
    BY <1>2, <1>6, <1>11, <1>12, <1>13, <2>1 DEF Unsized, Putting
  <2>2. CASE m # P
    <3>1. m \in L /\ \A q \in Positions : Table'[m][q] = Table[m][q]
      BY <1>10, <2>2
    <3> QED
      BY <1>2, <1>10, <2>2, <3>1, OthersWhole DEF Putting
  <2> QED
    BY <2>1, <2>2
<1>15. TargetWhole' /\ NewWhole(L \ {n})'
  <2>1. target'.nlink = 0
    BY <1>2, <1>11 DEF MarksInv, TargetOwned
  <2> QED
    BY <1>2, <1>3, <2>1 DEF TargetWhole, NewWhole, Appears, Adding
<1>16. ParentWhole'
  BY <1>6, <1>11, <1>12, <1>13 DEF ParentWhole, CLEAN, DIRTY
<1> QED
  BY <1>14, <1>15, <1>16 DEF ContentsInv

-----------------------------------------------------------------------------
(* put_inode.                                                              *)

\* While the parent brings no new entry, nothing becomes live with it.
LEMMA NoneAppears ==
  ASSUME DiskTypeOK, NEW L, Settled(L), parent.num \in Inodes, parent' = parent,
         dinode'[parent.num].addr = dinode[parent.num].addr, NEW n
  PROVE  ~Appears(L, n)'
<1> SUFFICES ASSUME Appears(L, n)'
             PROVE  FALSE
  OBVIOUS
<1>1. PICK a : a = dinode[parent.num].addr
  OBVIOUS
<1>2. PICK l \in Logical, b \in Spare(L)' : FirstHole(a, l) /\ parent.addr = [a EXCEPT ![l] = b]
  <2>1. \E l \in Logical, b \in Spare(L)' :
          /\ FirstHole(dinode'[parent'.num].addr, l)
          /\ parent'.addr = [dinode'[parent'.num].addr EXCEPT ![l] = b]
    BY DEF Appears, Grown
  <2> QED
    BY <1>1, <2>1
<1>3. a \in [Logical -> Blocks] /\ parent.addr = a
  BY <1>1 DEF DiskTypeOK, disk_inode, Settled
<1>4. a[l] = 0
  <2>1. ~(l < l)
    BY DEF Logical
  <2> QED
    BY <1>2, <2>1 DEF FirstHole
<1>5. b # 0
  BY GeometryAssumption DEF Spare, badblock
<1> QED
  BY <1>2, <1>3, <1>4, <1>5

\* A parent without new entries stays complete.
LEMMA ParentKept ==
  ASSUME NEW L, L \subseteq Inodes, Settled(L), parent.num \in L, pc \in Putting,
         Untouched(L), ParentWhole, parent' = parent
  PROVE  ParentWhole'
<1>1. dinode'[parent.num] = dinode[parent.num]
  BY DEF Untouched, Unharmed
<1>2. parent.num \in Dirs' <=> parent.num \in Dirs
  BY <1>1 DEF Dirs
<1>3. parent.addr = dinode[parent.num].addr
  BY DEF Settled
<1>4. parent.num \in Dirs => WholeDir(parent, parent.num)'
  BY <1>3, ParentSame DEF ParentWhole
<1>5. get_inode(parent.num)' = get_inode(parent.num)
  BY <1>1 DEF get_inode
<1> QED
  BY <1>2, <1>4, <1>5 DEF ParentWhole

\* When the tool has ended, every live inode is complete.
LEMMA ContentsExit ==
  ASSUME NEW K, pc' = "idle",
         \A n \in K : \/ n \notin Dirs' /\ Chunks(dinode[n], dinode[n].size)'
                      \/ n \in Dirs' /\ HasDots(Table'[n], n) /\ SizeFits(Table'[n], dinode'[n])
  PROVE  ContentsInv(K)'
<1>1. ContentsWhole(K)'
  BY DEF ContentsWhole
<1>2. TargetWhole' /\ ParentWhole' /\ NewWhole(K)'
  BY DEF TargetWhole, ParentWhole, NewWhole, Appears, Adding, Putting
<1> QED
  BY <1>1, <1>2 DEF ContentsInv

\* put_inode leaves the live inodes and the parent alone, and does not write the target.
LEMMA ContentsHeld ==
  ASSUME NEW L, Before(L), ContentsInv(L), pc \in Putting, pc' \in Putting, who = "target",
         Settled(L), Untouched(L), parent' = parent,
         \A n \in L : ~Unwritten(n),
         who' = "parent" \/ target'.nlink = 0
  PROVE  ContentsInv(L)'
<1>1. /\ LiveDisk(L) /\ L \subseteq Inodes /\ DiskTypeOK
  BY BeforeParts
<1>2. parent.num \in L /\ parent.num \in Inodes
  BY PuttingTool
<1>3. dinode'[parent.num] = dinode[parent.num]
  BY <1>2 DEF Untouched, Unharmed
<1>4. \A n \in L : Unsized(n) => Unsized(n)'
  BY DEF Unsized
<1>5. ContentsWhole(L)'
  BY <1>1, <1>4, ContentsKept DEF ContentsInv
<1>6. TargetWhole'
  BY DEF TargetWhole, Adding, Putting
<1>7. ParentWhole'
  BY <1>1, <1>2, ParentKept DEF ContentsInv
<1>8. NewWhole(L)'
  <2>1. \A n : ~Appears(L, n)'
    BY <1>1, <1>2, <1>3, NoneAppears
  <2> QED
    BY <2>1 DEF NewWhole
<1> QED
  BY <1>5, <1>6, <1>7, <1>8 DEF ContentsInv

\* put_inode of an inode that needs no write.
LEMMA ContentsPutClean ==
  ASSUME NEW L, Before(L), ContentsInv(L), PutClean
  PROVE  ContentsInv(L)'
<1>1. /\ LiveDisk(L) /\ L \subseteq Inodes /\ DiskTypeOK /\ 0 \notin L
  BY BeforeParts
<1>2. /\ pc = "put" /\ pc \in Putting /\ PutDone /\ UNCHANGED diskVars
      /\ held.num = 0 \/ (held.nlink # 0 /\ held.dirty = CLEAN)
  BY DEF PutClean, Putting
<1>3. Untouched(L)
  BY <1>1, <1>2, UntouchedBy
<1>4. parent.num \in L /\ parent.num # 0 /\ ParentDone(L)
  BY <1>2, PuttingTool
<1>5. CASE who = "target"
  <2>1. held = target
    BY <1>2, <1>5, PuttingTool
  <2>2. target.num = 0 \/ target.dirty = CLEAN
    BY <1>2, <2>1
  <2>3. 0 \notin Inodes
    BY DEF Inodes
  <2>4. Settled(L)
    BY <1>4, <1>5, <2>2, <2>3 DEF ParentDone, CLEAN, DIRTY
  <2>5. \A n \in L : ~Unwritten(n)
    BY <1>1, <2>2 DEF Unwritten, CLEAN, DIRTY
  <2>6. pc' = "put" /\ who' = "parent" /\ parent' = parent
    BY <1>2, <1>5, TargetPut
  <2>7. pc' \in Putting
    BY <2>6 DEF Putting
  <2> QED
    BY <1>2, <1>3, <1>5, <2>4, <2>5, <2>6, <2>7, ContentsHeld
<1>6. CASE who = "parent"
  <2>1. held = parent /\ parent.dirty = CLEAN
    BY <1>2, <1>4, <1>6, PuttingTool
  <2>2. pc' = "idle"
    BY <1>2, <1>6 DEF PutDone, Exit
  <2>3. /\ dinode' = dinode /\ dirents' = dirents /\ chunk' = chunk
    BY <1>2 DEF diskVars
  <2>4. Dirs' = Dirs /\ Table' = Table
    BY <2>3 DEF Dirs, Table, Row, View
  <2>5. ASSUME parent.num \in Dirs
        PROVE  SizeFits(Table[parent.num], dinode[parent.num])
    <3>1. parent = get_inode(parent.num) /\ WholeDir(parent, parent.num)
      BY <1>2, <2>1, <2>5 DEF ContentsInv, ParentWhole
    <3>2. parent.addr = dinode[parent.num].addr /\ parent.size = dinode[parent.num].size
      BY <3>1 DEF get_inode, InCore
    <3>3. PICK c, r, P : c = parent /\ r = Row(dirents, parent) /\ P = parent.num
      OBVIOUS
    <3>4. \A q \in Positions : r[q] = Table[P][q]
      BY <1>1, <1>4, <3>2, <3>3, RowRead
    <3>5. SizeFits(r, c)
      BY <3>1, <3>3 DEF WholeDir
    <3> QED
      BY <3>2, <3>3, <3>4, <3>5, RowSame
  <2>6. \A n \in L : ~Unwritten(n)
    BY <1>6 DEF Unwritten
  <2>7. ASSUME NEW n \in L
        PROVE  \/ n \notin Dirs /\ Chunks(dinode[n], dinode[n].size)
               \/ n \in Dirs /\ HasDots(Table[n], n) /\ SizeFits(Table[n], dinode[n])
    BY <2>5, <2>6 DEF ContentsInv, ContentsWhole, Unsized
  <2>8. \A n \in L : Chunks(dinode[n], dinode[n].size)' = Chunks(dinode[n], dinode[n].size)
    BY <2>3 DEF Chunks
  <2> QED
    BY <2>2, <2>3, <2>4, <2>7, <2>8, ContentsExit
<1> QED
  BY <1>2, <1>5, <1>6, PuttingTool

\* put_inode releases an inode that is not live.
LEMMA ContentsRelease ==
  ASSUME NEW L, Before(L), ContentsInv(L), free_block \/ ZeroFreed \/ BlankOut \/ free_inode
  PROVE  ContentsInv(L)'
<1>1. /\ LiveDisk(L) /\ L \subseteq Inodes /\ DiskTypeOK /\ core \in [Inodes2 -> inode]
  BY BeforeParts
<1>2. /\ pc \in Putting /\ who = "target" /\ held = target /\ target.nlink = 0
      /\ target.num \notin L /\ Private(Spare(L), target) /\ Settled(L)
  BY ReleasingTool
<1>3. \A n \in L : ~Unwritten(n)
  BY <1>2 DEF Unwritten
<1>4. CASE free_block
  <2>1. PICK l \in Logical :
          /\ Unmaps(l)
          /\ IF badblock(held.addr[l])
             THEN pc' = "put" /\ fresh' = 0 /\ UNCHANGED diskVars
             ELSE pc' = "pzero" /\ fresh' = held.addr[l] /\ ClearBlockBit(held.addr[l])
    BY <1>4 DEF free_block
  <2>2. /\ target.addr[l] # 0 /\ UNCHANGED <<args, who, k, status>>
        /\ core' = [core EXCEPT !["target"] = [@ EXCEPT !.addr[l] = 0]]
    BY <1>2, <2>1 DEF Unmaps, Lowest, Holes
  <2>3. PICK b : b = target.addr[l]
    OBVIOUS
  <2>4. b \notin Taken(L) /\ ~badblock(b)
    BY <1>2, <2>2, <2>3 DEF Private, Spare
  <2>5. pc' \in Putting /\ ClearBlockBit(b)
    BY <1>2, <2>1, <2>3, <2>4 DEF Putting
  <2>6. parent' = parent /\ target' = [target EXCEPT !.addr[l] = 0]
    BY <1>1, <2>2 DEF parent, target, Inodes2
  <2>7. target'.nlink = 0
    BY <1>1, <1>2, <2>6 DEF inode, target, Inodes2
  <2>8. Untouched(L)
    BY <1>1, <2>4, <2>5, UntouchedBy
  <2> QED
    BY <1>2, <1>3, <2>5, <2>6, <2>7, <2>8, ContentsHeld
<1>5. CASE ZeroFreed
  <2>1. pc = "pzero" /\ pc' = "put" /\ zero_block(fresh) /\ core' = core
    BY <1>5 DEF ZeroFreed
  <2>2. fresh \notin Taken(L)
    BY <2>1 DEF Before, LiveInv, LiveTool
  <2>3. Untouched(L)
    BY <1>1, <2>1, <2>2, UntouchedBy
  <2>4. parent' = parent /\ target' = target /\ pc' \in Putting
    BY <2>1 DEF parent, target, Putting
  <2> QED
    BY <1>2, <1>3, <2>3, <2>4, ContentsHeld
<1>6. CASE BlankOut
  <2>1. pc' = "ifree" /\ write_disk_inode(target.num, Released) /\ core' = core
    BY <1>2, <1>6 DEF BlankOut
  <2>2. Untouched(L)
    BY <1>1, <1>2, <2>1, UntouchedBy
  <2>3. parent' = parent /\ target' = target /\ pc' \in Putting
    BY <2>1 DEF parent, target, Putting
  <2> QED
    BY <1>2, <1>3, <2>2, <2>3, ContentsHeld
<1>7. CASE free_inode
  <2>1. ClearInodeBit(target.num) /\ PutDone
    BY <1>2, <1>7 DEF free_inode
  <2>2. Untouched(L)
    BY <1>1, <1>2, <2>1, UntouchedBy
  <2>3. pc' = "put" /\ who' = "parent" /\ parent' = parent
    BY <1>2, <2>1, TargetPut
  <2>4. pc' \in Putting
    BY <2>3 DEF Putting
  <2> QED
    BY <1>2, <1>3, <2>2, <2>3, <2>4, ContentsHeld
<1> QED
  BY <1>4, <1>5, <1>6, <1>7

\* An inode whose disk inode holds a complete content afterwards is complete.
LEMMA WholeOnDisk ==
  ASSUME NEW n \in Inodes, NEW c, Whole(c, n), dirents' = dirents, chunk' = chunk,
         dinode'[n].addr = c.addr, dinode'[n].size = c.size, dinode'[n].mode = c.mode
  PROVE  \/ n \notin Dirs' /\ Chunks(dinode[n], dinode[n].size)'
         \/ n \in Dirs' /\ HasDots(Table'[n], n) /\ SizeFits(Table'[n], dinode'[n])
<1>1. n \in Dirs' <=> c.mode = "dir"
  BY DEF Dirs
<1>2. CASE c.mode = "dir"
  <2>1. HasDots(Row(dirents, c), n) /\ SizeFits(Row(dirents, c), c)
    BY <1>2 DEF Whole, WholeDir
  <2>2. \A q \in Positions : Table'[n][q] = Row(dirents, c)[q]
    BY DEF Table, Row, View
  <2> QED
    BY <1>1, <1>2, <2>1, <2>2, RowSame
<1>3. CASE c.mode # "dir"
  <2>1. Chunks(c, c.size)
    BY <1>3 DEF Whole
  <2> QED
    BY <1>1, <1>3, <2>1 DEF Chunks
<1> QED
  BY <1>2, <1>3

\* The disk inode that put_inode wrote holds what was in core.
LEMMA WholeInNew ==
  ASSUME NEW n, NEW c, Whole(c, n), dirents' = dirents, chunk' = chunk,
         dinode'[n].addr = c.addr, dinode'[n].size = c.size, dinode'[n].mode = c.mode
  PROVE  Whole(dinode[n], n)'
<1>1. CASE c.mode = "dir"
  <2>1. HasDots(Row(dirents, c), n) /\ SizeFits(Row(dirents, c), c)
    BY <1>1 DEF Whole, WholeDir
  <2>2. \A q \in Positions : Row(dirents', dinode'[n])[q] = Row(dirents, c)[q]
    BY DEF Row, View
  <2>3. HasDots(Row(dirents', dinode'[n]), n) /\ SizeFits(Row(dirents', dinode'[n]), dinode'[n])
    BY <2>1, <2>2, RowSame
  <2> QED
    BY <1>1, <2>3 DEF Whole, WholeDir
<1>2. CASE c.mode # "dir"
  <2>1. Chunks(c, c.size)
    BY <1>2 DEF Whole
  <2> QED
    BY <1>2, <2>1 DEF Whole, Chunks
<1> QED
  BY <1>1, <1>2

\* GrownOnce across the write of the target.
LEMMA GrownNext ==
  ASSUME DiskTypeOK, NEW L, parent.num \in Inodes, parent' = parent, dirents' = dirents,
         dinode'[parent.num] = dinode[parent.num], NEW n, NEW c, Grown(L, n, c),
         NEW m, Appears(L, m)'
  PROVE  m = n
<1>1. PICK a : a = dinode[parent.num].addr
  OBVIOUS
<1>2. PICK l \in Logical, b \in Spare(L) :
        /\ FirstHole(a, l) /\ parent.addr = [a EXCEPT ![l] = b]
        /\ dirents[b] = [ZeroBlock EXCEPT ![0] = [ino |-> n, name |-> base]]
  BY <1>1 DEF Grown
<1>3. PICK j \in Logical, x \in Spare(L)' :
        /\ FirstHole(a, j) /\ parent.addr = [a EXCEPT ![j] = x]
        /\ dirents[x] = [ZeroBlock EXCEPT ![0] = [ino |-> m, name |-> base']]
  <2>1. \E j \in Logical, x \in Spare(L)' :
          /\ FirstHole(dinode'[parent'.num].addr, j)
          /\ parent'.addr = [dinode'[parent'.num].addr EXCEPT ![j] = x]
          /\ dirents'[x] = [ZeroBlock EXCEPT ![0] = [ino |-> m, name |-> base']]
    BY DEF Appears, Grown
  <2> QED
    BY <1>1, <2>1
<1>4. a \in [Logical -> Blocks]
  BY <1>1 DEF DiskTypeOK, disk_inode
<1>5. l = j
  <2>1. l \in Int /\ j \in Int /\ ~(l < l) /\ ~(j < j)
    BY DEF Logical
  <2>2. a[l] = 0 /\ a[j] = 0
    BY <1>2, <1>3, <2>1 DEF FirstHole
  <2>3. ~(l < j) /\ ~(j < l)
    BY <1>2, <1>3, <2>2 DEF FirstHole
  <2> QED
    BY <2>1, <2>3
<1>6. b = x
  BY <1>2, <1>3, <1>4, <1>5
<1>7. 0 \in Slots
  BY GeometryAssumption DEF Slots
<1>8. /\ [ZeroBlock EXCEPT ![0] = [ino |-> n, name |-> base]][0].ino = n
      /\ [ZeroBlock EXCEPT ![0] = [ino |-> m, name |-> base']][0].ino = m
  BY <1>7 DEF ZeroBlock
<1> QED
  BY <1>2, <1>3, <1>6, <1>8

\* put_inode writes a target that no entry names yet: it will be live with the parent.
LEMMA ContentsPutUnnamed ==
  ASSUME NEW L, Before(L), MarksInv(L), ContentsInv(L), update_inode, who = "target",
         target.num \notin L
  PROVE  ContentsInv(L)'
<1>1. /\ LiveDisk(L) /\ L \subseteq Inodes /\ DiskTypeOK
  BY BeforeParts
<1>2. /\ pc = "put" /\ PutDone /\ held.num # 0 /\ held.nlink > 0 /\ held.dirty = DIRTY
      /\ write_disk_inode(held.num, OnDisk(held))
  BY DEF update_inode
<1>3. /\ held = target /\ target \in inode /\ parent.num \in L /\ parent.num \in Inodes
      /\ pc \in Putting
  BY <1>2, PuttingTool DEF Putting
<1>4. PICK n : n = target.num
  OBVIOUS
<1>5. n \in Inodes /\ n \notin L
  BY <1>2, <1>3, <1>4, GeometryAssumption DEF inode, Inodes
<1>6. target.nlink # 0
  <2>1. ~(0 > 0)
    OBVIOUS
  <2> QED
    BY <1>2, <1>3, <2>1
<1>7. Grown(L, n, target)
  BY <1>2, <1>3, <1>4, <1>5, <1>6 DEF MarksInv, TargetOwned, Inodes
<1>8. /\ dinode'[n] = OnDisk(target) /\ dinode'[parent.num] = dinode[parent.num]
      /\ dirents' = dirents /\ chunk' = chunk
  BY <1>1, <1>2, <1>3, <1>4, <1>5 DEF write_disk_inode, DiskTypeOK
<1>9. Untouched(L)
  BY <1>1, <1>2, <1>3, UntouchedBy
<1>10. pc' = "put" /\ who' = "parent" /\ parent' = parent
  BY <1>2, <1>3, TargetPut
<1>11. ContentsWhole(L)'
  <2>1. \A m \in L : ~Unwritten(m) /\ (Unsized(m) => Unsized(m)')
    BY <1>4, <1>5, <1>10 DEF Unwritten, Unsized, Putting
  <2> QED
    BY <1>1, <1>9, <2>1, ContentsKept DEF ContentsInv
<1>12. TargetWhole'
  BY <1>10 DEF TargetWhole, Adding
<1>13. ParentWhole'
  <2>1. parent.num \in Dirs /\ parent.dirty = DIRTY
    BY <1>7 DEF Grown
  <2>2. WholeDir(parent, parent.num)
    BY <1>3, <2>1 DEF ContentsInv, ParentWhole
  <2>3. parent.num \in Dirs'
    BY <1>3, <1>8, <2>1 DEF Dirs
  <2>4. WholeDir(parent, parent.num)'
    BY <1>8, <1>10, <2>2 DEF WholeDir
  <2> QED
    BY <1>10, <2>1, <2>3, <2>4 DEF ParentWhole, CLEAN, DIRTY
<1>14. NewWhole(L)'
  <2>1. Whole(target, n)
    BY <1>2, <1>3, <1>4, <1>6 DEF ContentsInv, TargetWhole
  <2>2. /\ dinode'[n].addr = target.addr /\ dinode'[n].size = target.size
        /\ dinode'[n].mode = target.mode
    BY <1>8 DEF OnDisk
  <2>3. PICK c : c = target
    OBVIOUS
  <2>4. Whole(dinode[n], n)'
    BY <1>8, <2>1, <2>2, <2>3, WholeInNew
  <2>5. \A m : Appears(L, m)' => m = n
    BY <1>1, <1>3, <1>7, <1>8, <1>10, <2>3, GrownNext
  <2> QED
    BY <2>4, <2>5 DEF NewWhole
<1> QED
  BY <1>11, <1>12, <1>13, <1>14 DEF ContentsInv

\* put_inode writes the content of a new inode that is live already.
LEMMA ContentsPutNamed ==
  ASSUME NEW L, Before(L), ContentsInv(L), update_inode, who = "target", target.num \in L
  PROVE  ContentsInv(L)'
<1>1. /\ LiveDisk(L) /\ L \subseteq Inodes /\ DiskTypeOK
  BY BeforeParts
<1>2. /\ pc = "put" /\ PutDone /\ held.num # 0 /\ held.nlink > 0 /\ held.dirty = DIRTY
      /\ write_disk_inode(held.num, OnDisk(held))
  BY DEF update_inode
<1>3. /\ held = target /\ target \in inode /\ parent.num \in L /\ parent.num \in Inodes
      /\ pc \in Putting /\ TargetDone(L)
  BY <1>2, PuttingTool DEF Putting
<1>4. PICK n \in Inodes, P \in Inodes, p \in Positions :
        n = target.num /\ P = parent.num /\ Fills(L, Table, Dirs, Table', Dirs', n, P, p)
  BY LivePutNamed
<1>5. Settled(L)
  BY <1>2, <1>3, <1>4 DEF TargetDone, ToFill, ToRelease, CLEAN, DIRTY
<1>6. n \in L /\ P # n
  <2>1. p \in Positions /\ Table[P][p].ino # 0 /\ Table[n][p].ino = 0
    BY <1>4 DEF Fills, Kids
  <2> QED
    BY <1>4, <2>1 DEF Fills
<1>7. target.nlink # 0
  <2>1. ~(0 > 0)
    OBVIOUS
  <2> QED
    BY <1>2, <1>3, <2>1
<1>8. /\ dinode'[n] = OnDisk(target) /\ \A m \in L : m # n => dinode'[m] = dinode[m]
      /\ dirents' = dirents /\ chunk' = chunk
  BY <1>1, <1>2, <1>3, <1>4 DEF write_disk_inode, DiskTypeOK
<1>9. dinode'[parent.num] = dinode[parent.num]
  BY <1>3, <1>4, <1>6, <1>8
<1>10. pc' = "put" /\ who' = "parent" /\ parent' = parent
  BY <1>2, <1>3, TargetPut
<1>11. ASSUME NEW m \in L
       PROVE  \/ m \notin Dirs' /\ Chunks(dinode[m], dinode[m].size)'
              \/ /\ m \in Dirs' /\ HasDots(Table'[m], m)
                 /\ Unsized(m)' \/ SizeFits(Table'[m], dinode'[m])
  <2>1. CASE m = n
    <3>1. Whole(target, n)
      BY <1>2, <1>3, <1>4, <1>7 DEF ContentsInv, TargetWhole
    <3>2. /\ dinode'[n].addr = target.addr /\ dinode'[n].size = target.size
          /\ dinode'[n].mode = target.mode
      BY <1>8 DEF OnDisk
    <3>3. PICK c : c = target
      OBVIOUS
    <3> QED
      BY <1>8, <2>1, <3>1, <3>2, <3>3, WholeOnDisk
  <2>2. CASE m # n
    <3>1. dinode'[m] = dinode[m] /\ m \in Inodes /\ ~Unwritten(m)
      BY <1>1, <1>4, <1>8, <2>2 DEF Unwritten
    <3>2. (m \in Dirs' <=> m \in Dirs) /\ Table'[m] = Table[m]
      BY <1>8, <3>1 DEF Dirs, Table, Row, View
    <3>3. Unsized(m) => Unsized(m)'
      BY <1>10 DEF Unsized, Putting
    <3>4. Chunks(dinode[m], dinode[m].size)' = Chunks(dinode[m], dinode[m].size)
      BY <1>8, <3>1 DEF Chunks
    <3> QED
      BY <3>1, <3>2, <3>3, <3>4 DEF ContentsInv, ContentsWhole
  <2> QED
    BY <2>1, <2>2
<1>12. ContentsWhole(L)'
  BY <1>11 DEF ContentsWhole
<1>13. TargetWhole'
  BY <1>10 DEF TargetWhole, Adding
<1>14. ParentWhole'
  <2>1. parent.num \in Dirs' <=> parent.num \in Dirs
    BY <1>3, <1>9 DEF Dirs
  <2>2. WholeDir(parent, parent.num)' = WholeDir(parent, parent.num)
    BY <1>8, <1>10 DEF WholeDir
  <2>3. get_inode(parent.num)' = get_inode(parent.num)
    BY <1>9, <1>10 DEF get_inode
  <2> QED
    BY <1>3, <1>10, <2>1, <2>2, <2>3 DEF ContentsInv, ParentWhole
<1>15. NewWhole(L)'
  <2>1. \A m : ~Appears(L, m)'
    BY <1>1, <1>3, <1>5, <1>9, <1>10, NoneAppears
  <2> QED
    BY <2>1 DEF NewWhole
<1> QED
  BY <1>12, <1>13, <1>14, <1>15 DEF ContentsInv

\* put_inode writes a parent that brings no new entry, as the last thing the tool does.
LEMMA ContentsPutSettled ==
  ASSUME NEW L, Before(L), ContentsInv(L), update_inode, who = "parent", Settled(L)
  PROVE  ContentsInv(L)'
<1>1. /\ L \subseteq Inodes /\ DiskTypeOK
  BY BeforeParts
<1>2. /\ pc = "put" /\ PutDone /\ held.dirty = DIRTY /\ write_disk_inode(held.num, OnDisk(held))
  BY DEF update_inode
<1>3. held = parent /\ parent.num \in L /\ parent.num \in Inodes /\ pc \in Putting
  BY <1>2, PuttingTool DEF Putting
<1>4. pc' = "idle"
  BY <1>2 DEF PutDone, Exit
<1>5. PICK P : P = parent.num
  OBVIOUS
<1>6. /\ dinode'[P] = OnDisk(parent) /\ \A m \in L : m # P => dinode'[m] = dinode[m]
      /\ dirents' = dirents /\ chunk' = chunk
  BY <1>1, <1>2, <1>3, <1>5 DEF write_disk_inode, DiskTypeOK
<1>7. /\ dinode'[P].addr = parent.addr /\ dinode'[P].size = parent.size
      /\ dinode'[P].mode = parent.mode /\ parent.mode = dinode[P].mode
  BY <1>5, <1>6 DEF OnDisk, Settled
<1>8. P \in Dirs
  BY <1>2, <1>3, <1>5 DEF ContentsInv, ParentWhole, get_inode, InCore, CLEAN, DIRTY
<1>9. Whole(parent, P)
  BY <1>3, <1>5, <1>7, <1>8 DEF ContentsInv, ParentWhole, Whole, Dirs
<1>10. ASSUME NEW m \in L
       PROVE  \/ m \notin Dirs' /\ Chunks(dinode[m], dinode[m].size)'
              \/ m \in Dirs' /\ HasDots(Table'[m], m) /\ SizeFits(Table'[m], dinode'[m])
  <2>1. CASE m = P
    <3>1. PICK c : c = parent
      OBVIOUS
    <3> QED
      BY <1>1, <1>6, <1>7, <1>9, <2>1, <3>1, WholeOnDisk
  <2>2. CASE m # P
    <3>1. dinode'[m] = dinode[m] /\ m \in Inodes /\ ~Unwritten(m) /\ ~Unsized(m)
      BY <1>1, <1>5, <1>6, <2>2 DEF Unwritten, Unsized
    <3>2. (m \in Dirs' <=> m \in Dirs) /\ Table'[m] = Table[m]
      BY <1>6, <3>1 DEF Dirs, Table, Row, View
    <3>3. Chunks(dinode[m], dinode[m].size)' = Chunks(dinode[m], dinode[m].size)
      BY <1>6, <3>1 DEF Chunks
    <3> QED
      BY <3>1, <3>2, <3>3 DEF ContentsInv, ContentsWhole
  <2> QED
    BY <2>1, <2>2
<1> QED
  BY <1>4, <1>10, ContentsExit

\* put_inode writes a parent that shows a new entry: the new inode is live and complete.
LEMMA ContentsPutGrown ==
  ASSUME NEW L, Before(L), ContentsInv(L), update_inode, who = "parent",
         NEW n \in Inodes \ L, Grown(L, n, dinode[n])
  PROVE  ContentsInv(L \cup {n})'
<1>1. /\ L \subseteq Inodes /\ DiskTypeOK
  BY BeforeParts
<1>2. /\ pc = "put" /\ PutDone /\ write_disk_inode(held.num, OnDisk(held))
  BY DEF update_inode
<1>3. held = parent /\ parent.num \in L /\ parent.num \in Inodes /\ pc \in Putting
  BY <1>2, PuttingTool DEF Putting
<1>4. pc' = "idle"
  BY <1>2 DEF PutDone, Exit
<1>5. PICK P : P = parent.num
  OBVIOUS
<1>6. /\ dinode'[P] = OnDisk(parent) /\ \A m \in L \cup {n} : m # P => dinode'[m] = dinode[m]
      /\ dirents' = dirents /\ chunk' = chunk
  BY <1>1, <1>2, <1>3, <1>5 DEF write_disk_inode, DiskTypeOK
<1>7. /\ dinode'[P].addr = parent.addr /\ dinode'[P].size = parent.size
      /\ dinode'[P].mode = parent.mode
  BY <1>6 DEF OnDisk
<1>8. P \in Dirs /\ parent.mode = "dir"
  BY <1>5 DEF Grown
<1>9. Whole(parent, P) /\ Whole(dinode[n], n)
  <2>1. Whole(parent, P)
    BY <1>3, <1>5, <1>8 DEF ContentsInv, ParentWhole, Whole
  <2>2. Whole(dinode[n], n)
    BY <1>2 DEF ContentsInv, NewWhole, Appears
  <2> QED
    BY <2>1, <2>2
<1>10. ASSUME NEW m \in L \cup {n}
       PROVE  \/ m \notin Dirs' /\ Chunks(dinode[m], dinode[m].size)'
              \/ m \in Dirs' /\ HasDots(Table'[m], m) /\ SizeFits(Table'[m], dinode'[m])
  <2>1. CASE m = P
    <3>1. PICK c : c = parent
      OBVIOUS
    <3> QED
      BY <1>3, <1>5, <1>6, <1>7, <1>9, <2>1, <3>1, WholeOnDisk
  <2>2. CASE m = n
    <3>1. PICK c : c = dinode[n]
      OBVIOUS
    <3>2. dinode'[n] = dinode[n]
      BY <1>3, <1>5, <1>6
    <3> QED
      BY <1>6, <1>9, <2>2, <3>1, <3>2, WholeOnDisk
  <2>3. CASE m # P /\ m # n
    <3>1. dinode'[m] = dinode[m] /\ m \in L /\ m \in Inodes /\ ~Unwritten(m) /\ ~Unsized(m)
      BY <1>1, <1>5, <1>6, <2>3 DEF Unwritten, Unsized
    <3>2. (m \in Dirs' <=> m \in Dirs) /\ Table'[m] = Table[m]
      BY <1>6, <3>1 DEF Dirs, Table, Row, View
    <3>3. Chunks(dinode[m], dinode[m].size)' = Chunks(dinode[m], dinode[m].size)
      BY <1>6, <3>1 DEF Chunks
    <3> QED
      BY <3>1, <3>2, <3>3 DEF ContentsInv, ContentsWhole
  <2> QED
    BY <2>1, <2>2, <2>3
<1> QED
  BY <1>4, <1>10, ContentsExit

\* put_inode writes the target's disk inode, then the parent's.
LEMMA ContentsUpdate ==
  ASSUME NEW L, Before(L), MarksInv(L), ContentsInv(L), update_inode
  PROVE  \E K \in SUBSET Inodes : LiveInv(K)' /\ MarksInv(K)' /\ ContentsInv(K)'
<1>1. pc \in Putting /\ L \subseteq Inodes
  BY BeforeParts DEF update_inode, Putting
<1>2. CASE who = "target" /\ target.num \notin L
  BY <1>1, <1>2, LivePutUnnamed, MarksPutUnnamed, ContentsPutUnnamed
<1>3. CASE who = "target" /\ target.num \in L
  BY <1>1, <1>3, LivePutNamed, MarksPutNamed, ContentsPutNamed
<1>4. CASE who = "parent"
  <2>1. Settled(L) \/ \E n \in Inodes \ L : Grown(L, n, dinode[n])
    BY <1>1, <1>4, PuttingTool DEF ParentDone
  <2>2. CASE Settled(L)
    BY <1>1, <1>4, <2>2, LivePutSettled, MarksPutSettled, ContentsPutSettled
  <2>3. CASE \E n \in Inodes \ L : Grown(L, n, dinode[n])
    <3>1. PICK n \in Inodes \ L : Grown(L, n, dinode[n])
      BY <2>3
    <3>2. LiveInv(L \cup {n})' /\ MarksInv(L \cup {n})' /\ ContentsInv(L \cup {n})'
      BY <1>4, <3>1, LivePutGrown, MarksPutGrown, ContentsPutGrown
    <3>3. L \cup {n} \in SUBSET Inodes
      BY <1>1
    <3> QED
      BY <3>2, <3>3
  <2> QED
    BY <2>1, <2>2, <2>3
<1> QED
  BY <1>1, <1>2, <1>3, <1>4, PuttingTool

-----------------------------------------------------------------------------
(* The invariant.                                                          *)

\* A step that does nothing.
LEMMA ContentsStutter ==
  ASSUME NEW L, ContentsInv(L), UNCHANGED vars
  PROVE  ContentsInv(L)'
<1>1. /\ ibits' = ibits /\ bbits' = bbits /\ dinode' = dinode /\ dirents' = dirents
      /\ chunk' = chunk /\ pc' = pc /\ base' = base /\ core' = core /\ who' = who
      /\ kills' = kills
  BY DEF vars
<1>2. parent' = parent /\ target' = target /\ Table' = Table /\ Dirs' = Dirs
      /\ Taken(L)' = Taken(L) /\ Spare(L)' = Spare(L) /\ \A d : LinksOf(d)' = LinksOf(d)
  BY <1>1 DEF parent, target, Table, Dirs, Taken, Spare, LinksOf
<1>3. ASSUME NEW n
      PROVE  Appears(L, n)' = Appears(L, n)
  <2>1. NameFree' = NameFree /\ LinksOf(parent.num)' = LinksOf(parent.num)
    BY <1>1, <1>2 DEF NameFree, LinksOf
  <2> QED
    BY <1>1, <1>2, <2>1 DEF Appears, Grown
<1>4. ContentsWhole(L)'
  BY <1>1, <1>2 DEF ContentsInv, ContentsWhole, Unwritten, Unsized, Chunks
<1>5. TargetWhole'
  BY <1>1, <1>2 DEF ContentsInv, TargetWhole, Whole, WholeDir, Chunks
<1>6. ParentWhole'
  BY <1>1, <1>2 DEF ContentsInv, ParentWhole, WholeDir, get_inode
<1>7. NewWhole(L)'
  BY <1>1, <1>2, <1>3 DEF ContentsInv, NewWhole, Whole, WholeDir, Chunks
<1> QED
  BY <1>4, <1>5, <1>6, <1>7 DEF ContentsInv

\* The root directory that mkfs writes (mkfs.c:268-320).
LEMMA WholeStart == Init => LiveInv({ROOT_INODE}) /\ MarksInv({ROOT_INODE}) /\ ContentsInv({ROOT_INODE})
<1> SUFFICES ASSUME Init
             PROVE  ContentsInv({ROOT_INODE})
  BY LiveRoot, MarksRoot
<1>1. /\ dirents = [b \in Blocks |-> IF b = FirstData THEN DotEntries(ROOT_INODE, ROOT_INODE)
                                                     ELSE ZeroBlock]
      /\ dinode = [n \in Inodes |-> IF n = ROOT_INODE THEN RootInode ELSE BlankInode]
      /\ pc = "idle"
  BY DEF Init, mkfs
<1>2. PICK c, D : c = dinode[ROOT_INODE] /\ D = dirents
  OBVIOUS
<1>3. c = RootInode /\ ROOT_INODE \in Inodes /\ ROOT_INODE # 0
  BY <1>1, <1>2, RootType DEF ROOT_INODE
<1>4. c.size = 2 /\ \A l \in Logical : c.addr[l] = IF l = 0 THEN FirstData ELSE 0
  BY <1>3 DEF RootInode, Unmapped
<1>5. FirstData # 0 /\ D[FirstData] = DotEntries(ROOT_INODE, ROOT_INODE)
  BY <1>1, <1>2, GeometryAssumption DEF Blocks
<1>6. HasDots(Row(D, c), ROOT_INODE) /\ SizeFits(Row(D, c), c)
  BY <1>3, <1>4, <1>5, DotsWhole DEF DotEntries
<1>7. Table[ROOT_INODE] = Row(D, c)
  BY <1>2, <1>3 DEF Table
<1>8. ROOT_INODE \in Dirs
  <2>1. c.mode = "dir"
    BY <1>3 DEF RootInode
  <2> QED
    BY <1>2, <1>3, <2>1 DEF Dirs
<1>9. ContentsWhole({ROOT_INODE})
  BY <1>2, <1>6, <1>7, <1>8 DEF ContentsWhole
<1>10. TargetWhole /\ ParentWhole /\ NewWhole({ROOT_INODE})
  BY <1>1 DEF TargetWhole, ParentWhole, NewWhole, Appears, Putting, Adding
<1> QED
  BY <1>9, <1>10 DEF ContentsInv

\* Every step that is not a fault leaves the contents complete.
LEMMA WholeStep ==
  ASSUME MaxKills <= 1, ~Fault, Inv, UnlinkedIsBlank, WholeTree, [Next]_vars
  PROVE  WholeTree'
<1>1. PICK L \in SUBSET Inodes : LiveInv(L) /\ MarksInv(L) /\ ContentsInv(L)
  BY DEF WholeTree
<1>2. Before(L) /\ MarksInv(L) /\ ContentsInv(L) /\ ProcTypeOK
  BY <1>1 DEF Before, Inv, TypeOK
<1>3. MaxKills <= 1 /\ ~Fault
  OBVIOUS
<1>4. LiveInv(L)' /\ MarksInv(L)' /\ ContentsInv(L)' => WholeTree'
  BY DEF WholeTree
<1>5. CASE Start \/ WalkDown \/ WalkFails \/ WalkEnds
  BY <1>2, <1>4, <1>5, LiveWalk, MarksRead, MarksFail, ContentsAlloc, ContentsFail
<1>6. CASE Create
  <2>1. CASE CreateLookupFails \/ NoFreeInode \/ NoFreeBlock \/ HostFails \/ AddEntryFails
    BY <1>2, <1>4, <2>1, LiveCreateFails, MarksFail, ContentsFail
  <2>2. CASE CreateLookup \/ alloc_inode \/ InitInode
    BY <1>2, <1>4, <2>2, LiveAllocInode, MarksRead, MarksInit, ContentsAlloc
  <2>3. CASE alloc_block \/ ZeroFresh \/ FileCopied
    BY <1>2, <1>4, <2>3, LiveFill, MarksFill, ContentsAlloc, ContentsCopied
  <2>4. CASE WriteDotEntries \/ CopyChunk
    BY <1>2, <1>4, <2>4, LiveContent, MarksFill, ContentsDots, ContentsAlloc
  <2>5. CASE AddEntryAllocates \/ AddEntryZeroes
    BY <1>2, <1>3, <1>4, <2>5, LiveAddBlock, MarksAddBlock, ContentsAddBlock
  <2>6. CASE AddEntryInSlot
    <3>1. PICK n \in Inodes : n = target.num /\ LiveInv(L \cup {n})' /\ MarksInv(L \cup {n})'
      BY <1>2, <1>3, <2>6, MarksAddSlot
    <3>2. ContentsInv(L \cup {n})'
      BY <1>2, <2>6, <3>1, ContentsAddSlot
    <3>3. L \cup {n} \in SUBSET Inodes
      BY <1>1
    <3> QED
      BY <3>1, <3>2, <3>3 DEF WholeTree
  <2>7. CASE AddEntryInNewBlock
    BY <1>2, <1>3, <1>4, <2>7, LiveAddLast, MarksAddBlock, ContentsAddLast
  <2> QED
    BY <1>6, <2>1, <2>2, <2>3, <2>4, <2>5, <2>6, <2>7 DEF Create
<1>7. CASE Remove
  <2>1. CASE detach_entry
    <3>1. PICK n \in Inodes : n = target.num /\ LiveInv(L \ {n})' /\ MarksInv(L \ {n})'
      BY <1>2, <2>1, MarksDetach
    <3>2. ContentsInv(L \ {n})'
      BY <1>2, <2>1, <3>1, ContentsDetach
    <3> QED
      BY <1>1, <3>1, <3>2 DEF WholeTree
  <2>2. CASE RmLookupFails \/ RmFile \/ RmEmptyDir \/ RmNotEmpty
    BY <1>2, <1>3, <1>4, <2>2, LiveRmLookup, MarksFail, MarksRmLookup, ContentsAlloc, ContentsFail
  <2> QED
    BY <1>7, <2>1, <2>2 DEF Remove
<1>8. CASE put_inode
  <2>1. CASE PutClean
    BY <1>2, <1>4, <2>1, LivePutClean, MarksPutClean, ContentsPutClean
  <2>2. CASE update_inode
    BY <1>2, <2>2, ContentsUpdate DEF WholeTree
  <2>3. CASE free_block \/ ZeroFreed \/ BlankOut \/ free_inode
    BY <1>2, <1>4, <2>3, LiveRelease, MarksRelease, ContentsRelease
  <2> QED
    BY <1>8, <2>1, <2>2, <2>3 DEF put_inode
<1>9. CASE UNCHANGED vars
  BY <1>1, <1>4, <1>9, LiveStutter, MarksStutter, ContentsStutter
<1> QED
  BY <1>3, <1>5, <1>6, <1>7, <1>8, <1>9 DEF Next, Step

\* The invariant, at every step.
LEMMA AlwaysWhole ==
  ASSUME NoFaults
  PROVE  Spec => [](Inv /\ UnlinkedIsBlank /\ WholeTree)
<1>1. Init => WholeTree
  BY WholeStart, RootType DEF WholeTree
<1>2. Init => Inv /\ UnlinkedIsBlank /\ WholeTree
  BY <1>1, InvInit, InitIsHalf, UnlinkedInit
<1>3. Inv /\ UnlinkedIsBlank /\ WholeTree /\ [Next]_vars => (Inv /\ UnlinkedIsBlank /\ WholeTree)'
  <2> SUFFICES ASSUME Inv, UnlinkedIsBlank, WholeTree, [Next]_vars
               PROVE  (Inv /\ UnlinkedIsBlank /\ WholeTree)'
    OBVIOUS
  <2>1. MaxKills <= 1 /\ ~Fault
    BY NoFaultHappens DEF OneKill, Inv, TypeOK
  <2> QED
    BY <2>1, InvStep, UnlinkedStep, WholeStep
<1> QED
  BY <1>2, <1>3, PTL DEF Spec

\* As long as no tool is interrupted and no read or write fails, every live directory and
\* file has its complete content on the disk, or the running tool is about to write it
\* (mkdir.c, cp.c, rm.c, dir.c).
THEOREM TreeIsWhole ==
  ASSUME NoFaults
  PROVE  Spec => []WholeTree
<1> QED
  BY AlwaysWhole, PTL

\* Nothing but a kill leaves a directory or a file incomplete.
Dotted == kills = 0 => WholeTree

\* Every step keeps it so.
LEMMA DottedStep ==
  ASSUME OneKill, Inv, UnlinkedIsBlank, Dotted, [Next]_vars
  PROVE  Dotted'
<1> SUFFICES ASSUME kills' = 0 PROVE WholeTree'
  BY DEF Dotted
<1>1. ~Fault /\ MaxKills <= 1
  <2>1. kills \in Nat
    <3>1. kills \in 0 .. MaxKills /\ MaxKills \in Nat
      BY FaultAssumption DEF Inv, TypeOK, ProcTypeOK
    <3> QED
      BY <3>1
  <2>2. ProcTypeOK
    BY DEF Inv, TypeOK
  <2> QED
    BY <2>1, <2>2, NoFailedIo DEF Kill, OneKill
<1>2. kills = 0
  <2>1. CASE UNCHANGED vars
    BY <2>1 DEF vars
  <2>2. CASE Start \/ Step
    BY <2>2 DEF Start, Invoke, Step, WalkDown, WalkFails, WalkEnds, Create, CreateLookup,
       CreateLookupFails, alloc_inode, NoFreeInode, InitInode, alloc_block, NoFreeBlock, HostFails,
       ZeroFresh, WriteDotEntries, CopyChunk, FileCopied, AddEntryInSlot, AddEntryAllocates,
       AddEntryZeroes, AddEntryInNewBlock, AddEntryFails, Remove, RmLookupFails, RmFile, RmEmptyDir,
       RmNotEmpty, detach_entry, put_inode, PutClean, update_inode, free_block, ZeroFreed, BlankOut,
       free_inode, faults
  <2> QED
    BY <1>1, <2>1, <2>2 DEF Next
<1> QED
  BY <1>1, <1>2, WholeStep DEF Dotted

\* And it is so before the first tool.
LEMMA DottedStart == Init => Dotted
<1>1. Init => WholeTree
  BY WholeStart, RootType DEF WholeTree
<1> QED
  BY <1>1 DEF Dotted

-----------------------------------------------------------------------------
(* What a run checks between two tools.                                    *)

\* Between two tools every live inode is complete.
LEMMA RestWhole ==
  ASSUME NEW L, AtRest(L), ContentsInv(L), NEW n \in L
  PROVE  /\ n \in Inodes /\ (n \in Dirs <=> dinode[n].mode = "dir")
         /\ n \in Dirs => HasDots(Table[n], n) /\ SizeFits(Table[n], dinode[n])
         /\ n \notin Dirs => Chunks(dinode[n], dinode[n].size)
<1>1. L \subseteq Inodes /\ pc \notin Putting
  BY AliveParts DEF AtRest, Putting
<1> QED
  BY <1>1, LiveWhole DEF Dirs

\* An entry of the table is found under its name.
LEMMA TableSearch ==
  ASSUME NEW L, AtRest(L), NEW d \in L \cap Dirs, NEW q \in Positions, Table[d][q].ino # 0
  PROVE  search_dir(dinode[d], Table[d][q].name, Table[d][q].ino)
<1>1. Alive(L) /\ DiskTypeOK /\ d \in Inodes
  BY AliveParts DEF AtRest, Alive
<1>2. dinode[d].addr[q[1]] # 0
  <2>1. NoEntry.ino = 0
    BY DEF NoEntry
  <2> QED
    BY <1>1, <2>1, EntryTypesInTable
<1>3. Table[d][q] = EntryAt(dinode[d], q)
  BY <1>1, <1>2, EntryTypesInTable
<1>4. q \in Mapped(dinode[d])
  BY <1>2 DEF Mapped
<1> QED
  BY <1>1, <1>3, <1>4, LiveSearch

\* Where the dots lead.
LEMMA RestDots ==
  ASSUME NEW L, AtRest(L), ContentsInv(L)
  PROVE  /\ \A n \in Reachable : dinode[n].mode = "dir" => search_dir(dinode[n], ".", n)
         /\ \A e \in Edges : dinode[Child(e[1], e[2])].mode = "dir"
                              => search_dir(dinode[Child(e[1], e[2])], "..", e[1])
<1>1. Alive(L) /\ Reachable = L
  BY RestParts DEF AtRest
<1>2. ASSUME NEW n \in Reachable, dinode[n].mode = "dir"
      PROVE  /\ search_dir(dinode[n], ".", n)
             /\ \E u : search_dir(dinode[n], "..", u) /\ LeadsUp(L, Table, Dirs, n, u)
  <2>1. n \in L /\ n \in Dirs /\ n \in Inodes /\ HasDots(Table[n], n)
    BY <1>1, <1>2, RestWhole
  <2>2. PICK u : u = Table[n][<<0, 1>>].ino
    OBVIOUS
  <2>3. /\ Table[n][<<0, 0>>].ino = n /\ Table[n][<<0, 0>>].name = "."
        /\ Table[n][<<0, 1>>].ino = u /\ Table[n][<<0, 1>>].name = ".."
        /\ u # 0 /\ n # 0
    BY <2>1, <2>2 DEF HasDots, Inodes
  <2>4. search_dir(dinode[n], ".", n)
    BY <2>1, <2>3, DotPositions, TableSearch
  <2>5. search_dir(dinode[n], "..", u)
    BY <2>1, <2>3, DotPositions, TableSearch
  <2>6. UpDots(L, Table, Dirs)
    BY <1>1, AliveParts DEF TreeOf
  <2>7. LeadsUp(L, Table, Dirs, n, u)
    BY <2>1, <2>3, <2>6, DotPositions DEF UpDots
  <2> QED
    BY <2>4, <2>5, <2>7
<1>3. ASSUME NEW e \in Edges, dinode[Child(e[1], e[2])].mode = "dir"
      PROVE  search_dir(dinode[Child(e[1], e[2])], "..", e[1])
  <2>1. PICK d, p, n : d = e[1] /\ p = e[2] /\ n = Child(e[1], e[2])
    OBVIOUS
  <2>2. /\ d \in L \cap Dirs /\ p \in Kids(Table, d) /\ n = Table[d][p].ino /\ n \in L \ {ROOT_INODE}
    BY <1>1, <2>1, EdgesLive, AliveParts
  <2>3. PICK u : search_dir(dinode[n], "..", u) /\ LeadsUp(L, Table, Dirs, n, u)
    BY <1>1, <1>2, <1>3, <2>1, <2>2
  <2>4. u \in L \cap Dirs /\ \E r \in Kids(Table, u) : Table[u][r].ino = n
    BY <2>2, <2>3 DEF LeadsUp
  <2>5. KidsOnce(L, Table, Dirs)
    BY <1>1, AliveParts DEF TreeOf
  <2>6. u = d
    BY <2>2, <2>4, <2>5 DEF KidsOnce
  <2> QED
    BY <2>1, <2>3, <2>6
<1> QED
  BY <1>2, <1>3

\* After a kill too, what search_dir answers for a dot is an entry of the table.
LEMMA DotAnswer ==
  ASSUME NEW L, Alive(L), NEW n \in L \cap Dirs, NEW dot \in Dots, ~search_dir(dinode[n], dot, 0)
  PROVE  \E q \in Positions : /\ Table[n][q].ino # 0 /\ Table[n][q].name = dot
                              /\ search_dir(dinode[n], dot, Table[n][q].ino)
<1>1. DiskTypeOK /\ n \in Inodes /\ dinode[n].mode = "dir"
  BY AliveParts DEF Alive
<1>2. PICK q \in Hits(dinode[n], dot) : TRUE
  BY <1>1 DEF search_dir
<1>3. q \in Positions /\ q \in Searched(dinode[n])
  BY <1>2 DEF Hits, Searched
<1>4. EntryAt(dinode[n], q).ino # 0 /\ EntryAt(dinode[n], q).name = dot
  BY <1>2 DEF Hits
<1>5. dinode[n].addr[q[1]] # 0
  <2>1. q[1] \in 0 .. q[1]
    BY <1>3, GeometryAssumption DEF Positions, Logical
  <2> QED
    BY <1>3, <2>1 DEF Searched
<1>6. q \in Mapped(dinode[n])
  BY <1>3, <1>5 DEF Mapped
<1>7. Table[n][q] = EntryAt(dinode[n], q)
  BY <1>1, <1>3, <1>5, EntryTypesInTable
<1>8. search_dir(dinode[n], EntryAt(dinode[n], q).name, EntryAt(dinode[n], q).ino)
  BY <1>4, <1>6, LiveSearch
<1> QED
  BY <1>3, <1>4, <1>7, <1>8

\* After a kill the dots of a live directory lead home, or are not there.
LEMMA KilledDots ==
  ASSUME NEW L, Alive(L), kills > 0
  PROVE  DotsLeadHome
<1>1. SelfDots(L, Table, Dirs) /\ UpDots(L, Table, Dirs) /\ KidsOnce(L, Table, Dirs)
  BY AliveParts DEF TreeOf
<1>2. ASSUME NEW n \in Reachable, dinode[n].mode = "dir"
      PROVE  DotLeads(n, ".", n)
  <2>1. n \in L \cap Dirs
    BY <1>2, ReachableLives, AliveParts
  <2>2. CASE search_dir(dinode[n], ".", 0)
    BY <2>2 DEF DotLeads
  <2>3. CASE ~search_dir(dinode[n], ".", 0)
    <3>1. PICK q \in Positions : /\ Table[n][q].ino # 0 /\ Table[n][q].name = "."
                                 /\ search_dir(dinode[n], ".", Table[n][q].ino)
      BY <2>1, <2>3, DotAnswer DEF Dots
    <3>2. Table[n][q].ino = n
      BY <1>1, <2>1, <3>1 DEF SelfDots
    <3> QED
      BY <3>1, <3>2 DEF DotLeads
  <2> QED
    BY <2>2, <2>3
<1>3. ASSUME NEW e \in Edges, dinode[Child(e[1], e[2])].mode = "dir"
      PROVE  DotLeads(Child(e[1], e[2]), "..", e[1])
  <2>1. PICK d, p, n : d = e[1] /\ p = e[2] /\ n = Child(e[1], e[2])
    OBVIOUS
  <2>2. /\ d \in L \cap Dirs /\ p \in Kids(Table, d) /\ n = Table[d][p].ino
        /\ n \in L \ {ROOT_INODE} /\ n \in Dirs
    BY <1>3, <2>1, EdgesLive, AliveParts
  <2>3. CASE search_dir(dinode[n], "..", 0)
    BY <2>1, <2>3 DEF DotLeads
  <2>4. CASE ~search_dir(dinode[n], "..", 0)
    <3>1. PICK q \in Positions : /\ Table[n][q].ino # 0 /\ Table[n][q].name = ".."
                                 /\ search_dir(dinode[n], "..", Table[n][q].ino)
      BY <2>2, <2>4, DotAnswer DEF Dots
    <3>2. LeadsUp(L, Table, Dirs, n, Table[n][q].ino)
      BY <1>1, <2>2, <3>1 DEF UpDots
    <3>3. PICK u : u = Table[n][q].ino
      OBVIOUS
    <3>4. u \in L \cap Dirs /\ \E r \in Kids(Table, u) : Table[u][r].ino = n
      BY <2>2, <3>2, <3>3 DEF LeadsUp
    <3>5. u = d
      BY <1>1, <2>2, <3>4 DEF KidsOnce
    <3> QED
      BY <2>1, <3>1, <3>3, <3>5 DEF DotLeads
  <2> QED
    BY <2>3, <2>4
<1> QED
  BY <1>2, <1>3 DEF DotsLeadHome

\* What a directory's size tells.
LEMMA RestSizes ==
  ASSUME NEW L, AtRest(L), ContentsInv(L)
  PROVE  DirSizeCoversEntries
<1>1. Alive(L) /\ Reachable = L /\ DiskTypeOK /\ LiveDisk(L)
  BY RestParts, AliveParts DEF AtRest, Alive
<1> SUFFICES ASSUME NEW d \in Reachable, dinode[d].mode = "dir"
             PROVE  /\ \A p \in Used(d) : SizeAt(p) <= dinode[d].size
                    /\ dinode[d].size <= DirentsPerBlock * Cardinality(Logical \ Holes(dinode[d]))
  BY DEF DirSizeCoversEntries
<1>2. d \in L /\ d \in Dirs /\ d \in Inodes /\ SizeFits(Table[d], dinode[d]) /\ Dense(dinode[d])
  BY <1>1, RestWhole DEF LiveDisk, InodesOf
<1>3. ASSUME NEW p \in Used(d)
      PROVE  SizeAt(p) <= dinode[d].size
  <2>1. p \in Positions /\ dinode[d].addr[p[1]] # 0 /\ EntryAt(dinode[d], p).ino # 0
    BY DEF Used, Mapped
  <2>2. Table[d][p].ino # 0
    BY <1>1, <1>2, <2>1, EntryTypesInTable
  <2> QED
    BY <1>2, <2>1, <2>2 DEF SizeFits
<1>4. PICK l \in Logical : dinode[d].addr[l] # 0 /\ dinode[d].size <= (l + 1) * DirentsPerBlock
  BY <1>2 DEF SizeFits
<1>5. l \in Nat /\ 0 .. l \subseteq Logical /\ IsFiniteSet(Logical) /\ NDIRECT \in Nat
  <2>1. NDIRECT \in Nat /\ l \in 0 .. NDIRECT - 1
    BY GeometryAssumption DEF Logical
  <2>2. l \in Nat /\ 0 .. l \subseteq 0 .. NDIRECT - 1
    BY <2>1
  <2>3. IsFiniteSet(0 .. NDIRECT - 1)
    BY <2>1, FS_Interval
  <2> QED
    BY <2>1, <2>2, <2>3 DEF Logical
<1>6. 0 .. l \subseteq Logical \ Holes(dinode[d])
  <2> SUFFICES ASSUME NEW m \in 0 .. l
               PROVE  dinode[d].addr[m] # 0
    BY <1>5 DEF Holes
  <2>1. m \in Logical /\ (m = l \/ m < l)
    BY <1>5
  <2> QED
    BY <1>2, <1>4, <2>1 DEF Dense
<1>7. PICK c : c = Cardinality(Logical \ Holes(dinode[d]))
  OBVIOUS
<1>8. c \in Nat /\ l + 1 <= c
  <2>1. IsFiniteSet(Logical \ Holes(dinode[d]))
    BY <1>5, FS_Subset
  <2>2. Cardinality(0 .. l) = l + 1
    BY <1>5, FS_Interval
  <2>3. Cardinality(0 .. l) <= Cardinality(Logical \ Holes(dinode[d]))
    BY <1>6, <2>1, FS_Subset
  <2> QED
    BY <1>7, <2>1, <2>2, <2>3, FS_CardinalityType
<1>9. PICK D, s : D = DirentsPerBlock /\ s = dinode[d].size
  OBVIOUS
<1>10. D \in Nat /\ s \in Nat /\ s <= (l + 1) * D
  BY <1>1, <1>2, <1>4, <1>9, GeometryAssumption DEF DiskTypeOK, disk_inode
<1>11. s <= D * c
  <2>1. PICK x \in Nat : c = (l + 1) + x
    <3>1. c - (l + 1) \in Nat /\ c = (l + 1) + (c - (l + 1))
      BY <1>5, <1>8
    <3> QED
      BY <3>1
  <2>2. D * c = D * (l + 1) + D * x
    BY <1>5, <1>10, <2>1
  <2>3. D * x \in Nat /\ D * (l + 1) = (l + 1) * D /\ (l + 1) * D \in Nat
    BY <1>5, <1>10, <2>1
  <2> QED
    BY <1>10, <2>2, <2>3
<1> QED
  BY <1>3, <1>7, <1>9, <1>11

\* What the files hold.
LEMMA RestFiles ==
  ASSUME NEW L, AtRest(L), ContentsInv(L)
  PROVE  FilesIntact
<1> SUFFICES ASSUME NEW n \in Reachable, dinode[n].mode = "reg"
             PROVE  Chunks(dinode[n], dinode[n].size)
  BY DEF FilesIntact, Chunks
<1>1. n \in L
  BY RestParts
<1> QED
  BY <1>1, RestWhole

\* The invariant, between two tools.
LEMMA AlwaysWholeAtRest ==
  ASSUME NoFaults
  PROVE  Spec => [](pc = "idle" => \E L \in SUBSET Inodes : AtRest(L) /\ ContentsInv(L))
<1>1. Inv /\ UnlinkedIsBlank /\ WholeTree /\ MetadataSafe
        => (pc = "idle" => \E L \in SUBSET Inodes : AtRest(L) /\ ContentsInv(L))
  <2> SUFFICES ASSUME Inv, UnlinkedIsBlank, WholeTree, MetadataSafe, pc = "idle"
               PROVE  \E L \in SUBSET Inodes : AtRest(L) /\ ContentsInv(L)
    OBVIOUS
  <2>1. PICK L \in SUBSET Inodes : LiveInv(L) /\ MarksInv(L) /\ ContentsInv(L)
    BY DEF WholeTree
  <2>2. kills \in 0 .. MaxKills
    BY DEF Inv, TypeOK, ProcTypeOK
  <2>3. kills = 0
    BY <2>2 DEF NoFaults
  <2> QED
    BY <2>1, <2>3 DEF AtRest, Alive, Inv, TypeOK
<1> QED
  BY <1>1, AlwaysWhole, MetadataIsSafe, PTL

\* Between two tools "." of every directory names itself and ".." the directory that
\* holds its entry; only after a kill may a directory have no dots, and then it has no
\* wrong ones either (mkdir.c:170-188, dir.c namei).
THEOREM DotsAlwaysLeadHome ==
  ASSUME OneKill
  PROVE  Spec => []DotsLeadHome
<1>1. Ready /\ MetadataSafe /\ Dotted => DotsLeadHome
  <2> SUFFICES ASSUME Ready, MetadataSafe, Dotted, pc = "idle"
               PROVE  DotsLeadHome
    BY DEF DotsLeadHome, Quiet
  <2>1. kills \in Nat /\ Inv /\ UnlinkedIsBlank /\ TypeOK /\ DiskTypeOK
    <3>1. kills \in 0 .. MaxKills /\ MaxKills \in Nat
      BY FaultAssumption DEF Ready, Inv, TypeOK, ProcTypeOK
    <3> QED
      BY <3>1 DEF Ready, Inv, TypeOK
  <2>2. CASE kills = 0
    <3>1. PICK L \in SUBSET Inodes : LiveInv(L) /\ MarksInv(L) /\ ContentsInv(L)
      BY <2>2 DEF Dotted, WholeTree
    <3>2. AtRest(L)
      BY <2>1, <2>2, <3>1 DEF AtRest, Alive
    <3> QED
      BY <3>1, <3>2, RestDots DEF DotsLeadHome, DotLeads
  <2>3. CASE kills > 0
    <3>1. PICK L \in SUBSET Inodes : Alive(L)
      BY <2>1 DEF Ready, LiveTree, Alive
    <3> QED
      BY <2>3, <3>1, KilledDots
  <2> QED
    BY <2>1, <2>2, <2>3
<1>2. Init => Dotted
  BY DottedStart
<1>3. Ready /\ Dotted /\ [Next]_vars => Dotted'
  BY DottedStep DEF Ready
<1> QED
  BY <1>1, <1>2, <1>3, AlwaysReady, MetadataIsSafe, PTL DEF Spec

\* A directory's size covers its last entry and ends in one of its blocks (add_entry).
THEOREM DirSizesCover ==
  ASSUME NoFaults
  PROVE  Spec => []DirSizeCoversEntries
<1>1. (pc = "idle" => \E L \in SUBSET Inodes : AtRest(L) /\ ContentsInv(L)) => DirSizeCoversEntries
  BY RestSizes DEF DirSizeCoversEntries, Quiet
<1> QED
  BY <1>1, AlwaysWholeAtRest, PTL

\* Every regular file holds the chunks of its host file, in order, whatever was created,
\* removed or refused since (cp.c:194-221).
THEOREM FilesStayIntact ==
  ASSUME NoFaults
  PROVE  Spec => []FilesIntact
<1>1. (pc = "idle" => \E L \in SUBSET Inodes : AtRest(L) /\ ContentsInv(L)) => FilesIntact
  BY RestFiles DEF FilesIntact, Quiet
<1> QED
  BY <1>1, AlwaysWholeAtRest, PTL
=============================================================================
