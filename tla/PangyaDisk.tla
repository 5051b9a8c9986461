------------------------------ MODULE PangyaDisk ------------------------------
(***************************************************************************)
(* The disk image of a PangYa filesystem and the library that reads and    *)
(* writes it (bitmap.c, allocator.c, dir.c, fs_utils.c).                   *)
(*                                                                         *)
(* Every write of the library is one pwrite(2) of at most one block        *)
(* (write_block, fs_utils.c); each of them is one action on the disk here, *)
(* so that the tools of PangyaTools can be interrupted between any two.    *)
(*                                                                         *)
(* Abstractions: a bitmap is the set of the numbers whose bit is set; a    *)
(* directory's size is counted in directory entries and a file's size in   *)
(* blocks; the contents of a data block are its directory entries and, for *)
(* the blocks of files, the number of the host file's chunk stored there.  *)
(* Where each bit, inode and block lies in the image file is the business  *)
(* of the on-disk layout, not of this module.                              *)
(***************************************************************************)
EXTENDS Integers, FiniteSets

CONSTANTS
  NInodes,          \* s_ninodes: inode numbers run from 0 to NInodes - 1
  FirstData,        \* 2 + s_inode_map_size + s_block_map_size + s_isize
  FSize,            \* s_fsize: block numbers run from 0 to FSize - 1
  NDIRECT,          \* logical blocks of an inode
  DirentsPerBlock,  \* get_dirent_per_block()
  Names             \* the entry names users choose

\* What mkfs checks before it formats an image (mkfs.c:145, 165, 233 and the
\* bitmap_set of ROOT_INODE at 299), and that "." and ".." fit in a block.
ASSUME GeometryAssumption ==
  /\ NInodes \in Nat /\ NInodes > 1
  /\ FirstData \in Nat /\ FirstData > 1
  /\ FSize \in Nat /\ FSize > FirstData
  /\ NDIRECT \in Nat /\ NDIRECT > 0
  /\ DirentsPerBlock \in Nat /\ DirentsPerBlock > 1

ASSUME NamesAssumption == Names \cap {".", "..", ""} = {}

VARIABLES
  ibits,    \* inode numbers marked in the inode bitmap
  bbits,    \* block numbers marked in the block bitmap
  dinode,   \* the inode list
  dirents,  \* directory entries stored in each block
  chunk     \* 1 + number of the host chunk stored in each block, 0 if none

diskVars == <<ibits, bbits, dinode, dirents, chunk>>

ROOT_INODE == 1
Inodes     == 1 .. NInodes - 1
Blocks     == 0 .. FSize - 1
Logical    == 0 .. NDIRECT - 1
Slots      == 0 .. DirentsPerBlock - 1
Positions  == Logical \X Slots
Dots       == {".", ".."}
UINT16_MAX == 65535
NLinks     == 0 .. UINT16_MAX      \* uint16_t i_nlink

badblock(b) == b < FirstData \/ b >= FSize

Unmapped == [l \in Logical |-> 0]

disk_inode == [mode : {"none", "reg", "dir"}, nlink : NLinks, size : Nat,
               addr : [Logical -> Blocks]]

BlankInode == [mode |-> "none", nlink |-> 0, size |-> 0, addr |-> Unmapped]

\* The name that stays in a detached entry is never looked at again, so that
\* every entry with inode number 0 is the same value.
NoEntry == [ino |-> 0, name |-> ""]
dirent  == [ino : 0 .. NInodes - 1, name : Names \cup Dots \cup {""}]

ZeroBlock == [s \in Slots |-> NoEntry]

DiskTypeOK ==
  /\ ibits \subseteq 0 .. NInodes - 1
  /\ bbits \subseteq Blocks
  /\ dinode \in [Inodes -> disk_inode]
  /\ dirents \in [Blocks -> [Slots -> dirent]]
  /\ chunk \in [Blocks -> 0 .. NDIRECT]

\* "." and ".." in the first two slots of a new directory's block.
DotEntries(self, up) ==
  [ZeroBlock EXCEPT ![0] = [ino |-> self, name |-> "."],
                    ![1] = [ino |-> up, name |-> ".."]]

RootInode == [mode |-> "dir", nlink |-> 2, size |-> 2, addr |-> [Unmapped EXCEPT ![0] = FirstData]]

\* The image mkfs leaves behind.
mkfs ==
  /\ ibits = {0, ROOT_INODE}
  /\ bbits = 0 .. FirstData
  /\ dinode = [n \in Inodes |-> IF n = ROOT_INODE THEN RootInode ELSE BlankInode]
  /\ dirents = [b \in Blocks |->
                 IF b = FirstData THEN DotEntries(ROOT_INODE, ROOT_INODE)
                                  ELSE ZeroBlock]
  /\ chunk = [b \in Blocks |-> 0]

\* What it leaves behind when it ends after the superblock was written, but before
\* the last bit: the root directory's entries, the root's inode, i bits of the inode
\* bitmap and b of the block bitmap come in this order.
mkfs_cut ==
  /\ \E dots, root \in BOOLEAN, i \in 0 .. 2, b \in 0 .. FirstData + 1 :
       /\ (root => dots) /\ (i > 0 => root) /\ (b > 0 => i = 2)
       /\ ibits = 0 .. i - 1
       /\ bbits = 0 .. b - 1
       /\ dinode = [n \in Inodes |-> IF n = ROOT_INODE /\ root THEN RootInode ELSE BlankInode]
       /\ dirents = [d \in Blocks |-> IF d = FirstData /\ dots
                                      THEN DotEntries(ROOT_INODE, ROOT_INODE) ELSE ZeroBlock]
  /\ chunk = [b \in Blocks |-> 0]

-----------------------------------------------------------------------------
(* In-core inodes (struct inode). NULL is the one numbered 0.              *)

CLEAN == 0
DIRTY == 1

inode == [num : 0 .. NInodes - 1, dirty : {CLEAN, DIRTY}, mode : {"none", "reg", "dir"},
          nlink : NLinks, size : Nat, addr : [Logical -> Blocks]]

NULL == [num |-> 0, dirty |-> CLEAN, mode |-> "none", nlink |-> 0, size |-> 0,
         addr |-> Unmapped]

InCore(n, d) == [num |-> n, dirty |-> CLEAN, mode |-> d.mode, nlink |-> d.nlink,
                 size |-> d.size, addr |-> d.addr]

get_inode(n) == InCore(n, dinode[n])

OnDisk(c) == [mode |-> c.mode, nlink |-> c.nlink, size |-> c.size, addr |-> c.addr]

-----------------------------------------------------------------------------
(* Reading directories.                                                    *)

EntryAt(c, p) == dirents[c.addr[p[1]]][p[2]]

Precedes(p, q) == p[1] < q[1] \/ (p[1] = q[1] /\ p[2] < q[2])

IsFirst(p, S) == p \in S /\ \A q \in S : p = q \/ Precedes(p, q)

\* Seeded fault: the loop of search_dir ends one block early.
SearchedShort(c) == {p \in Positions : p[1] < NDIRECT - 1 /\ \A l \in 0 .. p[1] : c.addr[l] # 0}

\* search_dir stops at the first logical block that is not mapped.
Searched(c) == {p \in Positions : \A l \in 0 .. p[1] : c.addr[l] # 0}

\* add_entry, detach_entry and rm skip unmapped blocks and go on.
Mapped(c) == {p \in Positions : c.addr[p[1]] # 0}

Hits(c, name) == {p \in Searched(c) : EntryAt(c, p).ino # 0 /\ EntryAt(c, p).name = name}

ENOTDIR == -1

\* r is what search_dir answers for name in the directory c.
search_dir(c, name, r) ==
  \/ c.mode # "dir" /\ r = ENOTDIR
  \/ c.mode = "dir" /\ Hits(c, name) = {} /\ r = 0
  \/ c.mode = "dir" /\ \E p \in Hits(c, name) :
                          IsFirst(p, Hits(c, name)) /\ r = EntryAt(c, p).ino

FreeSlots(c) == {p \in Mapped(c) : EntryAt(c, p).ino = 0}

Holes(c) == {l \in Logical : c.addr[l] = 0}

\* The entries detach_entry may clear once search_dir has found inode i.
Detachable(c, name, i) ==
  {p \in Mapped(c) : EntryAt(c, p) = [ino |-> i, name |-> name]}

\* Seeded fault: the last entry of a block is not looked at.
OccupantsShort(c, blocksRead) ==
  {p \in Mapped(c) : /\ p[1] \in blocksRead /\ p[2] < DirentsPerBlock - 1
                     /\ EntryAt(c, p).ino # 0
                     /\ EntryAt(c, p).name \notin Dots}

\* The entries that make rm refuse to remove a directory, in the blocks read.
Occupants(c, blocksRead) ==
  {p \in Mapped(c) : /\ p[1] \in blocksRead
                     /\ EntryAt(c, p).ino # 0
                     /\ EntryAt(c, p).name \notin Dots}

-----------------------------------------------------------------------------
(* Choosing what to allocate: the lowest clear bit that may be handed out. *)

FreeInodes == Inodes \ ibits

\* Seeded fault: the bitmap is not consulted.
DataBlocks == {b \in Blocks : ~badblock(b)}

\* Seeded fault: badblock is not asked.
ClearBlocks == Blocks \ bbits

FreeBlocks == {b \in Blocks \ bbits : ~badblock(b)}
Lowest(x, S) == x \in S /\ \A y \in S : x <= y

-----------------------------------------------------------------------------
(* Writing: one pwrite each.                                               *)

\* Seeded faults: the bitmap is never written back.
KeepInodeBit(n) == UNCHANGED diskVars
KeepBlockBit(b) == UNCHANGED diskVars

SetInodeBit(n) ==
  ibits' = ibits \cup {n} /\ UNCHANGED <<bbits, dinode, dirents, chunk>>

ClearInodeBit(n) ==
  ibits' = ibits \ {n} /\ UNCHANGED <<bbits, dinode, dirents, chunk>>

SetBlockBit(b) ==
  bbits' = bbits \cup {b} /\ UNCHANGED <<ibits, dinode, dirents, chunk>>

ClearBlockBit(b) ==
  bbits' = bbits \ {b} /\ UNCHANGED <<ibits, dinode, dirents, chunk>>

write_disk_inode(n, d) ==
  dinode' = [dinode EXCEPT ![n] = d] /\ UNCHANGED <<ibits, bbits, dirents, chunk>>

zero_block(b) ==
  /\ dirents' = [dirents EXCEPT ![b] = ZeroBlock]
  /\ chunk' = [chunk EXCEPT ![b] = 0]
  /\ UNCHANGED <<ibits, bbits, dinode>>

\* Seeded fault: ".." names the root, whatever the parent.
WriteDotsToRoot(b, self, up) ==
  /\ dirents' = [dirents EXCEPT ![b] = [@ EXCEPT ![0] = [ino |-> self, name |-> "."],
                                                ![1] = [ino |-> ROOT_INODE, name |-> ".."]]]
  /\ UNCHANGED <<ibits, bbits, dinode, chunk>>

WriteDots(b, self, up) ==
  /\ dirents' = [dirents EXCEPT ![b] = [@ EXCEPT ![0] = [ino |-> self, name |-> "."],
                                                ![1] = [ino |-> up, name |-> ".."]]]
  /\ UNCHANGED <<ibits, bbits, dinode, chunk>>

WriteDirent(b, s, e) ==
  /\ dirents' = [dirents EXCEPT ![b] = [@ EXCEPT ![s] = e]]
  /\ UNCHANGED <<ibits, bbits, dinode, chunk>>

\* The whole block is written; alloc_block has zeroed it, so that no entries go.
WriteChunk(b, j) ==
  /\ chunk' = [chunk EXCEPT ![b] = j + 1]
  /\ UNCHANGED <<ibits, bbits, dinode, dirents>>
=============================================================================
