------------------------- MODULE PangyaTools_proofs -------------------------
(***************************************************************************)
(* What holds of PangyaTools for every image size, every set of names and  *)
(* any number of killed tools and failed reads and writes, from a finished *)
(* or a half-made image: types, the metadata of the image, the inodes      *)
(* without links, and the shape of all others.                             *)
(***************************************************************************)
EXTENDS PangyaHalfMade, TLAPS

Inodes2 == {"parent", "target"}

-----------------------------------------------------------------------------
(* Types of the values the steps compute.                                  *)

\* The link counts the tools write themselves.
LEMMA SmallLinks == 0 \in NLinks /\ 1 \in NLinks /\ 2 \in NLinks
<1>1. UINT16_MAX \in Nat /\ 2 <= UINT16_MAX
  BY DEF UINT16_MAX
<1> QED
  BY <1>1 DEF NLinks

\* The null in-core inode is an in-core inode.
LEMMA NullType == NULL \in inode /\ NoInodes \in [Inodes2 -> inode]
  BY SmallLinks, GeometryAssumption DEF NULL, inode, Unmapped, Logical, Blocks, NoInodes, Inodes2

\* get_inode (allocator.c) reads an in-core inode for every valid number.
LEMMA GetInodeType ==
  ASSUME DiskTypeOK, NEW n \in Inodes
  PROVE  get_inode(n) \in inode
  BY GeometryAssumption DEF DiskTypeOK, get_inode, InCore, disk_inode, inode, Inodes

\* Mapping a logical block keeps an in-core inode an in-core inode.
LEMMA MapType ==
  ASSUME NEW r \in inode, NEW l, NEW b \in Blocks
  PROVE  [r EXCEPT !.addr[l] = b] \in inode
  BY DEF inode

\* The inode put_inode leaves for a released number (mkfs.c:56, too).
LEMMA BlankType == BlankInode \in disk_inode
<1>1. Unmapped \in [Logical -> Blocks]
  BY GeometryAssumption DEF Unmapped, Blocks
<1> QED
  BY <1>1, SmallLinks DEF BlankInode, disk_inode

\* The inode alloc_inode writes (allocator.c:174-183).
LEMMA NewInodeType == NewInode \in disk_inode
<1>1. 1 \in NLinks /\ 2 \in NLinks
  BY SmallLinks
<1>2. \A m \in {"dir", "reg"}, n \in NLinks :
        [BlankInode EXCEPT !.mode = m, !.nlink = n] \in disk_inode
  BY BlankType DEF disk_inode
<1> QED
  BY <1>1, <1>2 DEF NewInode

\* update_inode writes the in-core inode's fields.
LEMMA OnDiskType ==
  ASSUME NEW r \in inode
  PROVE  OnDisk(r) \in disk_inode
  BY DEF OnDisk, inode, disk_inode

\* Adding the fields a creator sets to an in-core inode.
LEMMA FieldTypes ==
  ASSUME NEW r \in inode, NEW size \in Nat, NEW nlink \in NLinks, NEW d \in {CLEAN, DIRTY}
  PROVE  /\ [r EXCEPT !.nlink = nlink] \in inode
         /\ [r EXCEPT !.dirty = d] \in inode
         /\ [r EXCEPT !.size = size, !.nlink = nlink] \in inode
         /\ [r EXCEPT !.dirty = d, !.size = size, !.nlink = nlink] \in inode
  BY DEF inode

-----------------------------------------------------------------------------
(* Each write keeps the disk well typed.                                   *)

\* Setting and clearing bits stays inside the bitmaps.
LEMMA BitTypes ==
  ASSUME DiskTypeOK, NEW n, NEW b,
         \/ n \in 0 .. NInodes - 1 /\ SetInodeBit(n)
         \/ b \in Blocks /\ SetBlockBit(b)
         \/ ClearInodeBit(n)
         \/ ClearBlockBit(b)
         \/ UNCHANGED diskVars
  PROVE  DiskTypeOK'
  BY DEF DiskTypeOK, SetInodeBit, SetBlockBit, ClearInodeBit, ClearBlockBit, diskVars

\* So does a write of an inode inside the inode list.
LEMMA InodeWriteType ==
  ASSUME DiskTypeOK, NEW n, NEW d \in disk_inode, write_disk_inode(n, d)
  PROVE  DiskTypeOK'
  BY DEF DiskTypeOK, write_disk_inode

\* What the tools write as directory entries are entries.
LEMMA EntryTypes ==
  /\ NoEntry \in dirent
  /\ ZeroBlock \in [Slots -> dirent]
  /\ \A i \in 0 .. NInodes - 1, name \in Names \cup Dots : [ino |-> i, name |-> name] \in dirent
<1>1. NoEntry \in dirent
  BY GeometryAssumption DEF NoEntry, dirent
<1>2. ZeroBlock \in [Slots -> dirent]
  BY <1>1 DEF ZeroBlock
<1>3. \A i \in 0 .. NInodes - 1, name \in Names \cup Dots : [ino |-> i, name |-> name] \in dirent
  BY DEF dirent
<1> QED
  BY <1>1, <1>2, <1>3

\* A zeroed block holds no entries.
LEMMA ZeroBlockType ==
  ASSUME DiskTypeOK, NEW b, zero_block(b)
  PROVE  DiskTypeOK'
<1>1. dirents' \in [Blocks -> [Slots -> dirent]]
  BY EntryTypes DEF zero_block, DiskTypeOK
<1>2. chunk' \in [Blocks -> 0 .. NDIRECT]
  <2>1. 0 \in 0 .. NDIRECT
    BY GeometryAssumption
  <2> QED
    BY <2>1 DEF zero_block, DiskTypeOK
<1> QED
  BY <1>1, <1>2 DEF zero_block, DiskTypeOK

\* One entry written, all others kept.
LEMMA WriteDirentType ==
  ASSUME DiskTypeOK, NEW b, NEW s, NEW e \in dirent, WriteDirent(b, s, e)
  PROVE  DiskTypeOK'
  BY DEF WriteDirent, DiskTypeOK

\* The block of a new directory.
LEMMA WriteDotsType ==
  ASSUME DiskTypeOK, NEW b, NEW i \in 0 .. NInodes - 1, NEW j \in 0 .. NInodes - 1,
         WriteDots(b, i, j)
  PROVE  DiskTypeOK'
<1>1. [ino |-> i, name |-> "."] \in dirent /\ [ino |-> j, name |-> ".."] \in dirent
  BY EntryTypes DEF Dots
<1> QED
  BY <1>1 DEF WriteDots, DiskTypeOK

\* One chunk written.
LEMMA WriteChunkType ==
  ASSUME DiskTypeOK, NEW b, NEW m \in Nat, m < NDIRECT, WriteChunk(b, m)
  PROVE  DiskTypeOK'
<1>1. m + 1 \in 0 .. NDIRECT
  BY GeometryAssumption
<1> QED
  BY <1>1 DEF WriteChunk, DiskTypeOK

-----------------------------------------------------------------------------
(* The parts the actions of the tools share.                               *)

\* exit(), or a kill, leaves no process behind.
LEMMA ExitOK ==
  ASSUME ProcTypeOK, Exit, kills' \in 0 .. MaxKills, ioerrs' \in 0 .. MaxIoErrs
  PROVE  ProcTypeOK' /\ InFlight'
<1>1. 0 \in 0 .. NDIRECT
  BY GeometryAssumption
<1>2. fsz' \in 0 .. NDIRECT /\ k' \in 0 .. NDIRECT /\ fresh' \in Nat
  BY <1>1 DEF Exit
<1>3. core' \in [{"parent", "target"} -> inode]
  BY NullType DEF Exit, Inodes2
<1>4. status' \in {EXIT_SUCCESS, EXIT_FAILURE}
  BY DEF Exit
<1> QED
  BY <1>2, <1>3, <1>4 DEF ProcTypeOK, Exit, InFlight

\* The error handlers of mkdir, cp and rm.
LEMMA ErrorHandlerOK ==
  ASSUME ProcTypeOK, NEW c \in [Inodes2 -> inode], error_handler(c),
         kills' \in 0 .. MaxKills, ioerrs' \in 0 .. MaxIoErrs
  PROVE  ProcTypeOK' /\ InFlight'
<1>1. 0 \in NLinks
  BY SmallLinks
<1>2. core' \in [Inodes2 -> inode]
  <2>1. [c["target"] EXCEPT !.nlink = 0] \in inode
    BY <1>1 DEF Inodes2, inode
  <2> QED
    BY <2>1 DEF error_handler, Inodes2
<1>4. k' \in 0 .. NDIRECT /\ fresh' \in Nat
  BY GeometryAssumption DEF error_handler
<1> QED
  BY <1>2, <1>4 DEF ProcTypeOK, error_handler, InFlight, args, Inodes2

\* put_inode returning (allocator.c:278).
LEMMA PutDoneOK ==
  ASSUME ProcTypeOK, PutDone, kills' \in 0 .. MaxKills, ioerrs' \in 0 .. MaxIoErrs
  PROVE  ProcTypeOK' /\ InFlight'
<1>1. CASE who = "target"
  <2>1. core' \in [Inodes2 -> inode]
    BY <1>1, NullType DEF PutDone, ProcTypeOK, Inodes2
  <2>2. pc' = "put" /\ who' = "parent" /\ fresh' = 0 /\ UNCHANGED <<args, k, status>>
    BY <1>1 DEF PutDone
  <2> QED
    BY <2>1, <2>2 DEF ProcTypeOK, InFlight, args, Inodes2
<1>2. CASE who # "target"
  BY <1>2, ExitOK DEF PutDone
<1> QED
  BY <1>1, <1>2

\* Reading changes nothing on the disk.
LEMMA DiskSame ==
  ASSUME DiskTypeOK, UNCHANGED diskVars
  PROVE  DiskTypeOK'
  BY DEF DiskTypeOK, diskVars

\* A step without a fault leaves both fault counters alone.
LEMMA FaultsSame ==
  ASSUME ProcTypeOK, UNCHANGED faults
  PROVE  kills' \in 0 .. MaxKills /\ ioerrs' \in 0 .. MaxIoErrs
  BY DEF ProcTypeOK, faults

\* A link count is an uint16_t, whatever is added to it.
LEMMA LinkArithmetic ==
  ASSUME NEW n \in NLinks
  PROVE  LinkedOnce(n) \in NLinks /\ Unlinked(n) \in NLinks
<1>1. UINT16_MAX \in Nat
  BY DEF UINT16_MAX
<1> QED
  BY <1>1 DEF NLinks, LinkedOnce, Unlinked

\* The root directory's number is a valid one.
LEMMA RootType == ROOT_INODE \in Inodes
  BY GeometryAssumption DEF ROOT_INODE, Inodes

\* The in-core inode of the running tool.
LEMMA HeldType ==
  ASSUME ProcTypeOK
  PROVE  held \in inode
  BY DEF ProcTypeOK, held

-----------------------------------------------------------------------------
(* Every step keeps the types, and what is in flight.                      *)

Inv == TypeOK /\ InFlight

\* The image of a finished mkfs is one of those that mkfs may leave.
LEMMA InitIsHalf == Init => HalfInit
<1> SUFFICES ASSUME Init
             PROVE  mkfs_cut
  BY DEF Init, HalfInit
<1>1. /\ 2 \in 0 .. 2 /\ FirstData + 1 \in 0 .. FirstData + 1
      /\ (FirstData + 1) - 1 = FirstData /\ 0 .. 2 - 1 = {0, ROOT_INODE}
  BY GeometryAssumption DEF ROOT_INODE
<1>2. /\ ibits = 0 .. 2 - 1 /\ bbits = 0 .. (FirstData + 1) - 1
      /\ dinode = [n \in Inodes |-> IF n = ROOT_INODE /\ TRUE THEN RootInode ELSE BlankInode]
      /\ dirents = [d \in Blocks |-> IF d = FirstData /\ TRUE
                                     THEN DotEntries(ROOT_INODE, ROOT_INODE) ELSE ZeroBlock]
      /\ chunk = [b \in Blocks |-> 0]
  BY <1>1 DEF Init, mkfs
<1> QED
  BY <1>1, <1>2 DEF mkfs_cut

\* The image of an mkfs that may not have got to its end, and no tool.
LEMMA HalfInvInit == HalfInit => Inv
<1> SUFFICES ASSUME HalfInit
             PROVE  Inv
  OBVIOUS
<1>1. DiskTypeOK
  <2>1. PICK dots \in BOOLEAN, root \in BOOLEAN, i \in 0 .. 2, b \in 0 .. FirstData + 1 :
          /\ ibits = 0 .. i - 1
          /\ bbits = 0 .. b - 1
          /\ dinode = [n \in Inodes |-> IF n = ROOT_INODE /\ root THEN RootInode ELSE BlankInode]
          /\ dirents = [d \in Blocks |-> IF d = FirstData /\ dots
                                         THEN DotEntries(ROOT_INODE, ROOT_INODE) ELSE ZeroBlock]
    BY DEF HalfInit, mkfs_cut
  <2>2. ibits \subseteq 0 .. NInodes - 1 /\ bbits \subseteq Blocks
    BY <2>1, GeometryAssumption DEF Blocks
  <2>3. dinode \in [Inodes -> disk_inode]
    <3>1. FirstData \in Blocks /\ 0 \in Logical /\ 2 \in NLinks
      BY SmallLinks, GeometryAssumption DEF Blocks, Logical
    <3>2. [Unmapped EXCEPT ![0] = FirstData] \in [Logical -> Blocks]
      BY <3>1, BlankType DEF BlankInode, disk_inode
    <3>3. RootInode \in disk_inode
      BY <3>1, <3>2 DEF disk_inode, RootInode
    <3> QED
      BY <2>1, <3>3, BlankType
  <2>4. dirents \in [Blocks -> [Slots -> dirent]]
    <3>1. ROOT_INODE \in 0 .. NInodes - 1
      BY GeometryAssumption DEF ROOT_INODE
    <3>2. [ino |-> ROOT_INODE, name |-> "."] \in dirent /\ [ino |-> ROOT_INODE, name |-> ".."] \in dirent
      BY <3>1, EntryTypes DEF Dots
    <3>3. DotEntries(ROOT_INODE, ROOT_INODE) \in [Slots -> dirent]
      BY <3>2, EntryTypes DEF DotEntries
    <3> QED
      BY <2>1, <3>3, EntryTypes
  <2>5. chunk \in [Blocks -> 0 .. NDIRECT]
    <3>1. 0 \in 0 .. NDIRECT
      BY GeometryAssumption
    <3> QED
      BY <3>1 DEF HalfInit, mkfs_cut
  <2> QED
    BY <2>2, <2>3, <2>4, <2>5 DEF DiskTypeOK
<1>2. ProcTypeOK
  <2>1. 0 \in 0 .. NDIRECT /\ 0 \in 0 .. MaxKills /\ 0 \in 0 .. MaxIoErrs
    BY GeometryAssumption, FaultAssumption
  <2> QED
    BY <2>1, NullType DEF HalfInit, ProcTypeOK, Inodes2
<1>3. InFlight
  BY DEF HalfInit, InFlight
<1> QED
  BY <1>1, <1>2, <1>3 DEF Inv, TypeOK

\* The image of an mkfs that did.
LEMMA InvInit == Init => Inv
  BY InitIsHalf, HalfInvInit

\* Starting a tool and walking to its directory.
LEMMA WalkInv ==
  ASSUME Inv, Start \/ WalkDown \/ WalkFails \/ WalkEnds
  PROVE  Inv'
<1> USE DEF Inv, TypeOK
<1>1. DiskTypeOK'
  BY DiskSame DEF Start, Invoke, WalkDown, WalkFails, WalkEnds
<1>2. kills' \in 0 .. MaxKills /\ ioerrs' \in 0 .. MaxIoErrs
  BY FaultsSame DEF Start, Invoke, WalkDown, WalkFails, WalkEnds
<1>3. CASE Start
  <2>1. PICK t \in Creators \cup {"rm"}, name \in Names \cup Dots, size \in 0 .. NDIRECT :
          Invoke(t, name, size)
    BY <1>3 DEF Start
  <2>2. core' \in [Inodes2 -> inode]
    BY <2>1, RootType, GetInodeType DEF Invoke, ProcTypeOK, Inodes2
  <2> QED
    BY <1>1, <1>2, <2>1, <2>2 DEF Invoke, ProcTypeOK, InFlight, Inodes2
<1>4. CASE WalkDown
  <2>1. core' \in [Inodes2 -> inode]
    BY <1>4, GetInodeType DEF WalkDown, ProcTypeOK, Inodes2
  <2> QED
    BY <1>1, <1>2, <1>4, <2>1 DEF WalkDown, ProcTypeOK, InFlight, args, Inodes2
<1>5. CASE WalkFails
  BY <1>1, <1>2, <1>5, ErrorHandlerOK DEF WalkFails, ProcTypeOK, Inodes2
<1>6. CASE WalkEnds
  BY <1>1, <1>2, <1>6 DEF WalkEnds, ProcTypeOK, InFlight, args
<1> QED
  BY <1>3, <1>4, <1>5, <1>6

\* The inode alloc_inode takes and the block alloc_block takes are valid numbers.
LEMMA AllocTypes ==
  ASSUME NEW n
  PROVE  /\ n \in FreeInodes => n \in Inodes /\ n \in 0 .. NInodes - 1
         /\ n \in FreeBlocks => n \in Blocks /\ n \in Nat /\ ~badblock(n)
  BY GeometryAssumption DEF FreeInodes, Inodes, FreeBlocks, Blocks

\* A loop index of mkdir and cp below the bound stays in range.
LEMMA IndexTypes ==
  ASSUME ProcTypeOK, k < fsz
  PROVE  k \in Logical /\ k + 1 \in 0 .. NDIRECT /\ k \in Nat /\ k < NDIRECT
<1>1. k \in 0 .. NDIRECT /\ fsz \in 0 .. NDIRECT
  BY DEF ProcTypeOK
<1> QED
  BY <1>1, GeometryAssumption DEF Logical

\* The size add_entry computes is a natural number.
LEMMA SizeType ==
  ASSUME NEW l \in Logical, NEW s \in Slots
  PROVE  SizeAt(<<l, s>>) \in Nat
<1>1. l \in Nat /\ s \in Nat /\ DirentsPerBlock \in Nat
  BY GeometryAssumption DEF Logical, Slots
<1>2. \A i \in Nat, j \in Nat : i * j \in Nat
  OBVIOUS
<1>3. l * DirentsPerBlock \in Nat
  BY <1>1, <1>2
<1> QED
  BY <1>1, <1>3 DEF SizeAt

\* add_entry leaves in-core inodes behind.
LEMMA LinkedType ==
  ASSUME ProcTypeOK, NEW size \in Nat
  PROVE  Linked(size) \in [Inodes2 -> inode]
<1>1. core["parent"] \in inode /\ core["target"] \in inode
  BY DEF ProcTypeOK
<1>2. core["parent"].nlink \in NLinks
  BY <1>1 DEF inode
<1> DEFINE t == [core["target"] EXCEPT !.dirty = DIRTY]
           p == [core["parent"] EXCEPT !.dirty = DIRTY, !.size = size, !.nlink = ParentLinks]
<1>3. ParentLinks \in NLinks
  BY <1>2, LinkArithmetic DEF ParentLinks
<1>4. Linked(size) = [core EXCEPT !["target"] = t, !["parent"] = p]
  BY Zenon DEF Linked
<1>5. t \in inode
  BY <1>1 DEF inode
<1>6. p \in inode
  BY <1>1, <1>3 DEF inode
<1> HIDE DEF t, p
<1> QED
  BY <1>4, <1>5, <1>6 DEF ProcTypeOK, Inodes2

\* The in-core inode of a new file or directory.
LEMMA NewInodeInCore ==
  ASSUME NEW n \in Inodes
  PROVE  InCore(n, NewInode) \in inode
<1>1. n \in 0 .. NInodes - 1
  BY GeometryAssumption DEF Inodes
<1> QED
  BY <1>1, NewInodeType DEF InCore, disk_inode, inode

\* mkdir and cp up to add_entry.
LEMMA AllocateInv ==
  ASSUME Inv,
         \/ CreateLookup \/ CreateLookupFails \/ alloc_inode \/ NoFreeInode \/ InitInode
         \/ alloc_block \/ NoFreeBlock \/ HostFails \/ ZeroFresh
         \/ WriteDotEntries \/ CopyChunk \/ FileCopied
  PROVE  Inv'
<1> USE DEF Inv, TypeOK
<1>1. kills' \in 0 .. MaxKills /\ ioerrs' \in 0 .. MaxIoErrs
  BY FaultsSame DEF CreateLookup, CreateLookupFails, alloc_inode, NoFreeInode, InitInode,
     alloc_block, NoFreeBlock, HostFails, ZeroFresh, WriteDotEntries, CopyChunk, FileCopied
<1>2. core \in [Inodes2 -> inode]
  BY DEF ProcTypeOK, Inodes2
<1>3. CASE CreateLookup
  BY <1>1, <1>3, DiskSame DEF CreateLookup, ProcTypeOK, InFlight, args
<1>4. CASE CreateLookupFails \/ NoFreeInode \/ NoFreeBlock \/ HostFails
  BY <1>1, <1>2, <1>4, DiskSame, ErrorHandlerOK
     DEF CreateLookupFails, NoFreeInode, NoFreeBlock, HostFails
<1>5. CASE alloc_inode
  <2>1. PICK n \in FreeInodes : SetInodeBit(n) /\ fresh' = n
    BY <1>5 DEF alloc_inode
  <2>2. DiskTypeOK'
    BY <2>1, AllocTypes, BitTypes
  <2>3. fresh' \in Inodes /\ fresh' \in Nat
    BY <2>1, AllocTypes, GeometryAssumption DEF Inodes
  <2> QED
    BY <1>1, <1>5, <2>2, <2>3 DEF alloc_inode, ProcTypeOK, InFlight, args
<1>6. CASE InitInode
  <2>1. DiskTypeOK'
    BY <1>6, NewInodeType, InodeWriteType DEF InitInode
  <2>2. InCore(fresh, NewInode) \in inode
    BY <1>6, NewInodeInCore DEF InitInode, InFlight
  <2>3. core' \in [Inodes2 -> inode]
    BY <1>2, <1>6, <2>2 DEF InitInode, Inodes2
  <2> QED
    BY <1>1, <1>6, <2>1, <2>3 DEF InitInode, ProcTypeOK, InFlight, args, Inodes2
<1>7. CASE alloc_block
  <2>1. PICK b \in FreeBlocks : SetBlockBit(b) /\ fresh' = b
    BY <1>7 DEF alloc_block
  <2>2. DiskTypeOK'
    BY <2>1, AllocTypes, BitTypes
  <2>3. fresh' \in Blocks /\ fresh' \in Nat
    BY <2>1, AllocTypes
  <2>4. tool = "cp" => k < fsz
    BY <1>7 DEF alloc_block, NeedsBlock
  <2> QED
    BY <1>1, <1>7, <2>2, <2>3, <2>4 DEF alloc_block, ProcTypeOK, InFlight, args
<1>8. CASE ZeroFresh
  BY <1>1, <1>8, ZeroBlockType DEF ZeroFresh, ProcTypeOK, InFlight, args
<1>9. CASE WriteDotEntries
  <2>1. core["parent"] \in inode /\ core["target"] \in inode
    BY <1>2 DEF Inodes2
  <2>2. DiskTypeOK'
    BY <1>9, <2>1, WriteDotsType DEF WriteDotEntries, inode
  <2>3. 2 \in NLinks /\ 0 \in Nat /\ fresh \in Blocks
    BY <1>9, SmallLinks DEF WriteDotEntries, InFlight
  <2>4. [core["target"] EXCEPT !.size = 2, !.nlink = 2, !.addr[0] = fresh] \in inode
    BY <2>1, <2>3 DEF inode
  <2>5. core' \in [Inodes2 -> inode]
    BY <1>2, <1>9, <2>4 DEF WriteDotEntries, Inodes2
  <2> QED
    BY <1>1, <1>9, <2>2, <2>5 DEF WriteDotEntries, ProcTypeOK, InFlight, args, Inodes2
<1>10. CASE CopyChunk
  <2>1. k < fsz /\ fresh \in Blocks
    BY <1>10 DEF CopyChunk, InFlight
  <2>2. DiskTypeOK'
    BY <1>10, <2>1, IndexTypes, WriteChunkType DEF CopyChunk
  <2>3. core' \in [Inodes2 -> inode]
    BY <1>2, <1>10, <2>1, MapType DEF CopyChunk, Inodes2
  <2>4. k' \in 0 .. NDIRECT
    BY <1>10, <2>1, IndexTypes DEF CopyChunk
  <2> QED
    BY <1>1, <1>10, <2>2, <2>3, <2>4 DEF CopyChunk, ProcTypeOK, InFlight, args, Inodes2
<1>11. CASE FileCopied
  <2>1. 1 \in NLinks /\ fsz \in Nat /\ 0 \in 0 .. NDIRECT
    <3>1. fsz \in 0 .. NDIRECT
      BY DEF ProcTypeOK
    <3> QED
      BY <3>1, SmallLinks, GeometryAssumption
  <2>2. [core["target"] EXCEPT !.size = fsz, !.nlink = 1] \in inode
    BY <1>2, <2>1 DEF inode, Inodes2
  <2>3. core' \in [Inodes2 -> inode]
    BY <1>2, <1>11, <2>2 DEF FileCopied, Inodes2
  <2> QED
    BY <1>1, <1>11, <2>1, <2>3, DiskSame DEF FileCopied, ProcTypeOK, InFlight, args, Inodes2
<1> QED
  BY <1>3, <1>4, <1>5, <1>6, <1>7, <1>8, <1>9, <1>10, <1>11

\* add_entry and what mkdir and cp do when it returns.
LEMMA AddEntryInv ==
  ASSUME Inv,
         \/ AddEntryInSlot \/ AddEntryAllocates \/ AddEntryZeroes \/ AddEntryInNewBlock
         \/ AddEntryFails
  PROVE  Inv'
<1> USE DEF Inv, TypeOK
<1>1. kills' \in 0 .. MaxKills /\ ioerrs' \in 0 .. MaxIoErrs
  BY FaultsSame DEF AddEntryInSlot, AddEntryAllocates, AddEntryZeroes, AddEntryInNewBlock,
     AddEntryFails
<1>2. core \in [Inodes2 -> inode] /\ core["parent"] \in inode /\ core["target"] \in inode
  BY DEF ProcTypeOK, Inodes2
<1>3. NewEntry \in dirent
  BY <1>2 DEF NewEntry, dirent, ProcTypeOK, inode
<1>4. CASE AddEntryInSlot
  <2>1. PICK p \in FreeSlots(core["parent"]) :
          /\ WriteDirent(core["parent"].addr[p[1]], p[2], NewEntry)
          /\ core' = Linked(SizeWith(p))
    BY <1>4 DEF AddEntryInSlot
  <2>2. DiskTypeOK'
    BY <1>3, <2>1, WriteDirentType
  <2>3. SizeWith(p) \in Nat
    <3>1. PICK l \in Logical, s \in Slots : p = <<l, s>>
      BY <2>1 DEF FreeSlots, Mapped, Positions
    <3>2. core["parent"].size \in Nat
      BY <1>2 DEF inode
    <3> QED
      BY <3>1, <3>2, SizeType DEF SizeWith
  <2>4. core' \in [Inodes2 -> inode]
    BY <2>1, <2>3, LinkedType
  <2> QED
    BY <1>1, <1>4, <2>2, <2>4 DEF AddEntryInSlot, ProcTypeOK, InFlight, args, Inodes2
<1>5. CASE AddEntryAllocates
  <2>1. PICK l \in Holes(core["parent"]), b \in FreeBlocks :
          k' = l /\ SetBlockBit(b) /\ fresh' = b
    BY <1>5 DEF AddEntryAllocates, Lowest
  <2>2. DiskTypeOK'
    BY <2>1, AllocTypes, BitTypes
  <2>3. fresh' \in Blocks /\ fresh' \in Nat
    BY <2>1, AllocTypes
  <2>4. k' \in Logical
    BY <2>1 DEF Holes
  <2>5. k' \in 0 .. NDIRECT
    BY <2>4, GeometryAssumption DEF Logical
  <2> QED
    BY <1>1, <1>5, <2>2, <2>3, <2>4, <2>5 DEF AddEntryAllocates, ProcTypeOK, InFlight, args
<1>6. CASE AddEntryZeroes
  <2>1. DiskTypeOK'
    BY <1>6, ZeroBlockType DEF AddEntryZeroes
  <2>2. core' \in [Inodes2 -> inode]
    BY <1>2, <1>6, MapType DEF AddEntryZeroes, InFlight, Inodes2
  <2> QED
    BY <1>1, <1>6, <2>1, <2>2 DEF AddEntryZeroes, ProcTypeOK, InFlight, args, Inodes2
<1>7. CASE AddEntryInNewBlock
  <2>1. DiskTypeOK'
    BY <1>3, <1>7, WriteDirentType DEF AddEntryInNewBlock
  <2>2. k \in Logical /\ 0 \in Slots /\ 0 \in 0 .. NDIRECT
    BY <1>7, GeometryAssumption DEF AddEntryInNewBlock, InFlight, Slots
  <2>3. core' \in [Inodes2 -> inode]
    BY <1>7, <2>2, SizeType, LinkedType DEF AddEntryInNewBlock
  <2> QED
    BY <1>1, <1>7, <2>1, <2>2, <2>3 DEF AddEntryInNewBlock, ProcTypeOK, InFlight, args, Inodes2
<1>8. CASE AddEntryFails
  BY <1>1, <1>2, <1>8, DiskSame, ErrorHandlerOK DEF AddEntryFails
<1> QED
  BY <1>4, <1>5, <1>6, <1>7, <1>8

\* rm of a directory, whichever of its blocks could be read.
LEMMA RmDirectoryOK ==
  ASSUME Inv, NEW blocksRead, RmDirectory(blocksRead),
         kills' \in 0 .. MaxKills, ioerrs' \in 0 .. MaxIoErrs
  PROVE  Inv'
<1> USE DEF Inv, TypeOK
<1>1. PICK n \in Inodes :
        core' = [core EXCEPT !["target"] = [get_inode(n) EXCEPT !.nlink = 0],
                             !["parent"].nlink = Unlinked(@)]
  BY DEF RmDirectory
<1>2. [get_inode(n) EXCEPT !.nlink = 0] \in inode
  <2>1. 0 \in NLinks
    BY SmallLinks
  <2> QED
    BY <2>1, GetInodeType, FieldTypes DEF inode
<1>3. core \in [Inodes2 -> inode] /\ core["parent"] \in inode
  BY DEF ProcTypeOK, Inodes2
<1>4. Unlinked(core["parent"].nlink) \in NLinks
  BY <1>3, LinkArithmetic DEF inode
<1>5. [core["parent"] EXCEPT !.nlink = Unlinked(core["parent"].nlink)] \in inode
  BY <1>3, <1>4 DEF inode
<1>6. core' \in [Inodes2 -> inode]
  BY <1>1, <1>2, <1>3, <1>5 DEF Inodes2
<1>7. DiskTypeOK'
  BY DiskSame DEF RmDirectory
<1> QED
  BY <1>6, <1>7 DEF RmDirectory, ProcTypeOK, InFlight, args, Inodes2

\* rm up to detach_entry.
LEMMA RemoveInv ==
  ASSUME Inv, Remove
  PROVE  Inv'
<1> USE DEF Inv, TypeOK
<1>1. kills' \in 0 .. MaxKills /\ ioerrs' \in 0 .. MaxIoErrs
  BY FaultsSame DEF Remove, RmLookupFails, RmFile, RmEmptyDir, RmNotEmpty, detach_entry
<1>2. core \in [Inodes2 -> inode]
  BY DEF ProcTypeOK, Inodes2
<1>3. CASE RmLookupFails
  BY <1>1, <1>2, <1>3, DiskSame, ErrorHandlerOK DEF RmLookupFails
<1>4. CASE RmFile
  <2>1. PICK n \in Inodes :
          core' = [core EXCEPT !["target"] =
            [get_inode(n) EXCEPT !.nlink = IF dinode[n].mode = "reg" THEN Unlinked(@) ELSE @]]
    BY <1>4 DEF RmFile
  <2>2. get_inode(n) \in inode
    BY GetInodeType
  <2>3. \A m \in NLinks : [get_inode(n) EXCEPT !.nlink = m] \in inode
    BY <2>2 DEF inode
  <2>4. get_inode(n).nlink \in NLinks /\ Unlinked(get_inode(n).nlink) \in NLinks
    BY <2>2, LinkArithmetic DEF inode
  <2>5. core' \in [Inodes2 -> inode]
    BY <1>2, <2>1, <2>3, <2>4 DEF Inodes2
  <2> QED
    BY <1>1, <1>4, <2>5, DiskSame DEF RmFile, ProcTypeOK, InFlight, args, Inodes2
<1>5. CASE RmEmptyDir
  BY <1>1, <1>5, RmDirectoryOK DEF RmEmptyDir
<1>6. CASE RmNotEmpty
  <2>1. PICK n \in Inodes : error_handler([core EXCEPT !["target"] = get_inode(n)])
    BY <1>6 DEF RmNotEmpty
  <2>2. [core EXCEPT !["target"] = get_inode(n)] \in [Inodes2 -> inode]
    BY <1>2, GetInodeType DEF Inodes2
  <2> QED
    BY <1>1, <1>6, <2>1, <2>2, DiskSame, ErrorHandlerOK DEF RmNotEmpty
<1>7. CASE detach_entry
  <2>1. DiskTypeOK'
    BY <1>7, EntryTypes, WriteDirentType DEF detach_entry
  <2>2. core' \in [Inodes2 -> inode]
    <3>1. \A w \in Inodes2 : [core[w] EXCEPT !.dirty = DIRTY] \in inode
      BY <1>2 DEF inode
    <3> QED
      BY <1>2, <1>7, <3>1 DEF detach_entry, Inodes2
  <2> QED
    BY <1>1, <1>7, <2>1, <2>2 DEF detach_entry, ProcTypeOK, InFlight, args, Inodes2
<1> QED
  BY <1>3, <1>4, <1>5, <1>6, <1>7 DEF Remove

\* truncate_inode maps fewer blocks.
LEMMA UnmapsType ==
  ASSUME ProcTypeOK, NEW l, Unmaps(l)
  PROVE  core' \in [Inodes2 -> inode]
<1>1. held \in inode /\ core \in [Inodes2 -> inode]
  BY HeldType DEF ProcTypeOK, Inodes2
<1>2. 0 \in Blocks
  BY GeometryAssumption DEF Blocks
<1>3. [held EXCEPT !.addr[l] = 0] \in inode
  BY <1>1, <1>2, MapType
<1> QED
  BY <1>1, <1>3 DEF Unmaps, held

\* The steps of put_inode.
LEMMA PutInv ==
  ASSUME Inv, put_inode
  PROVE  Inv'
<1> USE DEF Inv, TypeOK
<1>1. kills' \in 0 .. MaxKills /\ ioerrs' \in 0 .. MaxIoErrs
  BY FaultsSame DEF put_inode, PutClean, update_inode, free_block, ZeroFreed, BlankOut, free_inode
<1>2. held \in inode
  BY HeldType
<1>3. OnDisk(held) \in disk_inode
  BY <1>2, OnDiskType
<1>4. CASE PutClean
  BY <1>1, <1>4, DiskSame, PutDoneOK DEF PutClean
<1>5. CASE update_inode
  BY <1>1, <1>3, <1>5, InodeWriteType, PutDoneOK DEF update_inode
<1>6. CASE free_block
  <2>1. PICK l \in Logical :
          /\ Unmaps(l)
          /\ \/ pc' = "put" /\ fresh' = 0 /\ UNCHANGED diskVars
             \/ /\ pc' = "pzero" /\ fresh' = held.addr[l]
                /\ ClearBlockBit(held.addr[l])
    BY <1>6 DEF free_block
  <2>2. DiskTypeOK'
    BY <2>1, BitTypes
  <2>3. core' \in [Inodes2 -> inode]
    BY <2>1, UnmapsType
  <2>4. held.addr[l] \in Blocks /\ held.addr[l] \in Nat /\ 0 \in Nat
    BY <1>2, GeometryAssumption DEF inode, Blocks
  <2>5. fresh' \in Nat /\ (pc' = "pzero" => fresh' \in Blocks)
    BY <2>1, <2>4
  <2>6. UNCHANGED <<tool, base, fsz, who, k, status>>
    BY <2>1 DEF Unmaps, args
  <2>7. pc' \in {"put", "pzero"}
    BY <2>1
  <2> QED
    BY <1>1, <2>2, <2>3, <2>5, <2>6, <2>7 DEF ProcTypeOK, InFlight, Inodes2
<1>7. CASE ZeroFreed
  BY <1>1, <1>7, ZeroBlockType DEF ZeroFreed, ProcTypeOK, InFlight, args
<1>8. CASE BlankOut
  <2>1. Released \in disk_inode
    BY <1>3 DEF Released, disk_inode
  <2>2. DiskTypeOK'
    BY <1>8, <2>1, InodeWriteType DEF BlankOut
  <2>3. held' = held
    BY <1>8 DEF BlankOut, held
  <2> QED
    BY <1>1, <1>8, <2>2, <2>3 DEF BlankOut, Releasing, ProcTypeOK, InFlight, args
<1>9. CASE free_inode
  BY <1>1, <1>9, BitTypes, PutDoneOK DEF free_inode
<1> QED
  BY <1>4, <1>5, <1>6, <1>7, <1>8, <1>9 DEF put_inode

\* A killed tool, and a failing read or write in any step.
LEMMA FaultInv ==
  ASSUME Inv, Fault
  PROVE  Inv'
<1> USE DEF Inv, TypeOK
<1>1. core \in [Inodes2 -> inode]
  BY DEF ProcTypeOK, Inodes2
<1>2. CASE Kill
  <2>1. kills' \in 0 .. MaxKills /\ ioerrs' \in 0 .. MaxIoErrs
    <3>1. kills \in 0 .. MaxKills /\ ioerrs \in 0 .. MaxIoErrs
      BY DEF ProcTypeOK
    <3>2. kills < MaxKills /\ kills' = kills + 1 /\ ioerrs' = ioerrs
      BY <1>2 DEF Kill
    <3> QED
      BY <3>1, <3>2, FaultAssumption
  <2> QED
    BY <1>2, <2>1, DiskSame, ExitOK DEF Kill
<1>3. ASSUME IoError
      PROVE  kills' \in 0 .. MaxKills /\ ioerrs' \in 0 .. MaxIoErrs
  <2>1. kills \in 0 .. MaxKills /\ ioerrs \in 0 .. MaxIoErrs
    BY DEF ProcTypeOK
  <2>2. ioerrs < MaxIoErrs /\ ioerrs' = ioerrs + 1 /\ kills' = kills
    BY <1>3 DEF IoError
  <2> QED
    BY <2>1, <2>2, FaultAssumption
<1>4. CASE IoErrorFails
  BY <1>1, <1>3, <1>4, DiskSame, ErrorHandlerOK DEF IoErrorFails
<1>5. CASE IoErrorReload
  BY <1>1, <1>3, <1>5, NewInodeType, InodeWriteType, ErrorHandlerOK DEF IoErrorReload
<1>6. CASE IoErrorInRm
  BY <1>3, <1>6, RmDirectoryOK DEF IoErrorInRm
<1>7. CASE IoErrorInPut
  <2>1. DiskTypeOK'
    BY <1>7, DiskSame DEF IoErrorInPut
  <2>2. kills' \in 0 .. MaxKills /\ ioerrs' \in 0 .. MaxIoErrs
    BY <1>3, <1>7 DEF IoErrorInPut
  <2>3. CASE PutDone
    BY <2>1, <2>2, <2>3, PutDoneOK
  <2>4. ASSUME NEW l \in Logical, Unmaps(l), pc' = "put", fresh' = 0
        PROVE  Inv'
    BY <2>1, <2>2, <2>4, UnmapsType DEF Unmaps, ProcTypeOK, InFlight, args, Inodes2
  <2>5. CASE pc' = "put" /\ fresh' = 0 /\ UNCHANGED <<args, core, who, k, status>>
    BY <2>1, <2>2, <2>5 DEF ProcTypeOK, InFlight, args
  <2>6. CASE Releasing /\ pc' = "ifree" /\ UNCHANGED <<args, core, who, fresh, k, status>>
    <3>1. held' = held
      BY <2>6 DEF held
    <3> QED
      BY <2>1, <2>2, <2>6, <3>1 DEF Releasing, ProcTypeOK, InFlight, args
  <2> QED
    BY <1>7, <2>3, <2>4, <2>5, <2>6 DEF IoErrorInPut
<1> QED
  BY <1>2, <1>4, <1>5, <1>6, <1>7 DEF Fault

\* Every step keeps Inv.
LEMMA InvStep == Inv /\ [Next]_vars => Inv'
<1> SUFFICES ASSUME Inv, [Next]_vars
             PROVE  Inv'
  OBVIOUS
<1>1. CASE Next
  BY <1>1, WalkInv, AllocateInv, AddEntryInv, RemoveInv, PutInv, FaultInv
     DEF Next, Step, Create
<1>2. CASE UNCHANGED vars
  <2>1. DiskTypeOK'
    BY <1>2, DiskSame DEF vars, diskVars, Inv, TypeOK
  <2>2. ProcTypeOK'
    BY <1>2 DEF vars, Inv, TypeOK, ProcTypeOK
  <2>3. held' = held
    BY <1>2 DEF vars, held
  <2>4. InFlight'
    BY <1>2, <2>3 DEF vars, Inv, InFlight
  <2> QED
    BY <2>1, <2>2, <2>4 DEF Inv, TypeOK
<1> QED
  BY <1>1, <1>2

\* The disk and the running tool keep their types, whatever is killed or fails: no
\* link count leaves its 16 bits, no inode maps a block outside the image, and no
\* directory entry holds a number that is not an inode's.
THEOREM TypeCorrect == Spec => []TypeOK
<1>1. Init => Inv
  BY InvInit
<1>2. Inv /\ [Next]_vars => Inv'
  BY InvStep
<1>3. Inv => TypeOK
  BY DEF Inv
<1> QED
  BY <1>1, <1>2, <1>3, PTL DEF Spec

-----------------------------------------------------------------------------
(* MetadataOutOfReach, the disk's part and the running tool's. *)
MetaDisk == \A n \in Inodes : MapsData(dinode[n])

MetaCore(c) == \A w \in Inodes2 : MapsData(c[w])

MetaFresh == pc \in {"bzero", "content", "ezero", "ewrite", "pzero"} => ~badblock(fresh)

\* MetadataOutOfReach is about the disk, the in-core inodes and the block in hand.
LEMMA MetaParts == MetadataOutOfReach <=> MetaDisk /\ MetaCore(core) /\ MetaFresh
  BY DEF MetadataOutOfReach, MetaDisk, MetaCore, MetaFresh, Inodes2

\* The same of the next state.
LEMMA MetaPartsNext == MetadataOutOfReach' <=> MetaDisk' /\ MetaCore(core') /\ MetaFresh'
  BY DEF MetadataOutOfReach, MetaDisk, MetaCore, MetaFresh, Inodes2

-----------------------------------------------------------------------------
(* In-core inodes that map data blocks only.                               *)

\* Inodes without blocks map no metadata.
LEMMA NullMapsData == MapsData(NULL) /\ MetaCore(NoInodes) /\ MapsData(BlankInode)
  BY DEF MapsData, NULL, Unmapped, MetaCore, NoInodes, Inodes2, BlankInode

\* Nor does the inode alloc_inode writes.
LEMMA NewInodeMapsData == MapsData(NewInode) /\ \A n : MapsData(InCore(n, NewInode))
  BY NullMapsData DEF NewInode, BlankInode, MapsData, InCore

\* get_inode and update_inode copy the block numbers.
LEMMA CopyMapsData ==
  /\ MetaDisk => \A n \in Inodes : MapsData(get_inode(n))
  /\ \A c : MapsData(c) => MapsData(OnDisk(c))
  BY DEF MetaDisk, MapsData, get_inode, InCore, OnDisk

\* Only the fields that are not block numbers change.
LEMMA FieldsMapData ==
  ASSUME NEW c \in inode, MapsData(c), NEW n, NEW s, NEW d
  PROVE  /\ MapsData([c EXCEPT !.nlink = n])
         /\ MapsData([c EXCEPT !.dirty = d])
         /\ MapsData([c EXCEPT !.size = s, !.nlink = n])
         /\ MapsData([c EXCEPT !.dirty = d, !.size = s, !.nlink = n])
  BY DEF MapsData, inode

\* Mapping a data block keeps an inode off the metadata (add_entry, cp, mkdir).
LEMMA MapMapsData ==
  ASSUME NEW c \in inode, MapsData(c), NEW l, NEW b, b = 0 \/ ~badblock(b)
  PROVE  MapsData([c EXCEPT !.addr[l] = b])
  BY DEF MapsData, inode

-----------------------------------------------------------------------------
(* Writes that respect the metadata.                                       *)

\* A step that writes no inode keeps the inodes on the disk off the metadata.
LEMMA MetaDiskKept ==
  ASSUME MetaDisk, NEW n, NEW b, NEW s, NEW e, NEW i, NEW j,
         \/ SetInodeBit(n) \/ SetBlockBit(b)
         \/ n # 0 /\ ClearInodeBit(n)
         \/ ~badblock(b) /\ ClearBlockBit(b)
         \/ zero_block(b) \/ WriteDots(b, i, j) \/ WriteDirent(b, s, e) \/ WriteChunk(b, i)
         \/ UNCHANGED diskVars
  PROVE  MetaDisk'
  BY GeometryAssumption DEF MetaDisk, SetInodeBit, SetBlockBit, ClearInodeBit, ClearBlockBit,
     zero_block, WriteDots, WriteDirent, WriteChunk, diskVars, badblock

\* A write of an inode that maps data keeps them off it (write_disk_inode).
LEMMA MetaInodeWrite ==
  ASSUME DiskTypeOK, MetaDisk, NEW n, NEW d, MapsData(d), write_disk_inode(n, d)
  PROVE  MetaDisk'
  BY DEF DiskTypeOK, MetaDisk, write_disk_inode

-----------------------------------------------------------------------------
(* The parts the actions share.                                            *)

\* Exit leaves nothing in core.
LEMMA MetaExit ==
  ASSUME Exit
  PROVE  MetaCore(core') /\ MetaFresh'
  BY NullMapsData DEF Exit, MetaFresh

\* The error handlers change link counts and dirty flags only.
LEMMA MetaErrorHandler ==
  ASSUME NEW c \in [Inodes2 -> inode], MetaCore(c), error_handler(c)
  PROVE  MetaCore(core') /\ MetaFresh'
<1>1. MapsData([c["target"] EXCEPT !.nlink = 0])
  BY FieldsMapData DEF MetaCore, Inodes2
<1>2. MetaCore(core')
  BY <1>1 DEF error_handler, MetaCore, Inodes2
<1> QED
  BY <1>2 DEF error_handler, MetaFresh

\* Going on from one inode to the next in put_inode keeps what is in core.
LEMMA MetaPutDone ==
  ASSUME ProcTypeOK, MetaCore(core), PutDone
  PROVE  MetaCore(core') /\ MetaFresh'
<1>1. CASE who = "target"
  BY <1>1, NullMapsData DEF PutDone, MetaCore, MetaFresh, ProcTypeOK, Inodes2
<1>2. CASE who # "target"
  BY <1>2, MetaExit DEF PutDone
<1> QED
  BY <1>1, <1>2

-----------------------------------------------------------------------------
(* Every step keeps MetadataOutOfReach.                                          *)

MetaInv == Inv /\ MetadataOutOfReach

\* The inode list of an mkfs that may not have got to its end.
LEMMA HalfInodes ==
  ASSUME HalfInit, NEW n \in Inodes
  PROVE  \/ dinode[n] = BlankInode
         \/ n = ROOT_INODE /\ dinode[n] = RootInode
<1>1. PICK root \in BOOLEAN :
        dinode = [m \in Inodes |-> IF m = ROOT_INODE /\ root THEN RootInode ELSE BlankInode]
  BY DEF HalfInit, mkfs_cut
<1> QED
  BY <1>1

\* Neither mkfs nor a part of it maps metadata.
LEMMA MetaInit == HalfInit => MetadataOutOfReach
<1> SUFFICES ASSUME HalfInit
             PROVE  MetadataOutOfReach
  OBVIOUS
<1>1. ~badblock(FirstData)
  BY GeometryAssumption DEF badblock
<1>2. MapsData(RootInode)
  BY <1>1 DEF RootInode, MapsData, Unmapped
<1>3. MetaDisk
  BY <1>2, HalfInodes, NullMapsData DEF MetaDisk
<1>4. MetaCore(core) /\ MetaFresh
  BY NullMapsData DEF HalfInit, MetaFresh
<1> QED
  BY <1>3, <1>4, MetaParts

\* namei reads inodes.
LEMMA MetaWalk ==
  ASSUME MetaInv, Start \/ WalkDown \/ WalkFails \/ WalkEnds
  PROVE  MetadataOutOfReach'
<1>1. ProcTypeOK /\ MetaDisk /\ MetaCore(core)
  BY MetaParts DEF MetaInv, Inv, TypeOK
<1>2. core \in [Inodes2 -> inode]
  BY <1>1 DEF ProcTypeOK, Inodes2
<1>3. MetaDisk'
  BY <1>1, MetaDiskKept DEF Start, Invoke, WalkDown, WalkFails, WalkEnds
<1>4. ASSUME NEW n \in Inodes
      PROVE  MetaCore([core EXCEPT !["parent"] = get_inode(n)])
  BY <1>1, <1>2, CopyMapsData DEF MetaCore, Inodes2
<1>5. CASE Start
  BY <1>3, <1>4, <1>5, RootType, MetaPartsNext DEF Start, Invoke, MetaFresh
<1>6. CASE WalkDown
  BY <1>3, <1>4, <1>6, MetaPartsNext DEF WalkDown, MetaFresh
<1>7. CASE WalkFails
  BY <1>1, <1>2, <1>3, <1>7, MetaErrorHandler, MetaPartsNext DEF WalkFails
<1>8. CASE WalkEnds
  BY <1>1, <1>3, <1>8, MetaPartsNext DEF WalkEnds, MetaFresh
<1> QED
  BY <1>5, <1>6, <1>7, <1>8

\* alloc_inode and alloc_block, and the contents of what they gave out.
LEMMA MetaAllocate ==
  ASSUME MetaInv,
         \/ CreateLookup \/ CreateLookupFails \/ alloc_inode \/ NoFreeInode \/ InitInode
         \/ alloc_block \/ NoFreeBlock \/ HostFails \/ ZeroFresh
         \/ WriteDotEntries \/ CopyChunk \/ FileCopied
  PROVE  MetadataOutOfReach'
<1>1. DiskTypeOK /\ ProcTypeOK /\ InFlight /\ MetaDisk /\ MetaCore(core) /\ MetaFresh
  BY MetaParts DEF MetaInv, Inv, TypeOK
<1>2. core \in [Inodes2 -> inode] /\ core["target"] \in inode /\ MapsData(core["target"])
  BY <1>1 DEF ProcTypeOK, MetaCore, Inodes2
<1>3. CASE CreateLookup
  BY <1>1, <1>3, MetaDiskKept, MetaPartsNext DEF CreateLookup, MetaFresh
<1>4. CASE CreateLookupFails \/ NoFreeInode \/ NoFreeBlock \/ HostFails
  BY <1>1, <1>2, <1>4, MetaDiskKept, MetaErrorHandler, MetaPartsNext
     DEF CreateLookupFails, NoFreeInode, NoFreeBlock, HostFails
<1>5. CASE alloc_inode
  BY <1>1, <1>5, MetaDiskKept, MetaPartsNext DEF alloc_inode, MetaFresh
<1>6. CASE InitInode
  <2>1. MetaDisk'
    BY <1>1, <1>6, MetaInodeWrite, NewInodeMapsData DEF InitInode
  <2>2. MetaCore(core')
    BY <1>1, <1>2, <1>6, NewInodeMapsData DEF InitInode, MetaCore, Inodes2
  <2> QED
    BY <1>6, <2>1, <2>2, MetaPartsNext DEF InitInode, MetaFresh
<1>7. CASE alloc_block
  <2>1. PICK b \in FreeBlocks : SetBlockBit(b) /\ fresh' = b
    BY <1>7 DEF alloc_block
  <2>2. ~badblock(fresh')
    BY <2>1, AllocTypes
  <2>3. ~badblock(fresh)'
    BY <2>2 DEF badblock
  <2>4. MetaDisk'
    BY <1>1, <2>1, MetaDiskKept
  <2> QED
    BY <1>1, <1>7, <2>3, <2>4, MetaPartsNext DEF alloc_block, MetaFresh
<1>8. CASE ZeroFresh
  BY <1>1, <1>8, MetaDiskKept, MetaPartsNext DEF ZeroFresh, MetaFresh, badblock
<1>9. CASE WriteDotEntries
  <2>1. MetaDisk'
    BY <1>1, <1>9, MetaDiskKept DEF WriteDotEntries
  <2>2. ~badblock(fresh)
    BY <1>1, <1>9 DEF WriteDotEntries, MetaFresh
  <2>3. MapsData([core["target"] EXCEPT !.size = 2, !.nlink = 2, !.addr[0] = fresh])
    BY <1>2, <2>2 DEF MapsData, inode
  <2>4. MetaCore(core')
    BY <1>1, <1>2, <1>9, <2>3 DEF WriteDotEntries, MetaCore, Inodes2
  <2> QED
    BY <1>9, <2>1, <2>4, MetaPartsNext DEF WriteDotEntries, MetaFresh
<1>10. CASE CopyChunk
  <2>1. MetaDisk'
    BY <1>1, <1>10, MetaDiskKept DEF CopyChunk
  <2>2. ~badblock(fresh)
    BY <1>1, <1>10 DEF CopyChunk, MetaFresh
  <2>3. MapsData([core["target"] EXCEPT !.addr[k] = fresh])
    BY <1>2, <2>2, MapMapsData
  <2>4. MetaCore(core')
    BY <1>1, <1>2, <1>10, <2>3 DEF CopyChunk, MetaCore, Inodes2
  <2> QED
    BY <1>10, <2>1, <2>4, MetaPartsNext DEF CopyChunk, MetaFresh
<1>11. CASE FileCopied
  <2>1. MapsData([core["target"] EXCEPT !.size = fsz, !.nlink = 1])
    BY <1>2, FieldsMapData
  <2>2. MetaCore(core')
    BY <1>1, <1>2, <1>11, <2>1 DEF FileCopied, MetaCore, Inodes2
  <2> QED
    BY <1>1, <1>11, <2>2, MetaDiskKept, MetaPartsNext DEF FileCopied, MetaFresh
<1> QED
  BY <1>3, <1>4, <1>5, <1>6, <1>7, <1>8, <1>9, <1>10, <1>11

\* The parent's inode once the new entry is in it.
LEMMA MetaLinked ==
  ASSUME ProcTypeOK, MetaCore(core), NEW size
  PROVE  MetaCore(Linked(size))
<1>1. core \in [Inodes2 -> inode] /\ core["parent"] \in inode /\ core["target"] \in inode
  BY DEF ProcTypeOK, Inodes2
<1> DEFINE t == [core["target"] EXCEPT !.dirty = DIRTY]
           p == [core["parent"] EXCEPT !.dirty = DIRTY, !.size = size, !.nlink = ParentLinks]
<1>2. Linked(size) = [core EXCEPT !["target"] = t, !["parent"] = p]
  BY Zenon DEF Linked
<1>3. MapsData(t) /\ MapsData(p)
  BY <1>1, FieldsMapData DEF MetaCore, Inodes2
<1> HIDE DEF t, p
<1> QED
  BY <1>1, <1>2, <1>3 DEF MetaCore, Inodes2

\* add_entry.
LEMMA MetaAddEntry ==
  ASSUME MetaInv,
         \/ AddEntryInSlot \/ AddEntryAllocates \/ AddEntryZeroes \/ AddEntryInNewBlock
         \/ AddEntryFails
  PROVE  MetadataOutOfReach'
<1>1. ProcTypeOK /\ MetaDisk /\ MetaCore(core) /\ MetaFresh
  BY MetaParts DEF MetaInv, Inv, TypeOK
<1>2. core \in [Inodes2 -> inode] /\ core["parent"] \in inode /\ MapsData(core["parent"])
  BY <1>1 DEF ProcTypeOK, MetaCore, Inodes2
<1>3. CASE AddEntryInSlot
  <2>1. PICK p \in FreeSlots(core["parent"]) :
          /\ WriteDirent(core["parent"].addr[p[1]], p[2], NewEntry)
          /\ core' = Linked(SizeWith(p))
    BY <1>3 DEF AddEntryInSlot
  <2> QED
    BY <1>1, <1>3, <2>1, MetaDiskKept, MetaLinked, MetaPartsNext DEF AddEntryInSlot, MetaFresh
<1>4. CASE AddEntryAllocates
  <2>1. PICK b \in FreeBlocks : SetBlockBit(b) /\ fresh' = b
    BY <1>4 DEF AddEntryAllocates
  <2>2. ~badblock(fresh')
    BY <2>1, AllocTypes
  <2>3. ~badblock(fresh)'
    BY <2>2 DEF badblock
  <2>4. MetaDisk'
    BY <1>1, <2>1, MetaDiskKept
  <2> QED
    BY <1>1, <1>4, <2>3, <2>4, MetaPartsNext DEF AddEntryAllocates, MetaFresh
<1>5. CASE AddEntryZeroes
  <2>1. ~badblock(fresh) /\ fresh' = fresh
    BY <1>1, <1>5 DEF AddEntryZeroes, MetaFresh
  <2>2. MapsData([core["parent"] EXCEPT !.addr[k] = fresh])
    BY <1>2, <2>1, MapMapsData
  <2>3. MetaCore(core')
    BY <1>1, <1>2, <1>5, <2>2 DEF AddEntryZeroes, MetaCore, Inodes2
  <2>4. MetaFresh'
    BY <2>1 DEF MetaFresh, badblock
  <2> QED
    BY <1>1, <1>5, <2>3, <2>4, MetaDiskKept, MetaPartsNext DEF AddEntryZeroes
<1>6. CASE AddEntryInNewBlock
  BY <1>1, <1>6, MetaDiskKept, MetaLinked, MetaPartsNext DEF AddEntryInNewBlock, MetaFresh
<1>7. CASE AddEntryFails
  BY <1>1, <1>2, <1>7, MetaDiskKept, MetaErrorHandler, MetaPartsNext DEF AddEntryFails
<1> QED
  BY <1>3, <1>4, <1>5, <1>6, <1>7

\* rm of a directory drops links.
LEMMA MetaRmDirectory ==
  ASSUME MetaInv, NEW blocksRead, RmDirectory(blocksRead)
  PROVE  MetadataOutOfReach'
<1>1. DiskTypeOK /\ ProcTypeOK /\ MetaDisk /\ MetaCore(core)
  BY MetaParts DEF MetaInv, Inv, TypeOK
<1>2. core \in [Inodes2 -> inode] /\ core["parent"] \in inode
  BY <1>1 DEF ProcTypeOK, Inodes2
<1>3. PICK n \in Inodes :
        core' = [core EXCEPT !["target"] = [get_inode(n) EXCEPT !.nlink = 0],
                             !["parent"].nlink = Unlinked(@)]
  BY DEF RmDirectory
<1>4. MapsData([get_inode(n) EXCEPT !.nlink = 0])
  BY <1>1, GetInodeType, CopyMapsData, FieldsMapData
<1>5. MapsData([core["parent"] EXCEPT !.nlink = Unlinked(core["parent"].nlink)])
  BY <1>1, <1>2, FieldsMapData DEF MetaCore, Inodes2
<1>6. MetaCore(core')
  BY <1>2, <1>3, <1>4, <1>5 DEF MetaCore, Inodes2
<1> QED
  BY <1>1, <1>6, MetaDiskKept, MetaPartsNext DEF RmDirectory, MetaFresh

\* rm.
LEMMA MetaRemove ==
  ASSUME MetaInv, Remove
  PROVE  MetadataOutOfReach'
<1>1. DiskTypeOK /\ ProcTypeOK /\ MetaDisk /\ MetaCore(core)
  BY MetaParts DEF MetaInv, Inv, TypeOK
<1>2. core \in [Inodes2 -> inode]
  BY <1>1 DEF ProcTypeOK, Inodes2
<1>3. CASE RmLookupFails
  BY <1>1, <1>2, <1>3, MetaDiskKept, MetaErrorHandler, MetaPartsNext DEF RmLookupFails
<1>4. CASE RmFile
  <2>1. PICK n \in Inodes :
          core' = [core EXCEPT !["target"] =
            [get_inode(n) EXCEPT !.nlink = IF dinode[n].mode = "reg" THEN Unlinked(@) ELSE @]]
    BY <1>4 DEF RmFile
  <2>2. \A m : MapsData([get_inode(n) EXCEPT !.nlink = m])
    BY <1>1, GetInodeType, CopyMapsData, FieldsMapData
  <2>3. MetaCore(core')
    BY <1>1, <1>2, <2>1, <2>2 DEF MetaCore, Inodes2
  <2> QED
    BY <1>1, <1>4, <2>3, MetaDiskKept, MetaPartsNext DEF RmFile, MetaFresh
<1>5. CASE RmEmptyDir
  BY <1>5, MetaRmDirectory DEF RmEmptyDir
<1>6. CASE RmNotEmpty
  <2>1. PICK n \in Inodes : error_handler([core EXCEPT !["target"] = get_inode(n)])
    BY <1>6 DEF RmNotEmpty
  <2>2. [core EXCEPT !["target"] = get_inode(n)] \in [Inodes2 -> inode]
    BY <1>1, <1>2, GetInodeType DEF Inodes2
  <2>3. MetaCore([core EXCEPT !["target"] = get_inode(n)])
    BY <1>1, <1>2, CopyMapsData DEF MetaCore, Inodes2
  <2> QED
    BY <1>1, <1>6, <2>1, <2>2, <2>3, MetaDiskKept, MetaErrorHandler, MetaPartsNext
       DEF RmNotEmpty
<1>7. CASE detach_entry
  <2>1. MetaDisk'
    BY <1>1, <1>7, MetaDiskKept DEF detach_entry
  <2>2. \A w \in Inodes2 : MapsData([core[w] EXCEPT !.dirty = DIRTY])
    BY <1>1, <1>2, FieldsMapData DEF MetaCore
  <2>3. MetaCore(core')
    BY <1>2, <1>7, <2>2 DEF detach_entry, MetaCore, Inodes2
  <2> QED
    BY <1>7, <2>1, <2>3, MetaPartsNext DEF detach_entry, MetaFresh
<1> QED
  BY <1>3, <1>4, <1>5, <1>6, <1>7 DEF Remove

\* truncate_inode takes blocks out of an inode.
LEMMA MetaUnmaps ==
  ASSUME ProcTypeOK, MetaCore(core), NEW l, Unmaps(l)
  PROVE  MetaCore(core')
<1>1. held \in inode /\ core \in [Inodes2 -> inode] /\ MapsData(held)
  BY HeldType DEF ProcTypeOK, Inodes2, MetaCore, held
<1>2. MapsData([held EXCEPT !.addr[l] = 0])
  BY <1>1, MapMapsData
<1> QED
  BY <1>1, <1>2 DEF Unmaps, held, MetaCore, Inodes2

\* put_inode.
LEMMA MetaPut ==
  ASSUME MetaInv, put_inode
  PROVE  MetadataOutOfReach'
<1>1. DiskTypeOK /\ ProcTypeOK /\ InFlight /\ MetaDisk /\ MetaCore(core) /\ MetaFresh
  BY MetaParts DEF MetaInv, Inv, TypeOK
<1>2. held \in inode /\ MapsData(OnDisk(held)) /\ OnDisk(held) \in disk_inode
  BY <1>1, HeldType, OnDiskType, CopyMapsData DEF MetaCore, held, ProcTypeOK, Inodes2
<1>3. CASE PutClean
  BY <1>1, <1>3, MetaDiskKept, MetaPutDone, MetaPartsNext DEF PutClean
<1>4. CASE update_inode
  BY <1>1, <1>2, <1>4, MetaInodeWrite, MetaPutDone, MetaPartsNext DEF update_inode
<1>5. CASE free_block
  <2>1. PICK l \in Logical :
          /\ Unmaps(l)
          /\ \/ pc' = "put" /\ UNCHANGED diskVars
             \/ /\ ~badblock(held.addr[l]) /\ fresh' = held.addr[l]
                /\ ClearBlockBit(held.addr[l])
    BY <1>5 DEF free_block
  <2>2. MetaDisk'
    BY <1>1, <2>1, MetaDiskKept
  <2>3. pc' = "put" \/ ~badblock(fresh')
    BY <2>1
  <2>4. MetaFresh'
    BY <2>3 DEF MetaFresh, badblock
  <2> QED
    BY <1>1, <2>1, <2>2, <2>4, MetaUnmaps, MetaPartsNext
<1>6. CASE ZeroFreed
  BY <1>1, <1>6, MetaDiskKept, MetaPartsNext DEF ZeroFreed, MetaFresh
<1>7. CASE BlankOut
  <2>1. MapsData(Released)
    BY <1>2 DEF Released, disk_inode, MapsData
  <2> QED
    BY <1>1, <1>7, <2>1, MetaInodeWrite, MetaPartsNext DEF BlankOut, MetaFresh
<1>8. CASE free_inode
  BY <1>1, <1>8, MetaDiskKept, MetaPutDone, MetaPartsNext DEF free_inode, InFlight
<1> QED
  BY <1>3, <1>4, <1>5, <1>6, <1>7, <1>8 DEF put_inode

\* Kills and I/O errors.
LEMMA MetaFault ==
  ASSUME MetaInv, Fault
  PROVE  MetadataOutOfReach'
<1>1. DiskTypeOK /\ ProcTypeOK /\ MetaDisk /\ MetaCore(core)
  BY MetaParts DEF MetaInv, Inv, TypeOK
<1>2. core \in [Inodes2 -> inode]
  BY <1>1 DEF ProcTypeOK, Inodes2
<1>3. CASE Kill
  BY <1>1, <1>3, MetaDiskKept, MetaExit, MetaPartsNext DEF Kill
<1>4. CASE IoErrorFails
  BY <1>1, <1>2, <1>4, MetaDiskKept, MetaErrorHandler, MetaPartsNext DEF IoErrorFails
<1>5. CASE IoErrorReload
  BY <1>1, <1>2, <1>5, MetaInodeWrite, NewInodeMapsData, MetaErrorHandler, MetaPartsNext
     DEF IoErrorReload
<1>6. CASE IoErrorInRm
  BY <1>6, MetaRmDirectory DEF IoErrorInRm
<1>7. CASE IoErrorInPut
  <2>1. MetaDisk'
    BY <1>1, <1>7, MetaDiskKept DEF IoErrorInPut
  <2>2. CASE PutDone
    BY <1>1, <2>1, <2>2, MetaPutDone, MetaPartsNext
  <2>3. ASSUME NEW l \in Logical, Unmaps(l), pc' = "put"
        PROVE  MetadataOutOfReach'
    BY <1>1, <2>1, <2>3, MetaUnmaps, MetaPartsNext DEF MetaFresh
  <2>4. CASE pc' \in {"put", "ifree"} /\ core' = core
    BY <1>1, <2>1, <2>4, MetaPartsNext DEF MetaFresh
  <2> QED
    BY <1>7, <2>2, <2>3, <2>4 DEF IoErrorInPut
<1> QED
  BY <1>3, <1>4, <1>5, <1>6, <1>7 DEF Fault

\* Every step.
LEMMA MetaStep == MetaInv /\ [Next]_vars => MetadataOutOfReach'
<1> SUFFICES ASSUME MetaInv, [Next]_vars
             PROVE  MetadataOutOfReach'
  OBVIOUS
<1>1. CASE Next
  BY <1>1, MetaWalk, MetaAllocate, MetaAddEntry, MetaRemove, MetaPut, MetaFault
     DEF Next, Step, Create
<1>2. CASE UNCHANGED vars
  <2>1. MetaDisk /\ MetaCore(core) /\ MetaFresh
    BY MetaParts DEF MetaInv
  <2>2. MetaDisk'
    BY <1>2, <2>1, MetaDiskKept DEF vars, diskVars
  <2>3. MetaFresh'
    BY <1>2, <2>1 DEF vars, MetaFresh, badblock
  <2> QED
    BY <1>2, <2>1, <2>2, <2>3, MetaPartsNext DEF vars
<1> QED
  BY <1>1, <1>2

\* Whatever mkfs left behind, however many tools are killed and however many reads
\* and writes fail, no block of the superblock, the bitmaps or the inode list is
\* mapped, zeroed or written as data (badblock in alloc_block and free_block).
THEOREM HalfMadeMetadata == HalfSpec => []MetadataOutOfReach
<1>1. HalfInit => MetaInv
  BY HalfInvInit, MetaInit DEF MetaInv
<1>2. MetaInv /\ [Next]_vars => MetaInv'
  BY InvStep, MetaStep DEF MetaInv
<1>3. MetaInv => MetadataOutOfReach
  BY DEF MetaInv
<1> QED
  BY <1>1, <1>2, <1>3, PTL DEF HalfSpec

-----------------------------------------------------------------------------
(* The bits of the metadata.                                               *)

\* Inode 0 and the metadata blocks are marked.
Reserved == 0 \in ibits /\ 0 .. FirstData - 1 \subseteq bbits

\* A step that clears no bit of the metadata, or of inode 0, keeps them marked.
LEMMA ReservedKept ==
  ASSUME Reserved, NEW n, NEW b, NEW s, NEW e, NEW i, NEW j,
         \/ SetInodeBit(n) \/ SetBlockBit(b) \/ write_disk_inode(n, e)
         \/ n # 0 /\ ClearInodeBit(n)
         \/ ~badblock(b) /\ ClearBlockBit(b)
         \/ zero_block(b) \/ WriteDots(b, i, j) \/ WriteDirent(b, s, e) \/ WriteChunk(b, i)
         \/ UNCHANGED diskVars
  PROVE  Reserved'
  BY GeometryAssumption DEF Reserved, SetInodeBit, SetBlockBit, ClearInodeBit, ClearBlockBit,
     write_disk_inode, zero_block, WriteDots, WriteDirent, WriteChunk, diskVars, badblock

\* No step clears one: free_block asks badblock, free_inode is never given inode 0.
LEMMA ReservedStep == Inv /\ Reserved /\ [Next]_vars => Reserved'
<1> SUFFICES ASSUME Inv, Reserved, [Next]_vars
             PROVE  Reserved'
  OBVIOUS
<1>1. CASE Start \/ WalkDown \/ WalkFails \/ WalkEnds \/ Remove
  BY <1>1, ReservedKept DEF Start, Invoke, WalkDown, WalkFails, WalkEnds, Remove,
     RmLookupFails, RmFile, RmEmptyDir, RmDirectory, RmNotEmpty, detach_entry
<1>2. CASE \/ CreateLookup \/ CreateLookupFails \/ alloc_inode \/ NoFreeInode \/ InitInode
           \/ alloc_block \/ NoFreeBlock \/ HostFails \/ ZeroFresh
           \/ WriteDotEntries \/ CopyChunk \/ FileCopied
  BY <1>2, ReservedKept DEF CreateLookup, CreateLookupFails, alloc_inode, NoFreeInode, InitInode,
     alloc_block, NoFreeBlock, HostFails, ZeroFresh, WriteDotEntries, CopyChunk, FileCopied
<1>3. CASE \/ AddEntryInSlot \/ AddEntryAllocates \/ AddEntryZeroes \/ AddEntryInNewBlock
           \/ AddEntryFails
  BY <1>3, ReservedKept DEF AddEntryInSlot, AddEntryAllocates, AddEntryZeroes,
     AddEntryInNewBlock, AddEntryFails
<1>4. CASE PutClean \/ update_inode \/ free_block \/ ZeroFreed \/ BlankOut
  BY <1>4, ReservedKept DEF PutClean, update_inode, free_block, ZeroFreed, BlankOut
<1>5. CASE free_inode
  BY <1>5, ReservedKept DEF free_inode, Inv, InFlight
<1>6. CASE Fault \/ UNCHANGED vars
  BY <1>6, ReservedKept DEF Fault, Kill, IoErrorFails, IoErrorReload, IoErrorInRm, RmDirectory,
     IoErrorInPut, vars, diskVars
<1> QED
  BY <1>1, <1>2, <1>3, <1>4, <1>5, <1>6 DEF Next, Step, Create, put_inode

\* However many tools are killed and however many reads and writes fail, the
\* superblock, the bitmaps and the inode list are never handed out, mapped, zeroed
\* or overwritten as data (badblock in alloc_block and free_block, the order of the
\* writes in alloc_inode).
THEOREM MetadataIsSafe == Spec => []MetadataSafe
<1>1. Init => MetaInv /\ Reserved
  <2>1. Init => Reserved
    <3>1. 0 .. FirstData - 1 \subseteq 0 .. FirstData
      BY GeometryAssumption
    <3> QED
      BY <3>1 DEF Init, mkfs, Reserved
  <2> QED
    BY <2>1, InitIsHalf, InvInit, MetaInit DEF MetaInv
<1>2. MetaInv /\ Reserved /\ [Next]_vars => (MetaInv /\ Reserved)'
  BY InvStep, MetaStep, ReservedStep DEF MetaInv
<1>3. MetaInv /\ Reserved => MetadataSafe
  BY DEF MetaInv, MetadataOutOfReach, Reserved, MetadataSafe
<1> QED
  BY <1>1, <1>2, <1>3, PTL DEF Spec

-----------------------------------------------------------------------------
(* Disk inodes without links.                                              *)

\* Most writes are not to the inode list.
LEMMA InodeListKept ==
  ASSUME NEW n, NEW b, NEW s, NEW e, NEW i, NEW j,
         \/ SetInodeBit(n) \/ SetBlockBit(b) \/ ClearInodeBit(n) \/ ClearBlockBit(b)
         \/ zero_block(b) \/ WriteDots(b, i, j) \/ WriteDirent(b, s, e) \/ WriteChunk(b, i)
         \/ UNCHANGED diskVars
  PROVE  dinode' = dinode
  BY DEF SetInodeBit, SetBlockBit, ClearInodeBit, ClearBlockBit, zero_block, WriteDots,
     WriteDirent, WriteChunk, diskVars

\* The steps that write no inode.
LEMMA InodeListKeptBy ==
  ASSUME \/ Start \/ WalkDown \/ WalkFails \/ WalkEnds \/ Remove
         \/ CreateLookup \/ CreateLookupFails \/ alloc_inode \/ NoFreeInode
         \/ alloc_block \/ NoFreeBlock \/ HostFails \/ ZeroFresh
         \/ WriteDotEntries \/ CopyChunk \/ FileCopied
         \/ AddEntryInSlot \/ AddEntryAllocates \/ AddEntryZeroes \/ AddEntryInNewBlock
         \/ AddEntryFails \/ PutClean \/ free_block \/ ZeroFreed \/ free_inode
         \/ Kill \/ IoErrorFails \/ IoErrorInRm \/ IoErrorInPut \/ UNCHANGED vars
  PROVE  dinode' = dinode
<1>1. CASE Start \/ WalkDown \/ WalkFails \/ WalkEnds \/ Remove
  BY <1>1, InodeListKept DEF Start, Invoke, WalkDown, WalkFails, WalkEnds, Remove,
     RmLookupFails, RmFile, RmEmptyDir, RmDirectory, RmNotEmpty, detach_entry
<1>2. CASE \/ CreateLookup \/ CreateLookupFails \/ alloc_inode \/ NoFreeInode
           \/ alloc_block \/ NoFreeBlock \/ HostFails \/ ZeroFresh
           \/ WriteDotEntries \/ CopyChunk \/ FileCopied
  BY <1>2, InodeListKept DEF CreateLookup, CreateLookupFails, alloc_inode, NoFreeInode,
     alloc_block, NoFreeBlock, HostFails, ZeroFresh, WriteDotEntries, CopyChunk, FileCopied
<1>3. CASE \/ AddEntryInSlot \/ AddEntryAllocates \/ AddEntryZeroes \/ AddEntryInNewBlock
           \/ AddEntryFails
  BY <1>3, InodeListKept DEF AddEntryInSlot, AddEntryAllocates, AddEntryZeroes,
     AddEntryInNewBlock, AddEntryFails
<1>4. CASE PutClean \/ free_block \/ ZeroFreed \/ free_inode
  BY <1>4, InodeListKept DEF PutClean, free_block, ZeroFreed, free_inode
<1>5. CASE Kill \/ IoErrorFails \/ IoErrorInRm \/ IoErrorInPut \/ UNCHANGED vars
  BY <1>5, InodeListKept DEF Kill, IoErrorFails, IoErrorInRm, RmDirectory, IoErrorInPut,
     vars, diskVars
<1> QED
  BY <1>1, <1>2, <1>3, <1>4, <1>5

\* An inode that has links, or is blank, may be written.
LEMMA UnlinkedWrite ==
  ASSUME DiskTypeOK, UnlinkedIsBlank, NEW n, NEW d, write_disk_inode(n, d),
         d.nlink = 0 => d = BlankInode
  PROVE  UnlinkedIsBlank'
<1>1. \A i \in Inodes : dinode'[i] = dinode[i] \/ dinode'[i] = d
  BY DEF DiskTypeOK, write_disk_inode
<1> QED
  BY <1>1 DEF UnlinkedIsBlank

\* alloc_inode writes an inode with links (allocator.c:180).
LEMMA NewInodeLinked == NewInode.nlink # 0
  BY DEF NewInode, BlankInode

\* What put_inode writes once it has unmapped every block is a blank inode.
LEMMA ReleasedIsBlank ==
  ASSUME ProcTypeOK, held.nlink = 0, Holes(held) = Logical
  PROVE  Released = BlankInode
<1>1. held.addr \in [Logical -> Blocks]
  BY HeldType DEF inode
<1>2. \A l \in Logical : held.addr[l] = 0
  BY DEF Holes
<1>3. held.addr = Unmapped
  BY <1>1, <1>2 DEF Unmapped
<1>4. /\ Released \in disk_inode
      /\ Released.mode = "none" /\ Released.nlink = 0 /\ Released.size = 0
      /\ Released.addr = Unmapped
  <2>1. OnDisk(held) \in disk_inode
    BY HeldType, OnDiskType
  <2>2. OnDisk(held).nlink = 0 /\ OnDisk(held).addr = Unmapped
    BY <1>3 DEF OnDisk
  <2> QED
    BY <2>1, <2>2 DEF Released, disk_inode
<1>5. \A d \in disk_inode :
        d.mode = "none" /\ d.nlink = 0 /\ d.size = 0 /\ d.addr = Unmapped => d = BlankInode
  BY DEF BlankInode, disk_inode
<1> QED
  BY <1>4, <1>5

\* mkfs writes the root inode with two links, and blank ones.
LEMMA UnlinkedInit == HalfInit => UnlinkedIsBlank
<1>1. RootInode.nlink = 2
  BY DEF RootInode
<1> QED
  BY <1>1, HalfInodes DEF UnlinkedIsBlank

\* Every step leaves disk inodes without links blank.
LEMMA UnlinkedStep == Inv /\ UnlinkedIsBlank /\ [Next]_vars => UnlinkedIsBlank'
<1> SUFFICES ASSUME Inv, UnlinkedIsBlank, [Next]_vars
             PROVE  UnlinkedIsBlank'
  OBVIOUS
<1>1. DiskTypeOK /\ ProcTypeOK
  BY DEF Inv, TypeOK
<1>2. CASE InitInode \/ IoErrorReload
  BY <1>1, <1>2, UnlinkedWrite, NewInodeLinked DEF InitInode, IoErrorReload
<1>3. CASE update_inode
  <2>1. held.nlink # 0
    BY <1>3 DEF update_inode
  <2>2. OnDisk(held).nlink # 0
    BY <2>1 DEF OnDisk
  <2> QED
    BY <1>1, <1>3, <2>2, UnlinkedWrite DEF update_inode
<1>4. CASE BlankOut
  BY <1>1, <1>4, UnlinkedWrite, ReleasedIsBlank DEF BlankOut, Releasing
<1>5. CASE dinode' = dinode
  BY <1>5 DEF UnlinkedIsBlank
<1> QED
  BY <1>2, <1>3, <1>4, <1>5, InodeListKeptBy DEF Next, Step, Create, put_inode, Fault

\* However many tools are killed and however many reads and writes fail, an inode
\* on the disk has links or is blank: put_inode, which frees whatever has no links
\* (allocator.c:265), never frees an inode because namei walked through it.
THEOREM UnlinkedInodesBlank == Spec => []UnlinkedIsBlank
<1>1. Init => Inv /\ UnlinkedIsBlank
  BY InvInit, InitIsHalf, UnlinkedInit
<1>2. Inv /\ UnlinkedIsBlank /\ [Next]_vars => Inv' /\ UnlinkedIsBlank'
  BY InvStep, UnlinkedStep
<1> QED
  BY <1>1, <1>2, PTL DEF Spec

\* That holds on the image of an mkfs that was cut short, too.
THEOREM HalfMadeUnlinked == HalfSpec => []UnlinkedIsBlank
<1>1. HalfInit => Inv /\ UnlinkedIsBlank
  BY HalfInvInit, UnlinkedInit
<1>2. Inv /\ UnlinkedIsBlank /\ [Next]_vars => Inv' /\ UnlinkedIsBlank'
  BY InvStep, UnlinkedStep
<1> QED
  BY <1>1, <1>2, PTL DEF HalfSpec

-----------------------------------------------------------------------------
(* The shape of inodes: which blocks they have, and where the size ends.   *)

\* The first m logical blocks of inode d are mapped, and no other.
HasBlocks(d, m) == \A l \in Logical : d.addr[l] # 0 <=> l < m

\* Its size ends in the last of them: in blocks for a file, in entries for a directory.
SizeEndsIn(d, m) ==
  CASE d.mode = "reg" -> d.size = m
    [] d.mode = "dir" -> (m - 1) * DirentsPerBlock < d.size /\ d.size <= m * DirentsPerBlock
    [] OTHER          -> d.size = 0 /\ m = 0

Shaped(d) == \E m \in 0 .. NDIRECT : HasBlocks(d, m) /\ SizeEndsIn(d, m)

\* The target, from alloc_inode until its size is set.
Growing ==
  IF tool = "mkdir" THEN core["target"].mode = "dir" /\ HasBlocks(core["target"], 0)
                    ELSE core["target"].mode = "reg" /\ HasBlocks(core["target"], k)

ShapesDisk == \A n \in Inodes : Shaped(dinode[n])

PutSteps == {"put", "pzero", "ifree"}

ShapesCore ==
  /\ pc \in {"idle", "walk", "lookup", "ibit", "iwrite"} => k = 0
  /\ pc \notin {"idle", "ezero", "ewrite"} \cup PutSteps => Shaped(core["parent"])
  /\ pc \in {"block", "bzero", "content"} => Growing
  /\ pc = "block" /\ tool # "mkdir" => k <= fsz
  /\ pc \in {"ezero", "ewrite"} => core["parent"].mode = "dir"
  /\ pc = "ezero" => HasBlocks(core["parent"], k)
  /\ pc = "ewrite" => HasBlocks(core["parent"], k + 1)
  /\ pc \in {"entry", "ezero", "ewrite", "detach"} => Shaped(core["target"])
  /\ pc \notin PutSteps => \A w \in Inodes2 : core[w].dirty = CLEAN
  /\ \A w \in Inodes2 : core[w].dirty = DIRTY /\ core[w].nlink # 0 => Shaped(core[w])

\* So are all inodes on the disk, and in core those that put_inode would write.
Shapes == ShapesDisk /\ ShapesCore

ShapesInv == MetaInv /\ Shapes

-----------------------------------------------------------------------------
(* Inodes that have a shape.                                               *)

\* It is a matter of mode, size and addresses.
LEMMA SameShape ==
  ASSUME NEW d, NEW e, Shaped(d), e.mode = d.mode, e.size = d.size, e.addr = d.addr
  PROVE  Shaped(e)
  BY DEF Shaped, HasBlocks, SizeEndsIn

\* Link count and dirty flag do not matter, and update_inode copies the rest.
LEMMA ShapedFields ==
  ASSUME NEW c \in inode, Shaped(c), NEW n, NEW b
  PROVE  /\ Shaped([c EXCEPT !.nlink = n]) /\ Shaped([c EXCEPT !.dirty = b]) /\ Shaped(OnDisk(c))
<1>1. /\ [c EXCEPT !.nlink = n].mode = c.mode /\ [c EXCEPT !.nlink = n].size = c.size
      /\ [c EXCEPT !.nlink = n].addr = c.addr
      /\ [c EXCEPT !.dirty = b].mode = c.mode /\ [c EXCEPT !.dirty = b].size = c.size
      /\ [c EXCEPT !.dirty = b].addr = c.addr
      /\ OnDisk(c).mode = c.mode /\ OnDisk(c).size = c.size /\ OnDisk(c).addr = c.addr
  BY DEF inode, OnDisk
<1> QED
  BY <1>1, SameShape

\* Nor does reading an inode into core.
LEMMA ShapedInCore ==
  ASSUME NEW n \in Inodes, Shaped(dinode[n])
  PROVE  Shaped(get_inode(n)) /\ get_inode(n).dirty = CLEAN
<1>1. /\ get_inode(n).mode = dinode[n].mode /\ get_inode(n).size = dinode[n].size
      /\ get_inode(n).addr = dinode[n].addr /\ get_inode(n).dirty = CLEAN
  BY DEF get_inode, InCore
<1> QED
  BY <1>1, SameShape

\* The numbers the shapes are about.
LEMMA SizesNat == NDIRECT \in Nat \ {0} /\ DirentsPerBlock \in Nat /\ DirentsPerBlock > 1
  BY GeometryAssumption

\* Inodes without blocks, and the root.
LEMMA BlankShaped == Shaped(BlankInode) /\ Shaped(NewInode) /\ Shaped(RootInode)
<1>1. 0 \in 0 .. NDIRECT /\ 1 \in 0 .. NDIRECT /\ 0 \in Logical
  BY SizesNat DEF Logical
<1>2. \A l \in Logical : l \in Nat
  BY SizesNat DEF Logical
<1>3. /\ (0 - 1) * DirentsPerBlock < 0 /\ 0 <= 0 * DirentsPerBlock
      /\ (1 - 1) * DirentsPerBlock < 2 /\ 2 <= 1 * DirentsPerBlock
  BY SizesNat
<1>4. HasBlocks(BlankInode, 0) /\ HasBlocks(NewInode, 0)
  BY <1>2 DEF HasBlocks, BlankInode, NewInode, Unmapped
<1>5. SizeEndsIn(BlankInode, 0)
  BY DEF SizeEndsIn, BlankInode
<1>6. SizeEndsIn(NewInode, 0)
  <2>1. NewInode.size = 0 /\ NewInode.mode \in {"dir", "reg"}
    BY DEF NewInode, BlankInode
  <2> QED
    BY <1>3, <2>1 DEF SizeEndsIn
<1>7. HasBlocks(RootInode, 1)
  <2>1. FirstData # 0
    BY GeometryAssumption
  <2>2. \A l \in Logical : RootInode.addr[l] = IF l = 0 THEN FirstData ELSE 0
    BY DEF RootInode, Unmapped
  <2>3. \A l \in Logical : l < 1 <=> l = 0
    BY <1>2
  <2> QED
    BY <2>1, <2>2, <2>3 DEF HasBlocks
<1>8. SizeEndsIn(RootInode, 1)
  BY <1>3 DEF SizeEndsIn, RootInode
<1> QED
  BY <1>1, <1>4, <1>5, <1>6, <1>7, <1>8 DEF Shaped

\* The first blocks of a new inode.
LEMMA OneMore ==
  ASSUME NEW c \in inode, NEW m \in Logical, HasBlocks(c, m), NEW b \in Blocks, b # 0, NEW s, NEW n
  PROVE  /\ HasBlocks([c EXCEPT !.addr[m] = b], m + 1)
         /\ HasBlocks([c EXCEPT !.size = s, !.nlink = n, !.addr[m] = b], m + 1)
<1>1. m \in Nat /\ \A l \in Logical : l \in Nat /\ (l < m + 1 <=> l < m \/ l = m)
  BY SizesNat DEF Logical
<1>2. /\ \A l \in Logical : [c EXCEPT !.addr[m] = b].addr[l] = IF l = m THEN b ELSE c.addr[l]
      /\ \A l \in Logical : [c EXCEPT !.size = s, !.nlink = n, !.addr[m] = b].addr[l]
                              = IF l = m THEN b ELSE c.addr[l]
  BY DEF inode
<1> QED
  BY <1>1, <1>2 DEF HasBlocks

-----------------------------------------------------------------------------
(* The steps most actions share.                                           *)

\* The null in-core inode is not dirty.
LEMMA NullClean == \A w \in Inodes2 : NoInodes[w].dirty = CLEAN
  BY DEF NoInodes, NULL, Inodes2

\* The two values of the flag.
LEMMA CleanIsNotDirty == CLEAN # DIRTY
  BY DEF CLEAN, DIRTY

\* Exit leaves nothing in core.
LEMMA ShapesExit ==
  ASSUME Exit
  PROVE  ShapesCore'
  BY NullClean, CleanIsNotDirty DEF Exit, ShapesCore, PutSteps

\* The error handlers are entered with nothing DIRTY.
LEMMA ShapesErrorHandler ==
  ASSUME NEW c \in [Inodes2 -> inode], \A w \in Inodes2 : c[w].dirty = CLEAN, error_handler(c)
  PROVE  ShapesCore'
<1>1. \A w \in Inodes2 : core'[w].dirty = CLEAN
  BY DEF error_handler, inode, Inodes2
<1> QED
  BY <1>1, CleanIsNotDirty DEF error_handler, ShapesCore, PutSteps

\* Going on from one inode to the next in put_inode keeps the other.
LEMMA ShapesPutDone ==
  ASSUME ProcTypeOK, ShapesCore, PutDone
  PROVE  ShapesCore'
<1>1. CASE who = "target"
  <2>1. core \in [Inodes2 -> inode] /\ pc' = "put" /\ core' = [core EXCEPT !["target"] = NULL]
    BY <1>1 DEF PutDone, ProcTypeOK, Inodes2
  <2>2. \A w \in Inodes2 : core'[w] = core[w] \/ core'[w].dirty = CLEAN
    BY <2>1 DEF NULL
  <2> QED
    BY <2>1, <2>2, CleanIsNotDirty DEF ShapesCore, PutSteps
<1>2. CASE who # "target"
  BY <1>2, ShapesExit DEF PutDone
<1> QED
  BY <1>1, <1>2

\* A step that writes no inode keeps the inodes on the disk in shape.
LEMMA ShapesDiskKept ==
  ASSUME ShapesDisk, dinode' = dinode
  PROVE  ShapesDisk'
  BY DEF ShapesDisk

\* So does a write of an inode that has one.
LEMMA ShapesInodeWrite ==
  ASSUME DiskTypeOK, ShapesDisk, NEW n, NEW d, Shaped(d), write_disk_inode(n, d)
  PROVE  ShapesDisk'
  BY DEF DiskTypeOK, ShapesDisk, write_disk_inode

\* What is known before a step.
LEMMA ShapesParts ==
  ASSUME ShapesInv
  PROVE  /\ DiskTypeOK /\ ProcTypeOK /\ InFlight /\ MetaFresh /\ ShapesDisk /\ ShapesCore
         /\ core \in [Inodes2 -> inode]
  BY MetaParts DEF ShapesInv, Shapes, MetaInv, Inv, TypeOK, ProcTypeOK, Inodes2

\* Neither mkfs nor a part of it writes an inode without a shape.
LEMMA ShapesStart == HalfInit => Shapes
<1> SUFFICES ASSUME HalfInit PROVE Shapes
  OBVIOUS
<1>1. ShapesDisk
  BY HalfInodes, BlankShaped DEF ShapesDisk
<1>2. ShapesCore
  BY NullClean, CleanIsNotDirty DEF HalfInit, ShapesCore, PutSteps
<1> QED
  BY <1>1, <1>2 DEF Shapes

-----------------------------------------------------------------------------
(* Every step keeps the shapes.                                            *)

\* namei reads inodes.
LEMMA ShapesWalk ==
  ASSUME ShapesInv, Start \/ WalkDown \/ WalkFails \/ WalkEnds
  PROVE  Shapes'
<1>1. DiskTypeOK /\ ShapesDisk /\ ShapesCore /\ core \in [Inodes2 -> inode]
  BY ShapesParts
<1>2. ShapesDisk'
  BY <1>1, InodeListKeptBy, ShapesDiskKept
<1>3. pc = "idle" \/ pc = "walk"
  BY DEF Start, Invoke, WalkDown, WalkFails, WalkEnds
<1>4. k = 0 /\ \A w \in Inodes2 : core[w].dirty = CLEAN
  BY <1>1, <1>3 DEF ShapesCore, PutSteps
<1>5. ASSUME NEW n \in Inodes, core' = [core EXCEPT !["parent"] = get_inode(n)], pc' = "walk", k' = k
      PROVE  ShapesCore'
  <2>1. Shaped(core'["parent"]) /\ \A w \in Inodes2 : core'[w].dirty = CLEAN
    BY <1>1, <1>4, <1>5, ShapedInCore DEF ShapesDisk, Inodes2
  <2>2. core["parent"]' = core'["parent"] /\ \A w \in Inodes2 : core[w]' = core'[w]
    OBVIOUS
  <2> QED
    BY <1>4, <1>5, <2>1, <2>2, CleanIsNotDirty DEF ShapesCore, PutSteps
<1>6. CASE Start
  BY <1>5, <1>6, RootType, <1>2 DEF Start, Invoke, Shapes
<1>7. CASE WalkDown
  BY <1>5, <1>7, <1>2 DEF WalkDown, Shapes
<1>8. CASE WalkFails
  BY <1>1, <1>2, <1>4, <1>8, ShapesErrorHandler DEF WalkFails, Shapes
<1>9. CASE WalkEnds
  <2>1. Shaped(core["parent"])
    BY <1>1, <1>9 DEF WalkEnds, ShapesCore, PutSteps
  <2> QED
    BY <1>2, <1>4, <1>9, <2>1, CleanIsNotDirty DEF WalkEnds, ShapesCore, PutSteps, Shapes
<1> QED
  BY <1>6, <1>7, <1>8, <1>9

\* The inode of a new file or directory has no blocks.
LEMMA NewInodeGrows ==
  ASSUME NEW n
  PROVE  /\ HasBlocks(InCore(n, NewInode), 0) /\ InCore(n, NewInode).dirty = CLEAN
         /\ InCore(n, NewInode).mode = IF tool = "mkdir" THEN "dir" ELSE "reg"
<1>1. NewInode.mode = (IF tool = "mkdir" THEN "dir" ELSE "reg") /\ NewInode.addr = Unmapped
  BY DEF NewInode, BlankInode
<1>2. \A l \in Logical : l \in Nat
  BY SizesNat DEF Logical
<1> QED
  BY <1>1, <1>2 DEF InCore, HasBlocks, Unmapped

\* A block that may be handed out is not number 0.
LEMMA FreshNotZero ==
  ASSUME Inv, MetaFresh, pc \in {"bzero", "content", "ezero", "ewrite", "pzero"}
  PROVE  fresh # 0 /\ fresh \in Blocks
<1>1. fresh \in Blocks /\ ~badblock(fresh)
  BY DEF Inv, InFlight, MetaFresh
<1> QED
  BY <1>1, GeometryAssumption DEF badblock

\* alloc_inode and alloc_block, and the contents of what they gave out.
LEMMA ShapesAllocate ==
  ASSUME ShapesInv,
         \/ CreateLookup \/ CreateLookupFails \/ alloc_inode \/ NoFreeInode
         \/ alloc_block \/ NoFreeBlock \/ HostFails \/ ZeroFresh
  PROVE  Shapes'
<1>1. DiskTypeOK /\ ShapesDisk /\ ShapesCore /\ core \in [Inodes2 -> inode]
  BY ShapesParts
<1>2. ShapesDisk'
  BY <1>1, InodeListKeptBy, ShapesDiskKept
<1>3. \A w \in Inodes2 : core[w].dirty = CLEAN
  BY <1>1 DEF ShapesCore, PutSteps, CreateLookup, CreateLookupFails, alloc_inode, NoFreeInode,
     alloc_block, NoFreeBlock, HostFails, ZeroFresh
<1>4. CASE CreateLookup
  BY <1>1, <1>2, <1>3, <1>4, CleanIsNotDirty DEF CreateLookup, ShapesCore, PutSteps, Shapes
<1>5. CASE CreateLookupFails \/ NoFreeInode \/ NoFreeBlock \/ HostFails
  BY <1>1, <1>2, <1>3, <1>5, ShapesErrorHandler
     DEF CreateLookupFails, NoFreeInode, NoFreeBlock, HostFails, Shapes
<1>6. CASE alloc_inode
  BY <1>1, <1>2, <1>3, <1>6, CleanIsNotDirty DEF alloc_inode, ShapesCore, PutSteps, Shapes
<1>7. CASE alloc_block
  BY <1>1, <1>2, <1>3, <1>7, CleanIsNotDirty DEF alloc_block, ShapesCore, PutSteps, Shapes, Growing,
     args
<1>8. CASE ZeroFresh
  BY <1>1, <1>2, <1>3, <1>8, CleanIsNotDirty DEF ZeroFresh, ShapesCore, PutSteps, Shapes, Growing, args
<1> QED
  BY <1>4, <1>5, <1>6, <1>7, <1>8

\* The steps that make the target longer.
LEMMA ShapesGrow ==
  ASSUME ShapesInv, InitInode \/ WriteDotEntries \/ CopyChunk \/ FileCopied
  PROVE  Shapes'
<1>1. /\ DiskTypeOK /\ ProcTypeOK /\ Inv /\ InFlight /\ MetaFresh /\ ShapesDisk /\ ShapesCore
      /\ core \in [Inodes2 -> inode] /\ core["target"] \in inode
  BY ShapesParts DEF Inodes2, ShapesInv, MetaInv
<1>2. /\ \A w \in Inodes2 : core[w].dirty = CLEAN
      /\ Shaped(core["parent"])
  BY <1>1 DEF ShapesCore, PutSteps, InitInode, WriteDotEntries, CopyChunk, FileCopied
<1>10. fsz \in Nat /\ k \in Nat
  <2>1. fsz \in 0 .. NDIRECT /\ k \in 0 .. NDIRECT
    BY <1>1 DEF ProcTypeOK
  <2> QED
    BY <2>1, SizesNat
<1> DEFINE t == core'["target"]
<1>3. ASSUME t \in inode, t.dirty = CLEAN, core' = [core EXCEPT !["target"] = t],
             pc' = "entry", Shaped(t)
      PROVE  ShapesCore'
  <2>1. core'["parent"] = core["parent"] /\ \A w \in Inodes2 : core'[w].dirty = CLEAN
    BY <1>1, <1>2, <1>3 DEF Inodes2
  <2> QED
    BY <1>2, <1>3, <2>1, CleanIsNotDirty DEF ShapesCore, PutSteps
<1>4. ASSUME t.dirty = CLEAN, core' = [core EXCEPT !["target"] = t],
             pc' = "block", HasBlocks(t, k'), t.mode = IF tool = "mkdir" THEN "dir" ELSE "reg",
             tool = "mkdir" => k' = 0, tool # "mkdir" => k' <= fsz, UNCHANGED args
      PROVE  ShapesCore'
  <2>1. core'["parent"] = core["parent"] /\ \A w \in Inodes2 : core'[w].dirty = CLEAN
    BY <1>1, <1>2, <1>4 DEF Inodes2
  <2>2. tool' = tool /\ fsz' = fsz
    BY <1>4 DEF args
  <2>3. Growing'
    BY <1>4, <2>2 DEF Growing
  <2> QED
    BY <1>2, <1>4, <2>1, <2>2, <2>3, CleanIsNotDirty DEF ShapesCore, PutSteps
<1>5. CASE InitInode
  <2>1. t = InCore(fresh, NewInode) /\ core' = [core EXCEPT !["target"] = t]
    BY <1>1, <1>5 DEF InitInode, Inodes2
  <2>2. k = 0 /\ k' = k
    BY <1>1, <1>5 DEF InitInode, ShapesCore
  <2>3. 0 <= fsz
    BY <1>10
  <2>4. ShapesCore'
    BY <1>4, <1>5, <2>1, <2>2, <2>3, NewInodeGrows DEF InitInode
  <2>5. ShapesDisk'
    BY <1>1, <1>5, BlankShaped, ShapesInodeWrite DEF InitInode
  <2> QED
    BY <2>4, <2>5 DEF Shapes
<1>6. ShapesDisk' \/ InitInode
  BY <1>1, InodeListKeptBy, ShapesDiskKept
<1>7. CASE WriteDotEntries
  <2>1. /\ t = [core["target"] EXCEPT !.size = 2, !.nlink = 2, !.addr[0] = fresh]
        /\ core' = [core EXCEPT !["target"] = t]
    BY <1>1, <1>7 DEF WriteDotEntries, Inodes2
  <2>2. core["target"].mode = "dir" /\ HasBlocks(core["target"], 0)
    BY <1>1, <1>7 DEF WriteDotEntries, ShapesCore, Growing
  <2>3. 0 \in Logical /\ 1 \in 0 .. NDIRECT /\ 0 + 1 = 1
    BY SizesNat DEF Logical
  <2>4. fresh # 0 /\ fresh \in Blocks /\ 2 \in NLinks
    BY <1>1, <1>7, FreshNotZero, SmallLinks DEF WriteDotEntries
  <2>5. HasBlocks([core["target"] EXCEPT !.size = 2, !.nlink = 2, !.addr[0] = fresh], 0 + 1)
    BY <1>1, <2>2, <2>3, <2>4, OneMore
  <2>6. HasBlocks(t, 1)
    BY <2>1, <2>3, <2>5
  <2>7. t \in inode /\ t.mode = "dir" /\ t.size = 2 /\ t.dirty = core["target"].dirty
    <3>1. \A c \in inode, b \in Blocks, n \in NLinks :
            /\ [c EXCEPT !.size = 2, !.nlink = n, !.addr[0] = b] \in inode
            /\ [c EXCEPT !.size = 2, !.nlink = n, !.addr[0] = b].mode = c.mode
            /\ [c EXCEPT !.size = 2, !.nlink = n, !.addr[0] = b].size = 2
            /\ [c EXCEPT !.size = 2, !.nlink = n, !.addr[0] = b].dirty = c.dirty
      BY DEF inode
    <3> DEFINE d == [core["target"] EXCEPT !.size = 2, !.nlink = 2, !.addr[0] = fresh]
    <3>2. d \in inode /\ d.mode = core["target"].mode /\ d.size = 2 /\ d.dirty = core["target"].dirty
      BY <1>1, <2>4, <3>1
    <3>3. t = d
      BY <2>1
    <3> HIDE DEF d, t
    <3> QED
      BY <2>2, <3>2, <3>3
  <2>8. SizeEndsIn(t, 1)
    <3>1. (1 - 1) * DirentsPerBlock < 2 /\ 2 <= 1 * DirentsPerBlock
      BY SizesNat
    <3> QED
      BY <2>7, <3>1 DEF SizeEndsIn
  <2>9. ShapesCore'
    BY <1>2, <1>3, <1>7, <2>1, <2>3, <2>6, <2>7, <2>8 DEF WriteDotEntries, Shaped, Inodes2
  <2> QED
    BY <1>6, <1>7, <2>9 DEF Shapes, WriteDotEntries, InitInode
<1>8. CASE CopyChunk
  <2>1. t = [core["target"] EXCEPT !.addr[k] = fresh] /\ core' = [core EXCEPT !["target"] = t]
    BY <1>1, <1>8 DEF CopyChunk, Inodes2
  <2>2. core["target"].mode = "reg" /\ HasBlocks(core["target"], k)
    BY <1>1, <1>8 DEF CopyChunk, ShapesCore, Growing
  <2>3. k < fsz /\ k \in Logical
    BY <1>1, <1>8, IndexTypes DEF CopyChunk, InFlight
  <2>4. fresh # 0 /\ fresh \in Blocks
    BY <1>1, <1>8, FreshNotZero DEF CopyChunk
  <2>5. HasBlocks(t, k + 1)
    <3>1. HasBlocks([core["target"] EXCEPT !.addr[k] = fresh], k + 1)
      BY <1>1, <2>2, <2>3, <2>4, OneMore
    <3> QED
      BY <2>1, <3>1
  <2>6. t.mode = "reg" /\ t.dirty = core["target"].dirty
    BY <1>1, <2>1, <2>2 DEF inode
  <2>7. k' = k + 1 /\ k + 1 <= fsz /\ tool = "cp"
    <3>1. k' = k + 1 /\ tool = "cp"
      BY <1>8 DEF CopyChunk
    <3> QED
      BY <1>10, <2>3, <3>1
  <2>8. ShapesCore'
    BY <1>2, <1>4, <1>8, <2>1, <2>5, <2>6, <2>7 DEF CopyChunk, Inodes2
  <2> QED
    BY <1>6, <1>8, <2>8 DEF Shapes, CopyChunk, InitInode
<1>9. CASE FileCopied
  <2>1. /\ t = [core["target"] EXCEPT !.size = fsz, !.nlink = 1]
        /\ core' = [core EXCEPT !["target"] = t]
    BY <1>1, <1>9 DEF FileCopied, Inodes2
  <2>2. tool # "mkdir" /\ ~(k < fsz)
    BY <1>9 DEF FileCopied, NeedsBlock
  <2>3. core["target"].mode = "reg" /\ HasBlocks(core["target"], k) /\ k <= fsz
    BY <1>1, <1>9, <2>2 DEF FileCopied, ShapesCore, Growing
  <2>4. k = fsz /\ fsz \in 0 .. NDIRECT /\ fsz \in Nat
    <3>1. fsz \in 0 .. NDIRECT /\ k \in 0 .. NDIRECT
      BY <1>1 DEF ProcTypeOK
    <3> QED
      BY <2>2, <2>3, <3>1, SizesNat
  <2>5. t \in inode /\ t.mode = "reg" /\ t.size = fsz /\ t.dirty = core["target"].dirty
        /\ t.addr = core["target"].addr
    BY <1>1, <2>1, <2>3, <2>4, SmallLinks DEF inode
  <2>6. HasBlocks(t, fsz) /\ SizeEndsIn(t, fsz)
    BY <2>3, <2>4, <2>5 DEF HasBlocks, SizeEndsIn
  <2>7. ShapesCore'
    BY <1>2, <1>3, <1>9, <2>1, <2>4, <2>5, <2>6 DEF FileCopied, Shaped, Inodes2
  <2> QED
    BY <1>6, <1>9, <2>7 DEF Shapes, FileCopied, InitInode
<1> QED
  BY <1>5, <1>7, <1>8, <1>9

\* An entry of one of the first m blocks lies within their entries.
LEMMA EntryWithin ==
  ASSUME NEW l \in Nat, NEW m \in Nat, l < m, NEW s \in Slots
  PROVE  SizeAt(<<l, s>>) <= m * DirentsPerBlock
<1>1. s \in Nat /\ s + 1 <= DirentsPerBlock /\ DirentsPerBlock \in Nat
  BY SizesNat DEF Slots
<1>2. PICK e \in Nat : m = (l + 1) + e
  <2>1. m - (l + 1) \in Nat /\ m = (l + 1) + (m - (l + 1))
    OBVIOUS
  <2> QED
    BY <2>1
<1>3. m * DirentsPerBlock = l * DirentsPerBlock + DirentsPerBlock + e * DirentsPerBlock
  BY <1>1, <1>2
<1>4. /\ \A i \in Nat, j \in Nat : i * j \in Nat
  OBVIOUS
<1>5. l * DirentsPerBlock \in Nat /\ e * DirentsPerBlock \in Nat
  BY <1>1, <1>4
<1>6. SizeAt(<<l, s>>) = l * DirentsPerBlock + s + 1
  BY DEF SizeAt
<1> QED
  BY <1>1, <1>3, <1>5, <1>6

\* The in-core inodes after add_entry.
LEMMA ShapesLinked ==
  ASSUME ProcTypeOK, NEW size \in Nat, core' = Linked(size), pc' = "put",
         Shaped(core["target"]), core["parent"].mode = "dir",
         NEW m \in 0 .. NDIRECT, HasBlocks(core["parent"], m),
         (m - 1) * DirentsPerBlock < size, size <= m * DirentsPerBlock
  PROVE  ShapesCore'
<1>1. core \in [Inodes2 -> inode] /\ core["parent"] \in inode /\ core["target"] \in inode
  BY DEF ProcTypeOK, Inodes2
<1> DEFINE t == [core["target"] EXCEPT !.dirty = DIRTY]
           p == [core["parent"] EXCEPT !.dirty = DIRTY, !.size = size, !.nlink = ParentLinks]
<1>2. Linked(size) = [core EXCEPT !["target"] = t, !["parent"] = p]
  BY Zenon DEF Linked
<1>3. Shaped(t)
  BY <1>1, ShapedFields
<1>4. p.mode = "dir" /\ p.size = size /\ p.addr = core["parent"].addr
  BY <1>1 DEF inode
<1>5. HasBlocks(p, m) /\ SizeEndsIn(p, m)
  <2> HIDE DEF p
  <2> QED
    BY <1>4 DEF HasBlocks, SizeEndsIn
<1> HIDE DEF t, p
<1>6. Shaped(p)
  BY <1>5 DEF Shaped
<1>7. core'["target"] = t /\ core'["parent"] = p
  BY <1>1, <1>2 DEF Inodes2
<1>8. \A w \in Inodes2 : Shaped(core'[w])
  BY <1>3, <1>6, <1>7 DEF Inodes2
<1> QED
  BY <1>8 DEF ShapesCore, PutSteps

\* The lowest hole is where the blocks end.
LEMMA LowestHole ==
  ASSUME NEW c, NEW m \in 0 .. NDIRECT, HasBlocks(c, m), NEW l \in Logical, Lowest(l, Holes(c))
  PROVE  l = m
<1>1. l \in Nat /\ m \in Nat /\ l < NDIRECT /\ \A i \in Nat : i < NDIRECT => i \in Logical
  BY SizesNat DEF Logical
<1>2. ~(l < m)
  BY DEF Lowest, Holes, HasBlocks
<1>3. CASE m < l
  <2>1. m \in Logical
    BY <1>1, <1>3, SizesNat
  <2>2. c.addr[m] = 0
    BY <1>1, <2>1 DEF HasBlocks
  <2>3. l <= m
    BY <2>1, <2>2 DEF Lowest, Holes
  <2> QED
    BY <1>1, <1>3, <2>3
<1> QED
  BY <1>1, <1>2, <1>3

\* add_entry.
LEMMA ShapesAddEntry ==
  ASSUME ShapesInv,
         \/ AddEntryInSlot \/ AddEntryAllocates \/ AddEntryZeroes \/ AddEntryInNewBlock
         \/ AddEntryFails
  PROVE  Shapes'
<1>1. /\ DiskTypeOK /\ ProcTypeOK /\ Inv /\ InFlight /\ MetaFresh /\ ShapesDisk /\ ShapesCore
      /\ core \in [Inodes2 -> inode] /\ core["parent"] \in inode
  BY ShapesParts DEF Inodes2, ShapesInv, MetaInv
<1>2. \A w \in Inodes2 : core[w].dirty = CLEAN
  BY <1>1 DEF ShapesCore, PutSteps, AddEntryInSlot, AddEntryAllocates, AddEntryZeroes,
     AddEntryInNewBlock, AddEntryFails
<1>3. ShapesDisk'
  BY <1>1, InodeListKeptBy, ShapesDiskKept
<1>4. Shaped(core["target"])
  BY <1>1 DEF ShapesCore, AddEntryInSlot, AddEntryAllocates, AddEntryZeroes, AddEntryInNewBlock,
     AddEntryFails
<1>5. core["parent"].size \in Nat
  BY <1>1, SizesNat DEF inode
<1>6. ASSUME AddEntryInSlot \/ AddEntryAllocates
      PROVE  /\ core["parent"].mode = "dir"
             /\ \E m \in 0 .. NDIRECT :
                  /\ HasBlocks(core["parent"], m)
                  /\ (m - 1) * DirentsPerBlock < core["parent"].size
                  /\ core["parent"].size <= m * DirentsPerBlock
  <2>1. search_dir(core["parent"], base, 0) /\ ENOTDIR # 0
    BY <1>6 DEF AddEntryInSlot, AddEntryAllocates, ENOTDIR
  <2>2. core["parent"].mode = "dir"
    BY <2>1 DEF search_dir
  <2>3. Shaped(core["parent"])
    BY <1>1, <1>6 DEF ShapesCore, PutSteps, AddEntryInSlot, AddEntryAllocates
  <2> QED
    BY <2>2, <2>3 DEF Shaped, SizeEndsIn
<1>7. CASE AddEntryInSlot
  <2>1. PICK p \in FreeSlots(core["parent"]) : core' = Linked(SizeWith(p))
    BY <1>7 DEF AddEntryInSlot
  <2>2. PICK m \in 0 .. NDIRECT :
          /\ HasBlocks(core["parent"], m)
          /\ (m - 1) * DirentsPerBlock < core["parent"].size
          /\ core["parent"].size <= m * DirentsPerBlock
    BY <1>6, <1>7
  <2>3. PICK l \in Logical, s \in Slots : p = <<l, s>>
    BY <2>1 DEF FreeSlots, Mapped, Positions
  <2>4. l < m /\ l \in Nat /\ m \in Nat
    <3>1. core["parent"].addr[l] # 0
      BY <2>1, <2>3 DEF FreeSlots, Mapped
    <3> QED
      BY <2>2, <3>1, SizesNat DEF HasBlocks, Logical
  <2>5. SizeAt(<<l, s>>) \in Nat /\ SizeAt(<<l, s>>) <= m * DirentsPerBlock
    BY <2>4, SizeType, EntryWithin
  <2>6. PICK size \in Nat : size = SizeWith(p)
    BY <1>5, <2>3, <2>5 DEF SizeWith
  <2>7. (m - 1) * DirentsPerBlock < size /\ size <= m * DirentsPerBlock
    <3>1. PICK lo \in Int, hi \in Int : lo = (m - 1) * DirentsPerBlock /\ hi = m * DirentsPerBlock
      BY <2>4, SizesNat
    <3>2. CASE SizeAt(p) > core["parent"].size
      BY <1>5, <2>2, <2>3, <2>5, <2>6, <3>1, <3>2 DEF SizeWith
    <3>3. CASE ~(SizeAt(p) > core["parent"].size)
      BY <1>5, <2>2, <2>3, <2>5, <2>6, <3>1, <3>3 DEF SizeWith
    <3> QED
      BY <3>2, <3>3
  <2>8. ShapesCore'
    BY <1>1, <1>4, <1>6, <1>7, <2>1, <2>2, <2>6, <2>7, ShapesLinked DEF AddEntryInSlot
  <2> QED
    BY <1>3, <2>8 DEF Shapes
<1>8. CASE AddEntryAllocates
  <2>1. k' \in Logical /\ Lowest(k', Holes(core["parent"])) /\ core' = core /\ pc' = "ezero"
    BY <1>8 DEF AddEntryAllocates, Holes
  <2>2. PICK m \in 0 .. NDIRECT : HasBlocks(core["parent"], m)
    BY <1>6, <1>8
  <2>3. k' = m
    <3>1. PICK l \in Logical : l = k' /\ Lowest(l, Holes(core["parent"]))
      BY <2>1
    <3> QED
      BY <2>2, <3>1, LowestHole
  <2>4. HasBlocks(core["parent"], k)'
    BY <2>1, <2>2, <2>3 DEF HasBlocks
  <2> QED
    BY <1>2, <1>3, <1>4, <1>6, <1>8, <2>1, <2>4, CleanIsNotDirty DEF ShapesCore, PutSteps, Shapes
<1>9. CASE AddEntryZeroes
  <2>1. /\ core' = [core EXCEPT !["parent"] = [core["parent"] EXCEPT !.addr[k] = fresh]]
        /\ k' = k /\ pc' = "ewrite"
    BY <1>9 DEF AddEntryZeroes
  <2>2. core["parent"].mode = "dir" /\ HasBlocks(core["parent"], k) /\ k \in Logical
    BY <1>1, <1>9 DEF AddEntryZeroes, ShapesCore, InFlight
  <2>3. fresh # 0 /\ fresh \in Blocks
    BY <1>1, <1>9, FreshNotZero DEF AddEntryZeroes
  <2>4. HasBlocks([core["parent"] EXCEPT !.addr[k] = fresh], k + 1)
    BY <1>1, <2>2, <2>3, OneMore
  <2>5. /\ core'["parent"] = [core["parent"] EXCEPT !.addr[k] = fresh]
        /\ core'["target"] = core["target"]
    BY <1>1, <2>1 DEF Inodes2
  <2>6. core'["parent"].mode = "dir" /\ core'["parent"].dirty = core["parent"].dirty
    BY <1>1, <2>2, <2>5 DEF inode
  <2>7. HasBlocks(core'["parent"], k' + 1) /\ Shaped(core'["target"])
        /\ \A w \in Inodes2 : core'[w].dirty = CLEAN
    BY <1>2, <1>4, <2>1, <2>4, <2>5, <2>6 DEF Inodes2
  <2> QED
    BY <1>3, <2>1, <2>6, <2>7, CleanIsNotDirty DEF ShapesCore, PutSteps, Shapes
<1>10. CASE AddEntryInNewBlock
  <2>1. core' = Linked(SizeAt(<<k, 0>>)) /\ pc' = "put"
    BY <1>10 DEF AddEntryInNewBlock
  <2>2. core["parent"].mode = "dir" /\ HasBlocks(core["parent"], k + 1) /\ k \in Logical
    BY <1>1, <1>10 DEF AddEntryInNewBlock, ShapesCore, InFlight
  <2>3. k \in Nat /\ k + 1 \in 0 .. NDIRECT /\ 0 \in Slots /\ k + 1 \in Nat /\ k < k + 1
    BY <2>2, SizesNat DEF Logical, Slots
  <2>4. PICK m \in 0 .. NDIRECT : m = k + 1
    BY <2>3
  <2>5. PICK size \in Nat : size = SizeAt(<<k, 0>>)
    BY <2>2, <2>3, SizeType
  <2>6. size <= m * DirentsPerBlock
    BY <2>3, <2>4, <2>5, EntryWithin
  <2>7. (m - 1) * DirentsPerBlock < size
    <3>1. PICK j \in Nat : j = k
      BY <2>3
    <3>2. (m - 1) * DirentsPerBlock = j * DirentsPerBlock /\ j * DirentsPerBlock \in Nat
      BY <2>3, <2>4, <3>1, SizesNat
    <3> QED
      BY <2>5, <3>1, <3>2 DEF SizeAt
  <2>8. ShapesCore'
    BY <1>1, <1>4, <2>1, <2>2, <2>4, <2>5, <2>6, <2>7, ShapesLinked
  <2> QED
    BY <1>3, <2>8 DEF Shapes
<1>11. CASE AddEntryFails
  BY <1>1, <1>2, <1>3, <1>11, ShapesErrorHandler DEF AddEntryFails, Shapes
<1> QED
  BY <1>7, <1>8, <1>9, <1>10, <1>11

\* rm of a directory, whichever of its blocks could be read.
LEMMA ShapesRmDirectory ==
  ASSUME ShapesInv, NEW blocksRead, RmDirectory(blocksRead)
  PROVE  ShapesCore'
<1>1. DiskTypeOK /\ ShapesDisk /\ ShapesCore /\ core \in [Inodes2 -> inode] /\ core["parent"] \in inode
  BY ShapesParts DEF Inodes2
<1>2. Shaped(core["parent"]) /\ core["parent"].dirty = CLEAN
  BY <1>1 DEF RmDirectory, Target, ShapesCore, PutSteps, Inodes2
<1>3. PICK n \in Inodes :
        core' = [core EXCEPT !["target"] = [get_inode(n) EXCEPT !.nlink = 0],
                             !["parent"].nlink = Unlinked(@)]
  BY DEF RmDirectory
<1>4. get_inode(n) \in inode /\ Shaped(get_inode(n)) /\ get_inode(n).dirty = CLEAN
  BY <1>1, GetInodeType, ShapedInCore DEF ShapesDisk
<1>5. /\ core'["target"] = [get_inode(n) EXCEPT !.nlink = 0]
      /\ core'["parent"] = [core["parent"] EXCEPT !.nlink = Unlinked(core["parent"].nlink)]
  BY <1>1, <1>3 DEF Inodes2
<1>6. Shaped(core'["target"]) /\ Shaped(core'["parent"])
  <2>1. \A m : Shaped([get_inode(n) EXCEPT !.nlink = m])
    BY <1>4, ShapedFields
  <2>2. \A m : Shaped([core["parent"] EXCEPT !.nlink = m])
    BY <1>1, <1>2, ShapedFields
  <2> QED
    BY <1>5, <2>1, <2>2
<1>7. core'["target"].dirty = CLEAN /\ core'["parent"].dirty = CLEAN
  BY <1>1, <1>2, <1>4, <1>5 DEF inode
<1>8. \A w \in Inodes2 : core'[w].dirty = CLEAN
  BY <1>7 DEF Inodes2
<1> QED
  BY <1>6, <1>8, CleanIsNotDirty DEF RmDirectory, ShapesCore, PutSteps

\* rm.
LEMMA ShapesRemove ==
  ASSUME ShapesInv, Remove
  PROVE  Shapes'
<1>1. /\ DiskTypeOK /\ ShapesDisk /\ ShapesCore
      /\ core \in [Inodes2 -> inode] /\ core["parent"] \in inode /\ core["target"] \in inode
  BY ShapesParts DEF Inodes2
<1>2. Shaped(core["parent"]) /\ \A w \in Inodes2 : core[w].dirty = CLEAN
  BY <1>1 DEF Remove, RmLookupFails, RmFile, RmEmptyDir, RmDirectory, RmNotEmpty, Target,
     detach_entry, ShapesCore, PutSteps
<1>3. ShapesDisk'
  BY <1>1, InodeListKeptBy, ShapesDiskKept
<1>4. CASE RmLookupFails
  BY <1>1, <1>2, <1>3, <1>4, ShapesErrorHandler DEF RmLookupFails, Shapes
<1>5. CASE RmFile
  <2>1. PICK n \in Inodes :
          core' = [core EXCEPT !["target"] =
            [get_inode(n) EXCEPT !.nlink = IF dinode[n].mode = "reg" THEN Unlinked(@) ELSE @]]
    BY <1>5 DEF RmFile
  <2>2. get_inode(n) \in inode /\ Shaped(get_inode(n)) /\ get_inode(n).dirty = CLEAN
    BY <1>1, GetInodeType, ShapedInCore DEF ShapesDisk
  <2>3. PICK m : core'["target"] = [get_inode(n) EXCEPT !.nlink = m]
    BY <1>1, <2>1 DEF Inodes2
  <2>4. core'["parent"] = core["parent"]
    BY <1>1, <2>1 DEF Inodes2
  <2>5. Shaped(core'["target"]) /\ core'["target"].dirty = CLEAN
    BY <2>2, <2>3, ShapedFields DEF inode
  <2>6. \A w \in Inodes2 : core'[w].dirty = CLEAN
    BY <1>2, <2>4, <2>5 DEF Inodes2
  <2> QED
    BY <1>2, <1>3, <1>5, <2>4, <2>5, <2>6, CleanIsNotDirty DEF RmFile, ShapesCore, PutSteps, Shapes
<1>6. CASE RmEmptyDir
  BY <1>3, <1>6, ShapesRmDirectory DEF RmEmptyDir, Shapes
<1>7. CASE RmNotEmpty
  <2>1. PICK n \in Inodes : error_handler([core EXCEPT !["target"] = get_inode(n)])
    BY <1>7 DEF RmNotEmpty
  <2>2. [core EXCEPT !["target"] = get_inode(n)] \in [Inodes2 -> inode]
    BY <1>1, GetInodeType DEF Inodes2
  <2>3. \A w \in Inodes2 : [core EXCEPT !["target"] = get_inode(n)][w].dirty = CLEAN
    BY <1>1, <1>2, ShapedInCore DEF Inodes2, ShapesDisk
  <2> QED
    BY <1>3, <2>1, <2>2, <2>3, ShapesErrorHandler DEF Shapes
<1>8. CASE detach_entry
  <2>1. Shaped(core["target"])
    BY <1>1, <1>8 DEF detach_entry, ShapesCore
  <2>2. \A w \in Inodes2 : Shaped([core[w] EXCEPT !.dirty = DIRTY])
    BY <1>1, <1>2, <2>1, ShapedFields DEF Inodes2
  <2>3. \A w \in Inodes2 : core'[w] = [core[w] EXCEPT !.dirty = DIRTY]
    BY <1>1, <1>8 DEF detach_entry, Inodes2
  <2>4. \A w \in Inodes2 : Shaped(core'[w])
    BY <2>2, <2>3
  <2> QED
    BY <1>3, <1>8, <2>4 DEF detach_entry, ShapesCore, PutSteps, Shapes
<1> QED
  BY <1>4, <1>5, <1>6, <1>7, <1>8 DEF Remove

\* put_inode writes back inodes that have a shape, and blank ones.
LEMMA ShapesPut ==
  ASSUME ShapesInv, put_inode
  PROVE  Shapes'
<1>1. /\ DiskTypeOK /\ ProcTypeOK /\ InFlight /\ ShapesDisk /\ ShapesCore
      /\ core \in [Inodes2 -> inode] /\ who \in Inodes2 /\ held \in inode
  BY ShapesParts, HeldType DEF ProcTypeOK, Inodes2
<1>2. ASSUME core' = core, pc' \in PutSteps
      PROVE  ShapesCore'
  BY <1>1, <1>2 DEF ShapesCore, PutSteps
<1>3. ASSUME NEW l \in Logical, Unmaps(l), pc' \in PutSteps
      PROVE  ShapesCore'
  <2>1. core' = [core EXCEPT ![who] = [held EXCEPT !.addr[l] = 0]] /\ held.nlink = 0
    BY <1>3 DEF Unmaps, Releasing, held
  <2>2. core'[who].nlink = 0
    BY <1>1, <2>1 DEF inode
  <2>3. \A w \in Inodes2 : core'[w] = core[w] \/ core'[w].nlink = 0
    BY <1>1, <2>1, <2>2
  <2> QED
    BY <1>1, <1>3, <2>3 DEF ShapesCore, PutSteps
<1>4. CASE PutClean \/ free_inode
  <2>1. PutDone
    BY <1>4 DEF PutClean, free_inode
  <2> QED
    BY <1>1, <1>4, <2>1, InodeListKeptBy, ShapesDiskKept, ShapesPutDone DEF Shapes
<1>5. CASE update_inode
  <2>1. held.dirty = DIRTY /\ held.nlink # 0 /\ held = core[who]
    BY <1>5 DEF update_inode, held
  <2>2. Shaped(OnDisk(held))
    BY <1>1, <2>1, ShapedFields DEF ShapesCore
  <2> QED
    BY <1>1, <1>5, <2>2, ShapesInodeWrite, ShapesPutDone DEF update_inode, Shapes
<1>6. CASE free_block
  <2>1. PICK l \in Logical : Unmaps(l) /\ pc' \in PutSteps
    BY <1>6 DEF free_block, PutSteps
  <2> QED
    BY <1>1, <1>3, <1>6, <2>1, InodeListKeptBy, ShapesDiskKept DEF Shapes
<1>7. CASE ZeroFreed
  BY <1>1, <1>2, <1>7, InodeListKeptBy, ShapesDiskKept DEF ZeroFreed, PutSteps, Shapes
<1>8. CASE BlankOut
  <2>1. held.nlink = 0 /\ Holes(held) = Logical
    BY <1>8 DEF BlankOut, Releasing
  <2>2. Shaped(Released)
    BY <1>1, <2>1, ReleasedIsBlank, BlankShaped
  <2> QED
    BY <1>1, <1>2, <1>8, <2>2, ShapesInodeWrite DEF BlankOut, PutSteps, Shapes
<1> QED
  BY <1>4, <1>5, <1>6, <1>7, <1>8 DEF put_inode

\* Kills and I/O errors.
LEMMA ShapesFault ==
  ASSUME ShapesInv, Fault
  PROVE  Shapes'
<1>1. /\ DiskTypeOK /\ ProcTypeOK /\ ShapesDisk /\ ShapesCore /\ core \in [Inodes2 -> inode]
      /\ who \in Inodes2 /\ held \in inode
  BY ShapesParts, HeldType DEF ProcTypeOK, Inodes2
<1>2. CASE Kill
  BY <1>1, <1>2, InodeListKeptBy, ShapesDiskKept, ShapesExit DEF Kill, Shapes
<1>3. CASE IoErrorFails
  <2>1. \A w \in Inodes2 : core[w].dirty = CLEAN
    BY <1>1, <1>3 DEF IoErrorFails, ShapesCore, PutSteps
  <2> QED
    BY <1>1, <1>3, <2>1, InodeListKeptBy, ShapesDiskKept, ShapesErrorHandler DEF IoErrorFails, Shapes
<1>4. CASE IoErrorReload
  <2>1. \A w \in Inodes2 : core[w].dirty = CLEAN
    BY <1>1, <1>4 DEF IoErrorReload, ShapesCore, PutSteps
  <2> QED
    BY <1>1, <1>4, <2>1, BlankShaped, ShapesInodeWrite, ShapesErrorHandler DEF IoErrorReload, Shapes
<1>5. CASE IoErrorInRm
  <2>1. ShapesDisk'
    BY <1>1, <1>5, InodeListKeptBy, ShapesDiskKept
  <2> QED
    BY <1>5, <2>1, ShapesRmDirectory DEF IoErrorInRm, Shapes
<1>6. CASE IoErrorInPut
  <2>1. ShapesDisk'
    BY <1>1, <1>6, InodeListKeptBy, ShapesDiskKept
  <2>2. CASE PutDone
    BY <1>1, <2>1, <2>2, ShapesPutDone DEF Shapes
  <2>3. ASSUME NEW l \in Logical, Unmaps(l), pc' = "put"
        PROVE  Shapes'
    <3>1. core' = [core EXCEPT ![who] = [held EXCEPT !.addr[l] = 0]] /\ held.nlink = 0
      BY <2>3 DEF Unmaps, Releasing, held
    <3>2. core'[who].nlink = 0
      BY <1>1, <3>1 DEF inode
    <3>3. \A w \in Inodes2 : core'[w] = core[w] \/ core'[w].nlink = 0
      BY <1>1, <3>1, <3>2
    <3> QED
      BY <1>1, <2>1, <2>3, <3>3 DEF ShapesCore, PutSteps, Shapes
  <2>4. CASE pc' \in {"put", "ifree"} /\ core' = core
    BY <1>1, <2>1, <2>4 DEF ShapesCore, PutSteps, Shapes
  <2> QED
    BY <1>6, <2>2, <2>3, <2>4 DEF IoErrorInPut
<1> QED
  BY <1>2, <1>3, <1>4, <1>5, <1>6 DEF Fault

\* Every step.
LEMMA ShapesStep == ShapesInv /\ [Next]_vars => Shapes'
<1> SUFFICES ASSUME ShapesInv, [Next]_vars
             PROVE  Shapes'
  OBVIOUS
<1>1. CASE Next
  BY <1>1, ShapesWalk, ShapesAllocate, ShapesGrow, ShapesAddEntry, ShapesRemove, ShapesPut, ShapesFault
     DEF Next, Step, Create
<1>2. CASE UNCHANGED vars
  <2>1. ShapesDisk /\ ShapesCore
    BY DEF ShapesInv, Shapes
  <2> QED
    BY <1>2, <2>1 DEF vars, Shapes, ShapesDisk, ShapesCore, Growing, HasBlocks, Shaped, SizeEndsIn
<1> QED
  BY <1>1, <1>2

\* The shapes hold whatever is killed and whatever fails.
LEMMA AlwaysShapes == Spec => []ShapesDisk
<1>1. Init => ShapesInv
  BY InitIsHalf, HalfInvInit, MetaInit, ShapesStart DEF ShapesInv, MetaInv
<1>2. ShapesInv /\ [Next]_vars => ShapesInv'
  BY InvStep, MetaStep, ShapesStep DEF ShapesInv, MetaInv
<1>3. ShapesInv => ShapesDisk
  BY DEF ShapesInv, Shapes
<1> QED
  BY <1>1, <1>2, <1>3, PTL DEF Spec
=============================================================================
