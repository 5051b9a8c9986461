------------------------ MODULE PangyaVolumeProperties ------------------------
(***************************************************************************)
(* What the bytes of PangyaVolume must do for the sets of PangyaDisk to be *)
(* a fair picture of them, and what becomes of an unfinished mkfs.         *)
(***************************************************************************)
EXTENDS PangyaVolume

Steps == {"exit", "ready", "image", "superblock", "inodes", "rootdir", "rootinode", "ibitmap",
          "bbitmap", "bzero", "bdata", "bfree", "iwrite", "ifree"}

VolumeTypeOK ==
  /\ DOMAIN image \subseteq 0 .. MaxBlocks - 1
  /\ \A o \in DOMAIN image :
       /\ image[o].bits \in [0 .. BLOCKSIZE - 1 -> SUBSET (0 .. BYTE - 1)]
       /\ image[o].inodes \in [0 .. InodesPerBlock - 1 -> 0 .. MaxInodes]
       /\ image[o].data \in 0 .. MaxBlocks - 1
  /\ sb = NoSuper \/ sb = superblock(sb.s_ninodes, sb.s_fsize)
  /\ pc \in Steps
  /\ k \in 0 .. MaxInodes + MaxBlocks
  /\ made \in {"no", "refused", "einval", "failed", "killed", "success"}
  /\ got \in 0 .. MaxInodes
  /\ result \in {ENOSPC, EIO} \cup 0 .. MaxBlocks

\* The image of a mkfs that succeeded, read by the superblock on it.
Formatted == made = "success" /\ pc # "exit"

\* What is meant by what was written: the root and files without blocks, the two
\* entries of the root directory, which is in block f, and the chunks of files.
InodeMeant(is, f) ==
  [mode  |-> IF is = 0 THEN "none" ELSE IF is = ROOT_INODE THEN "dir" ELSE "reg",
   nlink |-> IF is = 0 THEN 0 ELSE IF is = ROOT_INODE THEN 2 ELSE 1,
   size  |-> IF is = ROOT_INODE THEN 2 ELSE 0,
   addr  |-> [l \in {0} |-> IF is = ROOT_INODE THEN f ELSE 0]]

DirentsMeant(data, f) ==
  [p \in 0 .. 1 |-> IF data = f THEN [ino |-> ROOT_INODE, name |-> IF p = 0 THEN "." ELSE ".."]
                                ELSE [ino |-> 0, name |-> ""]]

ChunkMeant(data, b, f) == IF data \in {0, f} THEN 0 ELSE IF data = b THEN 1 ELSE 2

\* The inode list and the blocks of PangyaDisk: i inodes, s blocks.
Dinode(i, f)  == [n \in 1 .. i - 1 |-> InodeMeant(InodeWritten(n), f)]
Dirents(f, s) == [b \in 0 .. s - 1 |-> DirentsMeant(Block(b).data, f)]
Chunk(f, s)   == [b \in 0 .. s - 1 |-> ChunkMeant(Block(b).data, b, f)]

\* PangyaDisk on such a volume: one logical block, two entries to a block.
Disk(i, f, s) ==
  INSTANCE PangyaDisk WITH
    NInodes <- i, FirstData <- f, FSize <- s,
    NDIRECT <- 1, DirentsPerBlock <- 2, Names <- {},
    ibits   <- Marked(INODE_BITMAP),
    bbits   <- Marked(BLOCK_BITMAP),
    dinode  <- Dinode(i, f),
    dirents <- Dirents(f, s),
    chunk   <- Chunk(f, s)

\* The geometry of the superblock in use.
Geometry(i, f, s) == i = sb.s_ninodes /\ f = data_block_start(sb) /\ s = sb.s_fsize

-----------------------------------------------------------------------------
\* However many inodes and blocks, in bitmaps of one or more blocks: a mkfs that
\* succeeds leaves exactly the image that PangyaDisk starts from (mkfs.c:247-318).
MkfsLeavesDisk ==
  [][made' = "success" /\ made # "success"
       => \E i \in 2 .. MaxInodes, f \in 2 .. MaxBlocks, s \in 2 .. MaxBlocks :
            Geometry(i, f, s)' /\ Disk(i, f, s)!mkfs']_vars

\* A mkfs that ends in any other way leaves either an image no tool accepts, or one
\* whose bitmaps and root are finished up to the write it got to, in the order
\* PangyaDisk gives (mkfs.c:222-318), or one without a root inode (-i 1).
MkfsCutLeavesDisk ==
  [][InMkfs /\ pc' = "exit" /\ Accepted' /\ sb.s_ninodes > ROOT_INODE
       => \E i \in 2 .. MaxInodes, f \in 2 .. MaxBlocks, s \in 2 .. MaxBlocks :
            Geometry(i, f, s)' /\ Disk(i, f, s)!mkfs_cut']_vars

\* One step of PangyaDisk: its allocations take the lowest free number.
DiskStep(i, f, s) ==
  \/ \E n \in Disk(i, f, s)!FreeInodes :
       /\ Disk(i, f, s)!Lowest(n, Disk(i, f, s)!FreeInodes)
       /\ Disk(i, f, s)!SetInodeBit(n)
  \/ \E b \in Disk(i, f, s)!FreeBlocks :
       /\ Disk(i, f, s)!Lowest(b, Disk(i, f, s)!FreeBlocks)
       /\ Disk(i, f, s)!SetBlockBit(b)
  \/ \E n \in 2 .. i - 1 :
       \/ Disk(i, f, s)!ClearInodeBit(n)
       \/ \E d \in {Disk(i, f, s)!BlankInode, [Disk(i, f, s)!BlankInode EXCEPT !.mode = "reg", !.nlink = 1]} :
            Disk(i, f, s)!write_disk_inode(n, d)
  \/ \E b \in f + 1 .. s - 1 :
       \/ Disk(i, f, s)!ClearBlockBit(b)
       \/ Disk(i, f, s)!zero_block(b)
       \/ Disk(i, f, s)!WriteChunk(b, 0)
  \/ UNCHANGED Disk(i, f, s)!diskVars

\* The library works on bytes, bits and slots as PangyaDisk does on sets and
\* functions: each of its writes changes the one number it is about, and nothing
\* else in the volume (bitmap.c, allocator.c, read_block and write_block).
LibraryWorksOnSets ==
  [][Formatted /\ UNCHANGED made
       => \E i \in 2 .. MaxInodes, f \in 2 .. MaxBlocks, s \in 2 .. MaxBlocks :
            Geometry(i, f, s) /\ DiskStep(i, f, s)]_vars

\* What df reports as available is what alloc_inode and alloc_block can still hand
\* out: no bit is set past the last inode or block, and none is missing on the
\* metadata (bitmap.c:121, df.c:52, 72).
DfExact ==
  Formatted => /\ ifree = Cardinality(Candidates(INODE_BITMAP))
               /\ bavail = Cardinality(Candidates(BLOCK_BITMAP))

\* An image the tools accept is whole, even when mkfs was killed or refused: every
\* block up to s_fsize is in the file, and a data block is left for the root.
AcceptedIsWhole ==
  Accepted => LET super == image[1].super
              IN  /\ DOMAIN image = 0 .. super.s_fsize - 1
                  /\ data_block_start(super) < super.s_fsize

\* No block written through the library lands on the superblock.
SuperblockStays == Formatted => Block(1).super = sb

\* What get_inode reads "should be marked as allocated" (allocator.c:109): an inode
\* in core that is in use has its bit set, so that alloc_inode does not take it for
\* a free one.
GottenInodesMarked ==
  InTool /\ got # 0 /\ InodeWritten(got) # 0 => got \in Marked(INODE_BITMAP)

\* An mkfs that was not killed, and none of whose writes failed, either refuses the
\* sizes before it writes the superblock or finishes the image; only -i 1 passes
\* the checks and fails after them, at the bit of the root inode (mkfs.c:145, 299).
OnlyOneInodeFails ==
  /\ made = "einval" => sb.s_ninodes = ROOT_INODE
  /\ made = "refused" => ~Accepted

\* alloc_block goes through all bits of the bitmap, those past the last block
\* included, and finds a free data block whenever df counts one.  When it finds
\* none it comes to the number s_fsize and answers ENOSPC, unless the bitmap ends
\* with the last block: then there is no such round, and the answer is EIO
\* (allocator.c:32, 66).
FullVolumeAnswered ==
  [][result' # result /\ result' \in {ENOSPC, EIO}
       => /\ Formatted => bavail = 0
          /\ result' = EIO <=> sb.s_fsize % BLOCK_BIT_SIZE = 0]_vars
=============================================================================
