----------------------------- MODULE PangyaVolume -----------------------------
(***************************************************************************)
(* mkfs step by step on the image file, and the library's bitmap, block    *)
(* and inode operations on the blocks it lays out: what PangyaDisk         *)
(* abstracts from.  mkfs may be killed, or a write of it may fail, between *)
(* any two writes; any image whose superblock can be read is opened by the *)
(* tools, whatever became of the mkfs that made it.                        *)
(*                                                                         *)
(*   exit - image* - superblock - inodes - rootdir - rootinode -           *)
(*          ibitmap* - bbitmap* - exit                        mkfs         *)
(*   exit - ready - ...                                       the tools    *)
(***************************************************************************)
EXTENDS PangyaLayout

CONSTANTS
  MaxInodes,  \* bound: the largest -i
  MaxBlocks   \* bound: the largest -s

ASSUME OptionAssumption == MaxInodes \in Nat \ {0} /\ MaxBlocks \in Nat \ {0}

VARIABLES
  image,   \* the blocks of the image file
  sb,      \* the superblock of the running mkfs or tool
  pc,      \* the next step; "exit" when nothing runs, "ready" in a tool
  k,       \* loop index of mkfs; the number being allocated or released
  made,    \* how the last mkfs ended: "no" while it runs
  got,     \* the inode get_inode returned last, 0 if none is in core
  result   \* what the last allocation answered

vars == <<image, sb, pc, k, made, got, result>>

ROOT_INODE == 1
ENOSPC     == -28
EIO        == -5

\* A block is what was last written to it: a superblock, bits, inodes (by their
\* number) and data (by the number of the block it was meant for).
NoSuper == superblock(0, 0)

ZeroBlock == [super  |-> NoSuper,
              bits   |-> [byte \in 0 .. BLOCKSIZE - 1 |-> {}],
              inodes |-> [slot \in 0 .. InodesPerBlock - 1 |-> 0],
              data   |-> 0]

Init ==
  /\ image = [b \in {} |-> ZeroBlock] /\ sb = NoSuper
  /\ pc = "exit" /\ k = 0 /\ made = "no" /\ got = 0 /\ result = 0

-----------------------------------------------------------------------------
(* Blocks and bits.                                                        *)

Block(b) == image[final_offset(b)]

\* pwrite of block b, which may lie past the end of the file.
write_block(b, new) ==
  image' = [o \in DOMAIN image \cup {final_offset(b)} |->
              IF o = final_offset(b) THEN new ELSE image[o]]

zero_block(b) == write_block(b, ZeroBlock)

\* read_superblock checks the magic number.
Accepted == 1 \in DOMAIN image /\ image[1].super # NoSuper

\* The rounds of alloc_block and alloc_inode through a bitmap: blocks, bytes, and
\* bits from the highest down.  Number(p) rounds come before round p, and that
\* count is the number the loops take the bit of p to stand for.
Scanned(type) ==
  (0 .. bitmap_blocks(sb, type) - 1) \X (0 .. BLOCKSIZE - 1) \X (0 .. BYTE - 1)

Number(p) == (p[1] * BLOCKSIZE + p[2]) * BYTE + p[3]

IsSet(type, p) == BYTE - 1 - p[3] \in Block(bitmap_start_block(sb, type) + p[1]).bits[p[2]]

Marked(type) == {Number(p) : p \in {q \in Scanned(type) : IsSet(type, q)}}
Clear(type)  == {Number(p) : p \in {q \in Scanned(type) : ~IsSet(type, q)}}

\* Seeded fault: the last inode number is refused.
in_range_short(type, n) == type = INODE_BITMAP => n + 1 < sb.s_ninodes

in_range(type, n) == type = INODE_BITMAP => n < sb.s_ninodes

set_bit(type, n) ==
  LET at == BitPlace(sb, type, n)
  IN  write_block(at.block, [Block(at.block) EXCEPT !.bits[at.byte] = @ \cup {at.bit}])

clear_bit(type, n) ==
  LET at == BitPlace(sb, type, n)
  IN  write_block(at.block, [Block(at.block) EXCEPT !.bits[at.byte] = @ \ {at.bit}])

\* What was written for inode n: 0 if it is blank.
InodeWritten(n) == LET at == InodePlace(sb, n) IN Block(at.block).inodes[at.slot]

write_disk_inode(n, tag) ==
  LET at == InodePlace(sb, n)
  IN  write_block(at.block, [Block(at.block) EXCEPT !.inodes[at.slot] = tag])

\* Seeded fault: the last block of a bitmap is not counted.
count_bits_short(type) ==
  LET blocks == {bitmap_start_block(sb, type) + i : i \in 0 .. bitmap_blocks(sb, type) - 2}
  IN  Cardinality({p \in blocks \X (0 .. BLOCKSIZE - 1) \X (0 .. BYTE - 1) :
                     p[3] \in Block(p[1]).bits[p[2]]})

count_bits(type) ==
  LET blocks == {bitmap_start_block(sb, type) + i : i \in 0 .. bitmap_blocks(sb, type) - 1}
  IN  Cardinality({p \in blocks \X (0 .. BLOCKSIZE - 1) \X (0 .. BYTE - 1) :
                     p[3] \in Block(p[1]).bits[p[2]]})

\* What df prints as free.
ifree  == sb.s_ninodes - count_bits(INODE_BITMAP)
bavail == sb.s_fsize - count_bits(BLOCK_BITMAP)

-----------------------------------------------------------------------------
(* mkfs.                                                                   *)

\* O_TRUNC: whatever was on the image is gone.
mkfs ==
  /\ pc \in {"exit", "ready"}
  /\ \E inode_size \in 1 .. MaxInodes, image_size \in 1 .. MaxBlocks :
       sb' = superblock(inode_size, image_size)
  /\ image' = [b \in {} |-> ZeroBlock]
  /\ pc' = "image" /\ k' = 0 /\ made' = "no" /\ got' = 0 /\ result' = 0

\* Seeded faults: one block too many is written; the last one is not.
init_image_over ==
  /\ pc = "image"
  /\ zero_block(k)
  /\ IF k < sb.s_fsize THEN k' = k + 1 /\ pc' = pc
                       ELSE k' = 0 /\ pc' = "superblock"
  /\ UNCHANGED <<sb, made, got, result>>

init_image_short ==
  /\ pc = "image"
  /\ zero_block(k)
  /\ IF k + 2 < sb.s_fsize THEN k' = k + 1 /\ pc' = pc
                           ELSE k' = 0 /\ pc' = "superblock"
  /\ UNCHANGED <<sb, made, got, result>>

init_image ==
  /\ pc = "image"
  /\ zero_block(k)
  /\ IF k + 1 < sb.s_fsize THEN k' = k + 1 /\ pc' = pc
                           ELSE k' = 0 /\ pc' = "superblock"
  /\ UNCHANGED <<sb, made, got, result>>

\* mkfs ends without success; the image stays as it is.
Stops(how) ==
  /\ pc' = "exit" /\ made' = how /\ k' = 0
  /\ UNCHANGED <<image, sb, got, result>>

Insufficient == 2 + sb.s_inode_map_size + sb.s_block_map_size + sb.s_isize >= sb.s_fsize

InsufficientBlocks == pc = "superblock" /\ Insufficient /\ Stops("refused")

write_superblock ==
  /\ pc = "superblock" /\ ~Insufficient /\ pc' = "inodes"
  /\ write_block(1, [Block(1) EXCEPT !.super = sb])
  /\ UNCHANGED <<sb, k, made, got, result>>

\* The rounds of init_inode's loops: all the slots of as many blocks as the inodes
\* fill, then the slots of one more block for those left over.
InodeRounds ==
  LET full == sb.s_ninodes \div InodesPerBlock
  IN  ((0 .. full - 1) \X (0 .. InodesPerBlock - 1))
        \cup ({full} \X (0 .. (sb.s_ninodes % InodesPerBlock) - 1))

Round(p) == p[1] * InodesPerBlock + p[2]

\* Seeded fault: the bitmaps come before the root directory and its inode.
init_inode_then_bits ==
  /\ pc = "inodes"
  /\ write_disk_inode(k, 0)
  /\ IF k + 1 < sb.s_ninodes THEN k' = k + 1 /\ pc' = pc
                             ELSE k' = 0 /\ pc' = "ibitmap"
  /\ UNCHANGED <<sb, made, got, result>>

\* One blank inode, in round k.
init_inode ==
  /\ pc = "inodes"
  /\ \E p \in InodeRounds :
       /\ Round(p) = k
       /\ LET b == inode_list_start(sb) + p[1]
          IN  write_block(b, [Block(b) EXCEPT !.inodes[p[2]] = 0])
  /\ IF \E p \in InodeRounds : Round(p) = k + 1 THEN k' = k + 1 /\ pc' = pc
                                               ELSE k' = 0 /\ pc' = "rootdir"
  /\ UNCHANGED <<sb, made, got, result>>

WriteRootDir ==
  /\ pc = "rootdir" /\ pc' = "rootinode"
  /\ LET b == data_block_start(sb) IN write_block(b, [Block(b) EXCEPT !.data = b])
  /\ UNCHANGED <<sb, k, made, got, result>>

\* mkfs computes the place itself: slot ROOT_INODE of the first inode block.
WriteRootInode ==
  /\ pc = "rootinode" /\ pc' = "ibitmap"
  /\ LET b == inode_list_start(sb)
     IN  write_block(b, [Block(b) EXCEPT !.inodes[ROOT_INODE] = ROOT_INODE])
  /\ UNCHANGED <<sb, k, made, got, result>>

MarkInode ==
  /\ pc = "ibitmap" /\ in_range(INODE_BITMAP, k)
  /\ set_bit(INODE_BITMAP, k)
  /\ IF k + 1 <= ROOT_INODE THEN k' = k + 1 /\ pc' = pc
                            ELSE k' = 0 /\ pc' = "bbitmap"
  /\ UNCHANGED <<sb, made, got, result>>

\* bitmap_set answers EINVAL.
MarkInodeFails == pc = "ibitmap" /\ ~in_range(INODE_BITMAP, k) /\ Stops("einval")

MarkBlock ==
  /\ pc = "bbitmap"
  /\ set_bit(BLOCK_BITMAP, k)
  /\ IF k + 1 <= data_block_start(sb)
     THEN k' = k + 1 /\ UNCHANGED <<pc, made>>
     ELSE k' = 0 /\ pc' = "exit" /\ made' = "success"
  /\ UNCHANGED <<sb, got, result>>

InMkfs == pc \in {"image", "superblock", "inodes", "rootdir", "rootinode", "ibitmap", "bbitmap"}

Kill        == InMkfs /\ Stops("killed")
WriteFails  == InMkfs /\ Stops("failed")

-----------------------------------------------------------------------------
(* The tools: allocating and releasing inodes and blocks.                  *)

\* read_superblock, then namei starts with get_inode(ROOT_INODE).
OpenImage ==
  /\ pc = "exit" /\ Accepted /\ ROOT_INODE < image[1].super.s_ninodes
  /\ pc' = "ready" /\ sb' = image[1].super
  /\ got' = ROOT_INODE
  /\ UNCHANGED <<image, k, made, result>>

\* The exit of a tool.
CloseImage ==
  /\ pc = "ready" /\ pc' = "exit"
  /\ got' = 0 /\ result' = 0
  /\ UNCHANGED <<image, sb, k, made>>

InTool == pc = "ready"

\* namei fails on a root inode that is not that of a directory; then the tool
\* allocates and releases nothing.
AtWork == InTool /\ InodeWritten(ROOT_INODE) # 0

\* How many numbers there are, and which of them may be handed out.
Limit(type) == IF type = INODE_BITMAP THEN sb.s_ninodes ELSE sb.s_fsize

Usable(type, n) == IF type = INODE_BITMAP THEN n # 0 /\ n < sb.s_ninodes
                                          ELSE ~badblock(sb, n)

Candidates(type) == {n \in Clear(type) : Usable(type, n)}

\* Seeded fault: one number past the last is looked at.
HaltsLate(type) ==
  {p \in Scanned(type) : Number(p) > Limit(type)
                           \/ (~IsSet(type, p) /\ Usable(type, Number(p)))}

\* The rounds that alloc_block and alloc_inode do not go past: the number is too
\* large, or the bit is clear and the number may be handed out.
Halts(type) ==
  {p \in Scanned(type) : Number(p) >= Limit(type)
                           \/ (~IsSet(type, p) /\ Usable(type, Number(p)))}

\* The loops return in round p.
ReturnsAt(type, p) == p \in Halts(type) /\ \A q \in Halts(type) : Number(p) <= Number(q)

alloc_block ==
  /\ AtWork /\ pc' = "bzero"
  /\ \E p \in Scanned(BLOCK_BITMAP) :
       /\ ReturnsAt(BLOCK_BITMAP, p) /\ Number(p) < sb.s_fsize
       /\ set_bit(BLOCK_BITMAP, Number(p))
       /\ k' = Number(p) /\ result' = Number(p)
  /\ UNCHANGED <<sb, made, got>>

\* The loops return at the first number that is not a block, or run out of bits.
alloc_block_fails ==
  /\ AtWork
  /\ \/ /\ \E p \in Scanned(BLOCK_BITMAP) :
               ReturnsAt(BLOCK_BITMAP, p) /\ Number(p) >= sb.s_fsize
        /\ result' = ENOSPC
     \/ Halts(BLOCK_BITMAP) = {} /\ result' = EIO
  /\ UNCHANGED <<image, sb, pc, k, made, got>>

ZeroAllocated ==
  /\ pc = "bzero" /\ pc' = "bdata"
  /\ zero_block(k)
  /\ UNCHANGED <<sb, k, made, got, result>>

\* The caller fills the block it got.
WriteData ==
  /\ pc = "bdata" /\ pc' = "ready" /\ k' = 0
  /\ write_block(k, [ZeroBlock EXCEPT !.data = k])
  /\ UNCHANGED <<sb, made, got, result>>

\* Seeded fault: badblock is not asked.
free_any_block ==
  /\ AtWork /\ pc' = "bfree"
  /\ \E b \in Marked(BLOCK_BITMAP) : clear_bit(BLOCK_BITMAP, b) /\ k' = b
  /\ UNCHANGED <<sb, made, got, result>>

\* The callers release blocks in use, and never that of the root directory.
free_block ==
  /\ AtWork /\ pc' = "bfree"
  /\ \E b \in Marked(BLOCK_BITMAP) :
       /\ ~badblock(sb, b) /\ b # data_block_start(sb)
       /\ clear_bit(BLOCK_BITMAP, b) /\ k' = b
  /\ UNCHANGED <<sb, made, got, result>>

ZeroFreed ==
  /\ pc = "bfree" /\ pc' = "ready" /\ k' = 0
  /\ zero_block(k)
  /\ UNCHANGED <<sb, made, got, result>>

alloc_inode ==
  /\ AtWork /\ pc' = "iwrite"
  /\ \E p \in Scanned(INODE_BITMAP) :
       /\ ReturnsAt(INODE_BITMAP, p) /\ Number(p) < sb.s_ninodes
       /\ set_bit(INODE_BITMAP, Number(p)) /\ k' = Number(p)
  /\ UNCHANGED <<sb, made, got, result>>

InitInode ==
  /\ pc = "iwrite" /\ pc' = "ready" /\ k' = 0
  /\ write_disk_inode(k, k)
  /\ got' = k
  /\ UNCHANGED <<sb, made, result>>

\* put_inode of an inode without links: blank it, then clear its bit.
ReleaseInode ==
  /\ AtWork /\ pc' = "ifree"
  /\ \E n \in Marked(INODE_BITMAP) :
       n > ROOT_INODE /\ in_range(INODE_BITMAP, n) /\ write_disk_inode(n, 0) /\ k' = n
  /\ UNCHANGED <<sb, made, got, result>>

free_inode ==
  /\ pc = "ifree" /\ pc' = "ready" /\ k' = 0
  /\ clear_bit(INODE_BITMAP, k)
  /\ got' = IF got = k THEN 0 ELSE got
  /\ UNCHANGED <<sb, made, result>>

-----------------------------------------------------------------------------
Mkfs == mkfs \/ init_image \/ InsufficientBlocks \/ write_superblock \/ init_inode
        \/ WriteRootDir \/ WriteRootInode \/ MarkInode \/ MarkInodeFails \/ MarkBlock

Library == alloc_block \/ alloc_block_fails \/ ZeroAllocated \/ WriteData \/ free_block
           \/ ZeroFreed \/ alloc_inode \/ InitInode \/ ReleaseInode \/ free_inode

Tool == OpenImage \/ CloseImage \/ Library

Next == Mkfs \/ Tool \/ Kill \/ WriteFails

Spec == Init /\ [][Next]_vars
=============================================================================
