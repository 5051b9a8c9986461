----------------------------- MODULE PangyaLayout -----------------------------
(***************************************************************************)
(* Where things lie in a PangYa image (superblock.h, fs_utils.c, the index *)
(* arithmetic of bitmap.c): the sizes of the regions, the byte and the bit *)
(* of a number in a bitmap, the block and the slot of an inode, and the    *)
(* place of a block in the image file.  Sizes are parameters, so that TLC  *)
(* meets every boundary on small volumes.                                  *)
(***************************************************************************)
EXTENDS Integers, FiniteSets

CONSTANTS
  BLOCKSIZE,       \* bytes of a block (1024)
  BYTE,            \* bits of a byte (8)
  InodesPerBlock,  \* get_inode_per_block() (13)
  FileBlocks       \* blocks before block_number * BLOCKSIZE, an uint32_t, wraps (2^22)

ASSUME LayoutAssumption ==
  /\ BLOCKSIZE \in Nat \ {0} /\ BYTE \in Nat \ {0}
  /\ InodesPerBlock \in Nat /\ InodesPerBlock > 1
  /\ FileBlocks \in Nat /\ FileBlocks > 1

BLOCK_BIT_SIZE == BLOCKSIZE * BYTE

\* n / d, and one more when something is left over.
DivUp(n, d) == n \div d + (IF n % d > 0 THEN 1 ELSE 0)

get_inode_block_size(inode_size)        == DivUp(inode_size, InodesPerBlock)
get_inode_bitmap_block_size(inode_size) == DivUp(inode_size, BLOCK_BIT_SIZE)
get_block_bitmap_block_size(image_size) == DivUp(image_size, BLOCK_BIT_SIZE)

\* The superblock mkfs makes of its options -i and -s.
superblock(inode_size, image_size) ==
  [s_isize          |-> get_inode_block_size(inode_size),
   s_fsize          |-> image_size,
   s_ninodes        |-> inode_size,
   s_inode_map_size |-> get_inode_bitmap_block_size(inode_size),
   s_block_map_size |-> get_block_bitmap_block_size(image_size)]

\* The first blocks of the regions.
INODE_BITMAP == "inode"
BLOCK_BITMAP == "block"

bitmap_start_block(sb, type) == IF type = INODE_BITMAP THEN 2 ELSE 2 + sb.s_inode_map_size

bitmap_blocks(sb, type) ==
  IF type = INODE_BITMAP THEN sb.s_inode_map_size ELSE sb.s_block_map_size

inode_list_start(sb) == 2 + sb.s_inode_map_size + sb.s_block_map_size
data_block_start(sb) == inode_list_start(sb) + sb.s_isize

badblock(sb, b) == b < data_block_start(sb) \/ b >= sb.s_fsize

\* Seeded fault: the bits of a byte are counted from the other end.
BitPlaceReversed(sb, type, n) ==
  [block |-> bitmap_start_block(sb, type) + n \div BLOCK_BIT_SIZE,
   byte  |-> (n % BLOCK_BIT_SIZE) \div BYTE,
   bit   |-> (n % BLOCK_BIT_SIZE) % BYTE]

\* The place of number n in a bitmap, as bitmap_set and bitmap_clear compute it.
BitPlace(sb, type, n) ==
  [block |-> bitmap_start_block(sb, type) + n \div BLOCK_BIT_SIZE,
   byte  |-> (n % BLOCK_BIT_SIZE) \div BYTE,
   bit   |-> (BYTE - 1) - ((n % BLOCK_BIT_SIZE) % BYTE)]

\* Seeded fault: inode numbers start at 1 in the first block.
InodePlaceShifted(sb, n) ==
  [block |-> inode_list_start(sb) + n \div InodesPerBlock, slot |-> (n - 1) % InodesPerBlock]

\* The place of inode n in the inode list.
InodePlace(sb, n) ==
  [block |-> inode_list_start(sb) + n \div InodesPerBlock, slot |-> n % InodesPerBlock]

\* The block of the file that read_block and write_block reach for block b.
final_offset(b) == b % FileBlocks
=============================================================================
