-------------------------- MODULE PangyaVolume_proofs --------------------------
(***************************************************************************)
(* Proofs about the bytes of an image: mkfs and the library keep to their  *)
(* regions, and do to them what PangyaDisk says, for every geometry.       *)
(***************************************************************************)
EXTENDS PangyaVolumeProperties, FiniteSetTheorems, TLAPS

\* The superblock, if there was an mkfs at all.
Sized ==
  \/ sb = NoSuper /\ pc = "exit" /\ DOMAIN image = {} /\ made = "no"
  \/ \E i \in 1 .. MaxInodes, s \in 1 .. MaxBlocks : sb = superblock(i, s)

\* What a block of the file may hold.
VolBlock ==
  [super  : {NoSuper, sb},
   bits   : [0 .. BLOCKSIZE - 1 -> SUBSET (0 .. BYTE - 1)],
   inodes : [0 .. InodesPerBlock - 1 -> 0 .. MaxInodes],
   data   : 0 .. MaxBlocks - 1]

\* The places of the first n blocks in the file.
Places(n) == {final_offset(b) : b \in 0 .. n - 1}

\* The superblock is written after the last block of the file, and only if the
\* regions and a data block fit; the other writes come after it.
LaidOut ==
  /\ DOMAIN image \subseteq Places(sb.s_fsize)
  /\ \A o \in DOMAIN image : image[o].super # NoSuper => pc \notin {"image", "superblock"}
  /\ pc = "image" => DOMAIN image = Places(k)
  /\ pc = "superblock" => DOMAIN image = Places(sb.s_fsize)
  /\ pc \notin {"exit", "image", "superblock"} \/ Accepted
       => ~Insufficient /\ DOMAIN image = Places(sb.s_fsize)

\* The number that the step is about.
IndexOK ==
  /\ pc = "image" => k \in 0 .. sb.s_fsize - 1
  /\ pc = "inodes" => k \in 0 .. sb.s_ninodes - 1
  /\ pc \in {"exit", "ready", "superblock", "rootdir", "rootinode"} => k = 0
  /\ pc = "ibitmap" => k \in 0 .. ROOT_INODE
  /\ pc = "bbitmap" => k \in 0 .. data_block_start(sb)
  /\ pc \in {"bzero", "bdata", "bfree"} => k \in data_block_start(sb) .. sb.s_fsize - 1
  /\ pc \in {"iwrite", "ifree"} => k \in 1 .. sb.s_ninodes - 1

VolumeInv ==
  /\ Sized /\ LaidOut /\ IndexOK
  /\ \A o \in DOMAIN image : image[o] \in VolBlock
  /\ pc \in Steps
  /\ made \in {"no", "refused", "einval", "failed", "killed", "success"}
  /\ got \in 0 .. MaxInodes /\ result \in {ENOSPC, EIO} \cup 0 .. MaxBlocks
  /\ k \in Nat
  /\ OnlyOneInodeFails /\ (made = "refused" => pc = "exit")
  /\ pc \in {"image", "superblock"} => made = "no"

-----------------------------------------------------------------------------
(* Arithmetic, and the regions of an image.                                *)

\* Quotient and remainder, as the library defines them.
LEMMA Division ==
  ASSUME NEW n \in Nat, NEW d \in Nat \ {0}
  PROVE  /\ n \div d \in Nat /\ (n % d) \in 0 .. d - 1
         /\ n = (n \div d) * d + (n % d)
<1>1. n \div d \in Nat
  BY SMT
<1>2. (n % d) \in 0 .. d - 1
  BY SMT
<1>3. n = d * (n \div d) + (n % d)
  BY SMT
<1>4. d * (n \div d) = (n \div d) * d
  BY <1>1
<1> QED
  BY <1>1, <1>2, <1>3, <1>4

\* More parts are no shorter.
LEMMA Multiples ==
  ASSUME NEW m \in Nat, NEW n \in Nat, NEW d \in Nat, m <= n
  PROVE  m * d <= n * d /\ m * d \in Nat /\ n * d \in Nat
<1>1. PICK j \in Nat : n = m + j
  BY n = m + (n - m)
<1>2. n * d = m * d + j * d /\ j * d \in Nat /\ m * d \in Nat
  BY <1>1
<1> QED
  BY <1>2

\* Quotient and remainder are unique.
LEMMA DivisionUnique ==
  ASSUME NEW d \in Nat \ {0}, NEW a \in Nat, NEW r \in 0 .. d - 1, NEW c \in Nat, NEW t \in 0 .. d - 1,
         a * d + r = c * d + t
  PROVE  a = c /\ r = t
<1>1. a * d \in Nat /\ c * d \in Nat
  OBVIOUS
<1>2. ASSUME NEW x \in Nat, NEW y \in Nat, NEW u \in 0 .. d - 1, NEW v \in 0 .. d - 1,
             x * d + u = y * d + v, x < y
      PROVE  FALSE
  <2>1. (x + 1) * d <= y * d /\ y * d \in Nat
    BY <1>2, Multiples
  <2>2. (x + 1) * d = x * d + d /\ x * d \in Nat
    OBVIOUS
  <2> QED
    BY <1>2, <2>1, <2>2
<1>3. ~ (a < c)
  BY <1>2
<1>4. ~ (c < a)
  BY <1>2
<1> QED
  BY <1>1, <1>3, <1>4

\* What is written as multiple and rest has this quotient and this remainder.
LEMMA Quotient ==
  ASSUME NEW d \in Nat \ {0}, NEW a \in Nat, NEW r \in 0 .. d - 1, NEW n \in Nat, n = a * d + r
  PROVE  n \div d = a /\ n % d = r
<1> DEFINE c == n \div d
           t == n % d
<1>1. c \in Nat /\ t \in 0 .. d - 1 /\ n = c * d + t
  BY Division
<1> HIDE DEF c, t
<1>2. a = c /\ r = t
  BY <1>1, DivisionUnique
<1> QED
  BY <1>2 DEF c, t

\* There is room for everything, and no more than one part is not full.
LEMMA RoundingUp ==
  ASSUME NEW n \in Nat, NEW d \in Nat \ {0}
  PROVE  /\ DivUp(n, d) \in Nat /\ n <= DivUp(n, d) * d
         /\ \A m \in 0 .. n - 1 : m \div d \in 0 .. DivUp(n, d) - 1
<1> DEFINE a == n \div d
           r == n % d
<1>1. a \in Nat /\ r \in 0 .. d - 1 /\ n = a * d + r
  BY Division
<1>2. DivUp(n, d) = a + (IF r > 0 THEN 1 ELSE 0)
  BY DEF DivUp
<1> HIDE DEF a, r
<1>3. DivUp(n, d) \in Nat
  BY <1>1, <1>2
<1>4. n <= DivUp(n, d) * d
  <2>1. CASE r > 0
    <3>1. DivUp(n, d) = a + 1 /\ (a + 1) * d = a * d + d /\ a * d \in Nat
      BY <1>1, <1>2, <2>1
    <3> QED
      BY <1>1, <3>1
  <2>2. CASE r = 0
    BY <1>1, <1>2, <2>2
  <2> QED
    BY <1>1, <2>1, <2>2
<1>5. ASSUME NEW m \in 0 .. n - 1 PROVE m \div d \in 0 .. DivUp(n, d) - 1
  <2>1. m \in Nat
    OBVIOUS
  <2> DEFINE c == m \div d
             t == m % d
  <2>2. c \in Nat /\ t \in 0 .. d - 1 /\ m = c * d + t
    BY <2>1, Division
  <2> HIDE DEF c, t
  <2>3. ASSUME DivUp(n, d) <= c PROVE FALSE
    <3>1. DivUp(n, d) * d <= c * d /\ c * d \in Nat /\ DivUp(n, d) * d \in Nat
      BY <1>3, <2>2, <2>3, Multiples
    <3> QED
      BY <1>4, <2>2, <3>1
  <2> QED
    BY <1>3, <2>2, <2>3 DEF c
<1> QED
  BY <1>3, <1>4, <1>5

\* The constants are positive numbers.
LEMMA Geometries ==
  /\ BLOCKSIZE \in Nat \ {0} /\ BYTE \in Nat \ {0} /\ BLOCK_BIT_SIZE \in Nat \ {0}
  /\ InodesPerBlock \in Nat \ {0} /\ InodesPerBlock > 1 /\ FileBlocks \in Nat \ {0} /\ FileBlocks > 1
  /\ MaxInodes \in Nat \ {0} /\ MaxBlocks \in Nat \ {0}
<1>1. BLOCKSIZE * BYTE \in Nat \ {0}
  <2>1. PICK x \in Nat : BLOCKSIZE = x + 1
    BY LayoutAssumption, BLOCKSIZE = (BLOCKSIZE - 1) + 1
  <2>2. BLOCKSIZE * BYTE = x * BYTE + BYTE /\ x * BYTE \in Nat
    BY <2>1, LayoutAssumption
  <2> QED
    BY <2>2, LayoutAssumption
<1> QED
  BY <1>1, LayoutAssumption, OptionAssumption DEF BLOCK_BIT_SIZE

\* The regions follow one another, and each number has its place in its region.
Regions(i, s, super) ==
  /\ super.s_ninodes = i /\ super.s_fsize = s
  /\ super.s_inode_map_size \in Nat /\ super.s_block_map_size \in Nat /\ super.s_isize \in Nat
  /\ inode_list_start(super) = 2 + super.s_inode_map_size + super.s_block_map_size
  /\ data_block_start(super) = inode_list_start(super) + super.s_isize
  /\ super # NoSuper

\* The superblock mkfs computes has room for every bit and every inode.
LEMMA RegionsOf ==
  ASSUME NEW i \in Nat \ {0}, NEW s \in Nat \ {0}
  PROVE  /\ Regions(i, s, superblock(i, s))
         /\ i <= superblock(i, s).s_inode_map_size * BLOCK_BIT_SIZE
         /\ s <= superblock(i, s).s_block_map_size * BLOCK_BIT_SIZE
         /\ \A n \in 0 .. i - 1 : /\ n \div InodesPerBlock \in 0 .. superblock(i, s).s_isize - 1
                                  /\ n \div BLOCK_BIT_SIZE \in 0 .. superblock(i, s).s_inode_map_size - 1
         /\ \A n \in 0 .. s - 1 : n \div BLOCK_BIT_SIZE \in 0 .. superblock(i, s).s_block_map_size - 1
<1> DEFINE super == superblock(i, s)
<1>1. /\ super.s_isize = DivUp(i, InodesPerBlock)
      /\ super.s_inode_map_size = DivUp(i, BLOCK_BIT_SIZE)
      /\ super.s_block_map_size = DivUp(s, BLOCK_BIT_SIZE)
      /\ super.s_ninodes = i /\ super.s_fsize = s
  BY DEF superblock, get_inode_block_size, get_inode_bitmap_block_size, get_block_bitmap_block_size
<1>2. NoSuper.s_fsize = 0
  BY DEF NoSuper, superblock
<1> HIDE DEF super
<1>3. /\ DivUp(i, InodesPerBlock) \in Nat /\ DivUp(i, BLOCK_BIT_SIZE) \in Nat
      /\ DivUp(s, BLOCK_BIT_SIZE) \in Nat
      /\ i <= DivUp(i, BLOCK_BIT_SIZE) * BLOCK_BIT_SIZE
      /\ s <= DivUp(s, BLOCK_BIT_SIZE) * BLOCK_BIT_SIZE
      /\ \A n \in 0 .. i - 1 : n \div InodesPerBlock \in 0 .. DivUp(i, InodesPerBlock) - 1
      /\ \A n \in 0 .. i - 1 : n \div BLOCK_BIT_SIZE \in 0 .. DivUp(i, BLOCK_BIT_SIZE) - 1
      /\ \A n \in 0 .. s - 1 : n \div BLOCK_BIT_SIZE \in 0 .. DivUp(s, BLOCK_BIT_SIZE) - 1
  BY RoundingUp, Geometries
<1>4. Regions(i, s, super)
  BY <1>1, <1>2, <1>3 DEF Regions, inode_list_start, data_block_start
<1> QED
  BY <1>1, <1>3, <1>4 DEF super

\* What is known of the superblock once there was an mkfs.
KnownSizes ==
  /\ sb.s_ninodes \in 1 .. MaxInodes /\ sb.s_fsize \in 1 .. MaxBlocks
  /\ Regions(sb.s_ninodes, sb.s_fsize, sb)
  /\ sb.s_ninodes <= sb.s_inode_map_size * BLOCK_BIT_SIZE
  /\ sb.s_fsize <= sb.s_block_map_size * BLOCK_BIT_SIZE
  /\ \A n \in 0 .. sb.s_ninodes - 1 : /\ n \div InodesPerBlock \in 0 .. sb.s_isize - 1
                                      /\ n \div BLOCK_BIT_SIZE \in 0 .. sb.s_inode_map_size - 1
  /\ \A n \in 0 .. sb.s_fsize - 1 : n \div BLOCK_BIT_SIZE \in 0 .. sb.s_block_map_size - 1

\* A superblock in hand is the one mkfs computes of its two numbers.
LEMMA SizesKnown ==
  ASSUME Sized, sb # NoSuper
  PROVE  KnownSizes /\ sb = superblock(sb.s_ninodes, sb.s_fsize)
<1>1. PICK i \in 1 .. MaxInodes, s \in 1 .. MaxBlocks : sb = superblock(i, s)
  BY DEF Sized
<1>2. sb.s_ninodes = i /\ sb.s_fsize = s /\ i \in Nat \ {0} /\ s \in Nat \ {0}
  BY <1>1, Geometries DEF superblock
<1> QED
  BY <1>1, <1>2, RegionsOf DEF KnownSizes

\* There is one as soon as there is an image or a tool.
LEMMA SomeSize ==
  ASSUME Sized, pc # "exit" \/ DOMAIN image # {} \/ made # "no"
  PROVE  sb # NoSuper
<1>1. PICK i \in 1 .. MaxInodes, s \in 1 .. MaxBlocks : sb = superblock(i, s)
  BY DEF Sized
<1>2. i \in Nat \ {0} /\ s \in Nat \ {0}
  BY Geometries
<1> QED
  BY <1>1, <1>2, RegionsOf DEF Regions

\* Inodes are kept in the inode list, bits in their bitmap.
LEMMA InodePlaced ==
  ASSUME KnownSizes, NEW n \in 0 .. sb.s_ninodes - 1
  PROVE  /\ InodePlace(sb, n).block \in inode_list_start(sb) .. data_block_start(sb) - 1
         /\ InodePlace(sb, n).slot \in 0 .. InodesPerBlock - 1
<1>1. /\ n \div InodesPerBlock \in 0 .. sb.s_isize - 1 /\ sb.s_isize \in Nat
      /\ sb.s_inode_map_size \in Nat /\ sb.s_block_map_size \in Nat
      /\ inode_list_start(sb) = 2 + sb.s_inode_map_size + sb.s_block_map_size
      /\ data_block_start(sb) = inode_list_start(sb) + sb.s_isize
  BY DEF KnownSizes, Regions
<1>2. (n % InodesPerBlock) \in 0 .. InodesPerBlock - 1
  BY Division, Geometries DEF KnownSizes
<1>3. /\ InodePlace(sb, n).block = inode_list_start(sb) + (n \div InodesPerBlock)
      /\ InodePlace(sb, n).slot = n % InodesPerBlock
  BY DEF InodePlace
<1> QED
  BY <1>1, <1>2, <1>3

Numbers(type) == IF type = INODE_BITMAP THEN 0 .. sb.s_ninodes - 1 ELSE 0 .. sb.s_fsize - 1

\* A bit lies in its bitmap, which lies between superblock and inode list.
LEMMA BitPlaced ==
  ASSUME KnownSizes, NEW type \in {INODE_BITMAP, BLOCK_BITMAP}, NEW n \in Numbers(type)
  PROVE  /\ BitPlace(sb, type, n).block - bitmap_start_block(sb, type) \in 0 .. bitmap_blocks(sb, type) - 1
         /\ BitPlace(sb, type, n).block \in 2 .. inode_list_start(sb) - 1
         /\ BitPlace(sb, type, n).byte \in 0 .. BLOCKSIZE - 1
         /\ BitPlace(sb, type, n).bit \in 0 .. BYTE - 1
<1> DEFINE d == n \div BLOCK_BIT_SIZE
           r == n % BLOCK_BIT_SIZE
           byte == r \div BYTE
           bit == r % BYTE
<1>1. n \in Nat
  BY DEF Numbers, KnownSizes
<1>2. r \in 0 .. BLOCK_BIT_SIZE - 1 /\ BLOCK_BIT_SIZE = BLOCKSIZE * BYTE
  BY <1>1, Division, Geometries DEF BLOCK_BIT_SIZE
<1>3. /\ BitPlace(sb, type, n).block = bitmap_start_block(sb, type) + d
      /\ BitPlace(sb, type, n).byte = byte
      /\ BitPlace(sb, type, n).bit = (BYTE - 1) - bit
  BY DEF BitPlace
<1>4. d \in 0 .. bitmap_blocks(sb, type) - 1
  BY DEF KnownSizes, Numbers, bitmap_blocks, INODE_BITMAP, BLOCK_BITMAP
<1> HIDE DEF r
<1>5. r \in Nat
  BY <1>2, Geometries
<1>6. bit \in 0 .. BYTE - 1 /\ byte \in Nat /\ r = byte * BYTE + bit
  BY <1>5, Division, Geometries
<1> HIDE DEF byte, bit, d
<1>7. byte <= BLOCKSIZE - 1
  <2> SUFFICES ASSUME BLOCKSIZE <= byte PROVE FALSE
    BY <1>6, Geometries
  <2>1. BLOCKSIZE * BYTE <= byte * BYTE /\ byte * BYTE \in Nat /\ BLOCKSIZE * BYTE \in Nat
    BY <1>6, Geometries, Multiples
  <2> QED
    BY <1>2, <1>6, <2>1, Geometries
<1>8. /\ bitmap_start_block(sb, type) \in 2 .. inode_list_start(sb)
      /\ bitmap_start_block(sb, type) + bitmap_blocks(sb, type) <= inode_list_start(sb)
      /\ bitmap_blocks(sb, type) \in Nat /\ inode_list_start(sb) \in Nat
  BY DEF KnownSizes, Regions, bitmap_start_block, bitmap_blocks, INODE_BITMAP, BLOCK_BITMAP
<1> QED
  BY <1>3, <1>4, <1>6, <1>7, <1>8, Geometries

-----------------------------------------------------------------------------
(* Blocks.                                                                 *)

\* final_offset may wrap, and then falls short.
LEMMA Offsets ==
  ASSUME NEW b \in Nat
  PROVE  final_offset(b) \in 0 .. b
<1>1. /\ b \div FileBlocks \in Nat /\ (b % FileBlocks) \in 0 .. FileBlocks - 1
      /\ b = (b \div FileBlocks) * FileBlocks + (b % FileBlocks)
  BY Division, Geometries
<1>2. (b \div FileBlocks) * FileBlocks \in Nat
  BY <1>1, Geometries
<1> QED
  BY <1>1, <1>2, Geometries DEF final_offset

\* An erased block.
LEMMA ZeroTyped == ZeroBlock \in VolBlock /\ ZeroBlock.super = NoSuper
<1>1. 0 \in 0 .. MaxInodes /\ 0 \in 0 .. MaxBlocks - 1
  BY Geometries
<1>2. [byte \in 0 .. BLOCKSIZE - 1 |-> {}] \in [0 .. BLOCKSIZE - 1 -> SUBSET (0 .. BYTE - 1)]
  OBVIOUS
<1>3. [slot \in 0 .. InodesPerBlock - 1 |-> 0] \in [0 .. InodesPerBlock - 1 -> 0 .. MaxInodes]
  BY <1>1
<1> QED
  BY <1>1, <1>2, <1>3 DEF ZeroBlock, VolBlock

\* A block of the image that is written again.
LEMMA Rewritten ==
  ASSUME NEW b, NEW new, final_offset(b) \in DOMAIN image, write_block(b, new)
  PROVE  /\ DOMAIN image' = DOMAIN image
         /\ \A o \in DOMAIN image : image'[o] = IF o = final_offset(b) THEN new ELSE image[o]
  BY DEF write_block

\* The invariant of the image under such a write.
LEMMA RewriteKeeps ==
  ASSUME VolumeInv, sb' = sb, sb # NoSuper,
         pc' \notin {"image", "superblock"}, ~Insufficient, DOMAIN image = Places(sb.s_fsize),
         NEW b \in 0 .. sb.s_fsize - 1, NEW new \in VolBlock, write_block(b, new)
  PROVE  Sized' /\ LaidOut' /\ \A o \in DOMAIN image' : image'[o] \in VolBlock'
<1>1. final_offset(b) \in DOMAIN image
  BY DEF Places
<1>2. /\ DOMAIN image' = DOMAIN image
      /\ \A o \in DOMAIN image : image'[o] = IF o = final_offset(b) THEN new ELSE image[o]
  BY <1>1, Rewritten
<1>3. VolBlock' = VolBlock
  BY DEF VolBlock
<1>4. \A o \in DOMAIN image' : image'[o] \in VolBlock'
  BY <1>2, <1>3 DEF VolumeInv
<1>5. Sized'
  BY DEF VolumeInv, Sized
<1>6. ~Insufficient' /\ DOMAIN image' = Places(sb'.s_fsize)
  BY <1>2 DEF Insufficient
<1>7. LaidOut'
  BY <1>6 DEF LaidOut
<1> QED
  BY <1>4, <1>5, <1>7

\* The writes of bits and inodes.
LEMMA BitTyped ==
  ASSUME KnownSizes, \A o \in DOMAIN image : image[o] \in VolBlock,
         data_block_start(sb) <= sb.s_fsize, DOMAIN image = Places(sb.s_fsize),
         NEW type \in {INODE_BITMAP, BLOCK_BITMAP}, NEW n \in Numbers(type),
         set_bit(type, n) \/ clear_bit(type, n)
  PROVE  \E b \in 2 .. inode_list_start(sb) - 1, new \in VolBlock :
           /\ write_block(b, new) /\ b \in 0 .. sb.s_fsize - 1
           /\ new.super = Block(b).super
<1> DEFINE at == BitPlace(sb, type, n)
           b == at.block
           old == Block(b)
<1>1. /\ b \in 2 .. inode_list_start(sb) - 1 /\ at.byte \in 0 .. BLOCKSIZE - 1
      /\ at.bit \in 0 .. BYTE - 1
  BY BitPlaced
<1>2. /\ inode_list_start(sb) \in Nat /\ inode_list_start(sb) <= data_block_start(sb)
      /\ data_block_start(sb) \in Nat /\ sb.s_fsize \in Nat
  BY DEF KnownSizes, Regions
<1>3. b \in 0 .. sb.s_fsize - 1
  BY <1>1, <1>2
<1>4. final_offset(b) \in DOMAIN image
  BY <1>3 DEF Places
<1>5. old \in VolBlock
  BY <1>4 DEF Block
<1>6. \E x \in SUBSET (0 .. BYTE - 1) : write_block(b, [old EXCEPT !.bits[at.byte] = x])
  <2>1. old.bits[at.byte] \in SUBSET (0 .. BYTE - 1)
    BY <1>1, <1>5 DEF VolBlock
  <2>2. CASE set_bit(type, n)
    <3>1. write_block(b, [old EXCEPT !.bits[at.byte] = @ \cup {at.bit}])
      BY <2>2 DEF set_bit
    <3> QED
      BY <1>1, <2>1, <3>1
  <2>3. CASE clear_bit(type, n)
    <3>1. write_block(b, [old EXCEPT !.bits[at.byte] = @ \ {at.bit}])
      BY <2>3 DEF clear_bit
    <3> QED
      BY <1>1, <2>1, <3>1
  <2> QED
    BY <2>2, <2>3
<1> HIDE DEF at, b, old
<1>7. PICK x \in SUBSET (0 .. BYTE - 1) : write_block(b, [old EXCEPT !.bits[at.byte] = x])
  BY <1>6
<1>8. [old EXCEPT !.bits[at.byte] = x] \in VolBlock
  BY <1>1, <1>5 DEF VolBlock
<1>9. [old EXCEPT !.bits[at.byte] = x].super = old.super
  BY <1>5 DEF VolBlock
<1> QED
  BY <1>1, <1>3, <1>7, <1>8, <1>9 DEF old

\* A write of an inode is a write of one block of the inode list.
LEMMA InodeTyped ==
  ASSUME KnownSizes, \A o \in DOMAIN image : image[o] \in VolBlock,
         data_block_start(sb) <= sb.s_fsize, DOMAIN image = Places(sb.s_fsize),
         NEW n \in 0 .. sb.s_ninodes - 1, NEW tag \in 0 .. MaxInodes, write_disk_inode(n, tag)
  PROVE  \E b \in inode_list_start(sb) .. data_block_start(sb) - 1, new \in VolBlock :
           /\ write_block(b, new) /\ b \in 2 .. sb.s_fsize - 1
           /\ new.super = Block(b).super /\ new.bits = Block(b).bits
<1> DEFINE at == InodePlace(sb, n)
           b == at.block
           old == Block(b)
           new == [old EXCEPT !.inodes[at.slot] = tag]
<1>1. /\ b \in inode_list_start(sb) .. data_block_start(sb) - 1
      /\ at.slot \in 0 .. InodesPerBlock - 1
  BY InodePlaced
<1>2. /\ inode_list_start(sb) \in Nat /\ 2 <= inode_list_start(sb)
      /\ data_block_start(sb) \in Nat /\ sb.s_fsize \in Nat
  BY DEF KnownSizes, Regions
<1>3. b \in 2 .. sb.s_fsize - 1
  BY <1>1, <1>2
<1>4. final_offset(b) \in DOMAIN image
  BY <1>3 DEF Places
<1>5. old \in VolBlock
  BY <1>4 DEF Block
<1>6. write_block(b, new)
  BY DEF write_disk_inode
<1> HIDE DEF at, b, old
<1>7. new \in VolBlock /\ new.super = old.super /\ new.bits = old.bits
  BY <1>1, <1>5 DEF VolBlock
<1> QED
  BY <1>1, <1>3, <1>6, <1>7 DEF old

-----------------------------------------------------------------------------
(* The steps.                                                              *)

\* What is known once the superblock is written.
Ready ==
  /\ KnownSizes /\ sb = superblock(sb.s_ninodes, sb.s_fsize) /\ sb # NoSuper /\ ~Insufficient
  /\ data_block_start(sb) \in 2 .. sb.s_fsize - 1 /\ DOMAIN image = Places(sb.s_fsize)
  /\ \A o \in DOMAIN image : image[o] \in VolBlock
  /\ made # "refused" /\ (made = "einval" => sb.s_ninodes = ROOT_INODE)

\* An image mkfs accepts has data blocks (mkfs.c:233).
LEMMA RoomLeft ==
  ASSUME KnownSizes, ~Insufficient
  PROVE  data_block_start(sb) \in 2 .. sb.s_fsize - 1 /\ inode_list_start(sb) \in 2 .. data_block_start(sb)
  BY DEF KnownSizes, Regions, Insufficient

\* After the superblock step of mkfs there is a whole image.
LEMMA Standing ==
  ASSUME VolumeInv, pc \notin {"exit", "image", "superblock"}
  PROVE  Ready
<1>1. Sized /\ LaidOut /\ OnlyOneInodeFails
  BY DEF VolumeInv
<1>2. sb # NoSuper
  BY <1>1, SomeSize
<1>3. KnownSizes /\ sb = superblock(sb.s_ninodes, sb.s_fsize)
  BY <1>1, <1>2, SizesKnown
<1>4. ~Insufficient /\ DOMAIN image = Places(sb.s_fsize)
  BY <1>1 DEF LaidOut
<1> QED
  BY <1>1, <1>2, <1>3, <1>4, RoomLeft DEF Ready, VolumeInv, OnlyOneInodeFails

-----------------------------------------------------------------------------
(* What the loops come to.                                                 *)

\* Numbers of bits.
LEMMA NumbersNat ==
  ASSUME KnownSizes, NEW type \in {INODE_BITMAP, BLOCK_BITMAP}
  PROVE  \A p \in Scanned(type) : Number(p) \in Nat
<1> TAKE p \in Scanned(type)
<1>1. p[1] \in Nat /\ p[2] \in Nat /\ p[3] \in Nat
  BY Geometries DEF KnownSizes, Regions, Scanned, bitmap_blocks
<1>2. p[1] * BLOCKSIZE \in Nat
  BY <1>1, Geometries
<1>3. p[1] * BLOCKSIZE + p[2] \in Nat
  BY <1>1, <1>2
<1>4. (p[1] * BLOCKSIZE + p[2]) * BYTE \in Nat
  BY <1>3, Geometries
<1> QED
  BY <1>1, <1>4 DEF Number

\* The lowest number that may be handed out.
FirstClear(type, n) == n \in Candidates(type) /\ \A m \in Candidates(type) : n <= m

\* The loops return no later than at a number that may be handed out.
LEMMA HaltsBefore ==
  ASSUME KnownSizes, NEW type \in {INODE_BITMAP, BLOCK_BITMAP}, NEW m \in Candidates(type)
  PROVE  \E q \in Halts(type) : Number(q) = m
<1>1. PICK q \in Scanned(type) : ~IsSet(type, q) /\ Number(q) = m
  BY DEF Candidates, Clear
<1>2. Usable(type, m)
  BY DEF Candidates
<1> QED
  BY <1>1, <1>2 DEF Halts

\* Where they hand out a number, it is the lowest of these.
LEMMA HandedOut ==
  ASSUME KnownSizes, NEW type \in {INODE_BITMAP, BLOCK_BITMAP}, NEW p \in Scanned(type),
         ReturnsAt(type, p), Number(p) < Limit(type)
  PROVE  FirstClear(type, Number(p))
<1>1. Number(p) \in Nat /\ Limit(type) \in Nat
  BY NumbersNat, Geometries DEF KnownSizes, Limit
<1>2. ~IsSet(type, p) /\ Usable(type, Number(p))
  BY <1>1 DEF ReturnsAt, Halts
<1>3. Number(p) \in Candidates(type)
  BY <1>2 DEF Candidates, Clear
<1>4. \A m \in Candidates(type) : Number(p) <= m
  BY HaltsBefore DEF ReturnsAt
<1> QED
  BY <1>3, <1>4 DEF FirstClear

LEMMA AllocBlockIs ==
  ASSUME KnownSizes, alloc_block
  PROVE  /\ AtWork /\ InTool /\ pc' = "bzero" /\ UNCHANGED <<sb, made, got>>
         /\ \E b \in Candidates(BLOCK_BITMAP) :
              /\ FirstClear(BLOCK_BITMAP, b) /\ ~badblock(sb, b)
              /\ set_bit(BLOCK_BITMAP, b) /\ k' = b /\ result' = b
<1>1. AtWork /\ InTool /\ pc' = "bzero" /\ UNCHANGED <<sb, made, got>>
  BY DEF alloc_block, AtWork
<1>2. PICK p \in Scanned(BLOCK_BITMAP) :
        /\ ReturnsAt(BLOCK_BITMAP, p) /\ Number(p) < sb.s_fsize
        /\ set_bit(BLOCK_BITMAP, Number(p)) /\ k' = Number(p) /\ result' = Number(p)
  BY DEF alloc_block
<1>3. FirstClear(BLOCK_BITMAP, Number(p))
  BY <1>2, HandedOut DEF Limit, INODE_BITMAP, BLOCK_BITMAP
<1>4. Number(p) \in Candidates(BLOCK_BITMAP) /\ ~badblock(sb, Number(p))
  BY <1>3 DEF FirstClear, Candidates, Usable, INODE_BITMAP, BLOCK_BITMAP
<1> QED
  BY <1>1, <1>2, <1>3, <1>4

LEMMA AllocInodeIs ==
  ASSUME KnownSizes, alloc_inode
  PROVE  /\ AtWork /\ InTool /\ pc' = "iwrite" /\ UNCHANGED <<sb, made, got, result>>
         /\ \E n \in Candidates(INODE_BITMAP) :
              /\ FirstClear(INODE_BITMAP, n) /\ n # 0 /\ n < sb.s_ninodes
              /\ set_bit(INODE_BITMAP, n) /\ k' = n
<1>1. AtWork /\ InTool /\ pc' = "iwrite" /\ UNCHANGED <<sb, made, got, result>>
  BY DEF alloc_inode, AtWork
<1>2. PICK p \in Scanned(INODE_BITMAP) :
        /\ ReturnsAt(INODE_BITMAP, p) /\ Number(p) < sb.s_ninodes
        /\ set_bit(INODE_BITMAP, Number(p)) /\ k' = Number(p)
  BY DEF alloc_inode
<1>3. FirstClear(INODE_BITMAP, Number(p))
  BY <1>2, HandedOut DEF Limit
<1>4. /\ Number(p) \in Candidates(INODE_BITMAP)
      /\ Number(p) # 0 /\ Number(p) < sb.s_ninodes
  BY <1>3 DEF FirstClear, Candidates, Usable
<1> QED
  BY <1>1, <1>2, <1>3, <1>4

\* Where alloc_block fails, no number may be handed out.
LEMMA AllocBlockFailsIs ==
  ASSUME VolumeInv, alloc_block_fails
  PROVE  /\ pc = "ready" /\ KnownSizes /\ Candidates(BLOCK_BITMAP) = {}
<1>1. pc = "ready"
  BY DEF alloc_block_fails, AtWork, InTool
<1>2. KnownSizes /\ sb.s_fsize \in Nat
  BY <1>1, Standing, Geometries DEF Ready, KnownSizes
<1>3. Candidates(BLOCK_BITMAP) = {}
  <2> SUFFICES ASSUME NEW m \in Candidates(BLOCK_BITMAP) PROVE FALSE
    OBVIOUS
  <2>1. PICK q \in Halts(BLOCK_BITMAP) : Number(q) = m
    BY <1>2, HaltsBefore
  <2>2. PICK p \in Scanned(BLOCK_BITMAP) : ReturnsAt(BLOCK_BITMAP, p) /\ Number(p) >= sb.s_fsize
    BY <2>1 DEF alloc_block_fails
  <2>3. Number(p) \in Nat /\ m \in Nat
    BY <1>2, <2>1, NumbersNat DEF Halts
  <2>4. Number(p) <= m
    BY <2>1, <2>2 DEF ReturnsAt
  <2>5. m < sb.s_fsize
    BY <1>2, <2>3 DEF Candidates, Usable, badblock, INODE_BITMAP, BLOCK_BITMAP
  <2> QED
    BY <1>2, <2>2, <2>3, <2>4, <2>5
<1> QED
  BY <1>1, <1>2, <1>3

\* The rounds of init_inode have the numbers of the inodes, and their places.
LEMMA RoundsAreInodes ==
  ASSUME KnownSizes
  PROVE  /\ \A p \in InodeRounds : /\ Round(p) \in 0 .. sb.s_ninodes - 1
                                  /\ Round(p) \div InodesPerBlock = p[1]
                                  /\ Round(p) % InodesPerBlock = p[2]
         /\ \A n \in 0 .. sb.s_ninodes - 1 : \E p \in InodeRounds : Round(p) = n
<1>1. PICK n \in Nat, d \in Nat \ {0} : n = sb.s_ninodes /\ d = InodesPerBlock
  BY Geometries DEF KnownSizes
<1>2. PICK full \in Nat, rest \in 0 .. d - 1 : full = n \div d /\ rest = n % d /\ n = full * d + rest
  BY Division
<1>3. InodeRounds = ((0 .. full - 1) \X (0 .. d - 1)) \cup ({full} \X (0 .. rest - 1))
  BY <1>1, <1>2 DEF InodeRounds
<1>4. full * d \in Nat /\ rest \in Nat /\ d \in Nat
  BY <1>2
<1>5. ASSUME NEW p \in InodeRounds
      PROVE  /\ Round(p) \in 0 .. n - 1
             /\ Round(p) \div d = p[1] /\ Round(p) % d = p[2]
  <2>1. PICK x \in Nat, y \in 0 .. d - 1 :
          p[1] = x /\ p[2] = y /\ (x + 1 <= full \/ (x = full /\ y < rest))
    BY <1>2, <1>3, <1>4
  <2>2. Round(p) = x * d + y /\ x * d \in Nat /\ x * d + y \in Nat
    BY <1>1, <1>4, <2>1 DEF Round
  <2>3. x * d + y < n
    <3>1. CASE x + 1 <= full
      <4>1. (x + 1) * d <= full * d
        BY <1>2, <1>4, <2>1, <3>1, Multiples
      <4>2. (x + 1) * d = x * d + d
        BY <1>4, <2>1
      <4> QED
        BY <1>2, <1>4, <2>1, <2>2, <4>1, <4>2
    <3>2. CASE x = full /\ y < rest
      BY <1>2, <1>4, <2>1, <2>2, <3>2
    <3> QED
      BY <2>1, <3>1, <3>2
  <2>4. (x * d + y) \div d = x /\ (x * d + y) % d = y
    <3>1. PICK m \in Nat : m = x * d + y
      BY <2>2
    <3>2. m \div d = x /\ m % d = y
      BY ONLY d \in Nat \ {0}, x \in Nat, y \in 0 .. d - 1, m \in Nat, m = x * d + y, Quotient
    <3> QED
      BY <3>1, <3>2
  <2> QED
    BY <1>1, <2>1, <2>2, <2>3, <2>4
<1>6. ASSUME NEW m \in 0 .. n - 1 PROVE \E p \in InodeRounds : Round(p) = m
  <2>1. m \in Nat /\ m < n
    BY <1>1
  <2>2. PICK x \in Nat, y \in 0 .. d - 1 : m = x * d + y
    <3>1. /\ m \div d \in Nat /\ (m % d) \in 0 .. d - 1
          /\ m = (m \div d) * d + (m % d)
      BY <2>1, Division
    <3> QED
      BY <3>1
  <2>3. x * d \in Nat
    BY <1>4, <2>2
  <2>4. x <= full
    <3> SUFFICES ASSUME full + 1 <= x PROVE FALSE
      BY <1>2, <2>2
    <3>1. (full + 1) * d <= x * d
      BY <1>2, <1>4, <2>2, Multiples
    <3>2. (full + 1) * d = full * d + d
      BY <1>2, <1>4
    <3> QED
      BY <1>2, <1>4, <2>1, <2>2, <2>3, <3>1, <3>2
  <2>5. x = full => y < rest
    BY <1>2, <1>4, <2>1, <2>2
  <2>6. <<x, y>> \in InodeRounds
    BY <1>2, <1>3, <1>4, <2>2, <2>4, <2>5
  <2>7. Round(<<x, y>>) = m
    BY <1>1, <2>2 DEF Round
  <2> QED
    BY <2>6, <2>7
<1> QED
  BY <1>1, <1>5, <1>6

\* init_inode erases inode k where the library looks for it.
LEMMA InitInodeIs ==
  ASSUME VolumeInv, init_inode
  PROVE  /\ pc = "inodes" /\ write_disk_inode(k, 0)
         /\ IF k + 1 < sb.s_ninodes THEN k' = k + 1 /\ pc' = pc ELSE k' = 0 /\ pc' = "rootdir"
         /\ UNCHANGED <<sb, made, got, result>>
<1>1. pc = "inodes" /\ UNCHANGED <<sb, made, got, result>>
  BY DEF init_inode
<1>2. KnownSizes /\ k \in 0 .. sb.s_ninodes - 1 /\ sb.s_ninodes \in Nat /\ k \in Nat
  BY <1>1, Standing, Geometries DEF VolumeInv, IndexOK, Ready, KnownSizes
<1>3. PICK p \in InodeRounds :
        /\ Round(p) = k
        /\ write_block(inode_list_start(sb) + p[1],
                       [Block(inode_list_start(sb) + p[1]) EXCEPT !.inodes[p[2]] = 0])
  BY DEF init_inode
<1>4. k \div InodesPerBlock = p[1] /\ k % InodesPerBlock = p[2]
  BY <1>2, <1>3, RoundsAreInodes
<1>5. write_disk_inode(k, 0)
  BY <1>3, <1>4 DEF write_disk_inode, InodePlace
<1>6. (\E q \in InodeRounds : Round(q) = k + 1) <=> k + 1 < sb.s_ninodes
  BY <1>2, RoundsAreInodes
<1>7. IF k + 1 < sb.s_ninodes THEN k' = k + 1 /\ pc' = pc ELSE k' = 0 /\ pc' = "rootdir"
  BY <1>6 DEF init_inode
<1> QED
  BY <1>1, <1>5, <1>7

\* What a step of mkfs or of the library that writes one block must do besides.
StepOK ==
  /\ sb' = sb /\ made' \in {made, "success"} /\ IndexOK' /\ k' \in Nat
  /\ pc' \in Steps \ {"image", "superblock"}
  /\ got' \in 0 .. MaxInodes /\ result' \in {ENOSPC, EIO} \cup 0 .. MaxBlocks

\* A write of one block inside the image keeps VolumeInv,
LEMMA WriteStep ==
  ASSUME VolumeInv, Ready, StepOK, NEW b \in 0 .. sb.s_fsize - 1, NEW new \in VolBlock,
         write_block(b, new)
  PROVE  VolumeInv'
<1>1. Sized' /\ LaidOut' /\ \A o \in DOMAIN image' : image'[o] \in VolBlock'
  BY RewriteKeeps DEF Ready, StepOK
<1>2. made' \in {"no", "refused", "einval", "failed", "killed", "success"} /\ made' # "refused"
  BY DEF VolumeInv, Ready, StepOK
<1>3. made' = "einval" => sb'.s_ninodes = ROOT_INODE
  BY DEF Ready, StepOK
<1> QED
  BY <1>1, <1>2, <1>3 DEF VolumeInv, StepOK, OnlyOneInodeFails

\* so does one of a bit,
LEMMA BitStep ==
  ASSUME VolumeInv, Ready, StepOK, NEW type \in {INODE_BITMAP, BLOCK_BITMAP}, NEW n \in Numbers(type),
         set_bit(type, n) \/ clear_bit(type, n)
  PROVE  VolumeInv'
<1>1. KnownSizes /\ data_block_start(sb) <= sb.s_fsize /\ DOMAIN image = Places(sb.s_fsize)
      /\ \A o \in DOMAIN image : image[o] \in VolBlock
  BY DEF Ready, KnownSizes
<1>2. PICK b \in 2 .. inode_list_start(sb) - 1, new \in VolBlock :
        write_block(b, new) /\ b \in 0 .. sb.s_fsize - 1
  BY <1>1, BitTyped
<1> QED
  BY <1>2, WriteStep

\* and one of an inode.
LEMMA InodeStep ==
  ASSUME VolumeInv, Ready, StepOK, NEW n \in 0 .. sb.s_ninodes - 1, NEW tag \in 0 .. MaxInodes,
         write_disk_inode(n, tag)
  PROVE  VolumeInv'
<1>1. KnownSizes /\ data_block_start(sb) <= sb.s_fsize /\ DOMAIN image = Places(sb.s_fsize)
      /\ \A o \in DOMAIN image : image[o] \in VolBlock
  BY DEF Ready, KnownSizes
<1>2. PICK b \in inode_list_start(sb) .. data_block_start(sb) - 1, new \in VolBlock :
        write_block(b, new) /\ b \in 2 .. sb.s_fsize - 1
  BY <1>1, InodeTyped
<1>3. b \in 0 .. sb.s_fsize - 1
  BY <1>1, <1>2 DEF KnownSizes
<1> QED
  BY <1>2, <1>3, WriteStep

\* No image, no tool.
LEMMA VolumeStarts ==
  ASSUME Init
  PROVE  VolumeInv
<1>1. /\ DOMAIN image = {} /\ sb = NoSuper /\ pc = "exit" /\ k = 0 /\ made = "no" /\ got = 0
      /\ result = 0
  BY DEF Init
<1>2. ~Accepted
  BY <1>1 DEF Accepted
<1>3. Sized /\ LaidOut /\ IndexOK /\ OnlyOneInodeFails
  BY <1>1, <1>2 DEF Sized, LaidOut, IndexOK, OnlyOneInodeFails
<1> QED
  BY <1>1, <1>3, Geometries DEF VolumeInv, Steps

\* mkfs reads its arguments.
LEMMA MkfsKeeps ==
  ASSUME VolumeInv, mkfs
  PROVE  VolumeInv'
<1>1. /\ \E i \in 1 .. MaxInodes, s \in 1 .. MaxBlocks : sb' = superblock(i, s)
      /\ DOMAIN image' = {} /\ pc' = "image" /\ k' = 0 /\ made' = "no" /\ got' = 0 /\ result' = 0
  BY DEF mkfs
<1>2. Sized'
  BY <1>1 DEF Sized
<1>3. sb'.s_fsize \in 1 .. MaxBlocks
  BY <1>1, Geometries DEF superblock
<1>4. Places(0) = {}
  BY DEF Places
<1>5. ~Accepted'
  BY <1>1 DEF Accepted
<1>6. LaidOut'
  BY <1>1, <1>4, <1>5 DEF LaidOut
<1>7. IndexOK' /\ OnlyOneInodeFails'
  BY <1>1, <1>3, Geometries DEF IndexOK, OnlyOneInodeFails
<1> QED
  BY <1>1, <1>2, <1>6, <1>7, Geometries DEF VolumeInv, Steps

\* mkfs makes the image file.
LEMMA InitImageKeeps ==
  ASSUME VolumeInv, init_image
  PROVE  VolumeInv'
<1>1. /\ pc = "image" /\ write_block(k, ZeroBlock)
      /\ IF k + 1 < sb.s_fsize THEN k' = k + 1 /\ pc' = pc ELSE k' = 0 /\ pc' = "superblock"
      /\ UNCHANGED <<sb, made, got, result>>
  BY DEF init_image, zero_block
<1>2. sb # NoSuper
  BY <1>1, SomeSize DEF VolumeInv
<1>3. KnownSizes
  BY <1>2, SizesKnown DEF VolumeInv
<1>4. /\ k \in 0 .. sb.s_fsize - 1 /\ sb.s_fsize \in Nat /\ DOMAIN image = Places(k)
      /\ \A o \in DOMAIN image : image[o].super = NoSuper /\ image[o] \in VolBlock
  BY <1>1, <1>3 DEF VolumeInv, IndexOK, LaidOut, KnownSizes
<1>5. DOMAIN image' = Places(k + 1)
  <2>1. DOMAIN image' = Places(k) \cup {final_offset(k)}
    BY <1>1, <1>4 DEF write_block
  <2>2. \A b : b \in 0 .. k + 1 - 1 <=> b \in 0 .. k - 1 \/ b = k
    BY <1>4
  <2> QED
    BY <2>1, <2>2 DEF Places
<1>6. \A o \in DOMAIN image' : image'[o].super = NoSuper /\ image'[o] \in VolBlock
  BY <1>1, <1>4, ZeroTyped DEF write_block
<1>7. VolBlock' = VolBlock
  BY <1>1 DEF VolBlock
<1>8. Sized'
  BY <1>1, <1>2 DEF VolumeInv, Sized
<1>9. ~Accepted'
  BY <1>6 DEF Accepted
<1>10. /\ \/ pc' = "image" /\ k' = k + 1 /\ k' < sb.s_fsize
          \/ pc' = "superblock" /\ k' = 0 /\ k + 1 = sb.s_fsize
  BY <1>1, <1>4
<1>11. LaidOut'
  <2>1. Places(k + 1) \subseteq Places(sb.s_fsize)
    BY <1>4 DEF Places
  <2> QED
    BY <1>1, <1>5, <1>6, <1>9, <1>10, <2>1 DEF LaidOut
<1>12. IndexOK' /\ k' \in Nat
  BY <1>1, <1>4, <1>10 DEF IndexOK
<1>13. OnlyOneInodeFails' /\ made' # "refused"
  BY <1>1, <1>9 DEF VolumeInv, OnlyOneInodeFails
<1> QED
  BY <1>1, <1>6, <1>7, <1>8, <1>10, <1>11, <1>12, <1>13 DEF VolumeInv, Steps

\* mkfs is killed or fails.
LEMMA StopsKeeps ==
  ASSUME VolumeInv, InMkfs, NEW how \in {"killed", "failed"}, Stops(how)
  PROVE  VolumeInv'
<1>1. /\ pc' = "exit" /\ made' = how /\ k' = 0 /\ UNCHANGED <<image, sb, got, result>>
  BY DEF Stops
<1>2. pc # "exit"
  BY DEF InMkfs
<1>3. Sized'
  BY <1>1, <1>2, SomeSize DEF VolumeInv, Sized
<1>4. LaidOut'
  <2>1. ASSUME Accepted PROVE ~Insufficient /\ DOMAIN image = Places(sb.s_fsize)
    BY <2>1 DEF VolumeInv, LaidOut
  <2>2. DOMAIN image \subseteq Places(sb.s_fsize)
    BY DEF VolumeInv, LaidOut
  <2> QED
    BY <1>1, <2>1, <2>2 DEF LaidOut, Accepted, Insufficient
<1>5. IndexOK' /\ OnlyOneInodeFails' /\ VolBlock' = VolBlock
  BY <1>1 DEF IndexOK, OnlyOneInodeFails, VolBlock
<1> QED
  BY <1>1, <1>3, <1>4, <1>5 DEF VolumeInv, Steps

\* mkfs refuses an image without data blocks.
LEMMA InsufficientKeeps ==
  ASSUME VolumeInv, InsufficientBlocks
  PROVE  VolumeInv'
<1>1. /\ pc = "superblock" /\ pc' = "exit" /\ made' = "refused" /\ k' = 0
      /\ UNCHANGED <<image, sb, got, result>>
  BY DEF InsufficientBlocks, Stops
<1>2. \A o \in DOMAIN image : image[o].super = NoSuper
  BY <1>1 DEF VolumeInv, LaidOut
<1>3. ~Accepted'
  BY <1>1, <1>2 DEF Accepted
<1>4. Sized'
  BY <1>1, SomeSize DEF VolumeInv, Sized
<1>5. LaidOut' /\ IndexOK' /\ OnlyOneInodeFails' /\ VolBlock' = VolBlock
  BY <1>1, <1>3 DEF LaidOut, IndexOK, OnlyOneInodeFails, VolBlock, VolumeInv
<1> QED
  BY <1>1, <1>4, <1>5 DEF VolumeInv, Steps

\* mkfs fails to mark the root when there is no inode but number 0.
LEMMA EinvalKeeps ==
  ASSUME VolumeInv, MarkInodeFails
  PROVE  VolumeInv' /\ sb.s_ninodes = ROOT_INODE
<1>1. /\ pc = "ibitmap" /\ ~in_range(INODE_BITMAP, k) /\ pc' = "exit" /\ made' = "einval" /\ k' = 0
      /\ UNCHANGED <<image, sb, got, result>>
  BY DEF MarkInodeFails, Stops
<1>2. Ready
  BY <1>1, Standing
<1>3. sb.s_ninodes = ROOT_INODE
  <2>1. k \in 0 .. 1 /\ ~(k < sb.s_ninodes) /\ sb.s_ninodes \in 1 .. MaxInodes
    BY <1>1, <1>2 DEF VolumeInv, IndexOK, ROOT_INODE, in_range, INODE_BITMAP, Ready, KnownSizes
  <2> QED
    BY <2>1, Geometries DEF ROOT_INODE
<1>4. Sized'
  BY <1>1, <1>2 DEF VolumeInv, Sized, Ready
<1>5. ~Insufficient' /\ DOMAIN image' = Places(sb'.s_fsize)
  BY <1>1, <1>2 DEF Ready, Insufficient
<1>6. LaidOut' /\ IndexOK' /\ OnlyOneInodeFails' /\ VolBlock' = VolBlock
  BY <1>1, <1>3, <1>5 DEF LaidOut, IndexOK, OnlyOneInodeFails, VolBlock
<1> QED
  BY <1>1, <1>3, <1>4, <1>6 DEF VolumeInv, Steps

\* mkfs writes the superblock.
LEMMA SuperblockKeeps ==
  ASSUME VolumeInv, write_superblock
  PROVE  VolumeInv'
<1>1. /\ pc = "superblock" /\ ~Insufficient /\ pc' = "inodes"
      /\ write_block(1, [Block(1) EXCEPT !.super = sb])
      /\ UNCHANGED <<sb, k, made, got, result>>
  BY DEF write_superblock
<1>2. sb # NoSuper /\ made # "refused"
  BY <1>1, SomeSize DEF VolumeInv
<1>3. KnownSizes
  BY <1>2, SizesKnown DEF VolumeInv
<1>4. DOMAIN image = Places(sb.s_fsize) /\ k = 0
  BY <1>1 DEF VolumeInv, LaidOut, IndexOK
<1>5. data_block_start(sb) \in 2 .. sb.s_fsize - 1 /\ 1 \in 0 .. sb.s_fsize - 1
  <2>1. data_block_start(sb) \in 2 .. sb.s_fsize - 1 /\ sb.s_fsize \in Nat
    BY <1>1, <1>3, RoomLeft DEF KnownSizes
  <2> QED
    BY <2>1
<1>6. Block(1) \in VolBlock
  <2>1. final_offset(1) \in DOMAIN image
    BY <1>4, <1>5 DEF Places
  <2> QED
    BY <2>1 DEF VolumeInv, Block
<1>7. [Block(1) EXCEPT !.super = sb] \in VolBlock
  BY <1>6 DEF VolBlock
<1>8. Sized' /\ LaidOut' /\ \A o \in DOMAIN image' : image'[o] \in VolBlock'
  BY <1>1, <1>2, <1>4, <1>5, <1>7, RewriteKeeps
<1>9. IndexOK' /\ k' \in Nat
  BY <1>1, <1>3, <1>4 DEF IndexOK, KnownSizes
<1>10. OnlyOneInodeFails'
  BY <1>1, <1>2 DEF VolumeInv, OnlyOneInodeFails
<1> QED
  BY <1>1, <1>2, <1>8, <1>9, <1>10 DEF VolumeInv, Steps

\* mkfs erases the inode list.
LEMMA InitInodeListKeeps ==
  ASSUME VolumeInv, init_inode
  PROVE  VolumeInv'
<1>1. /\ pc = "inodes" /\ write_disk_inode(k, 0)
      /\ IF k + 1 < sb.s_ninodes THEN k' = k + 1 /\ pc' = pc ELSE k' = 0 /\ pc' = "rootdir"
      /\ UNCHANGED <<sb, made, got, result>>
  BY InitInodeIs
<1>2. Ready
  BY <1>1, Standing
<1>3. k \in 0 .. sb.s_ninodes - 1 /\ sb.s_ninodes \in Nat
  BY <1>1, <1>2 DEF VolumeInv, IndexOK, Ready, KnownSizes
<1>4. \/ pc' = "inodes" /\ k' = k + 1 /\ k' \in 0 .. sb.s_ninodes - 1
      \/ pc' = "rootdir" /\ k' = 0
  BY <1>1, <1>3
<1>5. StepOK
  BY <1>1, <1>4 DEF StepOK, Steps, IndexOK, VolumeInv
<1> QED
  BY <1>1, <1>2, <1>3, <1>5, InodeStep, Geometries

\* The root directory's block, then slot 1 of the first inode block.
LEMMA RootKeeps ==
  ASSUME VolumeInv, WriteRootDir \/ WriteRootInode
  PROVE  VolumeInv'
<1>1. Ready
  BY Standing DEF WriteRootDir, WriteRootInode
<1>2. /\ UNCHANGED <<sb, k, made, got, result>> /\ k = 0
      /\ pc' \in {"rootinode", "ibitmap"}
  BY DEF WriteRootDir, WriteRootInode, VolumeInv, IndexOK
<1>3. StepOK
  BY <1>2 DEF StepOK, Steps, IndexOK, VolumeInv, ROOT_INODE
<1>4. /\ data_block_start(sb) \in 2 .. sb.s_fsize - 1 /\ sb.s_fsize \in 1 .. MaxBlocks
      /\ inode_list_start(sb) \in 2 .. data_block_start(sb)
  BY <1>1, RoomLeft DEF Ready, KnownSizes
<1>5. \A b \in 0 .. sb.s_fsize - 1 : Block(b) \in VolBlock
  BY <1>1 DEF Ready, Places, Block
<1>6. CASE WriteRootDir
  <2> DEFINE b == data_block_start(sb)
  <2>1. b \in 0 .. sb.s_fsize - 1 /\ b \in 0 .. MaxBlocks - 1
    BY <1>4, Geometries
  <2>2. [Block(b) EXCEPT !.data = b] \in VolBlock
    BY <1>5, <2>1 DEF VolBlock
  <2>3. write_block(b, [Block(b) EXCEPT !.data = b])
    BY <1>6 DEF WriteRootDir
  <2> HIDE DEF b
  <2> QED
    BY <1>1, <1>3, <2>1, <2>2, <2>3, WriteStep
<1>7. CASE WriteRootInode
  <2> DEFINE b == inode_list_start(sb)
  <2>1. b \in 0 .. sb.s_fsize - 1
    BY <1>4, Geometries
  <2>2. ROOT_INODE \in 0 .. MaxInodes /\ ROOT_INODE \in 0 .. InodesPerBlock - 1
    BY Geometries DEF ROOT_INODE
  <2>3. [Block(b) EXCEPT !.inodes[ROOT_INODE] = ROOT_INODE] \in VolBlock
    BY <1>5, <2>1, <2>2 DEF VolBlock
  <2>4. write_block(b, [Block(b) EXCEPT !.inodes[ROOT_INODE] = ROOT_INODE])
    BY <1>7 DEF WriteRootInode
  <2> HIDE DEF b
  <2> QED
    BY <1>1, <1>3, <2>1, <2>3, <2>4, WriteStep
<1> QED
  BY <1>6, <1>7

\* mkfs marks what it used.
LEMMA MarksKeep ==
  ASSUME VolumeInv, MarkInode \/ MarkBlock
  PROVE  VolumeInv'
<1>1. Ready
  BY Standing DEF MarkInode, MarkBlock
<1>2. /\ sb.s_ninodes \in Nat /\ sb.s_fsize \in Nat /\ data_block_start(sb) \in 2 .. sb.s_fsize - 1
  BY <1>1 DEF Ready, KnownSizes
<1>3. CASE MarkInode
  <2>1. /\ pc = "ibitmap" /\ k < sb.s_ninodes /\ set_bit(INODE_BITMAP, k)
        /\ IF k + 1 <= ROOT_INODE THEN k' = k + 1 /\ pc' = pc ELSE k' = 0 /\ pc' = "bbitmap"
        /\ UNCHANGED <<sb, made, got, result>>
    BY <1>3 DEF MarkInode, in_range
  <2>2. k \in 0 .. ROOT_INODE
    BY <2>1 DEF VolumeInv, IndexOK
  <2>3. k \in Numbers(INODE_BITMAP)
    BY <1>2, <2>1, <2>2 DEF Numbers, ROOT_INODE
  <2>4. \/ pc' = "ibitmap" /\ k' \in 0 .. ROOT_INODE
        \/ pc' = "bbitmap" /\ k' = 0
    BY <2>1, <2>2 DEF ROOT_INODE
  <2>5. StepOK
    BY <1>2, <2>1, <2>4 DEF StepOK, Steps, IndexOK, VolumeInv, ROOT_INODE
  <2> QED
    BY <1>1, <2>1, <2>3, <2>5, BitStep
<1>4. CASE MarkBlock
  <2>1. /\ pc = "bbitmap" /\ set_bit(BLOCK_BITMAP, k)
        /\ IF k + 1 <= data_block_start(sb) THEN k' = k + 1 /\ UNCHANGED <<pc, made>>
           ELSE k' = 0 /\ pc' = "exit" /\ made' = "success"
        /\ UNCHANGED <<sb, got, result>>
    BY <1>4 DEF MarkBlock
  <2>2. k \in 0 .. data_block_start(sb)
    BY <2>1 DEF VolumeInv, IndexOK
  <2>3. k \in Numbers(BLOCK_BITMAP)
    BY <1>2, <2>2 DEF Numbers, INODE_BITMAP, BLOCK_BITMAP
  <2>4. \/ pc' = "bbitmap" /\ k' \in 0 .. data_block_start(sb) /\ made' = made
        \/ pc' = "exit" /\ k' = 0 /\ made' = "success"
    BY <1>2, <2>1, <2>2
  <2>5. StepOK
    BY <1>2, <2>1, <2>4 DEF StepOK, Steps, IndexOK, VolumeInv
  <2> QED
    BY <1>1, <2>1, <2>3, <2>5, BitStep
<1> QED
  BY <1>3, <1>4

-----------------------------------------------------------------------------
(* The tools.                                                              *)

\* A step that writes nothing.
LEMMA ReadStep ==
  ASSUME VolumeInv, sb # NoSuper, UNCHANGED <<image, sb, made>>, made # "refused",
         pc' \in Steps \ {"image", "superblock"}, pc \notin {"image", "superblock"},
         IndexOK', k' \in Nat, ~Insufficient, DOMAIN image = Places(sb.s_fsize),
         got' \in 0 .. MaxInodes, result' \in {ENOSPC, EIO} \cup 0 .. MaxBlocks
  PROVE  VolumeInv'
<1>1. Sized' /\ VolBlock' = VolBlock
  BY DEF VolumeInv, Sized, VolBlock
<1>2. ~Insufficient' /\ DOMAIN image' = Places(sb'.s_fsize)
  BY DEF Insufficient
<1>3. LaidOut' /\ OnlyOneInodeFails'
  BY <1>2 DEF LaidOut, VolumeInv, OnlyOneInodeFails
<1> QED
  BY <1>1, <1>3 DEF VolumeInv, Steps

\* A tool opens and closes the image, or finds it full.
LEMMA ToolKeeps ==
  ASSUME VolumeInv, OpenImage \/ CloseImage \/ alloc_block_fails
  PROVE  VolumeInv'
<1>1. CASE OpenImage
  <2>1. /\ pc = "exit" /\ Accepted /\ ROOT_INODE < image[1].super.s_ninodes /\ pc' = "ready"
        /\ sb' = image[1].super /\ got' = ROOT_INODE /\ UNCHANGED <<image, k, made, result>>
    BY <1>1 DEF OpenImage
  <2>2. sb # NoSuper /\ made # "refused"
    BY <2>1, SomeSize DEF VolumeInv, Accepted, OnlyOneInodeFails
  <2>3. sb' = sb
    BY <2>1 DEF VolumeInv, Accepted, VolBlock
  <2>4. ~Insufficient /\ DOMAIN image = Places(sb.s_fsize)
    BY <2>1 DEF VolumeInv, LaidOut
  <2>5. IndexOK' /\ got' \in 0 .. MaxInodes
    BY <2>1, Geometries DEF VolumeInv, IndexOK, ROOT_INODE
  <2>6. k' \in Nat /\ result' \in {ENOSPC, EIO} \cup 0 .. MaxBlocks
    BY <2>1 DEF VolumeInv
  <2> QED
    BY <2>1, <2>2, <2>3, <2>4, <2>5, <2>6, ReadStep DEF Steps
<1>2. CASE CloseImage \/ alloc_block_fails
  <2>1. /\ pc = "ready" /\ UNCHANGED <<image, sb, k, made>> /\ pc' \in {"exit", "ready"}
        /\ got' \in {0, got} /\ result' \in {0, ENOSPC, EIO}
    BY <1>2 DEF CloseImage, alloc_block_fails, AtWork, InTool
  <2>2. Ready
    BY <2>1, Standing
  <2>3. IndexOK' /\ k' \in Nat /\ got' \in 0 .. MaxInodes
        /\ result' \in {ENOSPC, EIO} \cup 0 .. MaxBlocks
    BY <2>1, Geometries DEF IndexOK, VolumeInv
  <2> QED
    BY <2>1, <2>2, <2>3, ReadStep DEF Steps, Ready
<1> QED
  BY <1>1, <1>2

\* A tool takes and gives back blocks.
LEMMA BlocksAllocated ==
  ASSUME VolumeInv, alloc_block \/ free_block
  PROVE  VolumeInv'
<1>1. /\ pc = "ready" /\ pc' \in {"bzero", "bfree"} /\ sb' = sb /\ made' = made
      /\ got' = got
  BY DEF alloc_block, free_block, AtWork, InTool
<1>2. Ready
  BY <1>1, Standing
<1>3. PICK b \in Candidates(BLOCK_BITMAP) \cup Marked(BLOCK_BITMAP) :
        /\ ~badblock(sb, b)
        /\ set_bit(BLOCK_BITMAP, b) \/ clear_bit(BLOCK_BITMAP, b)
        /\ k' = b /\ result' \in {b, result}
  BY <1>2, AllocBlockIs DEF free_block, Ready
<1>4. b \in Nat
  BY <1>2, <1>3, NumbersNat DEF Ready, Candidates, Clear, Marked
<1>5. /\ b \in data_block_start(sb) .. sb.s_fsize - 1 /\ b \in Numbers(BLOCK_BITMAP)
      /\ b \in 0 .. MaxBlocks
  BY <1>2, <1>3, <1>4, Geometries DEF Ready, KnownSizes, badblock, Numbers, INODE_BITMAP, BLOCK_BITMAP
<1>6. StepOK
  BY <1>1, <1>3, <1>4, <1>5 DEF StepOK, Steps, IndexOK, VolumeInv
<1> QED
  BY <1>2, <1>3, <1>5, <1>6, BitStep

\* A tool writes blocks it took.
LEMMA BlocksWritten ==
  ASSUME VolumeInv, ZeroAllocated \/ WriteData \/ ZeroFreed
  PROVE  VolumeInv'
<1>1. /\ pc \in {"bzero", "bdata", "bfree"} /\ UNCHANGED <<sb, made, got, result>>
      /\ \/ pc' = "bdata" /\ k' = k
         \/ pc' = "ready" /\ k' = 0
      /\ write_block(k, ZeroBlock) \/ write_block(k, [ZeroBlock EXCEPT !.data = k])
  BY DEF ZeroAllocated, WriteData, ZeroFreed, zero_block
<1>2. Ready
  BY <1>1, Standing
<1>3. /\ k \in data_block_start(sb) .. sb.s_fsize - 1 /\ sb.s_fsize \in 1 .. MaxBlocks
      /\ data_block_start(sb) \in 2 .. sb.s_fsize - 1
  BY <1>1, <1>2 DEF VolumeInv, IndexOK, Ready, KnownSizes
<1>4. k \in 0 .. sb.s_fsize - 1 /\ k \in 0 .. MaxBlocks - 1
  BY <1>3, Geometries
<1>5. [ZeroBlock EXCEPT !.data = k] \in VolBlock
  BY <1>4, ZeroTyped DEF VolBlock
<1>6. StepOK
  BY <1>1, <1>3 DEF StepOK, Steps, IndexOK, VolumeInv
<1> QED
  BY <1>1, <1>2, <1>4, <1>5, <1>6, ZeroTyped, WriteStep

\* A tool takes and gives back inodes.
LEMMA InodesAllocated ==
  ASSUME VolumeInv, alloc_inode \/ InitInode \/ ReleaseInode \/ free_inode
  PROVE  VolumeInv'
<1>1. pc \in {"ready", "iwrite", "ifree"} /\ sb' = sb /\ UNCHANGED <<made, result>>
  BY DEF alloc_inode, InitInode, ReleaseInode, free_inode, AtWork, InTool
<1>2. Ready
  BY <1>1, Standing
<1>3. sb.s_ninodes \in 1 .. MaxInodes /\ sb.s_ninodes \in Nat
  BY <1>2, Geometries DEF Ready, KnownSizes
<1>4. CASE alloc_inode
  <2>1. PICK n \in Candidates(INODE_BITMAP) :
          set_bit(INODE_BITMAP, n) /\ k' = n /\ n # 0 /\ n < sb.s_ninodes
    BY <1>2, <1>4, AllocInodeIs DEF Ready
  <2>2. n \in Nat /\ n # 0 /\ n < sb.s_ninodes
    BY <1>2, <2>1, NumbersNat DEF Ready, Candidates, Clear
  <2>3. n \in 1 .. sb.s_ninodes - 1 /\ n \in Numbers(INODE_BITMAP)
    BY <1>3, <2>2 DEF Numbers
  <2>4. StepOK
    BY <1>1, <1>4, <2>1, <2>2, <2>3 DEF StepOK, Steps, IndexOK, VolumeInv, alloc_inode
  <2> QED
    BY <1>2, <2>1, <2>3, <2>4, BitStep
<1>5. CASE InitInode
  <2>1. /\ pc = "iwrite" /\ pc' = "ready" /\ k' = 0 /\ write_disk_inode(k, k) /\ got' = k
    BY <1>5 DEF InitInode
  <2>2. k \in 1 .. sb.s_ninodes - 1
    BY <2>1 DEF VolumeInv, IndexOK
  <2>3. k \in 0 .. MaxInodes /\ k \in 0 .. sb.s_ninodes - 1
    BY <1>3, <2>2, Geometries
  <2>4. StepOK
    BY <1>1, <2>1, <2>3 DEF StepOK, Steps, IndexOK, VolumeInv
  <2> QED
    BY <1>2, <2>1, <2>3, <2>4, InodeStep
<1>6. CASE ReleaseInode
  <2>1. PICK n \in Marked(INODE_BITMAP) :
          n > ROOT_INODE /\ in_range(INODE_BITMAP, n) /\ write_disk_inode(n, 0) /\ k' = n
    BY <1>6 DEF ReleaseInode
  <2>2. n \in Nat
    BY <1>2, NumbersNat DEF Ready, Marked
  <2>3. n \in 0 .. sb.s_ninodes - 1 /\ n \in 1 .. sb.s_ninodes - 1
    BY <1>3, <2>1, <2>2 DEF in_range, ROOT_INODE
  <2>4. StepOK
    BY <1>1, <1>6, <2>1, <2>2, <2>3 DEF StepOK, Steps, IndexOK, VolumeInv, ReleaseInode
  <2> QED
    BY <1>2, <2>1, <2>3, <2>4, InodeStep, Geometries
<1>7. CASE free_inode
  <2>1. /\ pc = "ifree" /\ pc' = "ready" /\ k' = 0 /\ clear_bit(INODE_BITMAP, k)
        /\ got' \in {0, got}
    BY <1>7 DEF free_inode
  <2>2. k \in 1 .. sb.s_ninodes - 1
    BY <2>1 DEF VolumeInv, IndexOK
  <2>3. k \in Numbers(INODE_BITMAP)
    BY <1>3, <2>2 DEF Numbers
  <2>4. StepOK
    BY <1>1, <2>1, Geometries DEF StepOK, Steps, IndexOK, VolumeInv
  <2> QED
    BY <1>2, <2>1, <2>3, <2>4, BitStep
<1> QED
  BY <1>4, <1>5, <1>6, <1>7

\* Every step.
LEMMA VolumeStep ==
  ASSUME VolumeInv, [Next]_vars
  PROVE  VolumeInv'
<1>1. CASE Mkfs
  BY <1>1, MkfsKeeps, InitImageKeeps, InsufficientKeeps, SuperblockKeeps, InitInodeListKeeps,
     RootKeeps, MarksKeep, EinvalKeeps DEF Mkfs
<1>2. CASE Tool
  BY <1>2, ToolKeeps, BlocksAllocated, BlocksWritten, InodesAllocated DEF Tool, Library
<1>3. CASE Kill \/ WriteFails
  BY <1>3, StopsKeeps DEF Kill, WriteFails
<1>4. CASE UNCHANGED vars
  <2>1. Sized' /\ LaidOut' /\ IndexOK' /\ OnlyOneInodeFails' /\ VolBlock' = VolBlock
    BY <1>4 DEF vars, VolumeInv, Sized, LaidOut, IndexOK, OnlyOneInodeFails, VolBlock, Accepted,
                Insufficient, Places
  <2> QED
    BY <1>4, <2>1 DEF vars, VolumeInv
<1> QED
  BY <1>1, <1>2, <1>3, <1>4 DEF Next

\* So it always holds.
LEMMA VolumeAlways == Spec => []VolumeInv
  BY VolumeStarts, VolumeStep, PTL DEF Spec

-----------------------------------------------------------------------------
(* The superblock.                                                         *)

\* Volumes up to 4 GiB: offsets do not wrap (finding 5 is about the others).
NoWrap == MaxBlocks <= FileBlocks

\* On an image below 4 GiB no offset wraps.
LEMMA OffsetsExact ==
  ASSUME NoWrap, KnownSizes, NEW b \in 0 .. sb.s_fsize - 1
  PROVE  final_offset(b) = b
<1>1. b \in Nat /\ b < FileBlocks /\ FileBlocks \in Nat \ {0}
  <2>1. sb.s_fsize \in Nat /\ sb.s_fsize <= MaxBlocks
    BY Geometries DEF KnownSizes
  <2> QED
    BY <2>1, Geometries DEF NoWrap
<1>2. 0 * FileBlocks = 0 /\ b \in 0 .. FileBlocks - 1
  BY <1>1
<1>3. b % FileBlocks = b
  BY <1>1, <1>2, Quotient
<1> QED
  BY <1>3 DEF final_offset

\* Block 1 holds the superblock from the time it is written.
SuperWritten == pc \notin {"exit", "image", "superblock"} => Block(1).super = sb

\* A write behind block 1, or one that copies it, keeps the superblock.
LEMMA SuperKept ==
  ASSUME NoWrap, Ready, sb' = sb, Block(1).super = sb,
         NEW b \in 0 .. sb.s_fsize - 1, NEW new, write_block(b, new),
         new.super = Block(b).super \/ b >= 2
  PROVE  SuperWritten'
<1>1. KnownSizes /\ 1 \in 0 .. sb.s_fsize - 1 /\ DOMAIN image = Places(sb.s_fsize)
  BY DEF Ready, KnownSizes
<1>2. final_offset(b) = b /\ final_offset(1) = 1
  BY <1>1, OffsetsExact
<1>3. b \in DOMAIN image /\ 1 \in DOMAIN image
  BY <1>1, <1>2 DEF Places
<1>4. image'[1] = IF b = 1 THEN new ELSE image[1]
  BY <1>2, <1>3 DEF write_block
<1>5. image'[1].super = image[1].super
  BY <1>2, <1>4 DEF Block
<1>6. Block(1)' = image'[1]
  BY <1>2 DEF Block, final_offset
<1> QED
  BY <1>2, <1>5, <1>6 DEF SuperWritten, Block

\* So does one of a bit,
LEMMA SuperKeptByBits ==
  ASSUME NoWrap, Ready, sb' = sb, Block(1).super = sb,
         NEW type \in {INODE_BITMAP, BLOCK_BITMAP}, NEW n \in Numbers(type),
         set_bit(type, n) \/ clear_bit(type, n)
  PROVE  SuperWritten'
<1>1. KnownSizes /\ data_block_start(sb) <= sb.s_fsize /\ DOMAIN image = Places(sb.s_fsize)
      /\ \A o \in DOMAIN image : image[o] \in VolBlock
  BY DEF Ready, KnownSizes
<1>2. PICK b \in 2 .. inode_list_start(sb) - 1, new \in VolBlock :
        write_block(b, new) /\ b \in 0 .. sb.s_fsize - 1 /\ new.super = Block(b).super
  BY <1>1, BitTyped
<1> QED
  BY <1>2, SuperKept

\* and one of an inode.
LEMMA SuperKeptByInodes ==
  ASSUME NoWrap, Ready, sb' = sb, Block(1).super = sb,
         NEW n \in 0 .. sb.s_ninodes - 1, NEW tag \in 0 .. MaxInodes, write_disk_inode(n, tag)
  PROVE  SuperWritten'
<1>1. KnownSizes /\ data_block_start(sb) <= sb.s_fsize /\ DOMAIN image = Places(sb.s_fsize)
      /\ \A o \in DOMAIN image : image[o] \in VolBlock
  BY DEF Ready, KnownSizes
<1>2. PICK b \in inode_list_start(sb) .. data_block_start(sb) - 1, new \in VolBlock :
        write_block(b, new) /\ b \in 2 .. sb.s_fsize - 1 /\ new.super = Block(b).super
  BY <1>1, InodeTyped
<1>3. b \in 0 .. sb.s_fsize - 1
  BY <1>1, <1>2 DEF KnownSizes
<1> QED
  BY <1>2, <1>3, SuperKept

\* The steps that write bits and inodes, and those that write a block.
LEMMA BitSteps ==
  ASSUME VolumeInv, MarkInode \/ MarkBlock \/ alloc_block \/ free_block \/ alloc_inode \/ free_inode
  PROVE  /\ sb' = sb /\ pc \notin {"exit", "image", "superblock"}
         /\ \E type \in {INODE_BITMAP, BLOCK_BITMAP} : \E n \in Numbers(type) :
              set_bit(type, n) \/ clear_bit(type, n)
<1>1. sb' = sb /\ pc \notin {"exit", "image", "superblock"}
  BY DEF MarkInode, MarkBlock, alloc_block, free_block, alloc_inode, free_inode, AtWork, InTool
<1>2. Ready
  BY <1>1, Standing
<1>3. /\ sb.s_ninodes \in Nat /\ sb.s_fsize \in Nat /\ data_block_start(sb) \in 2 .. sb.s_fsize - 1
  BY <1>2 DEF Ready, KnownSizes
<1>4. CASE MarkInode \/ free_inode
  <2>1. k \in Numbers(INODE_BITMAP)
    BY <1>3, <1>4 DEF VolumeInv, IndexOK, MarkInode, free_inode, Numbers, in_range, ROOT_INODE
  <2> QED
    BY <1>1, <1>4, <2>1 DEF MarkInode, free_inode
<1>5. CASE MarkBlock
  <2>1. k \in Numbers(BLOCK_BITMAP)
    BY <1>3, <1>5 DEF VolumeInv, IndexOK, MarkBlock, Numbers, INODE_BITMAP, BLOCK_BITMAP
  <2> QED
    BY <1>1, <1>5, <2>1 DEF MarkBlock
<1>6. CASE alloc_block \/ free_block
  <2>1. PICK b \in Candidates(BLOCK_BITMAP) \cup Marked(BLOCK_BITMAP) :
          /\ ~badblock(sb, b)
          /\ set_bit(BLOCK_BITMAP, b) \/ clear_bit(BLOCK_BITMAP, b)
    BY <1>2, <1>6, AllocBlockIs DEF free_block, Ready
  <2>2. b \in Nat
    BY <1>2, NumbersNat DEF Ready, Candidates, Clear, Marked
  <2>3. b \in Numbers(BLOCK_BITMAP)
    BY <1>2, <1>3, <2>1, <2>2 DEF badblock, Numbers, INODE_BITMAP, BLOCK_BITMAP
  <2> QED
    BY <1>1, <2>1, <2>3
<1>7. CASE alloc_inode
  <2>1. PICK n \in Candidates(INODE_BITMAP) : set_bit(INODE_BITMAP, n) /\ n < sb.s_ninodes
    BY <1>2, <1>7, AllocInodeIs DEF Ready
  <2>2. n \in Nat /\ n < sb.s_ninodes
    BY <1>2, <2>1, NumbersNat DEF Ready, Candidates, Clear
  <2>3. n \in Numbers(INODE_BITMAP)
    BY <1>3, <2>2 DEF Numbers
  <2> QED
    BY <1>1, <2>1, <2>3
<1> QED
  BY <1>4, <1>5, <1>6, <1>7

\* The steps that write an inode.
LEMMA InodeSteps ==
  ASSUME VolumeInv, init_inode \/ InitInode \/ ReleaseInode
  PROVE  /\ sb' = sb /\ pc \notin {"exit", "image", "superblock"}
         /\ \E n \in 0 .. sb.s_ninodes - 1, tag \in 0 .. MaxInodes : write_disk_inode(n, tag)
<1>1. sb' = sb /\ pc \notin {"exit", "image", "superblock"}
  BY DEF init_inode, InitInode, ReleaseInode, AtWork, InTool
<1>2. Ready
  BY <1>1, Standing
<1>3. sb.s_ninodes \in 1 .. MaxInodes /\ sb.s_ninodes \in Nat
  BY <1>2, Geometries DEF Ready, KnownSizes
<1>4. CASE init_inode \/ InitInode
  <2>1. k \in 0 .. sb.s_ninodes - 1
    BY <1>3, <1>4, InitInodeIs DEF VolumeInv, IndexOK, InitInode
  <2>2. 0 \in 0 .. MaxInodes /\ k \in 0 .. MaxInodes
    BY <1>3, <2>1, Geometries
  <2> QED
    BY <1>1, <1>4, <2>1, <2>2, InitInodeIs DEF InitInode
<1>5. CASE ReleaseInode
  <2>1. PICK n \in Marked(INODE_BITMAP) :
          n > ROOT_INODE /\ in_range(INODE_BITMAP, n) /\ write_disk_inode(n, 0)
    BY <1>5 DEF ReleaseInode
  <2>2. n \in Nat
    BY <1>2, NumbersNat DEF Ready, Marked
  <2>3. n \in 0 .. sb.s_ninodes - 1 /\ 0 \in 0 .. MaxInodes
    BY <1>3, <2>1, <2>2, Geometries DEF in_range
  <2> QED
    BY <1>1, <2>1, <2>3
<1> QED
  BY <1>4, <1>5

\* The steps that write a data block.
LEMMA BlockSteps ==
  ASSUME VolumeInv, WriteRootDir \/ WriteRootInode \/ ZeroAllocated \/ WriteData \/ ZeroFreed
  PROVE  /\ sb' = sb /\ pc \notin {"exit", "image", "superblock"}
         /\ \E b \in 2 .. sb.s_fsize - 1 : \E new : write_block(b, new)
<1>1. sb' = sb /\ pc \notin {"exit", "image", "superblock"}
  BY DEF WriteRootDir, WriteRootInode, ZeroAllocated, WriteData, ZeroFreed
<1>2. Ready
  BY <1>1, Standing
<1>3. /\ sb.s_fsize \in Nat /\ data_block_start(sb) \in 2 .. sb.s_fsize - 1
      /\ inode_list_start(sb) \in 2 .. data_block_start(sb)
  BY <1>2, RoomLeft DEF Ready, KnownSizes
<1>4. CASE WriteRootDir \/ WriteRootInode
  <2>1. data_block_start(sb) \in 2 .. sb.s_fsize - 1 /\ inode_list_start(sb) \in 2 .. sb.s_fsize - 1
    BY <1>3
  <2> QED
    BY <1>1, <1>4, <2>1 DEF WriteRootDir, WriteRootInode
<1>5. CASE ZeroAllocated \/ WriteData \/ ZeroFreed
  <2>1. k \in data_block_start(sb) .. sb.s_fsize - 1
    BY <1>5 DEF VolumeInv, IndexOK, ZeroAllocated, WriteData, ZeroFreed
  <2>2. k \in 2 .. sb.s_fsize - 1
    BY <1>3, <2>1
  <2> QED
    BY <1>1, <1>5, <2>2 DEF ZeroAllocated, WriteData, ZeroFreed, zero_block
<1> QED
  BY <1>4, <1>5

\* Every step keeps the superblock once it is written.
LEMMA SuperStep ==
  ASSUME NoWrap, VolumeInv, SuperWritten, [Next]_vars
  PROVE  SuperWritten'
<1>1. CASE MarkInode \/ MarkBlock \/ alloc_block \/ free_block \/ alloc_inode \/ free_inode
  BY <1>1, BitSteps, Standing, SuperKeptByBits DEF SuperWritten
<1>2. CASE init_inode \/ InitInode \/ ReleaseInode
  BY <1>2, InodeSteps, Standing, SuperKeptByInodes DEF SuperWritten
<1>3. CASE WriteRootDir \/ WriteRootInode \/ ZeroAllocated \/ WriteData \/ ZeroFreed
  <2>1. Ready /\ sb' = sb /\ Block(1).super = sb
    BY <1>3, BlockSteps, Standing DEF SuperWritten
  <2>2. PICK b \in 2 .. sb.s_fsize - 1 : \E new : write_block(b, new)
    BY <1>3, BlockSteps
  <2>3. b \in 0 .. sb.s_fsize - 1 /\ b >= 2
    BY <2>1, <2>2 DEF Ready, KnownSizes
  <2> QED
    BY <2>1, <2>2, <2>3, SuperKept
<1>4. CASE write_superblock
  <2>1. /\ pc = "superblock" /\ sb' = sb
        /\ write_block(1, [Block(1) EXCEPT !.super = sb]) /\ DOMAIN image = Places(sb.s_fsize)
        /\ ~Insufficient
    BY <1>4 DEF write_superblock, VolumeInv, LaidOut
  <2>2. KnownSizes
    BY <2>1, SomeSize, SizesKnown DEF VolumeInv
  <2>3. 1 \in 0 .. sb.s_fsize - 1
    BY <2>1, <2>2, RoomLeft DEF KnownSizes
  <2>4. final_offset(1) = 1
    BY <2>2, <2>3, OffsetsExact
  <2>5. 1 \in DOMAIN image
    BY <2>1, <2>3, <2>4 DEF Places
  <2>6. image'[1] = [Block(1) EXCEPT !.super = sb] /\ Block(1) = image[1]
    BY <2>1, <2>4, <2>5 DEF write_block, Block
  <2>7. image[1] \in VolBlock
    BY <2>5 DEF VolumeInv
  <2>8. image'[1].super = sb
    BY <2>6, <2>7 DEF VolBlock
  <2>9. Block(1)' = image'[1]
    BY <2>4 DEF Block, final_offset
  <2> QED
    BY <2>1, <2>8, <2>9 DEF SuperWritten
<1>5. CASE OpenImage
  <2>1. image' = image /\ sb' = image[1].super
    BY <1>5 DEF OpenImage
  <2>2. Block(1)' = image[1]
    <3>1. sb # NoSuper /\ DOMAIN image = Places(sb.s_fsize)
      BY <1>5, SomeSize DEF OpenImage, VolumeInv, LaidOut, Accepted
    <3>2. KnownSizes /\ ~Insufficient
      BY <1>5, <3>1, SizesKnown DEF VolumeInv, LaidOut, OpenImage
    <3>3. 1 \in 0 .. sb.s_fsize - 1
      BY <3>2, RoomLeft DEF KnownSizes
    <3>4. final_offset(1) = 1
      BY <3>2, <3>3, OffsetsExact
    <3> QED
      BY <2>1, <3>4 DEF Block, final_offset
  <2> QED
    BY <2>1, <2>2 DEF SuperWritten
<1>6. CASE CloseImage \/ Kill \/ WriteFails \/ InsufficientBlocks \/ MarkInodeFails \/ mkfs \/ init_image
  BY <1>6 DEF CloseImage, Kill, WriteFails, InsufficientBlocks, MarkInodeFails, mkfs, init_image,
              Stops, SuperWritten
<1>7. CASE alloc_block_fails \/ UNCHANGED vars
  BY <1>7 DEF alloc_block_fails, vars, SuperWritten, Block
<1> QED
  BY <1>1, <1>2, <1>3, <1>4, <1>5, <1>6, <1>7 DEF Next, Mkfs, Tool, Library

-----------------------------------------------------------------------------
(* The theorems.                                                           *)

\* Whatever the geometry and however mkfs ends, what lies in the image file, the
\* superblock in use and the numbers at work keep to their sizes.
THEOREM VolumeIsTyped == Spec => []VolumeTypeOK
<1>1. ASSUME VolumeInv PROVE VolumeTypeOK
  <2>1. CASE sb = NoSuper
    <3>1. DOMAIN image = {} /\ pc = "exit"
      BY <1>1, <2>1, SomeSize DEF VolumeInv
    <3>2. k = 0
      BY <1>1, <3>1 DEF VolumeInv, IndexOK
    <3> QED
      BY <1>1, <2>1, <3>1, <3>2, Geometries DEF VolumeInv, VolumeTypeOK
  <2>2. CASE sb # NoSuper
    <3>1. KnownSizes /\ sb = superblock(sb.s_ninodes, sb.s_fsize)
      BY <1>1, <2>2, SizesKnown DEF VolumeInv
    <3>2. DOMAIN image \subseteq 0 .. MaxBlocks - 1
      <4>1. sb.s_fsize \in Nat /\ sb.s_fsize <= MaxBlocks
        BY <3>1, Geometries DEF KnownSizes
      <4>2. DOMAIN image \subseteq Places(sb.s_fsize)
        BY <1>1 DEF VolumeInv, LaidOut
      <4>3. ASSUME NEW b \in 0 .. sb.s_fsize - 1 PROVE final_offset(b) \in 0 .. MaxBlocks - 1
        <5>1. b \in Nat /\ b <= MaxBlocks - 1
          BY <4>1, Geometries
        <5>2. final_offset(b) \in 0 .. b
          BY <5>1, Offsets
        <5> QED
          BY <5>1, <5>2, Geometries
      <4> QED
        BY <4>2, <4>3 DEF Places
    <3>3. k \in 0 .. MaxInodes + MaxBlocks
      <4>1. /\ sb.s_ninodes \in Nat /\ sb.s_ninodes <= MaxInodes
            /\ sb.s_fsize \in Nat /\ sb.s_fsize <= MaxBlocks
        BY <3>1, Geometries DEF KnownSizes
      <4>2. pc \notin {"exit", "image", "superblock"} => data_block_start(sb) \in 2 .. sb.s_fsize - 1
        BY <1>1, Standing DEF Ready
      <4>3. CASE pc \in {"exit", "ready", "superblock", "rootdir", "rootinode", "ibitmap"}
        BY <1>1, <4>3, Geometries DEF VolumeInv, IndexOK, ROOT_INODE
      <4>4. CASE pc \in {"image", "inodes", "iwrite", "ifree"}
        BY <1>1, <4>1, <4>4, Geometries DEF VolumeInv, IndexOK
      <4>5. CASE pc \in {"bbitmap", "bzero", "bdata", "bfree"}
        BY <1>1, <4>1, <4>2, <4>5, Geometries DEF VolumeInv, IndexOK
      <4> QED
        BY <1>1, <4>3, <4>4, <4>5 DEF VolumeInv, Steps
    <3> QED
      BY <1>1, <3>1, <3>2, <3>3, Geometries DEF VolumeInv, VolumeTypeOK, VolBlock
  <2> QED
    BY <2>1, <2>2
<1> QED
  BY <1>1, VolumeAlways, PTL

\* Only -i 1 makes an mkfs fail after its checks; what it refuses, no tool opens
\* (mkfs.c:145, 222, 299).
THEOREM OnlyOneInode == Spec => []OnlyOneInodeFails
<1>1. VolumeInv => OnlyOneInodeFails
  BY DEF VolumeInv
<1> QED
  BY <1>1, VolumeAlways, PTL

\* Up to 4 GiB: an image that the tools open has all its blocks, wherever mkfs was
\* stopped, since the superblock is written after the last of them (mkfs.c:206-240).
THEOREM AcceptedImagesWhole ==
  ASSUME NoWrap
  PROVE  Spec => []AcceptedIsWhole
<1>1. ASSUME VolumeInv, Accepted
      PROVE  /\ DOMAIN image = 0 .. image[1].super.s_fsize - 1
             /\ data_block_start(image[1].super) < image[1].super.s_fsize
  <2>1. DOMAIN image = Places(sb.s_fsize) /\ ~Insufficient
    BY <1>1 DEF VolumeInv, LaidOut
  <2>2. sb # NoSuper
    BY <1>1, SomeSize DEF VolumeInv, Accepted
  <2>3. KnownSizes
    BY <1>1, <2>2, SizesKnown DEF VolumeInv
  <2>4. image[1].super = sb
    BY <1>1 DEF VolumeInv, Accepted, VolBlock
  <2>5. Places(sb.s_fsize) = 0 .. sb.s_fsize - 1
    BY <2>3, OffsetsExact DEF Places
  <2>6. data_block_start(sb) < sb.s_fsize
    BY <2>1, <2>3, RoomLeft DEF KnownSizes
  <2> QED
    BY <2>1, <2>4, <2>5, <2>6
<1>2. VolumeInv => AcceptedIsWhole
  BY <1>1 DEF AcceptedIsWhole
<1> QED
  BY <1>2, VolumeAlways, PTL

\* Up to 4 GiB: nothing that mkfs or the library writes lands on the superblock
\* (fs_utils.c:87, 104).
THEOREM SuperblockIsSafe ==
  ASSUME NoWrap
  PROVE  Spec => []SuperblockStays
<1>1. Init => SuperWritten
  BY DEF Init, SuperWritten
<1>2. VolumeInv /\ SuperWritten /\ [Next]_vars => SuperWritten'
  BY SuperStep
<1>3. Spec => []SuperWritten
  BY <1>1, <1>2, VolumeAlways, PTL DEF Spec
<1>4. ASSUME VolumeInv, SuperWritten PROVE SuperblockStays
  <2> SUFFICES ASSUME made = "success", pc # "exit" PROVE Block(1).super = sb
    BY DEF SuperblockStays, Formatted
  <2> QED
    BY <1>4 DEF SuperWritten, VolumeInv
<1> QED
  BY <1>3, <1>4, VolumeAlways, PTL

-----------------------------------------------------------------------------
(* Bits and numbers.                                                       *)

Types == {INODE_BITMAP, BLOCK_BITMAP}

\* The numbers that a bitmap has bits for, those past the last inode or block included.
BitsOf(type) == 0 .. bitmap_blocks(sb, type) * BLOCK_BIT_SIZE - 1

\* A number within its block.
LEMMA WithinBlock ==
  ASSUME NEW y \in 0 .. BLOCKSIZE - 1, NEW z \in 0 .. BYTE - 1
  PROVE  y * BYTE + z \in 0 .. BLOCK_BIT_SIZE - 1 /\ y * BYTE \in Nat
<1>1. y \in Nat /\ z \in Nat /\ z <= BYTE - 1 /\ y + 1 <= BLOCKSIZE
  BY Geometries
<1>2. (y + 1) * BYTE <= BLOCKSIZE * BYTE /\ BLOCKSIZE * BYTE \in Nat
  BY <1>1, Geometries, Multiples
<1>3. (y + 1) * BYTE = y * BYTE + BYTE /\ y * BYTE \in Nat
  BY <1>1, Geometries
<1> QED
  BY <1>1, <1>2, <1>3, Geometries DEF BLOCK_BIT_SIZE

\* Block, byte and bit of a bitmap make up the number.
LEMMA NumberIs ==
  ASSUME NEW x \in Nat, NEW y \in 0 .. BLOCKSIZE - 1, NEW z \in 0 .. BYTE - 1
  PROVE  (x * BLOCKSIZE + y) * BYTE + z = x * BLOCK_BIT_SIZE + (y * BYTE + z)
<1>1. y \in Nat /\ z \in Nat /\ x * BLOCKSIZE \in Nat
  BY Geometries
<1>2. (x * BLOCKSIZE + y) * BYTE = (x * BLOCKSIZE) * BYTE + y * BYTE
  BY <1>1, Geometries
<1>3. (x * BLOCKSIZE) * BYTE = x * (BLOCKSIZE * BYTE)
  BY Geometries
<1>4. (x * BLOCKSIZE) * BYTE \in Nat /\ y * BYTE \in Nat
  BY <1>1, Geometries
<1> QED
  BY <1>1, <1>2, <1>3, <1>4 DEF BLOCK_BIT_SIZE

\* The order in which a bitmap is scanned gives each of its numbers once.
LEMMA Numbering ==
  ASSUME KnownSizes, NEW type \in Types
  PROVE  /\ \A p \in Scanned(type) : Number(p) \in BitsOf(type)
         /\ \A p, q \in Scanned(type) : Number(p) = Number(q) => p = q
         /\ \A n \in BitsOf(type) : \E p \in Scanned(type) : Number(p) = n
<1> DEFINE blocks == bitmap_blocks(sb, type)
<1>1. blocks \in Nat /\ BLOCK_BIT_SIZE \in Nat \ {0} /\ blocks * BLOCK_BIT_SIZE \in Nat
  BY Geometries DEF KnownSizes, Regions, bitmap_blocks
<1>2. ASSUME NEW p \in Scanned(type)
      PROVE  /\ p[1] \in 0 .. blocks - 1 /\ p[2] \in 0 .. BLOCKSIZE - 1 /\ p[3] \in 0 .. BYTE - 1
             /\ p[1] \in Nat /\ p = <<p[1], p[2], p[3]>>
             /\ Number(p) = p[1] * BLOCK_BIT_SIZE + (p[2] * BYTE + p[3])
             /\ p[2] * BYTE + p[3] \in 0 .. BLOCK_BIT_SIZE - 1
  <2>1. /\ p[1] \in 0 .. blocks - 1 /\ p[2] \in 0 .. BLOCKSIZE - 1 /\ p[3] \in 0 .. BYTE - 1
        /\ p = <<p[1], p[2], p[3]>>
    BY DEF Scanned
  <2>2. p[1] \in Nat
    BY <1>1, <2>1
  <2> HIDE DEF blocks
  <2> QED
    BY <2>1, <2>2, NumberIs, WithinBlock DEF Number
<1> HIDE DEF blocks
<1>3. ASSUME NEW p \in Scanned(type) PROVE Number(p) \in BitsOf(type)
  <2>1. (p[1] + 1) * BLOCK_BIT_SIZE <= blocks * BLOCK_BIT_SIZE
    <3>1. p[1] + 1 \in Nat /\ p[1] + 1 <= blocks
      BY <1>1, <1>2
    <3> QED
      BY <1>1, <3>1, Multiples
  <2>2. (p[1] + 1) * BLOCK_BIT_SIZE = p[1] * BLOCK_BIT_SIZE + BLOCK_BIT_SIZE
    BY <1>1, <1>2
  <2>3. p[1] * BLOCK_BIT_SIZE \in Nat
    BY <1>1, <1>2
  <2> QED
    BY <1>1, <1>2, <2>1, <2>2, <2>3 DEF BitsOf, blocks
<1>4. ASSUME NEW p \in Scanned(type), NEW q \in Scanned(type), Number(p) = Number(q)
      PROVE  p = q
  <2>1. p[1] = q[1] /\ p[2] * BYTE + p[3] = q[2] * BYTE + q[3]
    BY <1>1, <1>2, <1>4, DivisionUnique
  <2>2. p[2] \in Nat /\ q[2] \in Nat
    BY <1>2, Geometries
  <2>3. p[2] = q[2] /\ p[3] = q[3]
    BY <1>2, <2>1, <2>2, Geometries, DivisionUnique
  <2>4. p = <<p[1], p[2], p[3]>> /\ q = <<q[1], q[2], q[3]>>
    BY <1>2
  <2> QED
    BY <2>1, <2>3, <2>4
<1>5. ASSUME NEW n \in BitsOf(type) PROVE \E p \in Scanned(type) : Number(p) = n
  <2>1. n \in Nat /\ n < blocks * BLOCK_BIT_SIZE
    BY <1>1, <1>5 DEF BitsOf, blocks
  <2> DEFINE x == n \div BLOCK_BIT_SIZE
             r == n % BLOCK_BIT_SIZE
  <2>2. x \in Nat /\ r \in 0 .. BLOCK_BIT_SIZE - 1 /\ n = x * BLOCK_BIT_SIZE + r
    BY <1>1, <2>1, Division
  <2> HIDE DEF x, r
  <2>3. x \in 0 .. blocks - 1
    <3> SUFFICES ASSUME blocks <= x PROVE FALSE
      BY <1>1, <2>2
    <3>1. blocks * BLOCK_BIT_SIZE <= x * BLOCK_BIT_SIZE /\ x * BLOCK_BIT_SIZE \in Nat
      BY <1>1, <2>2, Multiples
    <3> QED
      BY <1>1, <2>1, <2>2, <3>1
  <2> DEFINE y == r \div BYTE
             z == r % BYTE
  <2>4. r \in Nat /\ r < BLOCKSIZE * BYTE
    BY <1>1, <2>2 DEF BLOCK_BIT_SIZE
  <2>5. y \in Nat /\ z \in 0 .. BYTE - 1 /\ r = y * BYTE + z
    BY <2>4, Geometries, Division
  <2> HIDE DEF y, z
  <2>6. y \in 0 .. BLOCKSIZE - 1
    <3> SUFFICES ASSUME BLOCKSIZE <= y PROVE FALSE
      BY <2>5, Geometries
    <3>1. BLOCKSIZE * BYTE <= y * BYTE /\ y * BYTE \in Nat /\ BLOCKSIZE * BYTE \in Nat
      BY <2>5, Geometries, Multiples
    <3> QED
      BY <2>4, <2>5, <3>1, Geometries
  <2>7. <<x, y, z>> \in Scanned(type)
    BY <2>3, <2>5, <2>6 DEF Scanned, blocks
  <2>8. Number(<<x, y, z>>) = n
    BY <2>2, <2>5, <2>6, NumberIs DEF Number
  <2> QED
    BY <2>7, <2>8
<1> QED
  BY <1>3, <1>4, <1>5

\* Where bitmap_set and bitmap_clear go is where the scan finds the number.
LEMMA PlaceOfNumber ==
  ASSUME KnownSizes, NEW type \in Types, NEW p \in Scanned(type)
  PROVE  BitPlace(sb, type, Number(p)) = [block |-> bitmap_start_block(sb, type) + p[1],
                                          byte |-> p[2], bit |-> BYTE - 1 - p[3]]
<1> DEFINE n == Number(p)
           r == p[2] * BYTE + p[3]
<1>1. p[1] \in Nat /\ p[2] \in 0 .. BLOCKSIZE - 1 /\ p[3] \in 0 .. BYTE - 1
  BY Geometries DEF KnownSizes, Regions, Scanned, bitmap_blocks
<1>2. n = p[1] * BLOCK_BIT_SIZE + r /\ r \in 0 .. BLOCK_BIT_SIZE - 1
  BY <1>1, NumberIs, WithinBlock DEF Number
<1>3. p[1] * BLOCK_BIT_SIZE \in Nat /\ r \in Nat /\ p[2] \in Nat
  BY <1>1, <1>2, Geometries
<1> HIDE DEF r
<1>4. n \in Nat
  BY <1>2, <1>3
<1> HIDE DEF n
<1>5. n \div BLOCK_BIT_SIZE = p[1] /\ n % BLOCK_BIT_SIZE = r
  <2>1. BLOCK_BIT_SIZE \in Nat \ {0} /\ p[1] \in Nat /\ r \in 0 .. BLOCK_BIT_SIZE - 1
        /\ n \in Nat /\ n = p[1] * BLOCK_BIT_SIZE + r
    BY <1>1, <1>2, <1>4, Geometries
  <2>2. PICK d \in Nat \ {0} : d = BLOCK_BIT_SIZE
    BY <2>1
  <2>3. PICK a \in Nat : a = p[1]
    BY <2>1
  <2>4. PICK t \in 0 .. d - 1 : t = r
    BY <2>1, <2>2
  <2>5. PICK m \in Nat : m = n
    BY <2>1
  <2>6. m = a * d + t
    BY <2>1, <2>2, <2>3, <2>4, <2>5
  <2>7. m \div d = a /\ m % d = t
    BY <2>6, Quotient
  <2> QED
    BY <2>2, <2>3, <2>4, <2>5, <2>7
<1>6. r \div BYTE = p[2] /\ r % BYTE = p[3]
  <2>1. BYTE \in Nat \ {0} /\ p[2] \in Nat /\ p[3] \in 0 .. BYTE - 1
        /\ r \in Nat /\ r = p[2] * BYTE + p[3]
    BY <1>1, <1>3, Geometries DEF r
  <2>2. PICK d \in Nat \ {0} : d = BYTE
    BY <2>1
  <2>3. PICK a \in Nat : a = p[2]
    BY <2>1
  <2>4. PICK t \in 0 .. d - 1 : t = p[3]
    BY <2>1, <2>2
  <2>5. PICK m \in Nat : m = r
    BY <2>1
  <2>6. m = a * d + t
    BY <2>1, <2>2, <2>3, <2>4, <2>5
  <2>7. m \div d = a /\ m % d = t
    BY <2>6, Quotient
  <2> QED
    BY <2>2, <2>3, <2>4, <2>5, <2>7
<1>7. BitPlace(sb, type, n) =
        [block |-> bitmap_start_block(sb, type) + p[1], byte |-> p[2], bit |-> (BYTE - 1) - p[3]]
  BY <1>5, <1>6 DEF BitPlace
<1> QED
  BY <1>7 DEF n

\* The numbers of the bits that are set, in terms of the places they are kept at.
LEMMA MarkedAre ==
  ASSUME KnownSizes, NEW type \in Types
  PROVE  /\ Marked(type) \subseteq BitsOf(type)
         /\ Clear(type) = BitsOf(type) \ Marked(type)
         /\ \A p \in Scanned(type) : Number(p) \in Marked(type) <=> IsSet(type, p)
<1>1. \A p \in Scanned(type) : Number(p) \in BitsOf(type)
  BY Numbering
<1>2. \A p, q \in Scanned(type) : Number(p) = Number(q) => p = q
  BY Numbering
<1>3. \A n \in BitsOf(type) : \E p \in Scanned(type) : Number(p) = n
  BY Numbering
<1>4. \A p \in Scanned(type) : Number(p) \in Marked(type) <=> IsSet(type, p)
  BY <1>2 DEF Marked
<1>5. \A p \in Scanned(type) : Number(p) \in Clear(type) <=> ~IsSet(type, p)
  BY <1>2 DEF Clear
<1>6. Marked(type) \subseteq BitsOf(type) /\ Clear(type) \subseteq BitsOf(type)
  BY <1>1 DEF Marked, Clear
<1>7. \A n \in BitsOf(type) : n \in Clear(type) <=> n \notin Marked(type)
  BY <1>3, <1>4, <1>5
<1> QED
  BY <1>4, <1>6, <1>7

\* count_bits counts them.
LEMMA CountIs ==
  ASSUME KnownSizes, NEW type \in Types
  PROVE  count_bits(type) = Cardinality(Marked(type)) /\ IsFiniteSet(Marked(type))
<1> DEFINE start == bitmap_start_block(sb, type)
           blocks == bitmap_blocks(sb, type)
           Where == {start + i : i \in 0 .. blocks - 1} \X (0 .. BLOCKSIZE - 1) \X (0 .. BYTE - 1)
           Bits == {p \in Where : p[3] \in Block(p[1]).bits[p[2]]}
           Place(p) == <<p[1] - start, p[2], BYTE - 1 - p[3]>>
           f == [p \in Bits |-> Number(Place(p))]
<1>1. blocks \in Nat /\ start \in Nat /\ blocks * BLOCK_BIT_SIZE \in Nat
  BY Geometries DEF KnownSizes, Regions, bitmap_blocks, bitmap_start_block
<1>2. count_bits(type) = Cardinality(Bits)
  BY DEF count_bits
<1>3. IsFiniteSet(Marked(type))
  <2>1. IsFiniteSet(BitsOf(type))
    BY <1>1, FS_Interval DEF BitsOf
  <2> QED
    BY <2>1, MarkedAre, FS_Subset
<1> HIDE DEF start, blocks
<1>4. ASSUME NEW p \in Where
      PROVE  /\ Place(p) \in Scanned(type)
             /\ p = <<start + Place(p)[1], Place(p)[2], BYTE - 1 - Place(p)[3]>>
             /\ IsSet(type, Place(p)) <=> p \in Bits
  <2>1. PICK i \in 0 .. blocks - 1 : p[1] = start + i
    OBVIOUS
  <2>2. p[2] \in 0 .. BLOCKSIZE - 1 /\ p[3] \in 0 .. BYTE - 1 /\ p = <<p[1], p[2], p[3]>>
    OBVIOUS
  <2>3. p[1] - start = i
    BY <1>1, <2>1
  <2>4. BYTE - 1 - p[3] \in 0 .. BYTE - 1 /\ BYTE - 1 - (BYTE - 1 - p[3]) = p[3]
    BY <2>2, Geometries
  <2>5. Place(p) = <<i, p[2], BYTE - 1 - p[3]>>
    BY <2>3
  <2>6. Place(p) \in Scanned(type)
    BY <2>2, <2>4, <2>5 DEF Scanned, blocks
  <2>7. p = <<start + Place(p)[1], Place(p)[2], BYTE - 1 - Place(p)[3]>>
    BY <2>1, <2>2, <2>4, <2>5
  <2>8. IsSet(type, Place(p)) <=> p[3] \in Block(p[1]).bits[p[2]]
    BY <2>1, <2>4, <2>5 DEF IsSet, start
  <2> QED
    BY <2>6, <2>7, <2>8
<1>5. ASSUME NEW q \in Scanned(type)
      PROVE  \E p \in Where : Place(p) = q
  <2>1. /\ q[1] \in 0 .. blocks - 1 /\ q[2] \in 0 .. BLOCKSIZE - 1 /\ q[3] \in 0 .. BYTE - 1
        /\ q = <<q[1], q[2], q[3]>>
    BY DEF Scanned, blocks
  <2> DEFINE p == <<start + q[1], q[2], BYTE - 1 - q[3]>>
  <2>2. BYTE - 1 - q[3] \in 0 .. BYTE - 1 /\ BYTE - 1 - (BYTE - 1 - q[3]) = q[3]
        /\ start + q[1] - start = q[1]
    BY <1>1, <2>1, Geometries
  <2>3. p \in Where
    BY <2>1, <2>2
  <2>4. Place(p) = q
    <3>1. p[1] = start + q[1] /\ p[2] = q[2] /\ p[3] = BYTE - 1 - q[3]
      OBVIOUS
    <3> HIDE DEF p
    <3>2. p[1] - start = q[1] /\ BYTE - 1 - p[3] = q[3]
      BY <1>1, <2>1, <2>2, <3>1
    <3> QED
      BY <2>1, <3>1, <3>2
  <2> QED
    BY <2>3, <2>4
<1> HIDE DEF Where, Place
<1>6. \A p \in Bits : Number(Place(p)) \in Marked(type)
  BY <1>4, MarkedAre
<1>7. \A p, q \in Bits : Number(Place(p)) = Number(Place(q)) => p = q
  <2> SUFFICES ASSUME NEW p \in Bits, NEW q \in Bits, Number(Place(p)) = Number(Place(q))
               PROVE  p = q
    OBVIOUS
  <2>1. Place(p) \in Scanned(type) /\ Place(q) \in Scanned(type)
    BY <1>4
  <2>2. Place(p) = Place(q)
    BY <2>1, Numbering
  <2>3. /\ p = <<start + Place(p)[1], Place(p)[2], BYTE - 1 - Place(p)[3]>>
        /\ q = <<start + Place(q)[1], Place(q)[2], BYTE - 1 - Place(q)[3]>>
    BY <1>4
  <2> QED
    BY <2>2, <2>3
<1>8. \A n \in Marked(type) : \E p \in Bits : Number(Place(p)) = n
  <2> TAKE n \in Marked(type)
  <2>1. PICK q \in Scanned(type) : IsSet(type, q) /\ Number(q) = n
    BY DEF Marked
  <2>2. PICK p \in Where : Place(p) = q
    BY <1>5
  <2>3. p \in Bits
    BY <1>4, <2>1, <2>2
  <2> QED
    BY <2>1, <2>2, <2>3
<1> HIDE DEF Bits
<1>9. f \in Injection(Bits, Marked(type)) /\ f \in Surjection(Bits, Marked(type))
  BY <1>6, <1>7, <1>8 DEF Injection, Surjection, IsInjective
<1> HIDE DEF f
<1>10. Cardinality(Bits) = Cardinality(Marked(type))
  BY <1>3, <1>9, FS_Injection
<1> QED
  BY <1>2, <1>3, <1>10

-----------------------------------------------------------------------------
(* What the writes do to the bits.                                         *)

\* The block that the bit of p is kept in.
LEMMA BitBlock ==
  ASSUME NoWrap, Ready, NEW type \in Types, NEW p \in Scanned(type)
  PROVE  /\ bitmap_start_block(sb, type) + p[1] \in 2 .. inode_list_start(sb) - 1
         /\ bitmap_start_block(sb, type) + p[1] \in 0 .. sb.s_fsize - 1
         /\ final_offset(bitmap_start_block(sb, type) + p[1]) = bitmap_start_block(sb, type) + p[1]
         /\ bitmap_start_block(sb, type) + p[1] \in DOMAIN image
         /\ p[2] \in 0 .. BLOCKSIZE - 1 /\ p[3] \in 0 .. BYTE - 1
<1> DEFINE b == bitmap_start_block(sb, type) + p[1]
<1>1. KnownSizes /\ ~Insufficient /\ DOMAIN image = Places(sb.s_fsize)
  BY DEF Ready
<1>2. b \in 2 .. inode_list_start(sb) - 1
  BY <1>1 DEF KnownSizes, Regions, Scanned, bitmap_blocks, bitmap_start_block, Types,
              INODE_BITMAP, BLOCK_BITMAP
<1>3. /\ inode_list_start(sb) \in 2 .. data_block_start(sb) /\ sb.s_fsize \in Nat
      /\ data_block_start(sb) \in 2 .. sb.s_fsize - 1
  BY <1>1, RoomLeft DEF KnownSizes
<1>4. b \in 0 .. sb.s_fsize - 1
  BY <1>2, <1>3
<1>5. final_offset(b) = b
  BY <1>1, <1>4, OffsetsExact
<1>6. b \in DOMAIN image
  BY <1>1, <1>4, <1>5 DEF Places
<1>7. p[2] \in 0 .. BLOCKSIZE - 1 /\ p[3] \in 0 .. BYTE - 1
  BY DEF Scanned
<1> QED
  BY <1>2, <1>4, <1>5, <1>6, <1>7

\* Bits of different places, or of different bitmaps, are different bits.
LEMMA BitsApart ==
  ASSUME Ready, NEW type \in Types, NEW p \in Scanned(type), NEW t \in Types, NEW q \in Scanned(t),
         bitmap_start_block(sb, type) + p[1] = bitmap_start_block(sb, t) + q[1]
  PROVE  t = type /\ p[1] = q[1]
<1>1. /\ sb.s_inode_map_size \in Nat /\ sb.s_block_map_size \in Nat
  BY DEF Ready, KnownSizes, Regions
<1>2. p[1] \in 0 .. bitmap_blocks(sb, type) - 1 /\ q[1] \in 0 .. bitmap_blocks(sb, t) - 1
  BY DEF Scanned
<1> QED
  BY <1>1, <1>2 DEF bitmap_blocks, bitmap_start_block, Types, INODE_BITMAP, BLOCK_BITMAP

\* A write outside the bitmaps, or of a block with the same bits.
LEMMA BitsElsewhere ==
  ASSUME NoWrap, Ready, sb' = sb, NEW b \in 0 .. sb.s_fsize - 1, NEW new, write_block(b, new),
         b >= inode_list_start(sb) \/ new.bits = Block(b).bits,
         NEW type \in Types
  PROVE  Marked(type)' = Marked(type)
<1>1. final_offset(b) = b
  BY OffsetsExact DEF Ready
<1>2. ASSUME NEW p \in Scanned(type) PROVE IsSet(type, p)' <=> IsSet(type, p)
  <2> DEFINE c == bitmap_start_block(sb, type) + p[1]
  <2>1. /\ c \in 2 .. inode_list_start(sb) - 1 /\ final_offset(c) = c /\ c \in DOMAIN image
    BY BitBlock
  <2>2. inode_list_start(sb) \in Nat
    BY DEF Ready, KnownSizes, Regions
  <2>3. image'[c].bits = image[c].bits
    <3>1. image'[c] = IF c = b THEN new ELSE image[c]
      BY <1>1, <2>1 DEF write_block
    <3>2. c = b => new.bits = Block(b).bits
      BY <2>1, <2>2
    <3> QED
      BY <1>1, <3>1, <3>2 DEF Block
  <2>4. /\ IsSet(type, p) <=> BYTE - 1 - p[3] \in image[c].bits[p[2]]
        /\ IsSet(type, p)' <=> BYTE - 1 - p[3] \in image'[c].bits[p[2]]
    BY <2>1 DEF IsSet, Block, bitmap_start_block
  <2> QED
    BY <2>3, <2>4
<1>3. Scanned(type)' = Scanned(type)
  BY DEF Scanned
<1> QED
  BY <1>2, <1>3 DEF Marked

\* bitmap_set and bitmap_clear change the one number they are given.
LEMMA BitChanged ==
  ASSUME NoWrap, Ready, sb' = sb, NEW type \in Types, NEW n \in Numbers(type)
  PROVE  /\ set_bit(type, n) => Marked(type)' = Marked(type) \cup {n}
         /\ clear_bit(type, n) => Marked(type)' = Marked(type) \ {n}
         /\ set_bit(type, n) \/ clear_bit(type, n)
              => \A t \in Types : t # type => Marked(t)' = Marked(t)
<1>1. KnownSizes
  BY DEF Ready
<1>2. n \in BitsOf(type)
  <2>1. /\ sb.s_ninodes \in Nat /\ sb.s_fsize \in Nat
        /\ bitmap_blocks(sb, type) * BLOCK_BIT_SIZE \in Nat
    BY <1>1, Geometries DEF KnownSizes, Regions, bitmap_blocks
  <2> QED
    BY <1>1, <2>1 DEF KnownSizes, Numbers, BitsOf, bitmap_blocks
<1>3. PICK q \in Scanned(type) : Number(q) = n
  BY <1>1, <1>2, Numbering
<1> DEFINE c == bitmap_start_block(sb, type) + q[1]
           bit == BYTE - 1 - q[3]
<1>4. BitPlace(sb, type, n) = [block |-> c, byte |-> q[2], bit |-> bit]
  BY <1>1, <1>3, PlaceOfNumber
<1>5. /\ final_offset(c) = c /\ c \in DOMAIN image /\ q[2] \in 0 .. BLOCKSIZE - 1
      /\ q[3] \in 0 .. BYTE - 1
  BY BitBlock
<1>6. image[c] \in VolBlock
  BY <1>5 DEF Ready
<1>7. ASSUME NEW x, write_block(c, [Block(c) EXCEPT !.bits[q[2]] = x]),
             NEW t \in Types, NEW p \in Scanned(t)
      PROVE  IsSet(t, p)' <=> IF t = type /\ p[1] = q[1] /\ p[2] = q[2] THEN BYTE - 1 - p[3] \in x
                              ELSE IsSet(t, p)
  <2> DEFINE d == bitmap_start_block(sb, t) + p[1]
  <2>1. final_offset(d) = d /\ d \in DOMAIN image /\ p[2] \in 0 .. BLOCKSIZE - 1
    BY BitBlock
  <2>2. d = c <=> t = type /\ p[1] = q[1]
    <3>1. d = c => t = type /\ p[1] = q[1]
      BY BitsApart
    <3> QED
      BY <3>1
  <2>3. /\ IsSet(t, p) <=> BYTE - 1 - p[3] \in image[d].bits[p[2]]
        /\ IsSet(t, p)' <=> BYTE - 1 - p[3] \in image'[d].bits[p[2]]
    BY <2>1 DEF IsSet, Block, bitmap_start_block
  <2>4. image'[d] = IF d = c THEN [image[c] EXCEPT !.bits[q[2]] = x] ELSE image[d]
    BY <1>5, <1>7, <2>1 DEF write_block, Block
  <2> HIDE DEF d, c
  <2>5. CASE d = c
    <3>1. image'[d] = [image[c] EXCEPT !.bits[q[2]] = x]
      BY <2>4, <2>5
    <3>2. image'[d].bits[p[2]] = IF p[2] = q[2] THEN x ELSE image[c].bits[p[2]]
      BY <1>6, <2>1, <3>1 DEF VolBlock
    <3> QED
      BY <2>2, <2>3, <2>5, <3>2
  <2>6. CASE d # c
    BY <2>2, <2>3, <2>4, <2>6
  <2> QED
    BY <2>5, <2>6
<1>8. \A t \in Types : Scanned(t)' = Scanned(t)
  BY DEF Scanned
<1>9. \A p \in Scanned(type) : p = q <=> p[1] = q[1] /\ p[2] = q[2] /\ BYTE - 1 - p[3] = bit
  <2> TAKE p \in Scanned(type)
  <2>1. /\ p = <<p[1], p[2], p[3]>> /\ q = <<q[1], q[2], q[3]>>
        /\ p[3] \in 0 .. BYTE - 1 /\ q[3] \in 0 .. BYTE - 1
    BY DEF Scanned
  <2>2. BYTE - 1 - p[3] = BYTE - 1 - q[3] <=> p[3] = q[3]
    BY <2>1, Geometries
  <2> QED
    BY <2>1, <2>2
<1>10. image[c].bits[q[2]] = Block(c).bits[q[2]] /\ \A p \in Scanned(type) :
         p[1] = q[1] /\ p[2] = q[2] => (IsSet(type, p) <=> BYTE - 1 - p[3] \in Block(c).bits[q[2]])
  BY <1>5 DEF IsSet, Block
<1> DEFINE old == Block(c).bits[q[2]]
<1>11. ASSUME set_bit(type, n)
       PROVE  write_block(c, [Block(c) EXCEPT !.bits[q[2]] = old \cup {bit}])
  BY <1>4, <1>11 DEF set_bit
<1>12. ASSUME clear_bit(type, n)
       PROVE  write_block(c, [Block(c) EXCEPT !.bits[q[2]] = old \ {bit}])
  BY <1>4, <1>12 DEF clear_bit
<1> HIDE DEF c, bit, old
<1>13. ASSUME set_bit(type, n) PROVE Marked(type)' = Marked(type) \cup {n}
  <2>1. \A p \in Scanned(type) : IsSet(type, p)' <=> IsSet(type, p) \/ p = q
    BY <1>7, <1>9, <1>10, <1>11, <1>13 DEF old
  <2> QED
    BY <1>3, <1>8, <2>1 DEF Marked
<1>14. ASSUME clear_bit(type, n) PROVE Marked(type)' = Marked(type) \ {n}
  <2>1. \A p \in Scanned(type) : IsSet(type, p)' <=> IsSet(type, p) /\ p # q
    <3> TAKE p \in Scanned(type)
    <3>1. IsSet(type, p)' <=> IF p[1] = q[1] /\ p[2] = q[2] THEN BYTE - 1 - p[3] \in old \ {bit}
                              ELSE IsSet(type, p)
      BY <1>7, <1>12, <1>14
    <3>2. CASE p[1] = q[1] /\ p[2] = q[2]
      <4>1. IsSet(type, p) <=> BYTE - 1 - p[3] \in old
        BY <1>10, <3>2 DEF old
      <4>2. p = q <=> BYTE - 1 - p[3] = bit
        BY <1>9, <3>2
      <4> QED
        BY <3>1, <3>2, <4>1, <4>2
    <3>3. CASE ~ (p[1] = q[1] /\ p[2] = q[2])
      BY <1>9, <3>1, <3>3
    <3> QED
      BY <3>2, <3>3
  <2>2. \A p \in Scanned(type) : Number(p) = n <=> p = q
    BY <1>1, <1>3, Numbering
  <2> QED
    BY <1>8, <2>1, <2>2 DEF Marked
<1>15. ASSUME set_bit(type, n) \/ clear_bit(type, n), NEW t \in Types, t # type
       PROVE  Marked(t)' = Marked(t)
  <2>1. \A p \in Scanned(t) : IsSet(t, p)' <=> IsSet(t, p)
    BY <1>7, <1>11, <1>12, <1>15
  <2> QED
    BY <1>8, <2>1 DEF Marked
<1> QED
  BY <1>13, <1>14, <1>15

\* Writing inodes.
LEMMA BitsKeptByInodes ==
  ASSUME NoWrap, VolumeInv, init_inode \/ InitInode \/ ReleaseInode, NEW type \in Types
  PROVE  Marked(type)' = Marked(type)
<1>1. Ready /\ sb' = sb
  BY InodeSteps, Standing
<1>2. PICK n \in 0 .. sb.s_ninodes - 1, tag \in 0 .. MaxInodes : write_disk_inode(n, tag)
  BY InodeSteps
<1>3. KnownSizes /\ data_block_start(sb) <= sb.s_fsize /\ DOMAIN image = Places(sb.s_fsize)
      /\ \A o \in DOMAIN image : image[o] \in VolBlock
  BY <1>1 DEF Ready, KnownSizes
<1>4. PICK b \in inode_list_start(sb) .. data_block_start(sb) - 1, new \in VolBlock :
        write_block(b, new) /\ b \in 2 .. sb.s_fsize - 1 /\ new.bits = Block(b).bits
  BY <1>2, <1>3, InodeTyped
<1>5. b \in 0 .. sb.s_fsize - 1
  BY <1>3, <1>4 DEF KnownSizes
<1> QED
  BY <1>1, <1>4, <1>5, BitsElsewhere

\* Writing the root directory and its inode, and data blocks.
LEMMA BitsKeptByBlocks ==
  ASSUME NoWrap, VolumeInv, WriteRootDir \/ WriteRootInode \/ ZeroAllocated \/ WriteData \/ ZeroFreed,
         NEW type \in Types
  PROVE  Marked(type)' = Marked(type)
<1>1. Ready /\ sb' = sb
  BY BlockSteps, Standing
<1>2. /\ sb.s_fsize \in Nat /\ data_block_start(sb) \in 2 .. sb.s_fsize - 1
      /\ inode_list_start(sb) \in 2 .. data_block_start(sb)
  BY <1>1, RoomLeft DEF Ready, KnownSizes
<1>3. \E b \in inode_list_start(sb) .. sb.s_fsize - 1 : \E new : write_block(b, new)
  <2>1. CASE WriteRootDir \/ WriteRootInode
    <3>1. /\ data_block_start(sb) \in inode_list_start(sb) .. sb.s_fsize - 1
          /\ inode_list_start(sb) \in inode_list_start(sb) .. sb.s_fsize - 1
      BY <1>2
    <3> QED
      BY <2>1, <3>1 DEF WriteRootDir, WriteRootInode
  <2>2. CASE ZeroAllocated \/ WriteData \/ ZeroFreed
    <3>1. k \in data_block_start(sb) .. sb.s_fsize - 1
      BY <2>2 DEF VolumeInv, IndexOK, ZeroAllocated, WriteData, ZeroFreed
    <3>2. k \in inode_list_start(sb) .. sb.s_fsize - 1
      BY <1>2, <3>1
    <3> QED
      BY <2>2, <3>2 DEF ZeroAllocated, WriteData, ZeroFreed, zero_block
  <2> QED
    BY <2>1, <2>2
<1>4. PICK b \in inode_list_start(sb) .. sb.s_fsize - 1 : \E new : write_block(b, new)
  BY <1>3
<1>5. b \in 0 .. sb.s_fsize - 1 /\ b >= inode_list_start(sb)
  BY <1>2, <1>4
<1> QED
  BY <1>1, <1>4, <1>5, BitsElsewhere

-----------------------------------------------------------------------------
(* Bits that are set stand for inodes and blocks of the volume.            *)

BitsFit ==
  /\ 0 \in Marked(INODE_BITMAP) /\ Marked(INODE_BITMAP) \subseteq Numbers(INODE_BITMAP)
  /\ 0 .. data_block_start(sb) - 1 \subseteq Marked(BLOCK_BITMAP)
  /\ Marked(BLOCK_BITMAP) \subseteq Numbers(BLOCK_BITMAP)

BitsInv ==
  /\ pc \in {"image", "superblock"}
       => \A o \in DOMAIN image, y \in 0 .. BLOCKSIZE - 1 : image[o].bits[y] = {}
  /\ pc \in {"inodes", "rootdir", "rootinode"}
       => Marked(INODE_BITMAP) = {} /\ Marked(BLOCK_BITMAP) = {}
  /\ pc = "ibitmap" => Marked(INODE_BITMAP) = 0 .. k - 1 /\ Marked(BLOCK_BITMAP) = {}
  /\ pc = "bbitmap" => /\ Marked(INODE_BITMAP) = 0 .. ROOT_INODE /\ ROOT_INODE < sb.s_ninodes
                       /\ Marked(BLOCK_BITMAP) = 0 .. k - 1
  /\ InMkfs => made = "no"
  /\ made = "success" => BitsFit

\* Nothing was written.
LEMMA BitsSame ==
  ASSUME image' = image, sb' = sb, NEW type \in Types
  PROVE  Marked(type)' = Marked(type)
  BY DEF Marked, Scanned, IsSet, Block

\* The bits that are set change in the steps below only.
LEMMA FitKept ==
  ASSUME BitsFit, sb' = sb, \A type \in Types : Marked(type)' = Marked(type)
  PROVE  BitsFit'
<1>1. /\ Marked(INODE_BITMAP)' = Marked(INODE_BITMAP) /\ Marked(BLOCK_BITMAP)' = Marked(BLOCK_BITMAP)
  BY DEF Types
<1>2. /\ Numbers(INODE_BITMAP)' = Numbers(INODE_BITMAP) /\ Numbers(BLOCK_BITMAP)' = Numbers(BLOCK_BITMAP)
  BY DEF Numbers
<1> QED
  BY <1>1, <1>2 DEF BitsFit

\* mkfs up to its superblock.
LEMMA BitsBlank ==
  ASSUME NoWrap, VolumeInv, BitsInv, mkfs \/ init_image \/ write_superblock
  PROVE  BitsInv'
<1>1. CASE mkfs
  BY <1>1 DEF mkfs, BitsInv, InMkfs
<1>2. CASE init_image
  <2>1. /\ pc = "image" /\ write_block(k, ZeroBlock) /\ pc' \in {"image", "superblock"}
        /\ made' = made /\ made = "no"
    BY <1>2 DEF init_image, zero_block, BitsInv, InMkfs
  <2>2. \A o \in DOMAIN image, y \in 0 .. BLOCKSIZE - 1 : image[o].bits[y] = {}
    BY <2>1 DEF BitsInv
  <2>3. \A y \in 0 .. BLOCKSIZE - 1 : ZeroBlock.bits[y] = {}
    BY DEF ZeroBlock
  <2>4. \A o \in DOMAIN image', y \in 0 .. BLOCKSIZE - 1 : image'[o].bits[y] = {}
    BY <2>1, <2>2, <2>3 DEF write_block
  <2> QED
    BY <2>1, <2>4 DEF BitsInv
<1>3. CASE write_superblock
  <2>1. /\ pc = "superblock" /\ pc' = "inodes" /\ ~Insufficient /\ sb' = sb
        /\ write_block(1, [Block(1) EXCEPT !.super = sb]) /\ made' = made /\ made = "no"
    BY <1>3 DEF write_superblock, BitsInv, InMkfs
  <2>2. Ready
    <3>1. sb # NoSuper /\ DOMAIN image = Places(sb.s_fsize) /\ Sized
      BY <2>1, SomeSize DEF VolumeInv, LaidOut
    <3>2. KnownSizes /\ sb = superblock(sb.s_ninodes, sb.s_fsize)
      BY <3>1, SizesKnown
    <3> QED
      BY <2>1, <3>1, <3>2, RoomLeft DEF Ready, VolumeInv
  <2>3. 1 \in 0 .. sb.s_fsize - 1
    BY <2>2 DEF Ready, KnownSizes
  <2>4. final_offset(1) = 1 /\ 1 \in DOMAIN image
    BY <2>2, <2>3, OffsetsExact DEF Ready, Places
  <2>5. \A o \in DOMAIN image', y \in 0 .. BLOCKSIZE - 1 : image'[o].bits[y] = {}
    <3>1. \A o \in DOMAIN image, y \in 0 .. BLOCKSIZE - 1 : image[o].bits[y] = {}
      BY <2>1 DEF BitsInv
    <3>2. image[1] \in VolBlock
      BY <2>2, <2>4 DEF Ready
    <3>3. [image[1] EXCEPT !.super = sb].bits = image[1].bits
      BY <3>2 DEF VolBlock
    <3> QED
      BY <2>1, <2>4, <3>1, <3>3 DEF write_block, Block
  <2>6. ASSUME NEW type \in Types PROVE Marked(type)' = {}
    <3>1. ASSUME NEW p \in Scanned(type) PROVE ~IsSet(type, p)'
      <4> DEFINE c == bitmap_start_block(sb, type) + p[1]
      <4>1. final_offset(c) = c /\ c \in DOMAIN image /\ p[2] \in 0 .. BLOCKSIZE - 1
        BY <2>2, BitBlock
      <4>2. c \in DOMAIN image'
        BY <2>1, <4>1 DEF write_block
      <4>3. IsSet(type, p)' <=> BYTE - 1 - p[3] \in image'[c].bits[p[2]]
        BY <2>1, <4>1 DEF IsSet, Block, bitmap_start_block
      <4> QED
        BY <2>5, <4>1, <4>2, <4>3
    <3>2. Scanned(type)' = Scanned(type)
      BY <2>1 DEF Scanned
    <3> QED
      BY <3>1, <3>2 DEF Marked
  <2>7. Marked(INODE_BITMAP)' = {} /\ Marked(BLOCK_BITMAP)' = {}
    BY <2>6 DEF Types
  <2> QED
    BY <2>1, <2>7 DEF BitsInv
<1> QED
  BY <1>1, <1>2, <1>3

\* The inode list, the root directory, and the blocks of files.
LEMMA BitsKept ==
  ASSUME NoWrap, VolumeInv, BitsInv,
         \/ init_inode \/ InitInode \/ ReleaseInode
         \/ WriteRootDir \/ WriteRootInode \/ ZeroAllocated \/ WriteData \/ ZeroFreed
  PROVE  BitsInv'
<1>1. \A type \in Types : Marked(type)' = Marked(type)
  BY BitsKeptByInodes, BitsKeptByBlocks
<1>2. sb' = sb
  BY DEF init_inode, InitInode, ReleaseInode, WriteRootDir, WriteRootInode, ZeroAllocated,
         WriteData, ZeroFreed
<1>3. /\ made' = made
      /\ \/ pc \in {"inodes", "rootdir", "rootinode"} /\ pc' \in {"inodes", "rootdir"}
         \/ pc = "rootdir" /\ pc' = "rootinode"
         \/ pc = "rootinode" /\ pc' = "ibitmap" /\ k' = k
         \/ ~InMkfs /\ pc' \in {"ready", "ifree", "bdata"}
  BY DEF init_inode, InitInode, ReleaseInode, WriteRootDir, WriteRootInode, ZeroAllocated,
         WriteData, ZeroFreed, AtWork, InTool, InMkfs
<1>4. /\ Marked(INODE_BITMAP)' = Marked(INODE_BITMAP) /\ Marked(BLOCK_BITMAP)' = Marked(BLOCK_BITMAP)
  BY <1>1 DEF Types
<1>5. made' = "success" => BitsFit'
  BY <1>1, <1>2, <1>3, FitKept DEF BitsInv
<1>6. InMkfs' => InMkfs /\ made' = "no"
  BY <1>3 DEF InMkfs, BitsInv
<1>7. pc = "rootinode" => k = 0
  BY DEF VolumeInv, IndexOK
<1>8. \/ pc \in {"inodes", "rootdir", "rootinode"} /\ pc' \in {"inodes", "rootdir", "rootinode"}
      \/ pc = "rootinode" /\ pc' = "ibitmap" /\ k' = 0
      \/ pc' \in {"ready", "ifree", "bdata"}
  BY <1>3, <1>7
<1>9. 0 .. 0 - 1 = {}
  OBVIOUS
<1> QED
  BY <1>4, <1>5, <1>6, <1>8, <1>9 DEF BitsInv

\* The bitmaps of mkfs.
LEMMA BitsMarked ==
  ASSUME NoWrap, VolumeInv, BitsInv, MarkInode \/ MarkBlock
  PROVE  BitsInv'
<1>1. sb' = sb /\ Ready
  BY Standing DEF MarkInode, MarkBlock
<1>2. /\ sb.s_ninodes \in Nat /\ sb.s_fsize \in Nat /\ data_block_start(sb) \in 2 .. sb.s_fsize - 1
  BY <1>1 DEF Ready, KnownSizes
<1>3. CASE MarkInode
  <2>1. /\ pc = "ibitmap" /\ k \in 0 .. ROOT_INODE /\ k < sb.s_ninodes /\ made' = made /\ made = "no"
        /\ set_bit(INODE_BITMAP, k)
        /\ IF k + 1 <= ROOT_INODE THEN k' = k + 1 /\ pc' = pc ELSE k' = 0 /\ pc' = "bbitmap"
    BY <1>3 DEF MarkInode, in_range, VolumeInv, IndexOK, BitsInv, InMkfs
  <2>2. Marked(INODE_BITMAP) = 0 .. k - 1 /\ Marked(BLOCK_BITMAP) = {}
    BY <2>1 DEF BitsInv
  <2>3. k \in Numbers(INODE_BITMAP)
    BY <1>2, <2>1 DEF Numbers, ROOT_INODE
  <2>4. Marked(INODE_BITMAP)' = Marked(INODE_BITMAP) \cup {k}
    BY <1>1, <2>1, <2>3, BitChanged DEF Types
  <2>5. Marked(BLOCK_BITMAP)' = Marked(BLOCK_BITMAP)
    BY <1>1, <2>1, <2>3, BitChanged DEF Types, INODE_BITMAP, BLOCK_BITMAP
  <2>6. Marked(INODE_BITMAP)' = 0 .. k
    BY <2>1, <2>2, <2>4 DEF ROOT_INODE
  <2>7. CASE k + 1 <= ROOT_INODE
    <3>1. k' = k + 1 /\ pc' = "ibitmap" /\ k' - 1 = k
      BY <2>1, <2>7 DEF ROOT_INODE
    <3> QED
      BY <2>1, <2>2, <2>5, <2>6, <3>1 DEF BitsInv
  <2>8. CASE ~ (k + 1 <= ROOT_INODE)
    <3>1. k' = 0 /\ pc' = "bbitmap" /\ k = ROOT_INODE /\ 0 .. k' - 1 = {}
      BY <2>1, <2>8 DEF ROOT_INODE
    <3> QED
      BY <1>1, <2>1, <2>2, <2>5, <2>6, <3>1 DEF BitsInv
  <2> QED
    BY <2>7, <2>8
<1>4. CASE MarkBlock
  <2>1. /\ pc = "bbitmap" /\ k \in 0 .. data_block_start(sb) /\ made = "no"
        /\ set_bit(BLOCK_BITMAP, k)
        /\ IF k + 1 <= data_block_start(sb) THEN k' = k + 1 /\ pc' = pc /\ made' = made
                                            ELSE k' = 0 /\ pc' = "exit" /\ made' = "success"
    BY <1>4 DEF MarkBlock, VolumeInv, IndexOK, BitsInv, InMkfs
  <2>2. /\ Marked(INODE_BITMAP) = 0 .. ROOT_INODE /\ ROOT_INODE < sb.s_ninodes
        /\ Marked(BLOCK_BITMAP) = 0 .. k - 1
    BY <2>1 DEF BitsInv
  <2>3. k \in Numbers(BLOCK_BITMAP)
    BY <1>2, <2>1 DEF Numbers, INODE_BITMAP, BLOCK_BITMAP
  <2>4. Marked(BLOCK_BITMAP)' = Marked(BLOCK_BITMAP) \cup {k}
    BY <1>1, <2>1, <2>3, BitChanged DEF Types
  <2>5. Marked(INODE_BITMAP)' = Marked(INODE_BITMAP)
    BY <1>1, <2>1, <2>3, BitChanged DEF Types, INODE_BITMAP, BLOCK_BITMAP
  <2>6. Marked(BLOCK_BITMAP)' = 0 .. k
    BY <1>2, <2>1, <2>2, <2>4
  <2>7. CASE k + 1 <= data_block_start(sb)
    <3>1. k' = k + 1 /\ pc' = "bbitmap" /\ made' = "no" /\ k' - 1 = k
      BY <1>2, <2>1, <2>7
    <3> QED
      BY <1>1, <2>1, <2>2, <2>5, <2>6, <3>1 DEF BitsInv
  <2>8. CASE ~ (k + 1 <= data_block_start(sb))
    <3>1. pc' = "exit" /\ k = data_block_start(sb)
      BY <1>2, <2>1, <2>8
    <3>2. /\ 0 .. data_block_start(sb) - 1 \subseteq 0 .. k /\ 0 .. k \subseteq 0 .. sb.s_fsize - 1
          /\ 0 .. ROOT_INODE \subseteq 0 .. sb.s_ninodes - 1 /\ 0 \in 0 .. ROOT_INODE
      BY <1>2, <2>2, <3>1 DEF ROOT_INODE
    <3>3. Numbers(INODE_BITMAP)' = 0 .. sb.s_ninodes - 1 /\ Numbers(BLOCK_BITMAP)' = 0 .. sb.s_fsize - 1
      BY <1>1 DEF Numbers, INODE_BITMAP, BLOCK_BITMAP
    <3>4. data_block_start(sb)' = data_block_start(sb)
      BY <1>1
    <3>5. BitsFit'
      BY <2>2, <2>5, <2>6, <3>2, <3>3, <3>4 DEF BitsFit
    <3> QED
      BY <3>1, <3>5 DEF BitsInv, InMkfs
  <2> QED
    BY <2>7, <2>8
<1> QED
  BY <1>3, <1>4

\* The bitmaps of the tools: no bit of the metadata is ever cleared, and none past
\* the volume is set.
LEMMA BitsAllocated ==
  ASSUME NoWrap, VolumeInv, BitsInv, alloc_block \/ free_block \/ alloc_inode \/ free_inode
  PROVE  BitsInv'
<1>1. /\ sb' = sb /\ made' = made /\ ~InMkfs' /\ pc \notin {"exit", "image", "superblock"}
      /\ pc' \in {"bzero", "bfree", "iwrite", "ready"}
  BY DEF alloc_block, free_block, alloc_inode, free_inode, AtWork, InTool, InMkfs
<1>2. Ready
  BY <1>1, Standing
<1>3. /\ sb.s_ninodes \in Nat /\ sb.s_fsize \in Nat /\ data_block_start(sb) \in 2 .. sb.s_fsize - 1
  BY <1>2 DEF Ready, KnownSizes
<1>4. /\ Numbers(INODE_BITMAP) = 0 .. sb.s_ninodes - 1 /\ Numbers(BLOCK_BITMAP) = 0 .. sb.s_fsize - 1
      /\ Numbers(INODE_BITMAP)' = Numbers(INODE_BITMAP) /\ Numbers(BLOCK_BITMAP)' = Numbers(BLOCK_BITMAP)
      /\ data_block_start(sb)' = data_block_start(sb)
  BY <1>1 DEF Numbers, INODE_BITMAP, BLOCK_BITMAP
<1> SUFFICES ASSUME BitsFit PROVE BitsFit'
  BY <1>1 DEF BitsInv
<1>5. CASE alloc_block \/ free_block
  <2>1. PICK b \in Candidates(BLOCK_BITMAP) \cup Marked(BLOCK_BITMAP) :
          /\ ~badblock(sb, b)
          /\ set_bit(BLOCK_BITMAP, b) \/ clear_bit(BLOCK_BITMAP, b)
    BY <1>2, <1>5, AllocBlockIs DEF free_block, Ready
  <2>2. b \in Nat
    BY <1>2, <2>1, NumbersNat DEF Ready, Candidates, Clear, Marked
  <2>3. b \in Numbers(BLOCK_BITMAP) /\ b \notin 0 .. data_block_start(sb) - 1
    BY <1>3, <1>4, <2>1, <2>2 DEF badblock
  <2>4. Marked(INODE_BITMAP)' = Marked(INODE_BITMAP)
    BY <1>1, <1>2, <2>1, <2>3, BitChanged DEF Types, INODE_BITMAP, BLOCK_BITMAP
  <2>5. Marked(BLOCK_BITMAP)' \in {Marked(BLOCK_BITMAP) \cup {b}, Marked(BLOCK_BITMAP) \ {b}}
    BY <1>1, <1>2, <2>1, <2>3, BitChanged DEF Types
  <2> QED
    BY <1>4, <2>3, <2>4, <2>5 DEF BitsFit
<1>6. CASE alloc_inode \/ free_inode
  <2>1. PICK n \in Nat : /\ n # 0 /\ n < sb.s_ninodes
                         /\ set_bit(INODE_BITMAP, n) \/ clear_bit(INODE_BITMAP, n)
    <3>1. CASE alloc_inode
      <4>1. PICK n \in Candidates(INODE_BITMAP) :
              set_bit(INODE_BITMAP, n) /\ n # 0 /\ n < sb.s_ninodes
        BY <1>2, <3>1, AllocInodeIs DEF Ready
      <4>2. n \in Nat /\ n # 0 /\ n < sb.s_ninodes
        BY <1>2, <4>1, NumbersNat DEF Ready, Candidates, Clear
      <4> QED
        BY <4>1, <4>2
    <3>2. CASE free_inode
      <4>1. pc = "ifree" /\ clear_bit(INODE_BITMAP, k)
        BY <3>2 DEF free_inode
      <4>2. k \in 1 .. sb.s_ninodes - 1
        BY <4>1 DEF VolumeInv, IndexOK
      <4>3. k \in Nat /\ k # 0 /\ k < sb.s_ninodes
        BY <1>3, <4>2
      <4> QED
        BY <4>1, <4>3
    <3> QED
      BY <1>6, <3>1, <3>2
  <2>2. n \in Numbers(INODE_BITMAP)
    BY <1>3, <1>4, <2>1
  <2>3. Marked(BLOCK_BITMAP)' = Marked(BLOCK_BITMAP)
    BY <1>1, <1>2, <2>1, <2>2, BitChanged DEF Types, INODE_BITMAP, BLOCK_BITMAP
  <2>4. Marked(INODE_BITMAP)' \in {Marked(INODE_BITMAP) \cup {n}, Marked(INODE_BITMAP) \ {n}}
    BY <1>1, <1>2, <2>1, <2>2, BitChanged DEF Types
  <2> QED
    BY <1>4, <2>1, <2>2, <2>3, <2>4 DEF BitsFit
<1> QED
  BY <1>5, <1>6

\* Every step keeps the count of the bits.
LEMMA BitsStep ==
  ASSUME NoWrap, VolumeInv, BitsInv, [Next]_vars
  PROVE  BitsInv'
<1>1. ASSUME NEW how \in {"refused", "einval", "failed", "killed"}, Stops(how) PROVE BitsInv'
  BY <1>1 DEF Stops, BitsInv, InMkfs
<1>2. ASSUME UNCHANGED <<image, sb, made>>, pc' \in {pc, "ready", "exit"}, k' = k PROVE BitsInv'
  <2>1. \A type \in Types : Marked(type)' = Marked(type)
    BY <1>2, BitsSame
  <2>2. Marked(INODE_BITMAP)' = Marked(INODE_BITMAP) /\ Marked(BLOCK_BITMAP)' = Marked(BLOCK_BITMAP)
    BY <2>1 DEF Types
  <2>3. BitsFit => BitsFit'
    BY <1>2, <2>1, FitKept
  <2> QED
    BY <1>2, <2>2, <2>3 DEF BitsInv, InMkfs
<1>3. CASE OpenImage \/ CloseImage \/ alloc_block_fails \/ UNCHANGED vars
  <2>1. OpenImage => sb' = sb
    BY DEF OpenImage, VolumeInv, Accepted, VolBlock
  <2>2. UNCHANGED <<image, sb, made>> /\ pc' \in {pc, "ready", "exit"} /\ k' = k
    BY <1>3, <2>1 DEF OpenImage, CloseImage, alloc_block_fails, vars
  <2> QED
    BY <1>2, <2>2
<1>4. CASE InsufficientBlocks \/ MarkInodeFails \/ Kill \/ WriteFails
  BY <1>1, <1>4 DEF InsufficientBlocks, MarkInodeFails, Kill, WriteFails
<1> QED
  BY <1>3, <1>4, BitsBlank, BitsKept, BitsMarked, BitsAllocated
     DEF Next, Mkfs, Tool, Library

\* So it always holds.
LEMMA BitsAlways ==
  ASSUME NoWrap
  PROVE  Spec => []BitsInv
<1>1. Init => BitsInv
  BY DEF Init, BitsInv, InMkfs
<1>2. VolumeInv /\ BitsInv /\ [Next]_vars => BitsInv'
  BY BitsStep
<1> QED
  BY <1>1, <1>2, VolumeAlways, PTL DEF Spec

\* The free inodes and blocks are what the bits leave of the volume.
LEMMA Counted ==
  ASSUME Ready, BitsFit, NEW type \in Types
  PROVE  /\ Candidates(type) = Numbers(type) \ Marked(type)
         /\ Cardinality(Numbers(type) \ Marked(type))
              = (IF type = INODE_BITMAP THEN sb.s_ninodes ELSE sb.s_fsize) - count_bits(type)
<1> DEFINE total == IF type = INODE_BITMAP THEN sb.s_ninodes ELSE sb.s_fsize
<1>1. KnownSizes
  BY DEF Ready
<1>2. /\ sb.s_ninodes \in Nat /\ sb.s_fsize \in Nat /\ total \in Nat \ {0} /\ INODE_BITMAP # BLOCK_BITMAP
      /\ data_block_start(sb) \in 2 .. sb.s_fsize - 1
  BY DEF Ready, KnownSizes, INODE_BITMAP, BLOCK_BITMAP
<1>3. type \in {INODE_BITMAP, BLOCK_BITMAP}
  BY DEF Types
<1>4. Clear(type) = BitsOf(type) \ Marked(type) /\ Marked(type) \subseteq BitsOf(type)
  BY <1>1, MarkedAre
<1>5. Numbers(type) = 0 .. total - 1
  BY <1>3 DEF Numbers
<1>6. Numbers(type) \subseteq BitsOf(type) /\ BitsOf(type) \subseteq Nat
  <2>1. /\ bitmap_blocks(sb, type) * BLOCK_BIT_SIZE \in Nat
        /\ total <= bitmap_blocks(sb, type) * BLOCK_BIT_SIZE
    BY <1>1, <1>2, Geometries DEF KnownSizes, Regions, bitmap_blocks
  <2> QED
    BY <1>2, <1>5, <2>1 DEF BitsOf
<1>7. Marked(type) \subseteq Numbers(type)
  BY <1>3 DEF BitsFit
<1>8. Candidates(type) = Numbers(type) \ Marked(type)
  <2>1. CASE type = INODE_BITMAP
    <3>1. Candidates(type) = {n \in Clear(type) : n # 0 /\ n < sb.s_ninodes}
      BY <2>1 DEF Candidates, Usable
    <3>2. 0 \in Marked(type) /\ total = sb.s_ninodes
      BY <2>1 DEF BitsFit
    <3>3. \A n \in Nat : n \in Numbers(type) <=> n < sb.s_ninodes
      BY <1>2, <1>5, <3>2
    <3> HIDE DEF total
    <3> QED
      BY <1>4, <1>6, <3>1, <3>2, <3>3
  <2>2. CASE type = BLOCK_BITMAP
    <3>1. Candidates(type) = {n \in Clear(type) : ~badblock(sb, n)}
      BY <1>2, <2>2 DEF Candidates, Usable
    <3>2. 0 .. data_block_start(sb) - 1 \subseteq Marked(type) /\ total = sb.s_fsize
      BY <1>2, <2>2 DEF BitsFit
    <3>3. \A n \in Nat : n \in Numbers(type) <=> n < sb.s_fsize
      BY <1>2, <1>5, <3>2
    <3>4. \A n \in Nat : n \notin Marked(type) => n >= data_block_start(sb)
      BY <1>2, <3>2
    <3>5. \A n \in Nat : badblock(sb, n) <=> ~ (n >= data_block_start(sb)) \/ ~ (n < sb.s_fsize)
      BY <1>2 DEF badblock
    <3> HIDE DEF total
    <3> QED
      BY <1>4, <1>6, <3>1, <3>3, <3>4, <3>5
  <2> QED
    BY <1>3, <2>1, <2>2
<1>9. Cardinality(Numbers(type) \ Marked(type)) = total - count_bits(type)
  <2>1. count_bits(type) = Cardinality(Marked(type)) /\ IsFiniteSet(Marked(type))
    BY <1>1, CountIs
  <2>2. IsFiniteSet(Numbers(type)) /\ Cardinality(Numbers(type)) = total
    <3>1. PICK t \in Nat \ {0} : t = total
      BY <1>2
    <3>2. t - 1 \in Int /\ 0 \in Int /\ ~ (0 > t - 1) /\ t - 1 - 0 + 1 = t
      BY <3>1
    <3>3. IsFiniteSet(0 .. t - 1) /\ Cardinality(0 .. t - 1) = t
      BY <3>2, FS_Interval
    <3> HIDE DEF total
    <3> QED
      BY <1>5, <3>1, <3>3
  <2>3. Numbers(type) \cap Marked(type) = Marked(type)
    BY <1>7
  <2> HIDE DEF total
  <2>4. Cardinality(Numbers(type) \ Marked(type))
          = Cardinality(Numbers(type)) - Cardinality(Numbers(type) \cap Marked(type))
    BY <2>2, FS_Difference
  <2> QED
    BY <2>1, <2>2, <2>3, <2>4
<1> QED
  BY <1>8, <1>9

\* What df prints is that count.
LEMMA DfIs ==
  ASSUME VolumeInv, BitsInv
  PROVE  DfExact
<1> SUFFICES ASSUME Formatted
             PROVE  /\ ifree = Cardinality(Candidates(INODE_BITMAP))
                    /\ bavail = Cardinality(Candidates(BLOCK_BITMAP))
  BY DEF DfExact
<1>1. Ready
  BY Standing DEF Formatted, VolumeInv
<1>2. BitsFit
  BY DEF BitsInv, Formatted
<1>3. /\ Candidates(INODE_BITMAP) = Numbers(INODE_BITMAP) \ Marked(INODE_BITMAP)
      /\ Cardinality(Numbers(INODE_BITMAP) \ Marked(INODE_BITMAP)) = sb.s_ninodes - count_bits(INODE_BITMAP)
  BY <1>1, <1>2, Counted DEF Types
<1>4. /\ Candidates(BLOCK_BITMAP) = Numbers(BLOCK_BITMAP) \ Marked(BLOCK_BITMAP)
      /\ Cardinality(Numbers(BLOCK_BITMAP) \ Marked(BLOCK_BITMAP)) = sb.s_fsize - count_bits(BLOCK_BITMAP)
  BY <1>1, <1>2, Counted DEF Types, INODE_BITMAP, BLOCK_BITMAP
<1> QED
  BY <1>3, <1>4 DEF ifree, bavail

\* On a formatted volume, df's free inodes and free blocks are exactly those that
\* alloc_inode and alloc_block may still hand out, for every geometry (df.c:52, 72):
\* every set bit stands for an inode or block of the volume, and those of the
\* metadata are never cleared.
THEOREM DfIsExact ==
  ASSUME NoWrap
  PROVE  Spec => []DfExact
<1>1. VolumeInv /\ BitsInv => DfExact
  BY DfIs
<1> QED
  BY <1>1, VolumeAlways, BitsAlways, PTL

\* The steps that change the answer.
LEMMA Answers ==
  ASSUME VolumeInv, BitsInv, [Next]_vars, result' # result, result' \in {ENOSPC, EIO}
  PROVE  alloc_block_fails
<1>1. ENOSPC \notin Nat /\ EIO \notin Nat
  BY DEF ENOSPC, EIO
<1>2. ~ (mkfs \/ CloseImage)
  BY <1>1 DEF mkfs, CloseImage
<1>3. ~alloc_block
  <2> SUFFICES ASSUME alloc_block PROVE FALSE
    OBVIOUS
  <2>1. Ready
    BY Standing DEF alloc_block, AtWork, InTool
  <2>2. PICK b \in Candidates(BLOCK_BITMAP) : result' = b
    BY <2>1, AllocBlockIs DEF Ready
  <2>3. b \in Nat
    BY <2>1, <2>2, NumbersNat DEF Ready, Candidates, Clear
  <2> QED
    BY <1>1, <2>2, <2>3
<1>4. ~ (init_image \/ InsufficientBlocks \/ write_superblock \/ init_inode \/ WriteRootDir
         \/ WriteRootInode \/ MarkInode \/ MarkInodeFails \/ MarkBlock \/ Kill \/ WriteFails)
  BY DEF init_image, InsufficientBlocks, write_superblock, init_inode, WriteRootDir,
         WriteRootInode, MarkInode, MarkInodeFails, MarkBlock, Kill, WriteFails, Stops
<1>5. ~ (OpenImage \/ ZeroAllocated \/ WriteData \/ free_block \/ ZeroFreed \/ alloc_inode
         \/ InitInode \/ ReleaseInode \/ free_inode \/ UNCHANGED vars)
  BY DEF OpenImage, ZeroAllocated, WriteData, free_block, ZeroFreed, alloc_inode, InitInode,
         ReleaseInode, free_inode, vars
<1> QED
  BY <1>2, <1>3, <1>4, <1>5 DEF Next, Mkfs, Tool, Library

\* The bitmap has a bit for the number s_fsize, unless its size is a multiple of
\* those of its blocks.
LEMMA SpareBits ==
  ASSUME KnownSizes, sb = superblock(sb.s_ninodes, sb.s_fsize)
  PROVE  /\ sb.s_fsize \in Nat
         /\ sb.s_fsize % BLOCK_BIT_SIZE # 0 => sb.s_fsize \in BitsOf(BLOCK_BITMAP)
         /\ sb.s_fsize % BLOCK_BIT_SIZE = 0 => BitsOf(BLOCK_BITMAP) = 0 .. sb.s_fsize - 1
<1>1. PICK n \in Nat, d \in Nat \ {0} : n = sb.s_fsize /\ d = BLOCK_BIT_SIZE
  BY Geometries DEF KnownSizes
<1>2. PICK a \in Nat, r \in 0 .. d - 1 : a = n \div d /\ r = n % d /\ n = a * d + r
  BY Division
<1>3. sb.s_block_map_size = DivUp(n, d)
  BY <1>1 DEF superblock, get_block_bitmap_block_size
<1>4. BitsOf(BLOCK_BITMAP) = 0 .. DivUp(n, d) * d - 1
  BY <1>1, <1>3 DEF BitsOf, bitmap_blocks, INODE_BITMAP, BLOCK_BITMAP
<1>5. a * d \in Nat /\ r \in Nat /\ d \in Nat
  BY <1>2
<1>6. CASE r = 0
  <2>1. DivUp(n, d) = a
    BY <1>2, <1>6 DEF DivUp
  <2> QED
    BY <1>1, <1>2, <1>4, <1>5, <1>6, <2>1
<1>7. CASE r > 0
  <2>1. DivUp(n, d) = a + 1 /\ (a + 1) * d = a * d + d
    BY <1>2, <1>5, <1>7 DEF DivUp
  <2>2. n % d # 0
    BY <1>2, <1>7
  <2>3. n \in 0 .. (a * d + d) - 1
    <3>1. PICK e \in Nat : e = a * d
      BY <1>5
    <3> QED
      BY <1>2, <1>5, <3>1
  <2>4. BitsOf(BLOCK_BITMAP) = 0 .. (a * d + d) - 1
    BY <1>4, <2>1
  <2> QED
    BY <1>1, <2>2, <2>3, <2>4
<1> QED
  BY <1>1, <1>5, <1>6, <1>7

\* alloc_block fails only on a full volume; its loops come to the number s_fsize, and
\* the answer is ENOSPC, unless the last block of the bitmap has no bits to spare
\* (allocator.c:32, 66).
THEOREM FullVolumes ==
  ASSUME NoWrap
  PROVE  Spec => FullVolumeAnswered
<1> DEFINE Told == result' # result /\ result' \in {ENOSPC, EIO}
                     => /\ Formatted => bavail = 0
                        /\ result' = EIO <=> sb.s_fsize % BLOCK_BIT_SIZE = 0
<1>1. ASSUME VolumeInv, BitsInv, [Next]_vars PROVE Told
  <2> SUFFICES ASSUME result' # result, result' \in {ENOSPC, EIO}
               PROVE  /\ Formatted => bavail = 0
                      /\ result' = EIO <=> sb.s_fsize % BLOCK_BIT_SIZE = 0
    OBVIOUS
  <2>1. alloc_block_fails
    BY <1>1, Answers
  <2>2. pc = "ready" /\ KnownSizes /\ Candidates(BLOCK_BITMAP) = {}
    BY <1>1, <2>1, AllocBlockFailsIs
  <2>3. Formatted => bavail = 0
    <3>1. DfExact
      BY <1>1, DfIs
    <3>2. Cardinality(Candidates(BLOCK_BITMAP)) = 0
      BY <2>2, FS_EmptySet
    <3> QED
      BY <3>1, <3>2 DEF DfExact
  <2>4. /\ sb.s_fsize \in Nat
        /\ sb.s_fsize % BLOCK_BIT_SIZE # 0 => sb.s_fsize \in BitsOf(BLOCK_BITMAP)
        /\ sb.s_fsize % BLOCK_BIT_SIZE = 0 => BitsOf(BLOCK_BITMAP) = 0 .. sb.s_fsize - 1
    BY <1>1, <2>2, Standing, SpareBits DEF Ready
  <2>5. ASSUME result' = EIO PROVE sb.s_fsize % BLOCK_BIT_SIZE = 0
    <3>1. Halts(BLOCK_BITMAP) = {}
      BY <2>1, <2>5 DEF alloc_block_fails, ENOSPC, EIO
    <3> SUFFICES ASSUME sb.s_fsize \in BitsOf(BLOCK_BITMAP) PROVE FALSE
      BY <2>4
    <3>2. PICK p \in Scanned(BLOCK_BITMAP) : Number(p) = sb.s_fsize
      BY <2>2, Numbering DEF Types
    <3>3. p \in Halts(BLOCK_BITMAP)
      BY <2>4, <3>2 DEF Halts, Limit, INODE_BITMAP, BLOCK_BITMAP
    <3> QED
      BY <3>1, <3>3
  <2>6. ASSUME sb.s_fsize % BLOCK_BIT_SIZE = 0 PROVE result' = EIO
    <3>1. \A p \in Scanned(BLOCK_BITMAP) : Number(p) \in 0 .. sb.s_fsize - 1
      BY <2>2, <2>4, <2>6, Numbering DEF Types
    <3>2. ~ \E p \in Scanned(BLOCK_BITMAP) : Number(p) >= sb.s_fsize
      BY <2>4, <3>1
    <3> QED
      BY <2>1, <3>2 DEF alloc_block_fails
  <2> QED
    BY <2>3, <2>5, <2>6
<1>2. VolumeInv /\ BitsInv /\ [Next]_vars => Told
  BY <1>1
<1>3. [](VolumeInv /\ BitsInv) /\ [][Next]_vars => [][Told]_vars
  BY <1>2, PTL
<1> QED
  BY <1>3, VolumeAlways, BitsAlways, PTL DEF Spec, FullVolumeAnswered

-----------------------------------------------------------------------------
(* What the writes do to the inodes and the data.                          *)

\* The block that is written becomes new, the others stay.
LEMMA BlockWritten ==
  ASSUME NoWrap, Ready, sb' = sb, NEW b \in 0 .. sb.s_fsize - 1, NEW new, write_block(b, new),
         NEW c \in 0 .. sb.s_fsize - 1
  PROVE  Block(c)' = IF c = b THEN new ELSE Block(c)
<1>1. final_offset(b) = b /\ final_offset(c) = c
  BY OffsetsExact DEF Ready
<1>2. c \in DOMAIN image
  BY <1>1 DEF Ready, Places
<1> QED
  BY <1>1, <1>2 DEF write_block, Block, final_offset

\* The block of a volume has the form of one.
LEMMA BlockTyped ==
  ASSUME Ready, NEW b \in 0 .. sb.s_fsize - 1
  PROVE  Block(b) \in VolBlock
<1>1. final_offset(b) \in DOMAIN image
  BY DEF Ready, Places
<1> QED
  BY <1>1 DEF Ready, Block

\* The place of an inode, as a block and a slot of it.
LEMMA InodeBlock ==
  ASSUME Ready, NEW n \in 0 .. sb.s_ninodes - 1
  PROVE  /\ InodePlace(sb, n).block \in 0 .. sb.s_fsize - 1
         /\ InodePlace(sb, n).block \in inode_list_start(sb) .. data_block_start(sb) - 1
         /\ InodePlace(sb, n).slot \in 0 .. InodesPerBlock - 1
<1>1. /\ InodePlace(sb, n).block \in inode_list_start(sb) .. data_block_start(sb) - 1
      /\ InodePlace(sb, n).slot \in 0 .. InodesPerBlock - 1
  BY InodePlaced DEF Ready
<1>2. /\ inode_list_start(sb) \in 2 .. data_block_start(sb) /\ sb.s_fsize \in Nat
      /\ data_block_start(sb) \in 2 .. sb.s_fsize - 1
  BY RoomLeft DEF Ready, KnownSizes
<1>3. InodePlace(sb, n).block \in 0 .. sb.s_fsize - 1
  BY <1>1, <1>2
<1> QED
  BY <1>1, <1>3

\* Different inodes lie in different places.
LEMMA InodesApart ==
  ASSUME Ready, NEW n \in 0 .. sb.s_ninodes - 1, NEW m \in 0 .. sb.s_ninodes - 1,
         InodePlace(sb, n).block = InodePlace(sb, m).block,
         InodePlace(sb, n).slot = InodePlace(sb, m).slot
  PROVE  n = m
<1>1. n \in Nat /\ m \in Nat /\ InodesPerBlock \in Nat \ {0} /\ inode_list_start(sb) \in Nat
  BY Geometries DEF Ready, KnownSizes, Regions
<1>2. /\ n \div InodesPerBlock \in Nat /\ m \div InodesPerBlock \in Nat
      /\ n = (n \div InodesPerBlock) * InodesPerBlock + (n % InodesPerBlock)
      /\ m = (m \div InodesPerBlock) * InodesPerBlock + (m % InodesPerBlock)
  BY <1>1, Division
<1>3. n % InodesPerBlock = m % InodesPerBlock
  BY DEF InodePlace
<1>4. inode_list_start(sb) + (n \div InodesPerBlock) = inode_list_start(sb) + (m \div InodesPerBlock)
  BY DEF InodePlace
<1>5. n \div InodesPerBlock = m \div InodesPerBlock
  BY <1>1, <1>2, <1>4
<1> QED
  BY <1>2, <1>3, <1>5

\* A write of an inode changes that inode, and no data.
LEMMA InodeChanged ==
  ASSUME NoWrap, Ready, sb' = sb, NEW n \in 0 .. sb.s_ninodes - 1, NEW tag, write_disk_inode(n, tag)
  PROVE  /\ \A m \in 0 .. sb.s_ninodes - 1 : InodeWritten(m)' = IF m = n THEN tag ELSE InodeWritten(m)
         /\ \A b \in 0 .. sb.s_fsize - 1 : Block(b)'.data = Block(b).data
<1> DEFINE at == InodePlace(sb, n)
           c == at.block
           new == [Block(c) EXCEPT !.inodes[at.slot] = tag]
<1>1. write_block(c, new)
  BY DEF write_disk_inode
<1>2. c \in 0 .. sb.s_fsize - 1 /\ at.slot \in 0 .. InodesPerBlock - 1
  BY InodeBlock
<1>3. Block(c) \in VolBlock
  BY <1>2, BlockTyped
<1>4. /\ new.data = Block(c).data
      /\ \A s \in 0 .. InodesPerBlock - 1 : new.inodes[s] = IF s = at.slot THEN tag ELSE Block(c).inodes[s]
  BY <1>2, <1>3 DEF VolBlock
<1> HIDE DEF new
<1>5. \A b \in 0 .. sb.s_fsize - 1 : Block(b)' = IF b = c THEN new ELSE Block(b)
  BY <1>1, <1>2, BlockWritten
<1>6. ASSUME NEW m \in 0 .. sb.s_ninodes - 1
      PROVE  InodeWritten(m)' = IF m = n THEN tag ELSE InodeWritten(m)
  <2> DEFINE d == InodePlace(sb, m).block
             s == InodePlace(sb, m).slot
  <2>1. d \in 0 .. sb.s_fsize - 1 /\ s \in 0 .. InodesPerBlock - 1
    BY InodeBlock
  <2>2. d = c /\ s = at.slot => m = n
    BY InodesApart
  <2>3. InodeWritten(m) = Block(d).inodes[s]
    BY DEF InodeWritten
  <2>4. PICK x, y : x = d /\ y = s
    OBVIOUS
  <2>5. Block(x)' = IF x = c THEN new ELSE Block(x)
    BY <1>5, <2>1, <2>4
  <2>6. InodeWritten(m)' = Block(x)'.inodes[y]
    BY <2>4 DEF InodeWritten
  <2>7. n = m => d = c /\ s = at.slot
    OBVIOUS
  <2> HIDE DEF d, s, c, at
  <2> QED
    BY <1>4, <2>1, <2>2, <2>3, <2>4, <2>5, <2>6, <2>7
<1>7. \A b \in 0 .. sb.s_fsize - 1 : Block(b)'.data = Block(b).data
  BY <1>4, <1>5
<1> QED
  BY <1>6, <1>7

\* A write of a data block leaves the inodes.
LEMMA DataChanged ==
  ASSUME NoWrap, Ready, sb' = sb, NEW b \in data_block_start(sb) .. sb.s_fsize - 1, NEW new, write_block(b, new)
  PROVE  /\ \A m \in 0 .. sb.s_ninodes - 1 : InodeWritten(m)' = InodeWritten(m)
         /\ \A c \in 0 .. sb.s_fsize - 1 : Block(c)' = IF c = b THEN new ELSE Block(c)
<1>1. b \in 0 .. sb.s_fsize - 1 /\ data_block_start(sb) \in Nat
  BY DEF Ready, KnownSizes
<1>2. \A c \in 0 .. sb.s_fsize - 1 : Block(c)' = IF c = b THEN new ELSE Block(c)
  BY <1>1, BlockWritten
<1>3. ASSUME NEW m \in 0 .. sb.s_ninodes - 1
      PROVE  InodeWritten(m)' = InodeWritten(m)
  <2>1. PICK x, y : x = InodePlace(sb, m).block /\ y = InodePlace(sb, m).slot
    OBVIOUS
  <2>2. x \in 0 .. sb.s_fsize - 1 /\ x < data_block_start(sb) /\ inode_list_start(sb) \in Nat
    BY <2>1, InodeBlock, <1>1 DEF Ready, KnownSizes, Regions
  <2>3. Block(x)' = Block(x)
    BY <1>1, <1>2, <2>2
  <2>4. InodeWritten(m) = Block(x).inodes[y] /\ InodeWritten(m)' = Block(x)'.inodes[y]
    BY <2>1 DEF InodeWritten
  <2> QED
    BY <2>3, <2>4
<1> QED
  BY <1>2, <1>3

\* A write of bits, or of the superblock, leaves inodes and data.
LEMMA NeitherChanged ==
  ASSUME NoWrap, Ready, sb' = sb, NEW b \in 0 .. sb.s_fsize - 1, NEW new, write_block(b, new),
         new.inodes = Block(b).inodes, new.data = Block(b).data
  PROVE  /\ \A m \in 0 .. sb.s_ninodes - 1 : InodeWritten(m)' = InodeWritten(m)
         /\ \A c \in 0 .. sb.s_fsize - 1 : Block(c)'.data = Block(c).data
<1>1. \A c \in 0 .. sb.s_fsize - 1 : Block(c)' = IF c = b THEN new ELSE Block(c)
  BY BlockWritten
<1>2. \A c \in 0 .. sb.s_fsize - 1 : Block(c)'.data = Block(c).data /\ Block(c)'.inodes = Block(c).inodes
  BY <1>1
<1>3. ASSUME NEW m \in 0 .. sb.s_ninodes - 1
      PROVE  InodeWritten(m)' = InodeWritten(m)
  <2>1. PICK x, y : x = InodePlace(sb, m).block /\ y = InodePlace(sb, m).slot
    OBVIOUS
  <2>2. x \in 0 .. sb.s_fsize - 1
    BY <2>1, InodeBlock
  <2>3. InodeWritten(m) = Block(x).inodes[y] /\ InodeWritten(m)' = Block(x)'.inodes[y]
    BY <2>1 DEF InodeWritten
  <2> QED
    BY <1>2, <2>2, <2>3
<1> QED
  BY <1>2, <1>3

\* So does one of a bit.
LEMMA BitsLeaveData ==
  ASSUME NoWrap, Ready, sb' = sb, NEW type \in Types, NEW n \in Numbers(type),
         set_bit(type, n) \/ clear_bit(type, n)
  PROVE  /\ \A m \in 0 .. sb.s_ninodes - 1 : InodeWritten(m)' = InodeWritten(m)
         /\ \A c \in 0 .. sb.s_fsize - 1 : Block(c)'.data = Block(c).data
<1> DEFINE at == BitPlace(sb, type, n)
           b == at.block
<1>1. b \in 2 .. inode_list_start(sb) - 1 /\ at.byte \in 0 .. BLOCKSIZE - 1
  BY BitPlaced DEF Ready, Types
<1>2. /\ inode_list_start(sb) \in 2 .. data_block_start(sb) /\ sb.s_fsize \in Nat
      /\ data_block_start(sb) \in 2 .. sb.s_fsize - 1
  BY RoomLeft DEF Ready, KnownSizes
<1>3. b \in 0 .. sb.s_fsize - 1
  BY <1>1, <1>2
<1>4. Block(b) \in VolBlock
  BY <1>3, BlockTyped
<1>5. \E x : write_block(b, [Block(b) EXCEPT !.bits[at.byte] = x])
  BY DEF set_bit, clear_bit
<1>6. PICK x : write_block(b, [Block(b) EXCEPT !.bits[at.byte] = x])
  BY <1>5
<1>7. PICK new : new = [Block(b) EXCEPT !.bits[at.byte] = x]
  OBVIOUS
<1>8. new.inodes = Block(b).inodes /\ new.data = Block(b).data
  BY <1>4, <1>7 DEF VolBlock
<1>9. write_block(b, new)
  BY <1>6, <1>7
<1> HIDE DEF b, at
<1> QED
  BY <1>3, <1>8, <1>9, NeitherChanged

-----------------------------------------------------------------------------
(* What mkfs has written of the root directory and of its inode.           *)

\* The root directory's data are there or not, and the others are zero.
DataUpTo(dots) ==
  \A b \in 0 .. sb.s_fsize - 1 : Block(b).data = IF dots /\ b = data_block_start(sb) THEN b ELSE 0

\* The root inode is there or not, and the others are blank.
InodesUpTo(root) ==
  \A n \in 1 .. sb.s_ninodes - 1 :
    InodeWritten(n) = IF root /\ n = ROOT_INODE THEN ROOT_INODE ELSE 0

\* The root keeps its bits on a finished volume; a block holds its own data or none.
RootStays ==
  /\ ROOT_INODE \in Marked(INODE_BITMAP) /\ ROOT_INODE < sb.s_ninodes
  /\ data_block_start(sb) \in Marked(BLOCK_BITMAP)
  /\ pc \in {"bzero", "bdata", "bfree"} => k # data_block_start(sb)
  /\ pc \in {"iwrite", "ifree"} => k # ROOT_INODE
  /\ \A b \in 0 .. sb.s_fsize - 1 : Block(b).data \in {0, b}

\* What is known of the root and of the data, at every step.
WrittenInv ==
  /\ pc \in {"image", "superblock"}
       => \A o \in DOMAIN image : /\ image[o].data = 0
                                  /\ \A s \in 0 .. InodesPerBlock - 1 : image[o].inodes[s] = 0
  /\ pc \in {"inodes", "rootdir"} => DataUpTo(FALSE) /\ InodesUpTo(FALSE)
  /\ pc = "rootinode" => DataUpTo(TRUE) /\ InodesUpTo(FALSE)
  /\ pc \in {"ibitmap", "bbitmap"} => DataUpTo(TRUE) /\ InodesUpTo(TRUE)
  /\ made = "success" => RootStays

\* mkfs up to its superblock.
LEMMA WrittenBlank ==
  ASSUME NoWrap, VolumeInv, BitsInv, WrittenInv, mkfs \/ init_image \/ write_superblock
  PROVE  WrittenInv'
<1>1. CASE mkfs
  BY <1>1 DEF mkfs, WrittenInv
<1>2. CASE init_image
  <2>1. /\ pc = "image" /\ write_block(k, ZeroBlock) /\ pc' \in {"image", "superblock"}
        /\ made' = made /\ made = "no"
    BY <1>2 DEF init_image, zero_block, BitsInv, InMkfs
  <2>2. \A o \in DOMAIN image : /\ image[o].data = 0
                                /\ \A s \in 0 .. InodesPerBlock - 1 : image[o].inodes[s] = 0
    BY <2>1 DEF WrittenInv
  <2>3. ZeroBlock.data = 0 /\ \A s \in 0 .. InodesPerBlock - 1 : ZeroBlock.inodes[s] = 0
    BY DEF ZeroBlock
  <2>4. \A o \in DOMAIN image' : /\ image'[o].data = 0
                                 /\ \A s \in 0 .. InodesPerBlock - 1 : image'[o].inodes[s] = 0
    BY <2>1, <2>2, <2>3 DEF write_block
  <2> QED
    BY <2>1, <2>4 DEF WrittenInv
<1>3. CASE write_superblock
  <2>1. /\ pc = "superblock" /\ pc' = "inodes" /\ ~Insufficient /\ sb' = sb
        /\ write_block(1, [Block(1) EXCEPT !.super = sb]) /\ made' = made /\ made = "no"
    BY <1>3 DEF write_superblock, BitsInv, InMkfs
  <2>2. Ready
    <3>1. sb # NoSuper /\ DOMAIN image = Places(sb.s_fsize) /\ Sized
      BY <2>1, SomeSize DEF VolumeInv, LaidOut
    <3>2. KnownSizes /\ sb = superblock(sb.s_ninodes, sb.s_fsize)
      BY <3>1, SizesKnown
    <3> QED
      BY <2>1, <3>1, <3>2, RoomLeft DEF Ready, VolumeInv
  <2>3. 1 \in 0 .. sb.s_fsize - 1
    BY <2>2 DEF Ready, KnownSizes
  <2>4. PICK new : new = [Block(1) EXCEPT !.super = sb]
    OBVIOUS
  <2>5. new.inodes = Block(1).inodes /\ new.data = Block(1).data
    BY <2>2, <2>3, <2>4, BlockTyped DEF VolBlock
  <2>6. write_block(1, new)
    BY <2>1, <2>4
  <2>7. /\ \A m \in 0 .. sb.s_ninodes - 1 : InodeWritten(m)' = InodeWritten(m)
        /\ \A c \in 0 .. sb.s_fsize - 1 : Block(c)'.data = Block(c).data
    BY <2>1, <2>2, <2>3, <2>5, <2>6, NeitherChanged
  <2>8. \A c \in 0 .. sb.s_fsize - 1 : final_offset(c) \in DOMAIN image
    BY <2>2 DEF Ready, Places
  <2>9. \A c \in 0 .. sb.s_fsize - 1 : Block(c).data = 0
    BY <2>1, <2>8 DEF WrittenInv, Block
  <2>10. \A m \in 0 .. sb.s_ninodes - 1 : InodeWritten(m) = 0
    <3> TAKE m \in 0 .. sb.s_ninodes - 1
    <3>1. /\ InodePlace(sb, m).block \in 0 .. sb.s_fsize - 1
          /\ InodePlace(sb, m).slot \in 0 .. InodesPerBlock - 1
      BY <2>2, InodeBlock
    <3>2. \A o \in DOMAIN image : \A s \in 0 .. InodesPerBlock - 1 : image[o].inodes[s] = 0
      BY <2>1 DEF WrittenInv
    <3> QED
      BY <2>8, <3>1, <3>2 DEF InodeWritten, Block
  <2>11. sb.s_ninodes \in Nat /\ \A n \in 1 .. sb.s_ninodes - 1 : n \in 0 .. sb.s_ninodes - 1
    BY <2>2 DEF Ready, KnownSizes
  <2>12. DataUpTo(FALSE)' /\ InodesUpTo(FALSE)'
    BY <2>1, <2>7, <2>9, <2>10, <2>11 DEF DataUpTo, InodesUpTo
  <2> QED
    BY <2>1, <2>12 DEF WrittenInv
<1> QED
  BY <1>1, <1>2, <1>3

\* Where nothing was written, nothing changes; where everything was, the same holds.
LEMMA UpToKept ==
  ASSUME Ready, sb' = sb, NEW t \in BOOLEAN,
         \A m \in 0 .. sb.s_ninodes - 1 : InodeWritten(m)' = InodeWritten(m),
         \A c \in 0 .. sb.s_fsize - 1 : Block(c)'.data = Block(c).data
  PROVE  (DataUpTo(t) => DataUpTo(t)') /\ (InodesUpTo(t) => InodesUpTo(t)')
<1>1. sb.s_ninodes \in Nat /\ \A n \in 1 .. sb.s_ninodes - 1 : n \in 0 .. sb.s_ninodes - 1
  BY DEF Ready, KnownSizes
<1> QED
  BY <1>1 DEF DataUpTo, InodesUpTo

\* The inode list, the root directory and its inode.
LEMMA WrittenRoot ==
  ASSUME NoWrap, VolumeInv, BitsInv, WrittenInv, init_inode \/ WriteRootDir \/ WriteRootInode
  PROVE  WrittenInv'
<1>1. /\ pc \in {"inodes", "rootdir", "rootinode"} /\ sb' = sb /\ made' = made /\ made = "no"
  BY DEF init_inode, WriteRootDir, WriteRootInode, BitsInv, InMkfs
<1>2. Ready
  BY <1>1, Standing
<1>3. /\ data_block_start(sb) \in data_block_start(sb) .. sb.s_fsize - 1 /\ sb.s_fsize \in Nat
      /\ data_block_start(sb) \in 0 .. sb.s_fsize - 1 /\ inode_list_start(sb) \in 0 .. sb.s_fsize - 1
      /\ sb.s_ninodes \in Nat /\ \A n \in 1 .. sb.s_ninodes - 1 : n \in 0 .. sb.s_ninodes - 1
  BY <1>2, RoomLeft DEF Ready, KnownSizes
<1>4. CASE init_inode
  <2>1. /\ pc = "inodes" /\ write_disk_inode(k, 0) /\ pc' \in {"inodes", "rootdir"}
    BY <1>4, InitInodeIs
  <2>2. k \in 0 .. sb.s_ninodes - 1
    BY <2>1 DEF VolumeInv, IndexOK
  <2>3. /\ \A m \in 0 .. sb.s_ninodes - 1 : InodeWritten(m)' = IF m = k THEN 0 ELSE InodeWritten(m)
        /\ \A b \in 0 .. sb.s_fsize - 1 : Block(b)'.data = Block(b).data
    BY <1>1, <1>2, <2>1, <2>2, InodeChanged
  <2>4. DataUpTo(FALSE)' /\ InodesUpTo(FALSE)'
    BY <1>1, <1>3, <2>1, <2>3 DEF WrittenInv, DataUpTo, InodesUpTo
  <2> QED
    BY <1>1, <2>1, <2>4 DEF WrittenInv
<1>5. CASE WriteRootDir
  <2>1. pc = "rootdir" /\ pc' = "rootinode"
    BY <1>5 DEF WriteRootDir
  <2>2. PICK b : b = data_block_start(sb)
    OBVIOUS
  <2>3. PICK new : new = [Block(b) EXCEPT !.data = b]
    OBVIOUS
  <2>4. write_block(b, new)
    BY <1>5, <2>2, <2>3 DEF WriteRootDir
  <2>5. /\ \A m \in 0 .. sb.s_ninodes - 1 : InodeWritten(m)' = InodeWritten(m)
        /\ \A c \in 0 .. sb.s_fsize - 1 : Block(c)' = IF c = b THEN new ELSE Block(c)
    BY <1>1, <1>2, <1>3, <2>2, <2>4, DataChanged
  <2>6. Block(b) \in VolBlock
    BY <1>2, <1>3, <2>2, BlockTyped
  <2>7. new.data = b
    BY <2>3, <2>6 DEF VolBlock
  <2>8. DataUpTo(TRUE)'
    BY <1>1, <2>1, <2>2, <2>5, <2>7 DEF WrittenInv, DataUpTo
  <2>9. InodesUpTo(FALSE)'
    BY <1>1, <1>3, <2>1, <2>5 DEF WrittenInv, InodesUpTo
  <2> QED
    BY <1>1, <2>1, <2>8, <2>9 DEF WrittenInv
<1>6. CASE WriteRootInode
  <2>1. pc = "rootinode" /\ pc' = "ibitmap"
    BY <1>6 DEF WriteRootInode
  <2>2. PICK b : b = inode_list_start(sb)
    OBVIOUS
  <2>3. PICK new : new = [Block(b) EXCEPT !.inodes[ROOT_INODE] = ROOT_INODE]
    OBVIOUS
  <2>4. write_block(b, new)
    BY <1>6, <2>2, <2>3 DEF WriteRootInode
  <2>5. Block(b) \in VolBlock
    BY <1>2, <1>3, <2>2, BlockTyped
  <2>6. new.data = Block(b).data
    BY <2>3, <2>5 DEF VolBlock
  <2>7. \A c \in 0 .. sb.s_fsize - 1 : Block(c)' = IF c = b THEN new ELSE Block(c)
    BY <1>1, <1>2, <1>3, <2>2, <2>4, BlockWritten
  <2>8. DataUpTo(TRUE)'
    BY <1>1, <2>1, <2>6, <2>7 DEF WrittenInv, DataUpTo
  <2>9. CASE sb.s_ninodes > ROOT_INODE
    <3>1. ROOT_INODE \in 0 .. sb.s_ninodes - 1
      BY <1>3, <2>9 DEF ROOT_INODE
    <3>2. InodePlace(sb, ROOT_INODE).block = b /\ InodePlace(sb, ROOT_INODE).slot = ROOT_INODE
      <4>1. 1 = 0 * InodesPerBlock + 1 /\ 1 \in 0 .. InodesPerBlock - 1
        BY Geometries
      <4>2. 1 \div InodesPerBlock = 0 /\ 1 % InodesPerBlock = 1
        BY <4>1, Quotient, Geometries
      <4> QED
        BY <2>2, <4>2, <1>3 DEF InodePlace, ROOT_INODE
    <3>3. write_disk_inode(ROOT_INODE, ROOT_INODE)
      BY <2>3, <2>4, <3>2 DEF write_disk_inode
    <3>4. \A m \in 0 .. sb.s_ninodes - 1 :
            InodeWritten(m)' = IF m = ROOT_INODE THEN ROOT_INODE ELSE InodeWritten(m)
      BY <1>1, <1>2, <3>1, <3>3, InodeChanged
    <3>5. InodesUpTo(TRUE)'
      BY <1>1, <1>3, <2>1, <3>4 DEF WrittenInv, InodesUpTo
    <3> QED
      BY <1>1, <2>1, <2>8, <3>5 DEF WrittenInv
  <2>10. CASE ~ (sb.s_ninodes > ROOT_INODE)
    <3>1. InodesUpTo(TRUE)'
      BY <1>1, <1>3, <2>10 DEF InodesUpTo, ROOT_INODE
    <3> QED
      BY <1>1, <2>1, <2>8, <3>1 DEF WrittenInv
  <2> QED
    BY <2>9, <2>10
<1> QED
  BY <1>4, <1>5, <1>6

\* The bitmaps.
LEMMA WrittenMarks ==
  ASSUME NoWrap, VolumeInv, BitsInv, WrittenInv, MarkInode \/ MarkBlock
  PROVE  WrittenInv'
<1>1. pc \in {"ibitmap", "bbitmap"} /\ sb' = sb /\ made = "no" /\ DataUpTo(TRUE) /\ InodesUpTo(TRUE)
  BY DEF MarkInode, MarkBlock, BitsInv, InMkfs, WrittenInv
<1>2. Ready
  BY <1>1, Standing
<1>3. PICK type \in Types : \E m \in Numbers(type) : set_bit(type, m) \/ clear_bit(type, m)
  BY BitSteps DEF Types
<1>4. PICK m \in Numbers(type) : set_bit(type, m) \/ clear_bit(type, m)
  BY <1>3
<1>5. DataUpTo(TRUE)' /\ InodesUpTo(TRUE)'
  BY <1>1, <1>2, <1>4, BitsLeaveData, UpToKept
<1>6. CASE MarkInode
  BY <1>1, <1>5, <1>6 DEF WrittenInv, MarkInode
<1>7. CASE MarkBlock
  <2>1. /\ pc = "bbitmap" /\ k \in 0 .. data_block_start(sb) /\ set_bit(BLOCK_BITMAP, k)
        /\ IF k + 1 <= data_block_start(sb) THEN k' = k + 1 /\ pc' = pc /\ made' = made
                                            ELSE k' = 0 /\ pc' = "exit" /\ made' = "success"
    BY <1>7 DEF MarkBlock, VolumeInv, IndexOK
  <2>2. /\ data_block_start(sb) \in 2 .. sb.s_fsize - 1 /\ sb.s_fsize \in Nat
    BY <1>2 DEF Ready, KnownSizes
  <2>3. CASE k + 1 <= data_block_start(sb)
    BY <1>1, <1>5, <2>1, <2>3 DEF WrittenInv
  <2>4. CASE ~ (k + 1 <= data_block_start(sb))
    <3>1. k = data_block_start(sb) /\ pc' = "exit"
      BY <2>1, <2>2, <2>4
    <3>2. Marked(INODE_BITMAP) = 0 .. ROOT_INODE /\ ROOT_INODE < sb.s_ninodes
      BY <2>1 DEF BitsInv
    <3>3. k \in Numbers(BLOCK_BITMAP)
      BY <2>1, <2>2 DEF Numbers, INODE_BITMAP, BLOCK_BITMAP
    <3>4. Marked(BLOCK_BITMAP)' = Marked(BLOCK_BITMAP) \cup {k}
      BY <1>1, <1>2, <2>1, <3>3, BitChanged DEF Types
    <3>5. Marked(INODE_BITMAP)' = Marked(INODE_BITMAP)
      BY <1>1, <1>2, <2>1, <3>3, BitChanged DEF Types, INODE_BITMAP, BLOCK_BITMAP
    <3>6. ROOT_INODE \in 0 .. ROOT_INODE
      BY DEF ROOT_INODE
    <3>7. \A b \in 0 .. sb'.s_fsize - 1 : Block(b)'.data \in {0, b}
      BY <1>5 DEF DataUpTo
    <3>8. data_block_start(sb)' = data_block_start(sb)
      BY <1>1
    <3>9. RootStays'
      BY <1>1, <3>1, <3>2, <3>4, <3>5, <3>6, <3>7, <3>8 DEF RootStays
    <3> QED
      BY <3>1, <3>9 DEF WrittenInv
  <2> QED
    BY <2>3, <2>4
<1> QED
  BY <1>6, <1>7

-----------------------------------------------------------------------------
(* PangyaDisk on the bytes.                                                *)

\* A superblock of this geometry; the numbers are constants of an instance of
\* PangyaDisk.
Sizes(i, f, s) ==
  /\ i \in 2 .. MaxInodes /\ f \in 2 .. MaxBlocks /\ s \in 2 .. MaxBlocks /\ f < s
  /\ Geometry(i, f, s)

\* There is one as soon as there is a root inode.
LEMMA SizesOf ==
  ASSUME Ready, ROOT_INODE < sb.s_ninodes
  PROVE  \E i \in 2 .. MaxInodes, f \in 2 .. MaxBlocks, s \in 2 .. MaxBlocks : Sizes(i, f, s)
<1>1. /\ sb.s_ninodes \in 1 .. MaxInodes /\ sb.s_fsize \in 1 .. MaxBlocks
      /\ data_block_start(sb) \in 2 .. sb.s_fsize - 1 /\ MaxInodes \in Nat /\ MaxBlocks \in Nat
  BY Geometries DEF Ready, KnownSizes
<1>2. PICK i, f, s : i = sb.s_ninodes /\ f = data_block_start(sb) /\ s = sb.s_fsize
  OBVIOUS
<1>3. i \in 2 .. MaxInodes /\ f \in 2 .. MaxBlocks /\ s \in 2 .. MaxBlocks /\ f < s
  BY <1>1, <1>2 DEF ROOT_INODE
<1> QED
  BY <1>2, <1>3 DEF Sizes, Geometry

\* The definitions of PangyaDisk, in terms of what is on the image.
LEMMA DiskBits ==
  ASSUME NEW i, NEW f, NEW s, NEW n
  PROVE  /\ Disk(i, f, s)!SetInodeBit(n) <=>
              /\ Marked(INODE_BITMAP)' = Marked(INODE_BITMAP) \cup {n}
              /\ Marked(BLOCK_BITMAP)' = Marked(BLOCK_BITMAP)
              /\ Dinode(i, f)' = Dinode(i, f) /\ Dirents(f, s)' = Dirents(f, s) /\ Chunk(f, s)' = Chunk(f, s)
         /\ Disk(i, f, s)!ClearInodeBit(n) <=>
              /\ Marked(INODE_BITMAP)' = Marked(INODE_BITMAP) \ {n}
              /\ Marked(BLOCK_BITMAP)' = Marked(BLOCK_BITMAP)
              /\ Dinode(i, f)' = Dinode(i, f) /\ Dirents(f, s)' = Dirents(f, s) /\ Chunk(f, s)' = Chunk(f, s)
         /\ Disk(i, f, s)!SetBlockBit(n) <=>
              /\ Marked(BLOCK_BITMAP)' = Marked(BLOCK_BITMAP) \cup {n}
              /\ Marked(INODE_BITMAP)' = Marked(INODE_BITMAP)
              /\ Dinode(i, f)' = Dinode(i, f) /\ Dirents(f, s)' = Dirents(f, s) /\ Chunk(f, s)' = Chunk(f, s)
         /\ Disk(i, f, s)!ClearBlockBit(n) <=>
              /\ Marked(BLOCK_BITMAP)' = Marked(BLOCK_BITMAP) \ {n}
              /\ Marked(INODE_BITMAP)' = Marked(INODE_BITMAP)
              /\ Dinode(i, f)' = Dinode(i, f) /\ Dirents(f, s)' = Dirents(f, s) /\ Chunk(f, s)' = Chunk(f, s)
  BY DEF Disk!SetInodeBit, Disk!ClearInodeBit, Disk!SetBlockBit, Disk!ClearBlockBit

\* Its writes, where no bit changes.
LEMMA DiskWrites ==
  ASSUME NEW i, NEW f, NEW s, NEW n, NEW d,
         Marked(INODE_BITMAP)' = Marked(INODE_BITMAP), Marked(BLOCK_BITMAP)' = Marked(BLOCK_BITMAP)
  PROVE  /\ Disk(i, f, s)!write_disk_inode(n, d) <=>
              /\ Dinode(i, f)' = [Dinode(i, f) EXCEPT ![n] = d]
              /\ Dirents(f, s)' = Dirents(f, s) /\ Chunk(f, s)' = Chunk(f, s)
         /\ Disk(i, f, s)!zero_block(n) <=>
              /\ Dirents(f, s)' = [Dirents(f, s) EXCEPT ![n] = [p \in 0 .. 1 |-> [ino |-> 0, name |-> ""]]]
              /\ Chunk(f, s)' = [Chunk(f, s) EXCEPT ![n] = 0]
              /\ Dinode(i, f)' = Dinode(i, f)
         /\ Disk(i, f, s)!WriteChunk(n, 0) <=>
              /\ Chunk(f, s)' = [Chunk(f, s) EXCEPT ![n] = 1]
              /\ Dirents(f, s)' = Dirents(f, s) /\ Dinode(i, f)' = Dinode(i, f)
         /\ UNCHANGED Disk(i, f, s)!diskVars <=>
              /\ Dinode(i, f)' = Dinode(i, f) /\ Dirents(f, s)' = Dirents(f, s) /\ Chunk(f, s)' = Chunk(f, s)
<1>1. Disk(i, f, s)!ZeroBlock = [p \in 0 .. 1 |-> [ino |-> 0, name |-> ""]]
  BY 2 - 1 = 1 DEF Disk!ZeroBlock, Disk!Slots, Disk!NoEntry
<1>2. 0 + 1 = 1
  OBVIOUS
<1>3. Disk(i, f, s)!zero_block(n) <=>
              /\ Dirents(f, s)' = [Dirents(f, s) EXCEPT ![n] = [p \in 0 .. 1 |-> [ino |-> 0, name |-> ""]]]
              /\ Chunk(f, s)' = [Chunk(f, s) EXCEPT ![n] = 0]
              /\ Dinode(i, f)' = Dinode(i, f)
  BY <1>1 DEF Disk!zero_block
<1>4. Disk(i, f, s)!WriteChunk(n, 0) <=>
              /\ Chunk(f, s)' = [Chunk(f, s) EXCEPT ![n] = 1]
              /\ Dirents(f, s)' = Dirents(f, s) /\ Dinode(i, f)' = Dinode(i, f)
  BY <1>2 DEF Disk!WriteChunk
<1>5. Disk(i, f, s)!write_disk_inode(n, d) <=>
              /\ Dinode(i, f)' = [Dinode(i, f) EXCEPT ![n] = d]
              /\ Dirents(f, s)' = Dirents(f, s) /\ Chunk(f, s)' = Chunk(f, s)
  BY DEF Disk!write_disk_inode
<1>6. UNCHANGED Disk(i, f, s)!diskVars <=>
              /\ Dinode(i, f)' = Dinode(i, f) /\ Dirents(f, s)' = Dirents(f, s) /\ Chunk(f, s)' = Chunk(f, s)
  BY DEF Disk!diskVars
<1> QED
  BY <1>3, <1>4, <1>5, <1>6

\* The free numbers of PangyaDisk are those the scan may hand out.
LEMMA DiskFree ==
  ASSUME Ready, BitsFit, NEW i, NEW f, NEW s, Sizes(i, f, s)
  PROVE  /\ Disk(i, f, s)!FreeInodes = Candidates(INODE_BITMAP)
         /\ Disk(i, f, s)!FreeBlocks = Candidates(BLOCK_BITMAP)
         /\ \A x, S : Disk(i, f, s)!Lowest(x, S) <=> x \in S /\ \A y \in S : x <= y
<1>1. /\ Candidates(INODE_BITMAP) = Numbers(INODE_BITMAP) \ Marked(INODE_BITMAP)
      /\ Candidates(BLOCK_BITMAP) = Numbers(BLOCK_BITMAP) \ Marked(BLOCK_BITMAP)
  BY Counted DEF Types
<1>2. Numbers(INODE_BITMAP) = 0 .. i - 1 /\ Numbers(BLOCK_BITMAP) = 0 .. s - 1
  BY DEF Sizes, Geometry, Numbers, INODE_BITMAP, BLOCK_BITMAP
<1>3. 0 \in Marked(INODE_BITMAP) /\ 0 .. f - 1 \subseteq Marked(BLOCK_BITMAP)
  BY DEF BitsFit, Sizes, Geometry
<1>4. i \in Nat /\ f \in Nat /\ s \in Nat
  BY Geometries DEF Sizes
<1>5. Disk(i, f, s)!FreeInodes = Candidates(INODE_BITMAP)
  <2>1. \A n : n \in 1 .. i - 1 <=> n \in 0 .. i - 1 /\ n # 0
    BY <1>4
  <2> QED
    BY <1>1, <1>2, <1>3, <2>1 DEF Disk!FreeInodes, Disk!Inodes
<1>6. Disk(i, f, s)!FreeBlocks = Candidates(BLOCK_BITMAP)
  <2>1. \A n \in 0 .. s - 1 : Disk(i, f, s)!badblock(n) <=> n \in 0 .. f - 1
    BY <1>4 DEF Disk!badblock
  <2>2. Disk(i, f, s)!FreeBlocks = {b \in (0 .. s - 1) \ Marked(BLOCK_BITMAP) : ~Disk(i, f, s)!badblock(b)}
    BY DEF Disk!FreeBlocks, Disk!Blocks
  <2> QED
    BY <1>1, <1>2, <1>3, <2>1, <2>2
<1>7. \A x, S : Disk(i, f, s)!Lowest(x, S) <=> x \in S /\ \A y \in S : x <= y
  BY DEF Disk!Lowest
<1> QED
  BY <1>5, <1>6, <1>7

\* What is not written looks the same.
LEMMA SameInodes ==
  ASSUME sb' = sb, NEW i, NEW f, NEW s, Sizes(i, f, s),
         \A m \in 0 .. sb.s_ninodes - 1 : InodeWritten(m)' = InodeWritten(m)
  PROVE  Dinode(i, f)' = Dinode(i, f)
<1>1. \A m \in 1 .. i - 1 : InodeWritten(m)' = InodeWritten(m)
  BY Geometries DEF Sizes, Geometry
<1>2. \A m \in 1 .. i - 1 : InodeMeant(InodeWritten(m), f)' = InodeMeant(InodeWritten(m), f)
  BY <1>1 DEF InodeMeant
<1> QED
  BY <1>2 DEF Dinode

\* Nor do blocks whose data are not written.
LEMMA SameData ==
  ASSUME sb' = sb, NEW i, NEW f, NEW s, Sizes(i, f, s),
         \A c \in 0 .. sb.s_fsize - 1 : Block(c)'.data = Block(c).data
  PROVE  Dirents(f, s)' = Dirents(f, s) /\ Chunk(f, s)' = Chunk(f, s)
<1>1. \A c \in 0 .. s - 1 : Block(c)'.data = Block(c).data
  BY DEF Sizes, Geometry
<1>2. \A c \in 0 .. s - 1 : /\ DirentsMeant(Block(c).data, f)' = DirentsMeant(Block(c).data, f)
                            /\ ChunkMeant(Block(c).data, c, f)' = ChunkMeant(Block(c).data, c, f)
  BY <1>1 DEF DirentsMeant, ChunkMeant
<1> QED
  BY <1>2 DEF Dirents, Chunk

-----------------------------------------------------------------------------
(* The steps of the library, on a finished volume.                         *)

\* What is known of a finished volume that is open, and of a step on it.
Open(i, f, s) ==
  /\ Ready /\ BitsFit /\ RootStays /\ Sizes(i, f, s)
  /\ sb' = sb /\ made' = made
  /\ \A b \in 0 .. sb.s_fsize - 1 : Block(b) \in VolBlock

\* A bit.
LEMMA BitLibrary ==
  ASSUME NoWrap, NEW i, NEW f, NEW s, Open(i, f, s),
         NEW type \in Types, NEW n \in Numbers(type), set_bit(type, n) \/ clear_bit(type, n)
  PROVE  /\ Dinode(i, f)' = Dinode(i, f) /\ Dirents(f, s)' = Dirents(f, s) /\ Chunk(f, s)' = Chunk(f, s)
         /\ \A b \in 0 .. sb.s_fsize - 1 : Block(b)'.data \in {0, b}
         /\ \A t \in Types : t # type => Marked(t)' = Marked(t)
         /\ set_bit(type, n) => Marked(type)' = Marked(type) \cup {n}
         /\ clear_bit(type, n) => Marked(type)' = Marked(type) \ {n}
<1>1. Ready /\ sb' = sb /\ Sizes(i, f, s)
  BY DEF Open
<1>2. /\ \A m \in 0 .. sb.s_ninodes - 1 : InodeWritten(m)' = InodeWritten(m)
      /\ \A c \in 0 .. sb.s_fsize - 1 : Block(c)'.data = Block(c).data
  BY <1>1, BitsLeaveData
<1>3. Dinode(i, f)' = Dinode(i, f) /\ Dirents(f, s)' = Dirents(f, s) /\ Chunk(f, s)' = Chunk(f, s)
  BY <1>1, <1>2, SameInodes, SameData
<1>4. \A b \in 0 .. sb.s_fsize - 1 : Block(b)'.data \in {0, b}
  BY <1>2 DEF Open, RootStays
<1> QED
  BY <1>1, <1>3, <1>4, BitChanged

\* alloc_inode takes the lowest free inode, never the root,
LEMMA AllocInodeSet ==
  ASSUME NoWrap, NEW i, NEW f, NEW s, Open(i, f, s), alloc_inode
  PROVE  RootStays' /\ DiskStep(i, f, s)
<1>1. PICK n \in Candidates(INODE_BITMAP) :
        FirstClear(INODE_BITMAP, n) /\ set_bit(INODE_BITMAP, n) /\ k' = n
  BY AllocInodeIs DEF Open, Ready
<1>2. Ready /\ BitsFit /\ RootStays /\ sb' = sb /\ Sizes(i, f, s) /\ INODE_BITMAP # BLOCK_BITMAP
  BY DEF Open, INODE_BITMAP, BLOCK_BITMAP
<1>3. n \in Numbers(INODE_BITMAP) /\ n \notin Marked(INODE_BITMAP)
  BY <1>1, <1>2, Counted DEF Types
<1>4. /\ Dinode(i, f)' = Dinode(i, f) /\ Dirents(f, s)' = Dirents(f, s) /\ Chunk(f, s)' = Chunk(f, s)
      /\ Marked(INODE_BITMAP)' = Marked(INODE_BITMAP) \cup {n}
      /\ Marked(BLOCK_BITMAP)' = Marked(BLOCK_BITMAP)
      /\ \A b \in 0 .. sb.s_fsize - 1 : Block(b)'.data \in {0, b}
  BY <1>1, <1>2, <1>3, BitLibrary DEF Types
<1>5. Disk(i, f, s)!SetInodeBit(n)
  BY <1>4, DiskBits
<1>6. n \in Disk(i, f, s)!FreeInodes /\ Disk(i, f, s)!Lowest(n, Disk(i, f, s)!FreeInodes)
  BY <1>1, <1>2, DiskFree DEF FirstClear
<1>7. DiskStep(i, f, s)
  BY <1>5, <1>6 DEF DiskStep
<1>8. n # ROOT_INODE /\ pc' = "iwrite"
  BY <1>2, <1>3 DEF RootStays, alloc_inode
<1> QED
  BY <1>1, <1>2, <1>4, <1>7, <1>8 DEF RootStays

\* alloc_block takes the lowest free block, never that of the root directory,
LEMMA AllocBlockSet ==
  ASSUME NoWrap, NEW i, NEW f, NEW s, Open(i, f, s), alloc_block
  PROVE  RootStays' /\ DiskStep(i, f, s)
<1>1. PICK n \in Candidates(BLOCK_BITMAP) :
        FirstClear(BLOCK_BITMAP, n) /\ set_bit(BLOCK_BITMAP, n) /\ k' = n
  BY AllocBlockIs DEF Open, Ready
<1>2. Ready /\ BitsFit /\ RootStays /\ sb' = sb /\ Sizes(i, f, s) /\ INODE_BITMAP # BLOCK_BITMAP
  BY DEF Open, INODE_BITMAP, BLOCK_BITMAP
<1>3. n \in Numbers(BLOCK_BITMAP) /\ n \notin Marked(BLOCK_BITMAP)
  BY <1>1, <1>2, Counted DEF Types
<1>4. /\ Dinode(i, f)' = Dinode(i, f) /\ Dirents(f, s)' = Dirents(f, s) /\ Chunk(f, s)' = Chunk(f, s)
      /\ Marked(BLOCK_BITMAP)' = Marked(BLOCK_BITMAP) \cup {n}
      /\ Marked(INODE_BITMAP)' = Marked(INODE_BITMAP)
      /\ \A b \in 0 .. sb.s_fsize - 1 : Block(b)'.data \in {0, b}
  BY <1>1, <1>2, <1>3, BitLibrary DEF Types
<1>5. Disk(i, f, s)!SetBlockBit(n)
  BY <1>4, DiskBits
<1>6. n \in Disk(i, f, s)!FreeBlocks /\ Disk(i, f, s)!Lowest(n, Disk(i, f, s)!FreeBlocks)
  BY <1>1, <1>2, DiskFree DEF FirstClear
<1>7. DiskStep(i, f, s)
  BY <1>5, <1>6 DEF DiskStep
<1>8. n # data_block_start(sb) /\ pc' = "bzero"
  BY <1>2, <1>3 DEF RootStays, alloc_block
<1> QED
  BY <1>1, <1>2, <1>4, <1>7, <1>8 DEF RootStays

\* free_block clears one bit of a data block,
LEMMA FreeBlockSet ==
  ASSUME NoWrap, NEW i, NEW f, NEW s, Open(i, f, s), free_block
  PROVE  RootStays' /\ DiskStep(i, f, s)
<1>1. PICK n \in Marked(BLOCK_BITMAP) :
        ~badblock(sb, n) /\ n # data_block_start(sb) /\ clear_bit(BLOCK_BITMAP, n) /\ k' = n
  BY DEF free_block
<1>2. Ready /\ BitsFit /\ RootStays /\ sb' = sb /\ Sizes(i, f, s) /\ INODE_BITMAP # BLOCK_BITMAP
  BY DEF Open, INODE_BITMAP, BLOCK_BITMAP
<1>3. n \in Numbers(BLOCK_BITMAP)
  BY <1>1, <1>2 DEF BitsFit
<1>4. /\ Dinode(i, f)' = Dinode(i, f) /\ Dirents(f, s)' = Dirents(f, s) /\ Chunk(f, s)' = Chunk(f, s)
      /\ Marked(BLOCK_BITMAP)' = Marked(BLOCK_BITMAP) \ {n}
      /\ Marked(INODE_BITMAP)' = Marked(INODE_BITMAP)
      /\ \A b \in 0 .. sb.s_fsize - 1 : Block(b)'.data \in {0, b}
  BY <1>1, <1>2, <1>3, BitLibrary DEF Types
<1>5. Disk(i, f, s)!ClearBlockBit(n)
  BY <1>4, DiskBits
<1>6. n \in f + 1 .. s - 1
  <2>1. n \in 0 .. s - 1 /\ s \in Nat /\ f \in Nat /\ f = data_block_start(sb) /\ s = sb.s_fsize
    BY <1>2, <1>3, Geometries DEF Sizes, Geometry, Numbers, INODE_BITMAP, BLOCK_BITMAP
  <2>2. ~ (n < f) /\ n # f
    BY <1>1, <2>1 DEF badblock
  <2> QED
    BY <2>1, <2>2
<1>7. DiskStep(i, f, s)
  BY <1>5, <1>6 DEF DiskStep
<1>8. n # data_block_start(sb) /\ pc' = "bfree"
  BY <1>1 DEF free_block
<1> QED
  BY <1>1, <1>2, <1>4, <1>7, <1>8 DEF RootStays

\* free_inode one of an inode that is not the root,
LEMMA FreeInodeSet ==
  ASSUME NoWrap, VolumeInv, NEW i, NEW f, NEW s, Open(i, f, s), free_inode
  PROVE  RootStays' /\ DiskStep(i, f, s)
<1>1. pc = "ifree" /\ pc' = "ready" /\ clear_bit(INODE_BITMAP, k)
  BY DEF free_inode
<1>2. Ready /\ BitsFit /\ RootStays /\ sb' = sb /\ Sizes(i, f, s) /\ INODE_BITMAP # BLOCK_BITMAP
  BY DEF Open, INODE_BITMAP, BLOCK_BITMAP
<1>3. /\ k \in 1 .. sb.s_ninodes - 1 /\ k # ROOT_INODE /\ sb.s_ninodes = i /\ i \in Nat
  BY <1>1, <1>2, Geometries DEF VolumeInv, IndexOK, RootStays, Sizes, Geometry
<1>4. k \in Numbers(INODE_BITMAP) /\ k \in 2 .. i - 1
  BY <1>3 DEF Numbers, ROOT_INODE
<1>5. /\ Dinode(i, f)' = Dinode(i, f) /\ Dirents(f, s)' = Dirents(f, s) /\ Chunk(f, s)' = Chunk(f, s)
      /\ Marked(INODE_BITMAP)' = Marked(INODE_BITMAP) \ {k}
      /\ Marked(BLOCK_BITMAP)' = Marked(BLOCK_BITMAP)
      /\ \A b \in 0 .. sb.s_fsize - 1 : Block(b)'.data \in {0, b}
  BY <1>1, <1>2, <1>4, BitLibrary DEF Types
<1>6. Disk(i, f, s)!ClearInodeBit(k)
  BY <1>5, DiskBits
<1>7. DiskStep(i, f, s)
  BY <1>4, <1>6 DEF DiskStep
<1> QED
  BY <1>1, <1>2, <1>3, <1>5, <1>7 DEF RootStays

\* and InitInode and ReleaseInode write it.
LEMMA WriteInodeSet ==
  ASSUME NoWrap, VolumeInv, NEW i, NEW f, NEW s, Open(i, f, s), InitInode \/ ReleaseInode
  PROVE  RootStays' /\ DiskStep(i, f, s)
<1>1. Ready /\ BitsFit /\ RootStays /\ sb' = sb /\ Sizes(i, f, s) /\ INODE_BITMAP # BLOCK_BITMAP
  BY DEF Open, INODE_BITMAP, BLOCK_BITMAP
<1>2. i = sb.s_ninodes /\ i \in 2 .. MaxInodes /\ i \in Nat /\ s = sb.s_fsize
  BY <1>1, Geometries DEF Sizes, Geometry
<1>3. PICK n \in 2 .. i - 1 : \E tag \in {0, n} :
        write_disk_inode(n, tag) /\ (pc' = "ifree" => k' = n) /\ pc' \in {"ifree", "ready"}
  <2>1. CASE InitInode
    <3>1. k \in 1 .. i - 1 /\ k # ROOT_INODE /\ write_disk_inode(k, k) /\ pc' = "ready"
      BY <1>1, <1>2, <2>1 DEF InitInode, VolumeInv, IndexOK, RootStays
    <3>2. k \in 2 .. i - 1
      BY <1>2, <3>1 DEF ROOT_INODE
    <3> QED
      BY <3>1, <3>2
  <2>2. CASE ReleaseInode
    <3>1. PICK n \in Marked(INODE_BITMAP) : n > ROOT_INODE /\ write_disk_inode(n, 0) /\ k' = n /\ pc' = "ifree"
      BY <2>2 DEF ReleaseInode
    <3>2. n \in 0 .. i - 1
      BY <1>1, <1>2, <3>1 DEF BitsFit, Numbers
    <3>3. n \in 2 .. i - 1
      BY <1>2, <3>1, <3>2 DEF ROOT_INODE
    <3> QED
      BY <3>1, <3>3
  <2> QED
    BY <2>1, <2>2
<1>4. PICK tag \in {0, n} :
         write_disk_inode(n, tag) /\ (pc' = "ifree" => k' = n) /\ pc' \in {"ifree", "ready"}
  BY <1>3
<1>5. n \in 0 .. sb.s_ninodes - 1 /\ n # ROOT_INODE /\ n # 0
  BY <1>2, <1>3 DEF ROOT_INODE
<1>6. /\ \A m \in 0 .. sb.s_ninodes - 1 : InodeWritten(m)' = IF m = n THEN tag ELSE InodeWritten(m)
      /\ \A b \in 0 .. sb.s_fsize - 1 : Block(b)'.data = Block(b).data
  BY <1>1, <1>4, <1>5, InodeChanged
<1>7. Dirents(f, s)' = Dirents(f, s) /\ Chunk(f, s)' = Chunk(f, s)
  BY <1>1, <1>6, SameData
<1>8. PICK d : d = InodeMeant(tag, f)
  OBVIOUS
<1>9. Dinode(i, f)' = [Dinode(i, f) EXCEPT ![n] = d]
  <2>1. \A m \in 1 .. i - 1 : InodeMeant(InodeWritten(m), f)' = IF m = n THEN d ELSE InodeMeant(InodeWritten(m), f)
    <3>1. \A m \in 1 .. i - 1 : m \in 0 .. sb.s_ninodes - 1
      BY <1>2
    <3>2. \A m \in 1 .. i - 1 : InodeWritten(m)' = IF m = n THEN tag ELSE InodeWritten(m)
      BY <1>6, <3>1
    <3> QED
      BY <1>8, <3>2 DEF InodeMeant
  <2> QED
    BY <2>1 DEF Dinode
<1>10. /\ Marked(INODE_BITMAP)' = Marked(INODE_BITMAP) /\ Marked(BLOCK_BITMAP)' = Marked(BLOCK_BITMAP)
  BY BitsKeptByInodes DEF Types
<1>11. Disk(i, f, s)!write_disk_inode(n, d)
  BY <1>7, <1>9, <1>10, DiskWrites
<1>12. d \in {Disk(i, f, s)!BlankInode, [Disk(i, f, s)!BlankInode EXCEPT !.mode = "reg", !.nlink = 1]}
  <2>1. Disk(i, f, s)!BlankInode = [mode |-> "none", nlink |-> 0, size |-> 0, addr |-> [l \in {0} |-> 0]]
    <3>1. 0 .. 1 - 1 = {0}
      OBVIOUS
    <3> QED
      BY <3>1 DEF Disk!BlankInode, Disk!Unmapped, Disk!Logical
  <2>2. CASE tag = 0
    BY <1>8, <2>1, <2>2 DEF InodeMeant, ROOT_INODE
  <2>3. CASE tag = n
    <3>1. d = [mode |-> "reg", nlink |-> 1, size |-> 0, addr |-> [l \in {0} |-> 0]]
      BY <1>5, <1>8, <2>3 DEF InodeMeant
    <3>2. PICK blank : blank = [mode |-> "none", nlink |-> 0, size |-> 0, addr |-> [l \in {0} |-> 0]]
      OBVIOUS
    <3>3. d = [blank EXCEPT !.mode = "reg", !.nlink = 1]
      <4>1. PICK file : file = [blank EXCEPT !.mode = "reg"]
        OBVIOUS
      <4>2. file = [mode |-> "reg", nlink |-> 0, size |-> 0, addr |-> [l \in {0} |-> 0]]
        BY <3>2, <4>1
      <4>3. d = [file EXCEPT !.nlink = 1]
        BY <3>1, <4>2
      <4> QED
        BY <4>1, <4>3
    <3>4. Disk(i, f, s)!BlankInode = blank
      BY <2>1, <3>2
    <3> QED
      BY <3>3, <3>4
  <2> QED
    BY <1>4, <2>2, <2>3
<1>13. DiskStep(i, f, s)
  BY <1>4, <1>11, <1>12 DEF DiskStep
<1>14. data_block_start(sb)' = data_block_start(sb)
  BY <1>1
<1>15. RootStays'
  BY <1>1, <1>4, <1>5, <1>6, <1>10, <1>14 DEF RootStays
<1> QED
  BY <1>13, <1>15

\* The blocks: erased when taken and when given back, and filled by the caller.
LEMMA WriteBlockSet ==
  ASSUME NoWrap, VolumeInv, NEW i, NEW f, NEW s, Open(i, f, s), ZeroAllocated \/ WriteData \/ ZeroFreed
  PROVE  RootStays' /\ DiskStep(i, f, s)
<1>1. Ready /\ BitsFit /\ RootStays /\ sb' = sb /\ Sizes(i, f, s)
  BY DEF Open
<1>2. /\ i = sb.s_ninodes /\ f = data_block_start(sb) /\ s = sb.s_fsize /\ f \in Nat /\ s \in Nat
      /\ f \in 2 .. MaxBlocks
  BY <1>1, Geometries DEF Sizes, Geometry
<1>3. PICK b : b = k
  OBVIOUS
<1>4. b \in f .. s - 1 /\ b # f
  BY <1>1, <1>2, <1>3 DEF VolumeInv, IndexOK, RootStays, ZeroAllocated, WriteData, ZeroFreed
<1>5. b \in f + 1 .. s - 1 /\ b \in 0 .. s - 1 /\ b # 0
  BY <1>2, <1>4
<1>6. PICK new : /\ write_block(b, new)
                 /\ \/ new = ZeroBlock
                    \/ new = [ZeroBlock EXCEPT !.data = b]
  BY <1>3 DEF ZeroAllocated, WriteData, ZeroFreed, zero_block
<1>7. new.data \in {0, b} /\ (new = ZeroBlock => new.data = 0) /\ (new # ZeroBlock => new.data = b)
  <2>1. ZeroBlock.data = 0 /\ [ZeroBlock EXCEPT !.data = b].data = b
    BY DEF ZeroBlock
  <2> QED
    BY <1>6, <2>1
<1>8. /\ \A m \in 0 .. sb.s_ninodes - 1 : InodeWritten(m)' = InodeWritten(m)
      /\ \A c \in 0 .. sb.s_fsize - 1 : Block(c)' = IF c = b THEN new ELSE Block(c)
  BY <1>1, <1>2, <1>4, <1>6, DataChanged
<1>9. Dinode(i, f)' = Dinode(i, f)
  BY <1>1, <1>8, SameInodes
<1>10. /\ Marked(INODE_BITMAP)' = Marked(INODE_BITMAP) /\ Marked(BLOCK_BITMAP)' = Marked(BLOCK_BITMAP)
  BY BitsKeptByBlocks DEF Types
<1>11. PICK none : none = [p \in 0 .. 1 |-> [ino |-> 0, name |-> ""]]
  OBVIOUS
<1>12. \A c \in 0 .. s - 1 : Block(c).data \in {0, c}
  BY <1>1, <1>2 DEF RootStays
<1>13. \A data \in {0, b} : DirentsMeant(data, f) = none
  <2>1. f # 0 /\ f # b
    BY <1>2, <1>4
  <2> QED
    BY <1>11, <2>1 DEF DirentsMeant
<1>14. Dirents(f, s)' = Dirents(f, s) /\ Dirents(f, s)' = [Dirents(f, s) EXCEPT ![b] = none]
  <2>1. \A c \in 0 .. s - 1 : Block(c)'.data = IF c = b THEN new.data ELSE Block(c).data
    BY <1>2, <1>8
  <2>2. DirentsMeant(Block(b).data, f) = none /\ DirentsMeant(new.data, f) = none
    BY <1>5, <1>7, <1>12, <1>13
  <2>3. ASSUME NEW c \in 0 .. s - 1 PROVE DirentsMeant(Block(c).data, f)' = DirentsMeant(Block(c).data, f)
    <3>1. DirentsMeant(Block(c).data, f)' = DirentsMeant(Block(c)'.data, f)
      BY DEF DirentsMeant
    <3> QED
      BY <2>1, <2>2, <3>1
  <2>4. Dirents(f, s)' = Dirents(f, s)
    BY <2>3 DEF Dirents
  <2>5. Dirents(f, s) = [Dirents(f, s) EXCEPT ![b] = none]
    BY <1>5, <2>2 DEF Dirents
  <2> QED
    BY <2>4, <2>5
<1>15. Chunk(f, s)' = [Chunk(f, s) EXCEPT ![b] = IF new = ZeroBlock THEN 0 ELSE 1]
  <2>1. \A c \in 0 .. s - 1 : Block(c)'.data = IF c = b THEN new.data ELSE Block(c).data
    BY <1>2, <1>8
  <2>2. ChunkMeant(new.data, b, f) = IF new = ZeroBlock THEN 0 ELSE 1
    BY <1>4, <1>5, <1>7 DEF ChunkMeant
  <2>3. ASSUME NEW c \in 0 .. s - 1
        PROVE  ChunkMeant(Block(c).data, c, f)' =
                 IF c = b THEN IF new = ZeroBlock THEN 0 ELSE 1 ELSE ChunkMeant(Block(c).data, c, f)
    <3>1. ChunkMeant(Block(c).data, c, f)' = ChunkMeant(Block(c)'.data, c, f)
      BY DEF ChunkMeant
    <3> QED
      BY <2>1, <2>2, <3>1
  <2> QED
    BY <2>3 DEF Chunk
<1>16. DiskStep(i, f, s)
  <2>1. CASE new = ZeroBlock
    <3>1. Disk(i, f, s)!zero_block(b)
      BY <1>9, <1>10, <1>11, <1>14, <1>15, <2>1, DiskWrites
    <3> QED
      BY <1>5, <3>1 DEF DiskStep
  <2>2. CASE new # ZeroBlock
    <3>1. Disk(i, f, s)!WriteChunk(b, 0)
      BY <1>9, <1>10, <1>14, <1>15, <2>2, DiskWrites
    <3> QED
      BY <1>5, <3>1 DEF DiskStep
  <2> QED
    BY <2>1, <2>2
<1>17. RootStays'
  <2>1. \A c \in 0 .. sb.s_fsize - 1 : Block(c)'.data \in {0, c}
    BY <1>2, <1>7, <1>8, <1>12
  <2>2. pc' \in {"bdata", "ready"} /\ (pc' = "bdata" => k' = k) /\ data_block_start(sb)' = data_block_start(sb)
    BY <1>1 DEF ZeroAllocated, WriteData, ZeroFreed
  <2> QED
    BY <1>1, <1>2, <1>3, <1>4, <1>10, <2>1, <2>2 DEF RootStays
<1> QED
  BY <1>16, <1>17

\* An open volume that is finished.
LEMMA OpenVolume ==
  ASSUME VolumeInv, BitsInv, WrittenInv, Formatted, sb' = sb, made' = made
  PROVE  \E i \in 2 .. MaxInodes, f \in 2 .. MaxBlocks, s \in 2 .. MaxBlocks :
           Geometry(i, f, s) /\ Open(i, f, s)
<1>1. pc \notin {"exit", "image", "superblock"} /\ RootStays /\ BitsFit
  BY DEF Formatted, BitsInv, InMkfs, WrittenInv
<1>2. Ready
  BY <1>1, Standing
<1>3. PICK i \in 2 .. MaxInodes, f \in 2 .. MaxBlocks, s \in 2 .. MaxBlocks : Sizes(i, f, s)
  BY <1>1, <1>2, SizesOf DEF RootStays
<1>4. Open(i, f, s)
  BY <1>1, <1>2, <1>3, BlockTyped DEF Open
<1> QED
  BY <1>3, <1>4 DEF Sizes

\* Every step of a tool on a finished volume.
LEMMA LibrarySteps ==
  ASSUME NoWrap, VolumeInv, BitsInv, WrittenInv, Formatted, Library,
         NEW i, NEW f, NEW s, Open(i, f, s)
  PROVE  RootStays' /\ DiskStep(i, f, s)
<1>1. CASE alloc_block_fails
  <2>1. image' = image /\ sb' = sb /\ pc' = pc /\ k' = k /\ Sizes(i, f, s) /\ RootStays
    BY <1>1 DEF alloc_block_fails, Open
  <2>2. /\ Marked(INODE_BITMAP)' = Marked(INODE_BITMAP) /\ Marked(BLOCK_BITMAP)' = Marked(BLOCK_BITMAP)
    BY <2>1, BitsSame DEF Types
  <2>3. \A c : Block(c)' = Block(c)
    BY <2>1 DEF Block, final_offset
  <2>4. \A m : InodeWritten(m)' = InodeWritten(m)
    BY <2>1 DEF InodeWritten, Block
  <2>5. Dinode(i, f)' = Dinode(i, f) /\ Dirents(f, s)' = Dirents(f, s) /\ Chunk(f, s)' = Chunk(f, s)
    BY <2>1, <2>3, <2>4, SameInodes, SameData
  <2>6. UNCHANGED Disk(i, f, s)!diskVars
    BY <2>2, <2>5, DiskWrites
  <2>7. RootStays'
    BY <2>1, <2>2, <2>3 DEF RootStays
  <2> QED
    BY <2>6, <2>7 DEF DiskStep
<1> QED
  BY <1>1, AllocInodeSet, AllocBlockSet, FreeBlockSet, FreeInodeSet, WriteInodeSet, WriteBlockSet
     DEF Library

\* Every step keeps what is known of root and data.
LEMMA WrittenStep ==
  ASSUME NoWrap, VolumeInv, BitsInv, WrittenInv, [Next]_vars
  PROVE  WrittenInv'
<1>1. ASSUME NEW how \in {"refused", "einval", "failed", "killed"}, Stops(how) PROVE WrittenInv'
  BY <1>1 DEF Stops, WrittenInv
<1>2. ASSUME UNCHANGED <<image, sb, made>>, k' = k, pc' = pc \/ pc' \in {"ready", "exit"}
      PROVE  WrittenInv'
  <2>1. /\ Marked(INODE_BITMAP)' = Marked(INODE_BITMAP) /\ Marked(BLOCK_BITMAP)' = Marked(BLOCK_BITMAP)
    BY <1>2, BitsSame DEF Types
  <2>2. \A c : Block(c)' = Block(c)
    BY <1>2 DEF Block, final_offset
  <2>3. \A m : InodeWritten(m)' = InodeWritten(m)
    BY <1>2 DEF InodeWritten, Block
  <2>4. RootStays => RootStays'
    BY <1>2, <2>1, <2>2 DEF RootStays
  <2>5. \A t \in BOOLEAN : (DataUpTo(t) => DataUpTo(t)') /\ (InodesUpTo(t) => InodesUpTo(t)')
    BY <1>2, <2>2, <2>3 DEF DataUpTo, InodesUpTo
  <2> QED
    BY <1>2, <2>4, <2>5 DEF WrittenInv
<1>3. CASE OpenImage \/ CloseImage \/ UNCHANGED vars
  <2>1. OpenImage => sb' = sb
    BY DEF OpenImage, VolumeInv, Accepted, VolBlock
  <2> QED
    BY <1>2, <1>3, <2>1 DEF OpenImage, CloseImage, vars
<1>4. CASE InsufficientBlocks \/ MarkInodeFails \/ Kill \/ WriteFails
  BY <1>1, <1>4 DEF InsufficientBlocks, MarkInodeFails, Kill, WriteFails
<1>5. CASE Library
  <2>1. /\ sb' = sb /\ made' = made /\ pc # "exit"
        /\ pc' \in {"ready", "bzero", "bdata", "bfree", "iwrite", "ifree"}
    BY <1>5 DEF Library, alloc_block, alloc_block_fails, ZeroAllocated, WriteData, free_block, ZeroFreed,
                alloc_inode, InitInode, ReleaseInode, free_inode, AtWork, InTool
  <2>2. CASE made = "success"
    <3>1. PICK i \in 2 .. MaxInodes, f \in 2 .. MaxBlocks, s \in 2 .. MaxBlocks : Open(i, f, s)
      BY <2>1, <2>2, OpenVolume DEF Formatted
    <3>2. RootStays'
      BY <1>5, <2>1, <2>2, <3>1, LibrarySteps DEF Formatted
    <3> QED
      BY <2>1, <3>2 DEF WrittenInv
  <2>3. CASE made # "success"
    BY <2>1, <2>3 DEF WrittenInv
  <2> QED
    BY <2>2, <2>3
<1> QED
  BY <1>3, <1>4, <1>5, WrittenBlank, WrittenRoot, WrittenMarks DEF Next, Mkfs, Tool

\* So it always holds.
LEMMA WrittenAlways ==
  ASSUME NoWrap
  PROVE  Spec => []WrittenInv
<1>1. Init => WrittenInv
  BY DEF Init, WrittenInv
<1>2. VolumeInv /\ BitsInv /\ WrittenInv /\ [Next]_vars => WrittenInv'
  BY WrittenStep
<1> QED
  BY <1>1, <1>2, VolumeAlways, BitsAlways, PTL DEF Spec

\* On every volume up to 4 GiB, a write of the library changes what PangyaDisk says
\* it changes, and nothing else: the one bit, inode or block it is about, the lowest
\* free one when it allocates (bitmap.c, allocator.c, read_block and write_block).
THEOREM LibraryIsSets ==
  ASSUME NoWrap
  PROVE  Spec => LibraryWorksOnSets
<1> DEFINE Works == Formatted /\ UNCHANGED made
                      => \E i \in 2 .. MaxInodes, f \in 2 .. MaxBlocks, s \in 2 .. MaxBlocks :
                           Geometry(i, f, s) /\ DiskStep(i, f, s)
<1>1. ASSUME VolumeInv, BitsInv, WrittenInv, Next PROVE Works
  <2> SUFFICES ASSUME Formatted, made' = made
               PROVE  \E i \in 2 .. MaxInodes, f \in 2 .. MaxBlocks, s \in 2 .. MaxBlocks :
                        Geometry(i, f, s) /\ DiskStep(i, f, s)
    OBVIOUS
  <2>1. pc # "exit" /\ ~InMkfs /\ made = "success"
    BY <1>1 DEF Formatted, BitsInv
  <2>2. Library \/ CloseImage
    BY <1>1, <2>1 DEF Next, Mkfs, Tool, mkfs, init_image, InsufficientBlocks, write_superblock, init_inode,
       WriteRootDir, WriteRootInode, MarkInode, MarkInodeFails, MarkBlock, OpenImage, Kill, WriteFails, InMkfs
  <2>3. sb' = sb
    BY <2>2 DEF Library, CloseImage, alloc_block, alloc_block_fails, ZeroAllocated, WriteData, free_block,
                ZeroFreed, alloc_inode, InitInode, ReleaseInode, free_inode
  <2>4. PICK i \in 2 .. MaxInodes, f \in 2 .. MaxBlocks, s \in 2 .. MaxBlocks :
          Geometry(i, f, s) /\ Open(i, f, s)
    BY <1>1, <2>3, OpenVolume
  <2>5. DiskStep(i, f, s)
    <3>1. CASE Library
      BY <1>1, <2>4, <3>1, LibrarySteps
    <3>2. CASE CloseImage
      <4>1. image' = image /\ sb' = sb /\ Sizes(i, f, s)
        BY <2>4, <3>2 DEF CloseImage, Open
      <4>2. /\ Marked(INODE_BITMAP)' = Marked(INODE_BITMAP) /\ Marked(BLOCK_BITMAP)' = Marked(BLOCK_BITMAP)
        BY <4>1, BitsSame DEF Types
      <4>3. (\A c : Block(c)' = Block(c)) /\ (\A m : InodeWritten(m)' = InodeWritten(m))
        BY <4>1 DEF InodeWritten, Block, final_offset
      <4>4. Dinode(i, f)' = Dinode(i, f) /\ Dirents(f, s)' = Dirents(f, s) /\ Chunk(f, s)' = Chunk(f, s)
        BY <4>1, <4>3, SameInodes, SameData
      <4>5. UNCHANGED Disk(i, f, s)!diskVars
        BY <4>2, <4>4, DiskWrites
      <4> QED
        BY <4>5 DEF DiskStep
    <3> QED
      BY <2>2, <3>1, <3>2
  <2> QED
    BY <2>4, <2>5
<1>2. VolumeInv /\ BitsInv /\ WrittenInv /\ [Next]_vars => [Works]_vars
  BY <1>1
<1>3. [](VolumeInv /\ BitsInv /\ WrittenInv) /\ [][Next]_vars => [][Works]_vars
  BY <1>2, PTL
<1> QED
  BY <1>3, VolumeAlways, BitsAlways, WrittenAlways, PTL DEF Spec, LibraryWorksOnSets

-----------------------------------------------------------------------------
(* What mkfs leaves behind.                                                *)

\* The inode list and the blocks, as far as mkfs has written root and data.
LEMMA ImageWritten ==
  ASSUME NEW i, NEW f, NEW s, Sizes(i, f, s)', NEW dots \in BOOLEAN, NEW root \in BOOLEAN,
         DataUpTo(dots)', InodesUpTo(root)'
  PROVE  /\ Dinode(i, f)' = [n \in Disk(i, f, s)!Inodes |->
                               IF n = Disk(i, f, s)!ROOT_INODE /\ root THEN Disk(i, f, s)!RootInode
                                                                       ELSE Disk(i, f, s)!BlankInode]
         /\ Dirents(f, s)' = [b \in Disk(i, f, s)!Blocks |->
                                IF b = f /\ dots
                                THEN Disk(i, f, s)!DotEntries(Disk(i, f, s)!ROOT_INODE, Disk(i, f, s)!ROOT_INODE)
                                ELSE Disk(i, f, s)!ZeroBlock]
         /\ Chunk(f, s)' = [b \in Disk(i, f, s)!Blocks |-> 0]
<1>1. /\ i \in Nat /\ f \in Nat /\ f # 0 /\ s \in Nat
      /\ i = sb'.s_ninodes /\ f = data_block_start(sb') /\ s = sb'.s_fsize
  BY Geometries DEF Sizes, Geometry
<1>2. /\ Disk(i, f, s)!Inodes = 1 .. i - 1 /\ Disk(i, f, s)!Blocks = 0 .. s - 1
      /\ Disk(i, f, s)!ROOT_INODE = ROOT_INODE
  BY DEF Disk!Inodes, Disk!Blocks, Disk!ROOT_INODE, ROOT_INODE
<1>3. /\ Disk(i, f, s)!BlankInode = InodeMeant(0, f)
      /\ Disk(i, f, s)!RootInode = InodeMeant(ROOT_INODE, f)
  <2>1. Disk(i, f, s)!Unmapped = [l \in {0} |-> 0] /\ Disk(i, f, s)!Logical = {0}
    <3>1. 0 .. 1 - 1 = {0}
      OBVIOUS
    <3> QED
      BY <3>1 DEF Disk!Unmapped, Disk!Logical
  <2>2. [[l \in {0} |-> 0] EXCEPT ![0] = f] = [l \in {0} |-> f]
    OBVIOUS
  <2>3. Disk(i, f, s)!BlankInode = InodeMeant(0, f)
    BY <2>1 DEF Disk!BlankInode, InodeMeant, ROOT_INODE
  <2>4. Disk(i, f, s)!RootInode = [mode |-> "dir", nlink |-> 2, size |-> 2, addr |-> [l \in {0} |-> f]]
    BY <2>1, <2>2 DEF Disk!RootInode
  <2>5. InodeMeant(ROOT_INODE, f) = [mode |-> "dir", nlink |-> 2, size |-> 2, addr |-> [l \in {0} |-> f]]
    BY DEF InodeMeant, ROOT_INODE
  <2> QED
    BY <2>3, <2>4, <2>5
<1>4. /\ Disk(i, f, s)!ZeroBlock = DirentsMeant(0, f)
      /\ Disk(i, f, s)!DotEntries(ROOT_INODE, ROOT_INODE) = DirentsMeant(f, f)
  <2>1. Disk(i, f, s)!ZeroBlock = [p \in 0 .. 1 |-> [ino |-> 0, name |-> ""]]
    BY 2 - 1 = 1 DEF Disk!ZeroBlock, Disk!Slots, Disk!NoEntry
  <2>2. PICK zero : zero = [p \in 0 .. 1 |-> [ino |-> 0, name |-> ""]]
    OBVIOUS
  <2>3. PICK one : one = [zero EXCEPT ![0] = [ino |-> ROOT_INODE, name |-> "."]]
    OBVIOUS
  <2>4. [one EXCEPT ![1] = [ino |-> ROOT_INODE, name |-> ".."]]
          = [p \in 0 .. 1 |-> [ino |-> ROOT_INODE, name |-> IF p = 0 THEN "." ELSE ".."]]
    <3>1. \A p \in 0 .. 1 : p = 0 \/ p = 1
      OBVIOUS
    <3>2. PICK a, b : a = [ino |-> ROOT_INODE, name |-> "."] /\ b = [ino |-> ROOT_INODE, name |-> ".."]
      OBVIOUS
    <3>3. one = [p \in 0 .. 1 |-> IF p = 0 THEN a ELSE [ino |-> 0, name |-> ""]]
      BY <2>2, <2>3, <3>2
    <3>4. [one EXCEPT ![1] = b] = [p \in 0 .. 1 |-> IF p = 0 THEN a ELSE b]
      <4>1. [one EXCEPT ![1] = b] = [p \in 0 .. 1 |-> IF p = 1 THEN b ELSE one[p]]
        BY <3>3
      <4>2. \A p \in 0 .. 1 : (IF p = 1 THEN b ELSE one[p]) = IF p = 0 THEN a ELSE b
        <5> TAKE p \in 0 .. 1
        <5>1. CASE p = 0
          <6>1. one[p] = IF p = 0 THEN a ELSE [ino |-> 0, name |-> ""]
            BY <3>3
          <6>2. one[p] = a
            BY <5>1, <6>1
          <6>3. p # 1
            BY <5>1
          <6> QED
            BY <5>1, <6>2, <6>3
        <5>2. CASE p = 1
          <6>1. p # 0
            BY <5>2
          <6> QED
            BY <5>2, <6>1
        <5> QED
          BY <3>1, <5>1, <5>2
      <4> QED
        BY <4>1, <4>2
    <3>5. \A p \in 0 .. 1 : [ino |-> ROOT_INODE, name |-> IF p = 0 THEN "." ELSE ".."] = IF p = 0 THEN a ELSE b
      BY <3>2
    <3> QED
      BY <3>2, <3>4, <3>5
  <2>5. Disk(i, f, s)!DotEntries(ROOT_INODE, ROOT_INODE) = [one EXCEPT ![1] = [ino |-> ROOT_INODE, name |-> ".."]]
    BY <2>1, <2>2, <2>3 DEF Disk!DotEntries
  <2>6. /\ DirentsMeant(0, f) = [p \in 0 .. 1 |-> [ino |-> 0, name |-> ""]]
        /\ DirentsMeant(f, f) = [p \in 0 .. 1 |-> [ino |-> ROOT_INODE, name |-> IF p = 0 THEN "." ELSE ".."]]
    BY <1>1 DEF DirentsMeant
  <2> QED
    BY <2>1, <2>4, <2>5, <2>6
<1>5. \A n \in 1 .. i - 1 : InodeWritten(n)' = IF root /\ n = ROOT_INODE THEN ROOT_INODE ELSE 0
  BY <1>1 DEF InodesUpTo
<1>6. \A b \in 0 .. s - 1 : Block(b)'.data = IF dots /\ b = f THEN f ELSE 0
  BY <1>1 DEF DataUpTo
<1>7. Dinode(i, f)' = [n \in 1 .. i - 1 |-> InodeMeant(InodeWritten(n)', f)]
  BY DEF Dinode, InodeMeant
<1>8. /\ Dirents(f, s)' = [b \in 0 .. s - 1 |-> DirentsMeant(Block(b)'.data, f)]
      /\ Chunk(f, s)' = [b \in 0 .. s - 1 |-> ChunkMeant(Block(b)'.data, b, f)]
  BY DEF Dirents, DirentsMeant, Chunk, ChunkMeant
<1>9. \A b \in 0 .. s - 1 : ChunkMeant(Block(b)'.data, b, f) = 0
  BY <1>6 DEF ChunkMeant
<1> QED
  BY <1>2, <1>3, <1>4, <1>5, <1>6, <1>7, <1>8, <1>9

\* Where mkfs ends: with the image whole, or cut off after the superblock.
LEMMA ImageCut ==
  ASSUME NEW i, NEW f, NEW s, Sizes(i, f, s)', NEW dots \in BOOLEAN, NEW root \in BOOLEAN, root => dots,
         NEW m \in 0 .. 2, NEW b \in 0 .. f + 1, m > 0 => root, b > 0 => m = 2,
         DataUpTo(dots)', InodesUpTo(root)',
         Marked(INODE_BITMAP)' = 0 .. m - 1, Marked(BLOCK_BITMAP)' = 0 .. b - 1
  PROVE  /\ Disk(i, f, s)!mkfs_cut'
         /\ m = 2 /\ b = f + 1 => Disk(i, f, s)!mkfs'
<1>1. /\ Dinode(i, f)' = [n \in Disk(i, f, s)!Inodes |->
                            IF n = Disk(i, f, s)!ROOT_INODE /\ root THEN Disk(i, f, s)!RootInode
                                                                    ELSE Disk(i, f, s)!BlankInode]
      /\ Dirents(f, s)' = [d \in Disk(i, f, s)!Blocks |->
                             IF d = f /\ dots
                             THEN Disk(i, f, s)!DotEntries(Disk(i, f, s)!ROOT_INODE, Disk(i, f, s)!ROOT_INODE)
                             ELSE Disk(i, f, s)!ZeroBlock]
      /\ Chunk(f, s)' = [d \in Disk(i, f, s)!Blocks |-> 0]
  BY ImageWritten
<1>2. Disk(i, f, s)!mkfs_cut'
  BY <1>1 DEF Disk!mkfs_cut
<1>3. ASSUME m = 2, b = f + 1 PROVE Disk(i, f, s)!mkfs'
  <2>1. f \in Nat
    BY Geometries DEF Sizes
  <2>2. 0 .. m - 1 = {0, Disk(i, f, s)!ROOT_INODE} /\ 0 .. b - 1 = 0 .. f
    BY <1>3, <2>1 DEF Disk!ROOT_INODE
  <2>3. root = TRUE /\ dots = TRUE
    BY <1>3
  <2> QED
    BY <1>1, <2>2, <2>3 DEF Disk!mkfs
<1> QED
  BY <1>2, <1>3

\* The superblock's sizes stay.
LEMMA SizesStay ==
  ASSUME sb' = sb, NEW i, NEW f, NEW s, Sizes(i, f, s)
  PROVE  Sizes(i, f, s)' /\ Geometry(i, f, s)'
  BY DEF Sizes, Geometry

\* mkfs ends: every way that leaves an image the tools accept, and a root inode in it.
LEMMA MkfsEnds ==
  ASSUME NoWrap, VolumeInv, BitsInv, WrittenInv, Next, InMkfs, pc' = "exit", sb.s_ninodes > ROOT_INODE,
         Accepted' \/ made' = "success"
  PROVE  \E i \in 2 .. MaxInodes, f \in 2 .. MaxBlocks, s \in 2 .. MaxBlocks :
           /\ Geometry(i, f, s)' /\ Disk(i, f, s)!mkfs_cut'
           /\ made' = "success" => Disk(i, f, s)!mkfs'
<1>1. \/ Kill \/ WriteFails \/ InsufficientBlocks \/ MarkInodeFails
      \/ MarkBlock /\ k' = 0 /\ made' = "success" /\ ~ (k + 1 <= data_block_start(sb))
  BY DEF Next, Mkfs, Tool, Library, mkfs, init_image, write_superblock, init_inode, WriteRootDir, WriteRootInode,
     MarkInode, MarkBlock, OpenImage, CloseImage, alloc_block, alloc_block_fails, ZeroAllocated, WriteData,
     free_block, ZeroFreed, alloc_inode, InitInode, ReleaseInode, free_inode, InMkfs, AtWork, InTool
<1>2. sb' = sb
  BY <1>1 DEF Kill, WriteFails, InsufficientBlocks, MarkInodeFails, MarkBlock, Stops
<1>3. WrittenInv'
  BY WrittenStep
<1>4. CASE Kill \/ WriteFails \/ InsufficientBlocks \/ MarkInodeFails
  <2>1. image' = image /\ made' # "success"
    BY <1>4 DEF Kill, WriteFails, InsufficientBlocks, MarkInodeFails, Stops
  <2>2. pc \in {"inodes", "rootdir", "rootinode", "ibitmap", "bbitmap"}
    BY <2>1 DEF Accepted, VolumeInv, LaidOut, InMkfs
  <2>3. Ready
    BY <2>2, Standing
  <2>4. PICK i \in 2 .. MaxInodes, f \in 2 .. MaxBlocks, s \in 2 .. MaxBlocks : Sizes(i, f, s)
    BY <2>3, SizesOf, Geometries DEF Ready, KnownSizes, ROOT_INODE
  <2>5. Sizes(i, f, s)' /\ Geometry(i, f, s)'
    BY <1>2, <2>4, SizesStay
  <2>6. /\ Marked(INODE_BITMAP)' = Marked(INODE_BITMAP) /\ Marked(BLOCK_BITMAP)' = Marked(BLOCK_BITMAP)
    BY <1>2, <2>1, BitsSame DEF Types
  <2>7. (\A c : Block(c)' = Block(c)) /\ (\A n : InodeWritten(n)' = InodeWritten(n))
    BY <1>2, <2>1 DEF InodeWritten, Block, final_offset
  <2>8. \A t \in BOOLEAN : (DataUpTo(t) => DataUpTo(t)') /\ (InodesUpTo(t) => InodesUpTo(t)')
    BY <1>2, <2>7 DEF DataUpTo, InodesUpTo
  <2>9. f \in Nat /\ f = data_block_start(sb) /\ 0 .. 0 - 1 = {}
    BY <2>4, Geometries DEF Sizes, Geometry
  <2>10. PICK dots \in BOOLEAN : dots <=> pc \notin {"inodes", "rootdir"}
    OBVIOUS
  <2>11. PICK root \in BOOLEAN : root <=> pc \in {"ibitmap", "bbitmap"}
    OBVIOUS
  <2>12. PICK m \in 0 .. 2 : m = IF pc = "ibitmap" THEN k ELSE IF pc = "bbitmap" THEN 2 ELSE 0
    BY DEF VolumeInv, IndexOK, ROOT_INODE
  <2>13. PICK b \in 0 .. f + 1 : b = IF pc = "bbitmap" THEN k ELSE 0
    <3>1. pc = "bbitmap" => k \in 0 .. f
      BY <2>9 DEF VolumeInv, IndexOK
    <3> QED
      BY <2>9, <3>1
  <2>14. Marked(INODE_BITMAP) = 0 .. m - 1 /\ Marked(BLOCK_BITMAP) = 0 .. b - 1
    <3>1. CASE pc = "bbitmap"
      <4>1. m = 2 /\ b = k /\ Marked(INODE_BITMAP) = 0 .. ROOT_INODE /\ Marked(BLOCK_BITMAP) = 0 .. k - 1
        BY <2>12, <2>13, <3>1 DEF BitsInv
      <4>2. 0 .. m - 1 = 0 .. ROOT_INODE
        BY <4>1 DEF ROOT_INODE
      <4> QED
        BY <4>1, <4>2
    <3>2. CASE pc = "ibitmap"
      BY <2>9, <2>12, <2>13, <3>2 DEF BitsInv
    <3>3. CASE pc \in {"inodes", "rootdir", "rootinode"}
      BY <2>9, <2>12, <2>13, <3>3 DEF BitsInv
    <3> QED
      BY <2>2, <3>1, <3>2, <3>3
  <2>15. DataUpTo(dots) /\ InodesUpTo(root)
    <3>1. CASE pc \in {"inodes", "rootdir"}
      BY <2>10, <2>11, <3>1 DEF WrittenInv
    <3>2. CASE pc = "rootinode"
      BY <2>10, <2>11, <3>2 DEF WrittenInv
    <3>3. CASE pc \in {"ibitmap", "bbitmap"}
      BY <2>10, <2>11, <3>3 DEF WrittenInv
    <3> QED
      BY <2>2, <3>1, <3>2, <3>3
  <2>16. (root => dots) /\ (m > 0 => root) /\ (b > 0 => m = 2)
    BY <2>10, <2>11, <2>12, <2>13
  <2>17. /\ Marked(INODE_BITMAP)' = 0 .. m - 1 /\ Marked(BLOCK_BITMAP)' = 0 .. b - 1
         /\ DataUpTo(dots)' /\ InodesUpTo(root)'
    BY <2>6, <2>8, <2>14, <2>15
  <2>18. Disk(i, f, s)!mkfs_cut'
    BY <2>5, <2>16, <2>17, ImageCut
  <2> QED
    BY <2>1, <2>5, <2>18
<1>5. CASE MarkBlock /\ k' = 0 /\ made' = "success" /\ ~ (k + 1 <= data_block_start(sb))
  <2>1. pc = "bbitmap" /\ set_bit(BLOCK_BITMAP, k) /\ k \in 0 .. data_block_start(sb)
    BY <1>5 DEF MarkBlock, VolumeInv, IndexOK
  <2>2. Ready
    BY <2>1, Standing
  <2>3. PICK i \in 2 .. MaxInodes, f \in 2 .. MaxBlocks, s \in 2 .. MaxBlocks : Sizes(i, f, s)
    BY <2>2, SizesOf, Geometries DEF Ready, KnownSizes, ROOT_INODE
  <2>4. Sizes(i, f, s)' /\ Geometry(i, f, s)'
    BY <1>2, <2>3, SizesStay
  <2>5. f \in Nat /\ f = data_block_start(sb) /\ k = f /\ k < sb.s_fsize /\ sb.s_fsize \in Nat
    BY <1>5, <2>1, <2>2, <2>3, Geometries DEF Sizes, Geometry, Ready, KnownSizes
  <2>6. k \in Numbers(BLOCK_BITMAP)
    BY <2>5 DEF Numbers, INODE_BITMAP, BLOCK_BITMAP
  <2>7. /\ Marked(BLOCK_BITMAP)' = Marked(BLOCK_BITMAP) \cup {k}
        /\ Marked(INODE_BITMAP)' = Marked(INODE_BITMAP)
    BY <1>2, <2>1, <2>2, <2>6, BitChanged DEF Types, INODE_BITMAP, BLOCK_BITMAP
  <2>8. Marked(INODE_BITMAP) = 0 .. ROOT_INODE /\ Marked(BLOCK_BITMAP) = 0 .. k - 1
    BY <2>1 DEF BitsInv
  <2>9. Marked(INODE_BITMAP)' = 0 .. 2 - 1 /\ Marked(BLOCK_BITMAP)' = 0 .. (f + 1) - 1
    <3>1. 0 .. ROOT_INODE = 0 .. 2 - 1 /\ (0 .. k - 1) \cup {k} = 0 .. (f + 1) - 1
      BY <2>5 DEF ROOT_INODE
    <3> QED
      BY <2>7, <2>8, <3>1
  <2>10. DataUpTo(TRUE)' /\ InodesUpTo(TRUE)'
    <3>1. /\ \A n \in 0 .. sb.s_ninodes - 1 : InodeWritten(n)' = InodeWritten(n)
          /\ \A c \in 0 .. sb.s_fsize - 1 : Block(c)'.data = Block(c).data
      BY <1>2, <2>1, <2>2, <2>6, BitsLeaveData DEF Types
    <3>2. DataUpTo(TRUE) /\ InodesUpTo(TRUE)
      BY <2>1 DEF WrittenInv
    <3> QED
      BY <1>2, <2>2, <3>1, <3>2, UpToKept
  <2>11. 2 \in 0 .. 2 /\ f + 1 \in 0 .. f + 1
    BY <2>5
  <2>12. Disk(i, f, s)!mkfs_cut' /\ Disk(i, f, s)!mkfs'
    BY <2>4, <2>9, <2>10, <2>11, ImageCut
  <2> QED
    BY <2>4, <2>12
<1> QED
  BY <1>1, <1>4, <1>5

\* On every volume up to 4 GiB, a mkfs that succeeds leaves exactly the image that
\* PangyaDisk, and with it every proof about the tools, starts from (mkfs.c:247-318).
THEOREM MkfsMakesDisk ==
  ASSUME NoWrap
  PROVE  Spec => MkfsLeavesDisk
<1> DEFINE Leaves == made' = "success" /\ made # "success"
                       => \E i \in 2 .. MaxInodes, f \in 2 .. MaxBlocks, s \in 2 .. MaxBlocks :
                            Geometry(i, f, s)' /\ Disk(i, f, s)!mkfs'
<1>1. ASSUME VolumeInv, BitsInv, WrittenInv, Next PROVE Leaves
  <2> SUFFICES ASSUME made' = "success", made # "success"
               PROVE  \E i \in 2 .. MaxInodes, f \in 2 .. MaxBlocks, s \in 2 .. MaxBlocks :
                        Geometry(i, f, s)' /\ Disk(i, f, s)!mkfs'
    OBVIOUS
  <2>1. MarkBlock /\ pc = "bbitmap" /\ pc' = "exit"
    BY <1>1 DEF Next, Mkfs, Tool, Library, mkfs, init_image, InsufficientBlocks, write_superblock, init_inode,
       WriteRootDir, WriteRootInode, MarkInode, MarkInodeFails, MarkBlock, Kill, WriteFails, Stops, OpenImage,
       CloseImage, alloc_block, alloc_block_fails, ZeroAllocated, WriteData, free_block, ZeroFreed, alloc_inode,
       InitInode, ReleaseInode, free_inode
  <2>2. sb.s_ninodes \in Nat /\ sb.s_ninodes > ROOT_INODE
    BY <1>1, <2>1, Standing DEF BitsInv, Ready, KnownSizes, ROOT_INODE
  <2> QED
    BY <1>1, <2>1, <2>2, MkfsEnds DEF InMkfs
<1>2. VolumeInv /\ BitsInv /\ WrittenInv /\ [Next]_vars => [Leaves]_vars
  BY <1>1
<1>3. [](VolumeInv /\ BitsInv /\ WrittenInv) /\ [][Next]_vars => [][Leaves]_vars
  BY <1>2, PTL
<1> QED
  BY <1>3, VolumeAlways, BitsAlways, WrittenAlways, PTL DEF Spec, MkfsLeavesDisk

\* On every volume up to 4 GiB, a mkfs that is killed, fails or is refused leaves an
\* image no tool accepts, one without a root inode (-i 1), or one whose bitmaps, root
\* directory and root inode are written up to where it got (mkfs.c:222-318).
THEOREM MkfsCutMakesDisk ==
  ASSUME NoWrap
  PROVE  Spec => MkfsCutLeavesDisk
<1> DEFINE Leaves == InMkfs /\ pc' = "exit" /\ Accepted' /\ sb.s_ninodes > ROOT_INODE
                       => \E i \in 2 .. MaxInodes, f \in 2 .. MaxBlocks, s \in 2 .. MaxBlocks :
                            Geometry(i, f, s)' /\ Disk(i, f, s)!mkfs_cut'
<1>1. ASSUME VolumeInv, BitsInv, WrittenInv, Next PROVE Leaves
  BY <1>1, MkfsEnds
<1>2. VolumeInv /\ BitsInv /\ WrittenInv /\ [Next]_vars => [Leaves]_vars
  BY <1>1
<1>3. [](VolumeInv /\ BitsInv /\ WrittenInv) /\ [][Next]_vars => [][Leaves]_vars
  BY <1>2, PTL
<1> QED
  BY <1>3, VolumeAlways, BitsAlways, WrittenAlways, PTL DEF Spec, MkfsCutLeavesDisk
=============================================================================
