---------------------------- MODULE PangyaHalfMade ----------------------------
(***************************************************************************)
(* The tools of PangyaTools on an image whose mkfs did not get to its end: *)
(* they accept it, because its superblock is there, and take the missing   *)
(* bits of the root and of the metadata for free inodes and blocks.  That  *)
(* mkfs leaves such images is shown by PangyaVolumeProperties.             *)
(***************************************************************************)
EXTENDS PangyaProperties

HalfInit ==
  /\ mkfs_cut
  /\ pc = "idle" /\ tool = "none" /\ base = "" /\ fsz = 0
  /\ core = NoInodes /\ who = "target" /\ fresh = 0 /\ k = 0
  /\ status = EXIT_SUCCESS /\ kills = 0 /\ ioerrs = 0

HalfSpec == HalfInit /\ [][Next]_vars /\ Fairness

\* Although the bitmap calls them free, no block of the metadata and nothing past
\* the image is ever mapped, zeroed or written as data: badblock stands behind the
\* bitmap in alloc_block and free_block (allocator.c:31, 72; fs_utils.c:78).
MetadataOutOfReach ==
  /\ \A n \in Inodes : MapsData(dinode[n])
  /\ \A w \in {"parent", "target"} : MapsData(core[w])
  /\ pc \in {"bzero", "content", "ezero", "ewrite", "pzero"} => ~badblock(fresh)
=============================================================================
