# PangYa FS in TLA+

A verification project for the PangYa filesystem: TLA+ modules of the disk image and of the
tools that change it, TLC configurations that explore them exhaustively on small images, and
TLAPS proofs of what holds on every image. File names and lines below refer to `src/`.

## 1. Inventory

PangYa FS is a set of short-lived, single-threaded command line tools that work on one image
file with `pread` and `pwrite` (`read_block`, `write_block`, fs_utils.c:85-118). The image is
the only state that outlives a tool: no journal, no fsck, no lock.

| Component | State | Operations | Correct when |
|---|---|---|---|
| bitmaps (bitmap.c) | one bit per inode, one per block | `bitmap_set`, `bitmap_clear`, `count_bits` | exactly what is in use is marked |
| allocator (allocator.c) | in-core inodes (`struct inode`) | `alloc_inode`, `alloc_block`, `free_block`, `truncate_inode`, `free_inode`, `get_inode`, `update_inode`, `put_inode` | nothing is handed out twice, lost, or freed in use; metadata is never handed out |
| directories (dir.c) | entries in the blocks of directory inodes | `search_dir`, `namei`, `add_entry`, `detach_entry` | one name per inode, every entry found, sizes cover entries |
| block and inode I/O (fs_utils.c) | the image file | `read_block`, `write_block`, `zero_block`, `read_disk_inode`, `write_disk_inode`, `bmap`, sizes and offsets | regions are disjoint, offsets inside them |
| mkdir, cp, rm | an in-core parent and target inode | one `main` each, with an `error_handler` | succeed as a whole or leave the image as it was |
| mkfs | the new image | size checks, superblock, inode list, root directory, bitmaps | the image satisfies what the others assume |
| df, ls, stat | none (read-only) | count bits, print | report what is there |

They interact by calls within one process and, between processes, through the image alone.
`put_inode` (allocator.c:260) is the pivot: it frees whatever in-core inode has link count 0,
writes back a dirty one, and is how every tool commits (success) or rolls back (error handler).

What is hard here:

* *Partial failure.* A tool runs out of inodes, blocks or directory room after it has allocated
  and written some; the error handlers must undo that.
* *Interruption.* A tool is killed between two of its ten or so writes. Nothing repairs the image
  afterwards, so every later tool runs on what was left behind.
* *Ignored errors.* `put_inode`, `update_inode`, `truncate_inode` and rm's emptiness check go on
  after a failed read or write.
* *Long histories.* Entries removed and added again in any order, freed blocks handed out again,
  link counts that decide what is freed.
* *Boundaries.* Full directories, full bitmaps, the last `i_addr` slot, `uint16_t` link counts,
  `uint32_t` offsets.

There is no concurrency inside a tool; `src/README.md` limits the system to a single-threaded
environment, so two tools on one image at once are outside its contract and not modelled.

## 2. Modules

| Module | Models |
|---|---|
| `PangyaDisk` | the image and the library that reads and writes it, in sets and functions: bitmaps, inode list, directory blocks, file blocks, `search_dir`, choice of what to allocate; one action per `pwrite` |
| `PangyaTools` | mkdir, cp and rm on `PangyaDisk`, step by step, with kills and I/O errors |
| `PangyaProperties` | what makes an image sound, read off the disk alone, and what the tools promise |
| `PangyaReaders` | what namei, ls and stat show of those images |
| `PangyaHalfMade` | the tools on the image of an mkfs that did not get to its end |
| `PangyaTree` | the abstract specification: a tree of paths that each tool changes in one step |
| `PangyaRefinement` | `PangyaTools` implements `PangyaTree`: the refinement mapping |
| `PangyaLayout` | the geometry: region sizes, the place of every bit, inode and block |
| `PangyaVolume` | mkfs write by write, and the library on bytes, bits and slots |
| `PangyaVolumeProperties` | `PangyaVolume` does what `PangyaDisk` says; df; the superblock |
| `PangyaCopy` | cp reading a host file that other programs change |
| `PangyaLive` | the inductive invariant of the file tree: what holds of every set of live inodes while a tool runs |
| `PangyaClean` | what it takes to keep the image exact: every mark in a bitmap is accounted for |
| `PangyaContents` | what live directories and files contain, or are about to |
| `PangyaOwners` | why one failed read or write never lets two inodes share a block |
| `PangyaUndo` | `PangyaTools` with a history variable, the disk as it was when the running tool began; why a tool that fails changes nothing |
| `MCPangya` | `PangyaContents` and `PangyaUndo` for TLC, with symmetry |
| `MCFaults`, `MCReaders`, `MCTree` | `PangyaTools`, `PangyaLive` with `PangyaReaders`, `PangyaRefinement` for TLC, with symmetry |
| `PangyaTools_proofs` | proofs: types, metadata, inodes without links and the shape of inodes, from a finished or a half-made image |
| `PangyaLive_proofs` | proofs: what one entry more or less does to a tree of directories; each step of mkdir, cp and rm, `put_inode` and a kill keep the tree alive; what is reachable is live, and what the runs check of it; sizes as stat prints them |
| `PangyaClean_proofs` | proofs: without faults, what is marked is live, what is live is reachable, and a tool that fails changes nothing |
| `PangyaContents_proofs` | proofs: without faults, directories have their dots and sizes, files their chunks |
| `PangyaRefinement_proofs` | proofs: the tools implement `PangyaTree`, with at most one kill |
| `PangyaOwners_proofs` | proofs: with one failed read or write, blocks keep their owners |
| `PangyaCopy_proofs` | proofs: what cp makes of a file that changes, for every block size and number of changes |
| `PangyaVolume_proofs` | proofs: mkfs and the library keep to their regions and do what `PangyaDisk` says, and df is exact, for every geometry |

How they fit together:

    PangyaTree                     a tree of paths; one step per tool
       ^ ImplementsTree            (PangyaRefinement, run tree; ToolsImplementTree)
    PangyaTools                    mkdir, cp, rm; one step per write
       | EXTENDS                   (and is extended by PangyaProperties, PangyaReaders, PangyaLive)
    PangyaDisk                     the image as sets and functions
       ^ MkfsLeavesDisk, MkfsCutLeavesDisk, LibraryWorksOnSets  (run volume)
    PangyaVolume, PangyaLayout     the image as blocks, bytes, bits and slots

### PangyaDisk

`ibits` and `bbits` are the sets of the numbers whose bit is set, `dinode` the inode list,
`dirents` the directory entries stored in each block, `chunk` the number (plus one) of the host
file's chunk stored in a block, 0 after `zero_block`. `i_size0` is counted in entries for a
directory and in blocks for a file. `search_dir` is a relation between a directory, a name and an
answer: it keeps the order of the scan and the rule that it stops at the first unmapped logical
block, whereas `add_entry`, `detach_entry` and rm skip unmapped blocks (`Searched` and `Mapped`).
A detached entry keeps its name in the code (dir.c:251); nothing reads a name whose inode number
is 0, so all such entries are the one value `NoEntry`. `mkfs` is the image mkfs leaves behind, and
`mkfs_cut` what it leaves when it ends between the superblock and the last bit.

### PangyaTools

`pc` is the step of the running tool, `"idle"` between tools. `core` holds the in-core inodes of
the parent directory and of the target.

    idle - walk - lookup - ibit - iwrite - block - bzero - content -
           entry - (ezero - ewrite -) put ...             mkdir and cp
    idle - walk - lookup - detach - put ...               rm
    put (- pzero - put)* (- ifree) - idle                 put_inode, target then parent

Each step ends with at most one write. Steps that only compute or read are merged with the write
they lead to, because no other process sees the image in between and a kill before the write
looks like a kill after the previous one.

* `Invoke`, `WalkDown`, `WalkFails`, `WalkEnds`: the guards of `main` and `namei`. A path may have
  any number of components.
* `CreateLookup` ... `FileCopied`: `search_dir` for the new name, `alloc_inode` (bit, then inode),
  `alloc_block` (bit, then zero), the contents of a directory or one chunk of a file.
* `AddEntryInSlot`: scenario #1 of `add_entry`; `AddEntryAllocates`, `AddEntryZeroes`,
  `AddEntryInNewBlock`: scenario #2.
* `RmFile`, `RmEmptyDir`, `RmNotEmpty`, `detach_entry`: rm. Its second look-up of the target
  (namei after search_dir) is merged with the first: the directories did not change in between.
* `PutClean`, `update_inode`, `free_block`, `ZeroFreed`, `BlankOut`, `free_inode`: `put_inode`.
  When namei puts a directory it walked through, `put_inode` would write only if its link count
  were 0; `UnlinkedIsBlank` (checked and proved) says it is not.
* `error_handler`: the handlers of mkdir and cp set the created inode's link count to 0 so that
  `put_inode` releases it; rm's puts back its inodes as they are.
* `Kill`: a tool dies between two writes. `IoErrorFails`, `IoErrorReload`: a checked read or write
  fails. `IoErrorInRm`: an unreadable block counts as empty in rm. `IoErrorInPut`: `put_inode`
  goes on after a failed write. `MaxKills` and `MaxIoErrs` bound them.

Operators whose comment begins with "Seeded fault" are never used by the model: each is the
operator below it with a plausible bug, put in its place to see that the property concerned
notices.

Not in the model: torn writes and reordering by the host's page cache (a `pwrite` either happens
or does not, in program order, as for a killed process on a running host), path strings, and the
messages the tools print. The host file is taken to stay as it is; `PangyaCopy` says what that
leaves out.

### PangyaTree and PangyaRefinement

The abstract state is a function from the paths that exist to a directory or a file with its
chunks, and the running tool's request, phase and the path it has walked to. `Mkdir`, `Copy` and
`Unlink` each change one path; `Refuse` changes nothing, and is open to mkdir and cp in any
directory (they may lack room) but to rm only if the target is missing or has something below it.
`Crash` may lose what mkdir or cp was creating, or leave cp's file empty, and nothing else.

The mapping reads the tree off the disk with the running tool's dirty in-core inodes laid over it.
The one write that changes the tree is the one of the directory entry (`AddEntryInSlot`,
`AddEntryInNewBlock`, `detach_entry`); every other write of a tool maps to a step that changes
nothing. That includes the inode written by `put_inode` (already counted, because it was dirty) and
the whole rollback of a refused tool. After a kill the dirty inodes are gone and the disk alone
counts, which is why a crash may then empty a file.

### PangyaLayout and PangyaVolume

`PangyaLayout` has the arithmetic, with the sizes as parameters: `BLOCKSIZE`, bits in a byte, inodes
in a block, and `FileBlocks`, the number of blocks after which `block_number * BLOCKSIZE` wraps
(2^22 in the code, fs_utils.c:87, 104). `PangyaVolume` keeps the image as a function from block
offsets to contents; `mkfs` truncates it, and `init_image` ... `MarkBlock` are the writes of mkfs in
their order, with `Insufficient` the size check and `MarkInodeFails` what is left of it for `-i 1`.
`Kill` and `WriteFails` end mkfs between any two writes. `OpenImage` is any tool that accepts the
superblock; then `alloc_block` ... `free_inode` are the library's writes. The allocators scan
(`Scanned`, `IsSet`, `Number`) and the bitmap functions compute (`BitPlace`), as in the code, which
has the arithmetic once for each. `Halts` are the rounds of the scan that the loops of `alloc_block`
and `alloc_inode` do not go past, because the number is too large or its bit is clear and it may be
handed out. The first of them decides what they answer (`ReturnsAt`), and without one they run off
their end. In the same way `init_inode` goes through rounds of its own (`InodeRounds`), as in
mkfs.c:60-85, and mkfs places the root's inode by itself, where the library divides (`InodePlace`).
A tool allocates or releases something only on an image whose root inode is that of a directory
(`AtWork`, dir.c:77).

`PangyaVolumeProperties` instantiates `PangyaDisk` on what those blocks hold (`Disk(i, f, s)`, for
the geometry of the superblock).

### PangyaHalfMade

`HalfSpec` starts `PangyaTools` on `mkfs_cut`: the root's inode and the metadata may be free in the
bitmaps. `MkfsCutLeavesDisk` shows that these are the images `PangyaVolume` leaves. The finished
image is one of them.

### PangyaCopy

The host file is a sequence of units, each of which knows its place and the edit that wrote it;
`Grow` and `Shrink` are other programs. `stat`, `open`, `read` and `write` are cp's, one action for
each time it looks at the file. Rewriting in place, which cp cannot notice, is left out.

### PangyaReaders

ls and stat open the image read-only between two tools, so that they are operators on the disk:
`stat(n)`, and `ls(d)`, a set of lines. `Paths` are the inodes namei can reach, by way of `.` and
`..` too. Sizes are in the units of `DIRENT_SIZE` and `BLOCKSIZE`, because what matters is that
entries do not fill a block.

### PangyaLive

`LiveInv(L)` says what holds of a set `L` of live inodes, at every step, when no I/O error
happens and at most one tool is killed. `L` holds the root and whatever the entries of directories
of `L` name. `LiveDisk` is about the disk alone: inodes of `L` are marked and have a mode, their
blocks are data blocks, marked and mapped once (`BlocksOf`), and their directories make up a tree
(`TreeOf`, written over a table of the entries, so that it can be reasoned about without blocks).
`LiveLinks` is about link counts, and `LiveTool` says for each `pc` what the running tool holds and
will do to that: which blocks are its own (`Spare`), what `put_inode` will write (`Settled`,
`Grown`, `ToFill`) or release (`ToRelease`).

## 3. Properties and runs

| Run | Instance | Checks | Shows |
|---|---|---|---|
| `clean` | 5 inodes, 6 blocks (4 data), 2 blocks per inode, 2 entries per block, 3 names | `TypeOK`, `InodesAccounted`, `BlocksAccounted`, `LinkCountsExact`, `EntriesFound`, `DirSizeCoversEntries`, `FilesIntact`, `WholeTree`, `FailedToolChangesNothing`, `NonEmptyDirsStay` | without faults, any sequence of tools keeps the image exact, and a tool refused for lack of inodes, blocks, room in a directory or host data undoes all it did; and the inductive invariant of section 4 holds |
| `one_kill` | 4 inodes, 4 data blocks, 3 entries per block, 2 names, 1 kill | `NoDanglingEntries`, `ReachableBlocksSafe`, `TreeShaped`, `LinkCountsWithinKills`, `RootNeverDeleted`, `LsAgreesWithNamei`, `NothingUnknownShown`, `BlocksShown`, `DotsLeadHome`, `LiveTree` | one kill anywhere costs unreachable inodes and blocks and one link count, never the tree; ls, stat and namei agree on it; dots lead where they say; and the inductive invariant of section 4 holds |
| `one_io_error` | 4 inodes, 3 data blocks, 1 I/O error | `MetadataSafe`, `UnlinkedIsBlank`, `BlocksSafeAtRest`, `FailureKeepsNames` | one failed read or write never exposes metadata, shares a block between inodes at rest, or lets a failing tool change a name |
| `every_tool_ends` | a finished or half-made image of 3 inodes, 4 data blocks; 1 name, 1 kill, 1 I/O error | `MetadataOutOfReach`, `EveryToolEnds` | every tool comes to an end, and none touches the metadata though the bitmap calls it free |
| `tree` | 4 inodes, 3 data blocks, 3 entries per block, 2 names, 1 kill | `ImplementsTree` | the tools implement the abstract tree |
| `volume` | blocks of 2 bytes of 2 bits, 2 inodes per block, `-i` up to 5, `-s` up to 13 | `VolumeTypeOK`, `DfExact`, `AcceptedIsWhole`, `SuperblockStays`, `OnlyOneInodeFails`, `MkfsLeavesDisk`, `MkfsCutLeavesDisk`, `LibraryWorksOnSets`, `FullVolumeAnswered` | bytes, bits and slots do what `PangyaDisk` says; df counts what can be allocated; a cut mkfs leaves what `mkfs_cut` says |
| `changing_host` | blocks of 3 units, 2 blocks per inode, 3 edits | `CopyTypeOK`, `SizeMatchesBlocks`, `UnitsOnceInOrder`, `GrowingFileCopiedAsStated` | what cp makes of a file that changes: size and blocks agree, nothing is copied twice, a growing file is copied as stat saw it |
| `two_kills` | 4 inodes, 4 data blocks, 2 kills | `RootNeverDeleted` (violated) | finding 1 |
| `rm_unread_dir` | 4 inodes, 4 data blocks, 1 I/O error | `NonEmptyDirsStay` (violated) | finding 2 |
| `rm_failed_detach` | 4 inodes, 4 data blocks, 1 I/O error | `FailedRmWritesNothing` (violated) | finding 3 |
| `half_made_image` | as `volume`, smaller | `GottenInodesMarked` (violated) | finding 4 |
| `beyond_4gib` | as `volume`, but offsets wrap after 12 blocks and `-s` is up to 14 | `SuperblockStays` (violated) | finding 5 |

Why these bounds. In `clean` the first block of a directory is full with `.` and `..`, so that
every directory with an entry grows by a block (`AddEntryAllocates`), freed slots are reused
before or after a used one, and the third name does not fit: mkdir and cp are refused for lack of
room in the directory, after they allocated an inode and blocks. Four data blocks and two logical
blocks per inode let a file have 0, 1 or 2 chunks and the disk run full in every allocation, and
five inodes let a tool run out of them. What four blocks do not allow there is a directory inside
one that is not the root, which takes five: two for each directory with an entry, one for the
last. So in `clean` only the root has subdirectories. In the runs with faults a block holds three
entries: a directory with one entry needs one block, so that directories nest (the root, one in
it, one in that), and the second entry needs another block. There `DotsLeadHome` tells a parent
from the root, and `LinkCountsWithinKills`, which is exact until a kill, counts subdirectories of
a directory that is not the root. Inode and block numbers are always the lowest free ones, as in
the code, so that a larger image leaves the tools no new choice. `tree` needs two inodes besides
the root and a second directory block; it is smaller than `one_kill` because TLC computes two
trees for each step.

In `volume` a bitmap block holds 4 bits, so that up to 13 blocks and 5 inodes need bitmaps of one
to four blocks, with and without bits left over, and inode lists with and without a half-used block;
all sizes that mkfs refuses occur too. Nothing there depends on a name or an entry. In
`changing_host` three edits are enough to cut, extend and cut a file between two reads.

Names are symmetric (no code orders them); `every_tool_ends` declares no symmetry, since it checks
liveness. Deadlock is checked in every run but `changing_host`, where cp ends and the edits run
out: an idle image can always start a tool, and mkfs can always be run again.

Fairness. `HalfSpec` assumes weak fairness of `Step`, the running process being scheduled, and of
`WalkEnds`, a path having finitely many components. Nothing is assumed of kills and I/O errors:
the tool ends without them.

I/O errors are not part of `tree`: findings 2 and 3 are two ways in which a failing read or write
breaks the abstract tree, and finding 1 is what a second kill does to it. `FailureKeepsNames` says
what remains true with an I/O error.

### Findings

1. **Two interrupted mkdir can delete the root** (`two_kills`). mkdir writes its entry (dir.c:153)
   before the parent's link count (mkdir.c:198, 206). A kill in between leaves the count one short.
   After two of them in the root, rm of both directories brings the in-core count of the root to 0,
   and `put_inode` (allocator.c:265) frees the root inode and its blocks. rm.c:117 means to "avoid
   deleting root directory" and looks at the name only. With one kill it cannot happen
   (`one_kill`).
2. **rm removes a directory it could not read** (`rm_unread_dir`). rm.c:177 ignores a failing
   `read_block`, whose buffer is then all zeroes, and counts no entries; rm.c:169 says it bails out
   if the directory is not empty.
3. **A failing rm frees its target** (`rm_failed_detach`). rm lowers the target's link count in core
   (rm.c:164, 199) before `detach_entry`. When that fails, the error handler's `put_inode` frees the
   target although its entry remains; the DIRTY flag, set last "to make sure all operations are
   successful" (rm.c:210), is not consulted when the count is 0.
4. **An interrupted mkfs leaves an image that every tool accepts** (`half_made_image`). mkfs writes
   the superblock (mkfs.c:239) before the inode list, the root directory and the bitmaps. Killed
   after it wrote the root's inode (mkfs.c:287) and before it set its bit (mkfs.c:299), mkfs leaves
   an image that passes `read_superblock`, whose root namei reads and the tools work on, and whose
   root counts as a free inode in the bitmap that `alloc_inode` scans. allocator.c:109 says the inode
   read "should be marked as allocated"; nothing checks it. (Killed earlier, mkfs leaves a blank root
   inode, with which namei and `search_dir` fail: `AtWork`.) `every_tool_ends` shows what still
   holds then.
5. **Volumes over 4 GiB overwrite their metadata** (`beyond_4gib`). `block_number * BLOCKSIZE` is
   computed in 32 bits before it is widened (fs_utils.c:87, 104): block 2^22 + n is block n.
   superblock.h:16 calls `s_fsize` the "size in blocks of entire volume", and mkfs sets no limit.

Met while modelling, and stated by properties that hold, or outside the model:

* `mkfs -i 1` passes the size checks and fails at the bit of the root inode, with the old image
  gone (`OnlyOneInodeFails`).
* A full volume answers EIO instead of ENOSPC exactly when its size is a multiple of 8192 blocks:
  `alloc_block` tests the number against `s_fsize` at the start of a round, and then there is no
  round after the last block's (`FullVolumeAnswered`).
* stat divides a directory's size by the block size, but the size counts entries, which leave 4
  bytes of each block unused: from 6 blocks on stat may show one block too few (`BlocksShown` has
  the exact condition). A directory with 256 entries shows 5 blocks and has 6.
* cp takes a short read for a whole block (cp.c:200): when the host file is cut after cp's `stat`,
  the copy has the old size, and zeros for the rest, and cp succeeds.
  `GrowingFileCopiedAsStated` therefore excludes files that shrink.
* mkfs cuts its options to 32 bits after `strtoul`: `-s -4294967196` makes a volume of 100 blocks
  (mkfs.c:138, 158, where a comment says so).

## 4. Proofs

Checked by TLAPS for every value of the constants that satisfies the assumptions: any image size,
any set of names, any number of tools. The assumptions are

* `GeometryAssumption`: what mkfs checks before it formats, and two entries fit in a block;
* `NamesAssumption`: names are not `.`, `..` or empty;
* `FaultAssumption`: the fault bounds are natural numbers;
* `LinkAssumption` (`PangyaLive`): a directory cannot hold so many entries that its link count
  overflows. In the code it holds at most 16 * 51 of them and counts to 65535;
* `DirentAssumption` (`PangyaReaders`): the entries of a block fit in it;
* `LayoutAssumption`, `OptionAssumption`, and those of `PangyaCopy`: sizes are positive, and a
  block holds more than one inode.

| Theorem | Says | Under |
|---|---|---|
| `TypeCorrect` | `Spec => []TypeOK` | any number of kills and I/O errors |
| `MetadataIsSafe` | `Spec => []MetadataSafe` | any faults |
| `UnlinkedInodesBlank` | `Spec => []UnlinkedIsBlank` | any faults |
| `BlocksAreShown` | `Spec => []BlocksShown` | any faults |
| `HalfMadeMetadata` | `HalfSpec => []MetadataOutOfReach` | any faults, a half-made image |
| `HalfMadeUnlinked` | `HalfSpec => []UnlinkedIsBlank` | any faults, a half-made image |
| `TreeLives` | `Spec => []LiveTree` | `OneKill` |
| `EntriesNameInodes` | `Spec => []NoDanglingEntries` | `OneKill` |
| `BlocksAreOwned` | `Spec => []ReachableBlocksSafe` | `OneKill` |
| `TreeStaysTree` | `Spec => []TreeShaped` | `OneKill` |
| `LinkCountsNear` | `Spec => []LinkCountsWithinKills` | `OneKill` |
| `RootStays` | `Spec => []RootNeverDeleted` | `OneKill` |
| `EntriesAreFound` | `Spec => []EntriesFound` | `OneKill` |
| `DotsAlwaysLeadHome` | `Spec => []DotsLeadHome` | `OneKill` |
| `LsAndNameiAgree` | `Spec => []LsAgreesWithNamei` | `OneKill` |
| `NothingUnknown` | `Spec => []NothingUnknownShown` | `OneKill` |
| `FullDirsStay` | `Spec => NonEmptyDirsStay` | `OneKill` |
| `NamesOutliveFailure` | `Spec => FailureKeepsNames` | `OneKill` |
| `ToolsImplementTree` | `Spec => ImplementsTree` (`PangyaRefinement`) | `OneKill` |
| `BlocksKeepOwners` | `Spec => []OwnersKept` | `OneIoError` |
| `BlocksAreSafeAtRest` | `Spec => []BlocksSafeAtRest` | `OneIoError` |
| `TreeIsClean` | `Spec => []CleanTree` | `NoFaults` |
| `InodesAreAccounted` | `Spec => []InodesAccounted` | `NoFaults` |
| `BlocksAreAccounted` | `Spec => []BlocksAccounted` | `NoFaults` |
| `LinkCountsAreExact` | `Spec => []LinkCountsExact` | `NoFaults` |
| `FailuresChangeNothing` | `UndoSpec => FailedToolChangesNothing` (`PangyaUndo`) | `NoFaults` |
| `TreeIsWhole` | `Spec => []WholeTree` | `NoFaults` |
| `DirSizesCover` | `Spec => []DirSizeCoversEntries` | `NoFaults` |
| `FilesStayIntact` | `Spec => []FilesIntact` | `NoFaults` |
| `CopyIsTyped` | `Spec => []CopyTypeOK` (`PangyaCopy`) | any changes of the host file |
| `SizeAlwaysMatches` | `Spec => []SizeMatchesBlocks` | any changes |
| `UnitsStayInOrder` | `Spec => []UnitsOnceInOrder` | any changes |
| `GrowingFileIsCopied` | `Spec => []GrowingFileCopiedAsStated` | any changes |
| `VolumeIsTyped` | `Spec => []VolumeTypeOK` (`PangyaVolume`) | kills and failed writes of mkfs |
| `OnlyOneInode` | `Spec => []OnlyOneInodeFails` | the same |
| `AcceptedImagesWhole` | `Spec => []AcceptedIsWhole` | the same, and `NoWrap` |
| `SuperblockIsSafe` | `Spec => []SuperblockStays` | `NoWrap` |
| `DfIsExact` | `Spec => []DfExact` | `NoWrap` |
| `FullVolumes` | `Spec => FullVolumeAnswered` | `NoWrap` |
| `LibraryIsSets` | `Spec => LibraryWorksOnSets` | `NoWrap` |
| `MkfsMakesDisk` | `Spec => MkfsLeavesDisk` | `NoWrap` |
| `MkfsCutMakesDisk` | `Spec => MkfsCutLeavesDisk` | `NoWrap` |

`OneKill` is `MaxKills <= 1 /\ MaxIoErrs = 0`. It is as weak as the code allows: with two kills the
root can be deleted (finding 1), and with one I/O error a directory with entries is freed, or an
inode that an entry names (findings 2 and 3). `NoFaults` is `MaxKills = 0 /\ MaxIoErrs = 0`: a
killed tool does leak inodes and blocks, and leaves a link count behind. `OneIoError` is `MaxKills =
0 /\ MaxIoErrs <= 1`. `NoWrap` is `MaxBlocks <= FileBlocks`, a volume of at most 4 GiB: past it
blocks overwrite one another (finding 5).

### Types, metadata, inodes without links, shapes

`TypeOK` is not inductive: the step that writes inode `fresh` needs to know that `fresh` is an
inode, and `fresh` is a block in other steps; the step that stores chunk `k` needs `k` below the
number of chunks. `InFlight` says what each step carries over from the one before, and
`Inv == TypeOK /\ InFlight` is inductive. There is one lemma per kind of write (it keeps
`DiskTypeOK`), one each for `Exit`, `error_handler` and `PutDone`, which most actions end in, and
one per phase of the tools with one step per action. The initial state is `HalfInit`; `Init` is a
case of it (`InitIsHalf`).

`MetadataOutOfReach` is inductive with `Inv`: `FreeBlocks` holds no bad block and what an inode maps
came from there. `MetadataSafe` adds that the bits of the metadata and of inode 0 stay set
(`Reserved`), which a half-made image does not have to begin with: what `free_block` clears is no
bad block, and `InFlight` gives that `free_inode` never clears bit 0. `UnlinkedIsBlank` is
inductive with `Inv`: `update_inode` writes only inodes with links, `alloc_inode` writes 1 or 2,
and what `put_inode` writes for a released inode is blank because by then every block is unmapped
(`ReleasedIsBlank`).

`BlocksShown` is about one inode at a time, and holds under any faults because the whole inode is
written at once: `Shapes` says that every inode on the disk maps its first logical blocks and no
others, and has a size that ends in the last of these; and that so does every in-core inode that
`put_inode` would write, that is, one that is DIRTY and has links. While cp or mkdir fills its
target the size is not set yet (`Growing`); while `add_entry` gives the parent another block it
lags behind (`pc` in `ezero`, `ewrite`); nothing is DIRTY then, and a kill or a failure throws it
away. `truncate_inode` takes blocks away from the front, from inodes without links only, which
`put_inode` writes when nothing is left to map. From the shape to the number that stat prints
is division with a remainder: the unused ends of a directory's blocks are what `Unused` adds up.

### The file tree

The properties of the tree speak of the reachable inodes, and reachability is not something to do
induction over steps with: one write may cut off a directory, and what the set becomes is a
fixpoint. So the invariant is about *some* set `L` that is closed under entries, and `LiveTree`
says that there is one. A step changes `L` by one inode at most:

* the write that makes a new inode visible adds it (`AddEntryInSlot`; or `update_inode` of the
  parent, when the entry stands in a block that the parent on the disk does not map yet);
* `detach_entry` removes one, which has no entries of its own: rm has looked;
* every other write leaves the directories of `L` and the blocks they map as they are
  (`Unharmed`), because it works on what `L` does not map.

`TreeAdd`, `TreeRemove` and `TreeFill` say what the first two, and writing the
new directory's inode after its entry, do to `TreeOf`. Link counts are why one kill is the limit:
`LiveLinks` bounds how far a count is off by `kills`, and it takes a count that is off by less than
two to know that rm of a subdirectory leaves the parent with a link, that is, that `put_inode` does
not free a directory of `L`. Counts never overflow by `LinkAssumption`.

From `LiveInv(L)` to the reachable inodes: whatever contains the root and is closed under entries
contains them (`ReachableWithin`), and whatever is closed under `search_dir` contains what namei
gets to by way of `.` and `..` (`PathsWithin`). Both are functions defined by recursion over
`0 .. NInodes`; that their stages are what their definitions say (`StagesExist`), and induction over
the stages (`IntervalInduction`), follow from `WFMin` of the library, that the naturals are
well-founded, which is first-order and needs no operator to be instantiated. `AliveEntries` ...
`AliveLs` then derive each property from `LiveInv(L)`, `Inv` and `UnlinkedIsBlank` in one state.

The two action properties compare the reachable inodes before and after a write. In every state
they are the least set with the root that the entries do not lead out of (`AliveSeen`): `NInodes`
stages are enough, because each of them finds something or is the last (`ReachableClosed`). Three
of the writing actions touch the directories of `L` (`TreeWriters`, `WritesElsewhere`), and what
these do is known from the invariant's proof: an entry more, an entry less, or the dots of a new
directory (`ShutAdds`, `ShutRemoves`, `ShutFills`). `DirtyLast`, that before `put_inode` and after
a failure nothing in core is DIRTY, then gives `NamesOutliveFailure`.

### The tree that users see

`ToolsImplementTree` (`PangyaRefinement_proofs`) says of every image size and set of names what the
run `tree` checks on one: the tools, write by write, are steps of `PangyaTree`. The mapping speaks of
paths of any length, and there is no induction over data here; three ideas replace it.

* *A tree of paths is determined by what inodes list.* `Leads(N, lists, R)`: `N` has the root's
  empty path, is closed under entries, has nothing that no entry leads to, and each path and each
  inode of `R` once. There is at most one such set (`LeadsOnce`, by induction over lengths with
  the library's well-founded naturals), and `LeadingTo`, the function of the mapping that goes
  down level by level, is it when the listed inodes are a tree (`LeadingLeads`, `Arbor`): a path
  that visits no inode twice is no longer than there are inodes. So one entry more or less, or one
  inode that looks different, adds, removes or changes one path (`TreeGets`, `TreeLoses`,
  `TreeAlters`), and no step has to follow paths.
* *What is listed is what `LiveInv(L)` says is live* (`Told`, `ToldLive`): either the entries on the
  disk are all there is (`Steady`), or the parent in core brings one new inode (`Coming`).
  `Announced` is the strengthening that this takes and that `LiveInv` lacks: the new inode has size
  0 on the disk until `put_inode` writes it, an entry that names it is the running tool's, only
  mkdir and cp give a parent a block, and cp's chunks are in place before the entry is (`Copying`).
  `Dotted` keeps the dots of every directory until there has been a kill: a `..` that is not found
  is a refusal that `PangyaTree` allows only then.
* *Each action is one step of the tree or none* (`Simulates`): `EntryMaps` and `DetachMaps` for the
  writes that change it; `QuietStep` and `PutTree` for all the others, which touch nothing that is
  live, or write what was in view already; `WalkDownMaps` for one component of the path, with
  `Reached`, that the directory the tool stands in is on a path; `CrashMaps` for a kill, after which
  an entry that was to come with the parent is lost (`KillLoses`), and the inode of one already on
  the disk is empty (`KillEmpties`).

### Nothing leaks

`LiveInv(L)` promises nothing outside `L`, which may hold more than what is reachable.
`MarksInv(L)` (`PangyaClean`) is the other direction, and `CleanTree` says that some `L` has both.

* `Least`: no smaller set holds the root and is closed under entries. A new entry, a cleared one and
  the dots of a new directory keep it so (`LeastAdd`, `LeastRemove`, `LeastFill`).
* `InodesMarked` and `BlocksMarked`: what is marked is live, or metadata, or in the hands of the
  running tool: its target, a bit that has just been set, or the new inode that the parent in core
  will show (`Appears`).
* `TargetOwned`: how the tool gets rid of what it holds. A target that is not live has no links, so
  that `put_inode` frees it, or is written and becomes live with the parent; one that is live and
  was only read adds no block. This is what the error handlers of mkdir and cp are there for.
* `FilesLinked` and `Copied`: a file has one link until rm takes it, so that rm frees it; cp's
  blocks are those of the chunks it has copied.

At rest nothing is in core, so the marks are `L`'s. `Least` then makes `L` the reachable inodes
(`ReachableIsLive`), since these hold the root and are closed under entries (`ReachableClosed`).

### Tools that fail

`UndoSpec` (`PangyaUndo`) is `Spec` with the disk `before` the running tool began, so `CleanTree`
and `DirtyLast` hold of it too. `UndoInv` adds how the disk differs from `before` as long as the
tool has not succeeded (`Undecided`):

* `InodesWere(NewInodes)` and `BlocksWere(NewBlocks, GivenBack)`: by the inode and the blocks that
  the tool has marked, all of which were free, and by nothing else. What they are is read off what
  the tool holds: its target, the blocks the target maps, the bit just set. `GivenBack` is the
  block `free_block` has marked free and is about to zero.
* `FreeIsBlank`: free inodes and blocks are blank, so that it does not matter which one a failed
  tool took and gave back. It holds of successful tools too.
* `GivenUp`: what a failed mkdir or cp has made loses its links, which is what makes `put_inode`
  release it; a failed rm holds a target with links, which it does not release.

A successful tool leaves `Undecided` with the write that makes it succeed: the new entry, or the
entry cleared. `DirtyLast` gives that a failed tool writes no inode that stays. When `put_inode`
has returned, nothing is new, and `AsBefore` says that the disk is `before`.

### Contents

`ContentsInv(L)` (`PangyaContents`) says what the inodes of `L` contain, and `WholeTree` that some
`L` has this, `LiveInv` and `MarksInv`. A directory has `.` and `..` in its first two slots, a size
that reaches its last entry and ends in one of its blocks; a file has the chunks its size calls for.
That is not so at every step on the disk, and the invariant says where not, and why that is soon
mended:

* `Unwritten`: the new inode is blank from `alloc_inode` until `put_inode` writes it, while its
  entry is already there. `TargetWhole` says that what is in core is complete from the moment the
  entry is about to be added.
* `Unsized`: `add_entry` writes the entry before the parent's size. `ParentWhole` says that the
  size in core fits, and that a parent nothing was changed in is the one on the disk, so that rm
  and refused tools need not write it.
* `NewWhole`: an inode that only the parent in core will show is already complete on the disk, so
  that it may become live without another write of its own.

Whoever adds or clears an entry leaves the other slots of the directory alone (`SlotLeaves`), the
dots included: `add_entry` takes free slots and rm looks up names other than `.` and `..`
(`NamesAssumption`). A freed block is zero and unmapped by every live inode before it can be handed
out again, so no write to a new directory or file reaches an old one.

`DotsLeadHome` is proved with one kill. Until it, `Dotted` says that `WholeTree` holds, so that
both dots are found. After it, a directory may have none: the one that mkdir was about to write
back, into which later tools may still put entries, at the place of the dots. What `search_dir`
answers for a dot is an entry of the table (`DotAnswer`), and `TreeOf` has all of these lead home
(`KilledDots`).

### One failed read or write

A failing `read_disk_inode` or `write_block` breaks the tree for good: an entry may be left that
names a free inode, two entries may come to name one, a link count may drop to 0 early. So
`OwnersInv(S)` (`PangyaOwners`) does not say which inodes are live. It says that every inode owns
the blocks it maps, whoever names it: `OwnedOnce`, that what inodes map is marked and mapped once,
where an inode that is in core counts with its in-core map (`MapOf`).

* `S` is the exception: the inodes that `put_inode` marked free when it could not write the blank
  inode (`put_inode`, inode.c, goes on after a failing `update_inode`). They map blocks that are
  free. What saves the image is that no entry names them (`StaleUnnamed`), so that only
  `alloc_inode` gets at them again, and that blanks them first.
* `CoreCovers`: an in-core inode that may be thrown away maps at least what the disk inode maps,
  unless `put_inode` is releasing it; and an in-core inode in use is marked.
* `Apart`: mkdir, cp and rm never hold one inode as target and as parent, but where neither will
  be written.
* `OwnerTool`: what each step holds, the inode and the block being released included.

Two steps need more, namely what the tree was like before the error. When a block of a directory
cannot be read, rm takes it to be empty, and must not find that what it removes is its own parent
(`NotItself`); and what `put_inode` gives back must have lost the only entry that names it
(`ReleasedUnnamed`). Until the error the tree is clean (`CleanUntilError`, by the steps of
`TreeIsClean`), and that gives both. This is why `OneIoError` is the assumption: after a second
error neither follows.

### cp and a changing host file

`CopyInv` (`PangyaCopy_proofs`) has a part per property. `RoundsInv`: while cp reads, it has fewer
blocks than rounds, so at the end exactly as many, and `RoundsCover` does the division.
`OrderInv`: what has been read lies before the offset and in order, within a block and from one
block to the next; a read returns what lies behind the offset (`WhatIsRead`), and the rest of the
buffer is `Nothing`. `GrownInv`: as long as nobody cuts the file, its beginning is what it was at
cp's `stat` and every block but the last is read in full, so that unit `u` of block `i` is unit
`(i - 1) * BLOCKSIZE + u` of the file. `Contents` puts the blocks together by `div` and `mod`.

### The bytes of a volume

`VolumeInv` (`PangyaVolume_proofs`): the superblock in use is one that mkfs computes; the image
file has the blocks written so far, and all of them before the superblock is written (`LaidOut`);
a superblock in the file means that the regions fit (`~Insufficient`); the number each step is
about lies where the step needs it (`IndexOK`). The arithmetic is in `Division`, `DivisionUnique`
and `RoundingUp`, which no prover finds by itself because the sizes are parameters; `RegionsOf`
then says that the regions follow one another and have room for every number. `BitPlaced` and
`InodePlaced` say that a bit lies in its bitmap and an inode in the inode list, which is all that
`SuperblockIsSafe` needs.

df is about counting. `Numbering`: the scan of a bitmap by block, byte and bit meets every number
of its range once. So `bitmap_set` and `bitmap_clear`, which compute block, byte and bit from the
number, hit the place the scan gives that number (`PlaceOfNumber`), and change that number only, in
that bitmap only (`BitChanged`); other writes change none (`BitsElsewhere`); and `count_bits`
counts the marked numbers (`CountIs`, a bijection). `BitsInv` is then about sets again: mkfs marks
from 0 up to what it is about, `BitsFit` says of a finished volume that only inodes and blocks of
it are marked and the metadata always is, and the rest is subtraction (`Counted`).

The loops of the allocators come before that. `HaltsBefore`: they return no later than at the first
number that may be handed out; `HandedOut`: so a number they do hand out is the lowest of these, and
`AllocBlockIs`, `AllocInodeIs` and `AllocBlockFailsIs` say what that makes of the three actions.
`RoundsAreInodes` compares `init_inode`'s loops with the library's division: the rounds have the
numbers of the inodes, each once, at the places of `InodePlace`. For `FullVolumes`, `SpareBits` is
the arithmetic of a bitmap's last block, whether there is a bit for the number `s_fsize` at all; if
there is, the scan halts there at the latest, and if there is not, every block is in use.

That the bytes do what `PangyaDisk` says of sets is a refinement by parts. `InodesApart`: two inodes
never share block and slot; with it a write changes one inode (`InodeChanged`), one block's data
(`DataChanged`) or neither (`NeitherChanged`, `BitsLeaveData`). `WrittenInv` is the strengthening:
how much of root directory and root inode mkfs has written at each step, and on a finished volume
that the root keeps its bits, that no tool's step is about the root, and that a block holds its own
data or none (`RootStays`). `DiskBits`, `DiskWrites` and `DiskFree` say what the actions of
`PangyaDisk` come to through the mapping, `BitLibrary` ... `LibrarySteps` that every write of the
library is one of them, `ImageWritten` and `ImageCut` what each stage of mkfs leaves. So the proofs
about the tools, which start from `mkfs` or `mkfs_cut`, start from what is in the image file.

### Only model-checked

* `FailureKeepsNames` with an I/O error: there `LiveTree` is false, and `OwnersInv` does not speak
  of names.
* `EveryToolEnds`, which is liveness under fairness and which the prover does not treat.

## 5. Not modelled, and the plan

Not modelled: the build and `stress_test.sh`; option parsing, usage texts and the layout of the
reports (their numbers are: `ifree`, `bavail`, `stat`, `ls`); `bmap`'s allocating path, which has no
caller (search_dir calls it for mapped blocks only); ls on unreadable blocks, which it skips;
`s_fmod` and `s_time`, which nothing reads; two tools at once, which `src/README.md` excludes.

Done: `PangyaDisk`, `PangyaTools` and the properties with the first proofs; the abstract tree and
the refinement; the layout, mkfs and the library on bytes, with df; the half-made images; the
readers; cp on a changing file; the proofs of the file tree, without faults, with a kill and with
an I/O error, and of what failing tools leave; the proof that bytes, bits and slots do what the sets
of `PangyaDisk` do; the proof that the tools implement the tree. Every safety property that a
passing run checks is a theorem.

Next, where the code would be changed: an order of mkdir's writes that survives any number of kills
(finding 1), which would lift `OneKill` from the theorems above.
