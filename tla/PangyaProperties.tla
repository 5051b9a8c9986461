-------------------------- MODULE PangyaProperties --------------------------
(***************************************************************************)
(* What makes a PangYa image sound, read off the disk alone, and what the  *)
(* tools of PangyaTools promise about it.                                  *)
(***************************************************************************)
EXTENDS PangyaTools

-----------------------------------------------------------------------------
(* The file tree on the disk.                                              *)

\* The entries of inode d that are in use, and those that name something else
\* than the directory itself or its parent.
Used(d)    == {p \in Mapped(dinode[d]) : EntryAt(dinode[d], p).ino # 0}
Entries(d) == IF dinode[d].mode = "dir"
              THEN {p \in Used(d) : EntryAt(dinode[d], p).name \notin Dots} ELSE {}

Child(d, p) == EntryAt(dinode[d], p).ino
Children(d) == {Child(d, p) : p \in Entries(d)}

\* The inodes that some path from the root names.
Reachable ==
  LET Within[i \in 0 .. NInodes] ==
        IF i = 0 THEN {ROOT_INODE}
        ELSE LET nearer == Within[i - 1] IN nearer \cup (UNION {Children(d) : d \in nearer})
  IN  Within[NInodes]

\* Every entry of the tree: <<directory, position>>.
Edges == UNION {{d} \X Entries(d) : d \in Reachable}

\* Every use of a block by a reachable inode: <<inode, logical block>>.
Uses   == {u \in Reachable \X Logical : dinode[u[1]].addr[u[2]] # 0}
Use(u) == dinode[u[1]].addr[u[2]]

Subdirs(d) == {p \in Entries(d) : dinode[Child(d, p)].mode = "dir"}

Quiet == pc = "idle"

-----------------------------------------------------------------------------
(* Between two tools, when no tool was ever interrupted.                   *)

\* After any sequence of mkdir, cp and rm, successful or refused at any point
\* (no inode, no block, no room in the directory, host file unreadable), exactly
\* the reachable inodes are marked in the inode bitmap: none leaks and none is
\* in use unmarked (alloc_inode, free_inode, the error handlers).
InodesAccounted == Quiet => ibits = {0} \cup Reachable

\* Exactly the metadata blocks and the blocks of reachable inodes are marked in
\* the block bitmap, also after a cp or mkdir that ran out of space halfway
\* (alloc_block, truncate_inode).
BlocksAccounted == Quiet => bbits = (0 .. FirstData - 1) \cup {Use(u) : u \in Uses}

\* A directory's link count is 2 plus its subdirectories, a file's is 1
\* (mkdir.c:198, rm.c:164, 199-200): rm frees by that count.
LinkCountsExact ==
  Quiet => \A n \in Reachable :
             dinode[n].nlink = IF dinode[n].mode = "dir" THEN 2 + Cardinality(Subdirs(n)) ELSE 1

\* search_dir finds every entry: it stops at the first unmapped logical block
\* while add_entry, detach_entry and rm go past it (dir.c:22-26, 134, 239).
EntriesFound ==
  Quiet => \A e \in Edges :
             search_dir(dinode[e[1]], EntryAt(dinode[e[1]], e[2]).name, Child(e[1], e[2]))

\* A directory's size reaches its last entry and stays within its blocks, though
\* entries are removed and added again in any order (dir.c:158-161, 200).
DirSizeCoversEntries ==
  Quiet => \A d \in Reachable : dinode[d].mode = "dir" =>
             /\ \A p \in Used(d) : SizeAt(p) <= dinode[d].size
             /\ dinode[d].size <= DirentsPerBlock * Cardinality(Logical \ Holes(dinode[d]))

\* A file that was copied whole reads back as the host file: one block for each
\* chunk, in order, never zeroed or overwritten on behalf of another inode.
FilesIntact ==
  Quiet => \A n \in Reachable : dinode[n].mode = "reg" =>
             \A l \in Logical : IF l < dinode[n].size
                                THEN dinode[n].addr[l] # 0 /\ chunk[dinode[n].addr[l]] = l + 1
                                ELSE dinode[n].addr[l] = 0

-----------------------------------------------------------------------------
(* At every step, and when a tool is killed between any two of its writes. *)

\* No entry ever names an inode that is free or blank: mkdir and cp write the
\* inode before its entry, rm clears the entry before it frees the inode.
NoDanglingEntries ==
  \A e \in Edges : /\ Child(e[1], e[2]) \in ibits
                   /\ dinode[Child(e[1], e[2])].mode # "none"

\* A block of a reachable inode is a data block, is marked in the bitmap, and has
\* no second user, so that no later alloc_block zeroes it.
ReachableBlocksSafe ==
  /\ \A u \in Uses : ~badblock(Use(u)) /\ Use(u) \in bbits
  /\ \A u, v \in Uses : Use(u) = Use(v) => u = v

\* An inode has one name, and a name in a directory one inode: the tree is a tree.
TreeShaped ==
  /\ \A e \in Edges : Child(e[1], e[2]) # ROOT_INODE
  /\ \A e, f \in Edges : e # f =>
       /\ Child(e[1], e[2]) # Child(f[1], f[2])
       /\ e[1] = f[1] => EntryAt(dinode[e[1]], e[2]).name # EntryAt(dinode[f[1]], f[2]).name

\* The link count of a directory is off by at most one for each killed tool.
LinkCountsWithinKills ==
  Quiet => \A n \in Reachable : dinode[n].mode = "dir" =>
             LET exact == 2 + Cardinality(Subdirs(n))
             IN  dinode[n].nlink \in exact - kills .. exact + kills

\* search_dir finds inode i under the name of a dot in directory n; only a mkdir that
\* was killed leaves a directory without dots.
DotLeads(n, dot, i) ==
  search_dir(dinode[n], dot, i) \/ (kills > 0 /\ search_dir(dinode[n], dot, 0))

\* "." of every directory names itself and ".." the directory that holds its entry, so
\* that a path through "." and ".." leads where it says (namei); also after a kill,
\* whatever is later put into a directory without dots (mkdir.c:174-188).
DotsLeadHome ==
  Quiet => /\ \A n \in Reachable : dinode[n].mode = "dir" => DotLeads(n, ".", n)
           /\ \A e \in Edges : dinode[Child(e[1], e[2])].mode = "dir"
                                 => DotLeads(Child(e[1], e[2]), "..", e[1])

\* What rm.c:117 sets out to do: the root directory is never deleted.
RootNeverDeleted == ROOT_INODE \in ibits /\ dinode[ROOT_INODE].mode = "dir"

-----------------------------------------------------------------------------
(* Whatever is killed or fails.                                            *)

\* c maps data blocks only.
MapsData(c) == \A l \in Logical : c.addr[l] = 0 \/ ~badblock(c.addr[l])

\* No inode, on disk or in core, maps a block of the superblock, the bitmaps or
\* the inode list, and those blocks and inode 0 stay marked: no tool ever zeroes
\* or overwrites the metadata as if it were data.
MetadataSafe ==
  /\ 0 \in ibits
  /\ 0 .. FirstData - 1 \subseteq bbits
  /\ \A n \in Inodes : MapsData(dinode[n])
  /\ \A w \in {"parent", "target"} : MapsData(core[w])
  /\ pc \in {"bzero", "content", "ezero", "ewrite", "pzero"} => ~badblock(fresh)

\* What the steps between two writes carry in fresh, k and held, and what keeps
\* MetadataSafe and TypeOK inductive.
InFlight ==
  /\ pc = "iwrite" => fresh \in Inodes
  /\ pc \in {"bzero", "content", "ezero", "ewrite", "pzero"} => fresh \in Blocks
  /\ pc \in {"bzero", "content"} /\ tool = "cp" => k < fsz
  /\ pc \in {"ezero", "ewrite"} => k \in Logical
  /\ pc = "ifree" => held.num # 0

\* A disk inode without links is blank: so namei, which puts every inode it walks
\* through (dir.c:87), never frees a directory on the way.
UnlinkedIsBlank == \A n \in Inodes : dinode[n].nlink = 0 => dinode[n] = BlankInode

\* One failed read or write is not enough to let two inodes share a block, or to
\* leave a block of the tree free for the next alloc_block, once the tool ended.
BlocksSafeAtRest == Quiet => ReachableBlocksSafe

\* The steps that write an inode or a directory entry.
TreeWritten == dinode' # dinode \/ dirents' # dirents

\* The tree changes only in the last fallible step of a tool that does not fail,
\* or in the put_inode of such a tool: a tool that reports failure, whatever it
\* met, neither added nor removed a name.
FailureKeepsNames == 
  [][TreeWritten /\ Edges' # Edges => status = EXIT_SUCCESS /\ pc' \in {"put", "idle"}]_vars

\* rm "bails out" on a directory that is not empty (rm.c:169): nothing that holds
\* entries drops out of the tree.
NonEmptyDirsStay ==
  [][TreeWritten => {d \in Reachable : Entries(d) # {}} \subseteq Reachable']_vars

\* "Update DIRTY flag last only to make sure all operations are successful"
\* (rm.c:210): an rm that fails puts its inodes back unchanged.
FailedRmWritesNothing == [][~(tool = "rm" /\ status = EXIT_FAILURE)]_diskVars

\* Every tool that starts comes to an end.
EveryToolEnds == pc # "idle" ~> pc = "idle"
=============================================================================
