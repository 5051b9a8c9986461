------------------------------ MODULE PangyaLive ------------------------------
(***************************************************************************)
(* Why one killed tool never costs the file tree: an inductive invariant   *)
(* of PangyaTools without I/O errors.                                      *)
(*                                                                         *)
(* It speaks of a set L of live inodes: the root and whatever the entries  *)
(* of live directories name.  L is not the set of the reachable inodes but *)
(* any such set, so that a step changes it by one inode at most: the write *)
(* that makes a new entry visible adds one, detach_entry removes one.      *)
(* Outside L nothing is promised, because a killed tool may leave inodes   *)
(* that map blocks which are free or in use by others.                     *)
(***************************************************************************)
EXTENDS PangyaReaders

\* A link count is an uint16_t, and a directory has at most 16 * 51 entries
\* (inode.h:10, dir.h:10, fs_utils.c:32): no sequence of mkdir makes it overflow.
ASSUME LinkAssumption == NDIRECT * DirentsPerBlock + 3 < UINT16_MAX

-----------------------------------------------------------------------------
(* The directories of the disk as a table.                                 *)

\* What stands at position q of the blocks of c, when blocks hold the entries D.
View(D, c, q) == IF c.addr[q[1]] # 0 THEN D[c.addr[q[1]]][q[2]] ELSE NoEntry
Row(D, c)     == [q \in Positions |-> View(D, c, q)]

Table == [n \in Inodes |-> Row(dirents, dinode[n])]
Dirs  == {n \in Inodes : dinode[n].mode = "dir"}

\* The positions of table t where directory d has an entry that names a child, and
\* those that name a directory.
Kids(t, d)            == {q \in Positions : t[d][q].ino # 0 /\ t[d][q].name \notin Dots}
SubdirsIn(t, dirs, d) == {q \in Kids(t, d) : t[d][q].ino \in dirs}

\* ".." of d leads to u, which holds d's entry; or d is the root.
LeadsUp(L, t, dirs, d, u) ==
  \/ d = ROOT_INODE /\ u = ROOT_INODE
  \/ u \in L \cap dirs /\ \E r \in Kids(t, u) : t[u][r].ino = d

\* The directories of L make up a tree: no entry leads out of L, to the root, or to
\* where another one leads; no name occurs twice in a directory; dots lead home.
KidsStay(L, t, dirs) ==
  \A d \in L \cap dirs : \A q \in Kids(t, d) : t[d][q].ino \in L \ {ROOT_INODE}
KidsOnce(L, t, dirs) ==
  \A d, e \in L \cap dirs : \A q \in Kids(t, d), r \in Kids(t, e) :
    t[d][q].ino = t[e][r].ino => d = e /\ q = r
NamesOnce(L, t, dirs) ==
  \A d \in L \cap dirs : \A q, r \in Positions :
    t[d][q].ino # 0 /\ t[d][r].ino # 0 /\ t[d][q].name = t[d][r].name => q = r
SelfDots(L, t, dirs) ==
  \A d \in L \cap dirs : \A q \in Positions :
    t[d][q].ino # 0 /\ t[d][q].name = "." => t[d][q].ino = d
UpDots(L, t, dirs) ==
  \A d \in L \cap dirs : \A q \in Positions :
    t[d][q].ino # 0 /\ t[d][q].name = ".." => LeadsUp(L, t, dirs, d, t[d][q].ino)

TreeOf(L, t, dirs) ==
  /\ KidsStay(L, t, dirs) /\ KidsOnce(L, t, dirs) /\ NamesOnce(L, t, dirs)
  /\ SelfDots(L, t, dirs) /\ UpDots(L, t, dirs)

\* row is that of a directory n without children: "." and ".." at most, once each.
OnlyDots(row, n, up) ==
  /\ \A q \in Positions : row[q].ino # 0 =>
       row[q] \in {[ino |-> n, name |-> "."], [ino |-> up, name |-> ".."]}
  /\ \A q, r \in Positions :
       row[q].ino # 0 /\ row[r].ino # 0 /\ row[q].name = row[r].name => q = r

\* A link count n is 2 plus the number of subdirectories, give or take m.
Near(n, count, m) == n - (2 + count) <= m /\ (2 + count) - n <= m

LinksOf(d) == Cardinality(SubdirsIn(Table, Dirs, d))

\* The blocks of a directory come before its holes.
Dense(c) == \A l, m \in Logical : m < l /\ c.addr[l] # 0 => c.addr[m] # 0

-----------------------------------------------------------------------------
(* What the disk alone says.                                               *)

\* The blocks L maps, and the data blocks that are marked though L maps them not.
Taken(L) == {dinode[n].addr[l] : n \in L, l \in Logical}
Spare(L) == {b \in bbits \ Taken(L) : ~badblock(b)}

\* c maps blocks of S only, and none twice.
Private(S, c) ==
  /\ \A l \in Logical : c.addr[l] # 0 => c.addr[l] \in S
  /\ \A l, j \in Logical : c.addr[l] # 0 /\ c.addr[l] = c.addr[j] => l = j

InodesOf(L) ==
  /\ L \subseteq Inodes /\ ROOT_INODE \in L \cap Dirs
  /\ \A n \in L : n \in ibits /\ dinode[n].mode # "none"
  /\ \A d \in L \cap Dirs : Dense(dinode[d])

BlocksOf(L) ==
  /\ \A b \in Taken(L) \ {0} : ~badblock(b) /\ b \in bbits
  /\ \A m, n \in L : \A l, j \in Logical :
       dinode[m].addr[l] # 0 /\ dinode[m].addr[l] = dinode[n].addr[j] => m = n /\ l = j

LiveDisk(L) == InodesOf(L) /\ BlocksOf(L) /\ TreeOf(L, Table, Dirs)

-----------------------------------------------------------------------------
(* What the running tool adds to it.                                       *)

parent == core["parent"]
target == core["target"]

\* Link counts are off by at most one for each killed tool, and the running one's
\* parent by one more, until put_inode writes it.
LiveLinks(L) ==
  \A d \in L \cap Dirs :
    Near(dinode[d].nlink, LinksOf(d), IF d = parent.num THEN kills + 1 ELSE kills)

\* The parent is in core as it is on the disk.
ParentRead(L) ==
  /\ parent.num \in L /\ parent = get_inode(parent.num)
  /\ parent.num \in Dirs => Near(parent.nlink, LinksOf(parent.num), kills)

NameFree == \A q \in Positions :
              Table[parent.num][q].ino # 0 => Table[parent.num][q].name # base

\* A tool that creates base in the directory parent.
CreatesIn(L) == tool \in Creators /\ parent.num \in L \cap Dirs /\ NameFree

\* The content c of inode n, a child of up without children of its own, when blocks
\* hold the entries D; its blocks are in S.
Newborn(S, D, n, c, up) ==
  /\ c.mode \in {"reg", "dir"} /\ c.nlink # 0 /\ Private(S, c)
  /\ c.mode = "dir" => c.nlink = 2 /\ Dense(c) /\ OnlyDots(Row(D, c), n, up)

\* The disk inode that alloc_inode wrote for the target.
TargetOnDisk ==
  /\ target.num \in Inodes /\ target.num \in ibits
  /\ dinode[target.num].addr = Unmapped /\ dinode[target.num].mode = target.mode
  /\ target.mode \in {"reg", "dir"} /\ (target.mode = "dir" => dinode[target.num].nlink = 2)

TargetStarted(L) ==
  /\ TargetOnDisk /\ target.num \notin L /\ target.dirty = CLEAN /\ target.nlink # 0
  /\ Private(Spare(L), target)
  /\ target.mode = IF tool = "mkdir" THEN "dir" ELSE "reg"

\* fresh is a block that alloc_block has marked and nobody maps.
FreshBlock(L) == fresh \in Spare(L) /\ \A l \in Logical : target.addr[l] # fresh

\* What put_inode will write of the parent, when the disk shows the new entry
\* already or there is none.
Settled(L) ==
  /\ parent.addr = dinode[parent.num].addr /\ parent.mode = dinode[parent.num].mode
  /\ parent.nlink # 0
  /\ parent.dirty = CLEAN => parent.nlink = dinode[parent.num].nlink
  /\ parent.num \in Dirs => Near(parent.nlink, LinksOf(parent.num), kills)

\* l is the first hole of the block list a.
FirstHole(a, l) == l \in Logical /\ \A m \in Logical : a[m] = 0 <=> ~(m < l)

\* What it will write when that shows the new entry, in a new block: c is what inode
\* n holds on the disk by then.
Grown(L, n, c) ==
  /\ parent.dirty = DIRTY /\ parent.num \in Dirs /\ parent.mode = "dir" /\ parent.nlink # 0
  /\ NameFree
  /\ Near(parent.nlink, LinksOf(parent.num) + (IF c.mode = "dir" THEN 1 ELSE 0), kills)
  /\ n \in ibits /\ dinode[n].mode = c.mode
  /\ Newborn(Spare(L), dirents, n, c, parent.num)
  /\ \E l \in Logical, b \in Spare(L) :
       /\ FirstHole(dinode[parent.num].addr, l)
       /\ parent.addr = [dinode[parent.num].addr EXCEPT ![l] = b]
       /\ dirents[b] = [ZeroBlock EXCEPT ![0] = [ino |-> n, name |-> base]]
       /\ \A j \in Logical : c.addr[j] # b

ParentDone(L) ==
  /\ parent.num \in L
  /\ \/ Settled(L)
     \/ /\ who = "target" /\ target.dirty = DIRTY
        /\ target.num \in Inodes \ L /\ Grown(L, target.num, target)
     \/ who = "parent" /\ \E n \in Inodes \ L : Grown(L, n, dinode[n])

\* What put_inode will do with the target: nothing, release it, or write it, where
\* no entry names it yet or one does.
ToRelease(L) ==
  target.nlink = 0 /\ target.num \notin L /\ Private(Spare(L), target) /\ Settled(L)

ToFill(L) ==
  /\ target.dirty = DIRTY /\ target.num \in L /\ TargetOnDisk
  /\ Newborn(Spare(L), dirents, target.num, target, parent.num) /\ Settled(L)
  /\ parent.num \in Dirs
  /\ \E q \in Kids(Table, parent.num) : Table[parent.num][q].ino = target.num

TargetDone(L) ==
  \/ target.num = 0
  \/ target.dirty = CLEAN /\ target.nlink # 0 /\ Settled(L)
  \/ ToRelease(L)
  \/ target.dirty = DIRTY /\ target.nlink # 0 /\ target.num \notin L
  \/ ToFill(L)

\* rm has found its target and dropped its links in core.
Detaching(L) ==
  /\ tool = "rm" /\ parent.num \in L \cap Dirs /\ target.num \in L \ {ROOT_INODE}
  /\ \E q \in Kids(Table, parent.num) :
       Table[parent.num][q] = [ino |-> target.num, name |-> base]
  /\ parent = [get_inode(parent.num) EXCEPT !.nlink = parent.nlink]
  /\ parent.nlink # 0 /\ target.addr = dinode[target.num].addr
  /\ Near(dinode[parent.num].nlink, LinksOf(parent.num), kills)
  /\ IF target.num \in Dirs
     THEN /\ target.nlink = 0 /\ Kids(Table, target.num) = {}
          /\ Near(parent.nlink, LinksOf(parent.num) - 1, kills)
     ELSE Near(parent.nlink, LinksOf(parent.num), kills)

Reading  == {"walk", "lookup", "ibit", "iwrite", "block", "bzero", "content", "entry", "ezero"}
Creating == {"ibit", "iwrite", "block", "bzero", "content", "entry", "ezero", "ewrite"}
Started  == {"block", "bzero", "content", "entry", "ezero", "ewrite"}
Filling  == {"block", "bzero", "content"}
Adding   == {"entry", "ezero", "ewrite"}
Holding  == {"bzero", "content", "ezero", "ewrite"}
Putting  == {"put", "pzero", "ifree"}

LiveTool(L) ==
  /\ pc = "idle" => core = NoInodes
  /\ pc # "idle" => base \in Names
  /\ pc \notin Putting => who = "target"
  /\ pc \in Reading => ParentRead(L)
  /\ pc \in {"walk", "lookup", "ibit", "iwrite"} => target = NULL
  /\ pc \in Creating => CreatesIn(L)
  /\ pc = "iwrite" => fresh \in ibits \ L
  /\ pc \in Started => TargetStarted(L)
  /\ pc \in Filling /\ tool = "mkdir" => target.addr = Unmapped
  /\ pc \in Holding => FreshBlock(L)
  /\ pc = "content" /\ tool = "mkdir" => dirents[fresh] = ZeroBlock
  /\ pc \in Adding => Newborn(Spare(L), dirents, target.num, target, parent.num)
  /\ pc \in {"ezero", "ewrite"} => FirstHole(dinode[parent.num].addr, k)
  /\ pc = "ewrite" =>
       /\ parent = [get_inode(parent.num) EXCEPT !.addr[k] = fresh]
       /\ dirents[fresh] = ZeroBlock
       /\ Near(parent.nlink, LinksOf(parent.num), kills)
  /\ pc = "detach" => Detaching(L)
  /\ pc \in Putting => ParentDone(L)
  /\ pc \in Putting /\ who = "target" => TargetDone(L)
  /\ pc \in Putting /\ who = "parent" => pc = "put" /\ target = NULL
  /\ pc \in {"pzero", "ifree"} => target.nlink = 0 /\ target.num # 0
  /\ pc = "pzero" => fresh \notin Taken(L)

LiveInv(L) == LiveDisk(L) /\ LiveLinks(L) /\ LiveTool(L)

\* No I/O error happens and at most one tool is killed.
LiveTree == \E L \in SUBSET Inodes : LiveInv(L)
=============================================================================
