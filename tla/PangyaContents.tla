---------------------------- MODULE PangyaContents ----------------------------
(***************************************************************************)
(* What the live inodes contain, as long as no tool is interrupted: every  *)
(* directory has its dots first and a size that covers its entries, every  *)
(* file the chunks of its host file, or the running tool is about to write *)
(* that.                                                                   *)
(***************************************************************************)
EXTENDS PangyaClean

\* "." and ".." come first; where ".." leads to is the business of UpDots.
HasDots(row, n) ==
  /\ row[<<0, 0>>].ino = n /\ row[<<0, 0>>].name = "."
  /\ row[<<0, 1>>].ino # 0 /\ row[<<0, 1>>].name = ".."

\* The size of a directory reaches its last entry and ends in one of its blocks.
SizeFits(row, c) ==
  /\ \A p \in Positions : row[p].ino # 0 => SizeAt(p) <= c.size
  /\ \E l \in Logical : c.addr[l] # 0 /\ c.size <= (l + 1) * DirentsPerBlock

\* The content c of inode n is complete.
WholeDir(c, n) == HasDots(Row(dirents, c), n) /\ SizeFits(Row(dirents, c), c)
Whole(c, n)    == IF c.mode = "dir" THEN WholeDir(c, n) ELSE Chunks(c, c.size)

\* put_inode is about to write inode n, the target; or its size, as the parent.
Unwritten(n) == pc = "put" /\ who = "target" /\ n = target.num /\ target.dirty = DIRTY
Unsized(n)   == pc \in Putting /\ n = parent.num

ContentsWhole(L) ==
  \A n \in L : \/ Unwritten(n)
               \/ n \notin Dirs /\ Chunks(dinode[n], dinode[n].size)
               \/ /\ n \in Dirs /\ HasDots(Table[n], n)
                  /\ Unsized(n) \/ SizeFits(Table[n], dinode[n])

\* What the running tool will write is complete when put_inode gets to it.
TargetWhole ==
  /\ pc \in Adding => Whole(target, target.num)
  /\ pc \in Putting /\ who = "target" /\ target.dirty = DIRTY /\ target.nlink # 0
       => Whole(target, target.num)

ParentWhole ==
  /\ pc \in Putting /\ parent.num \in Dirs => WholeDir(parent, parent.num)
  /\ pc \in Putting /\ (parent.dirty = CLEAN \/ parent.num \notin Dirs)
       => parent = get_inode(parent.num)

NewWhole(L) == \A n \in Inodes : Appears(L, n) => Whole(dinode[n], n)

ContentsInv(L) == ContentsWhole(L) /\ TargetWhole /\ ParentWhole /\ NewWhole(L)

\* In every state of a run without faults.
WholeTree == \E L \in SUBSET Inodes : LiveInv(L) /\ MarksInv(L) /\ ContentsInv(L)
=============================================================================
