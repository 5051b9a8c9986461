------------------------------ MODULE PangyaClean ------------------------------
(***************************************************************************)
(* Why the image is exact as long as no tool is interrupted: what          *)
(* PangyaLive leaves open.  The live inodes are the least set that is      *)
(* closed under the entries; every mark in a bitmap is accounted for by    *)
(* them or by what the running tool holds.                                 *)
(***************************************************************************)
EXTENDS PangyaLive

\* No tool is killed and no read or write fails.
NoFaults == MaxKills = 0 /\ MaxIoErrs = 0

-----------------------------------------------------------------------------
(* The live inodes.                                                        *)

Closed(S, t, dirs) == \A d \in S \cap dirs : \A q \in Kids(t, d) : t[d][q].ino \in S

Least(L, t, dirs) ==
  \A S \in SUBSET L : ROOT_INODE \in S /\ Closed(S, t, dirs) => S = L

-----------------------------------------------------------------------------
(* Every mark in a bitmap.                                                 *)

BlocksIn(c) == {c.addr[l] : l \in Logical}

\* Inode n, written already, becomes live when put_inode writes the parent.
Appears(L, n) == pc = "put" /\ who = "parent" /\ n \in Inodes /\ Grown(L, n, dinode[n])

InodesMarked(L) ==
  \A n \in ibits : \/ n \in L \cup {0, target.num}
                   \/ pc = "iwrite" /\ n = fresh
                   \/ Appears(L, n)

BlocksMarked(L) ==
  \A b \in bbits : \/ badblock(b)
                   \/ b \in Taken(L) \cup BlocksIn(target) \cup BlocksIn(parent)
                   \/ pc \in Holding /\ b = fresh
                   \/ \E n \in Inodes : Appears(L, n) /\ b \in BlocksIn(dinode[n])

\* What put_inode finds as the target and is not live, it releases, or it becomes
\* live with the parent; what it finds live and unchanged was only read.
TargetOwned(L) ==
  /\ target.num = 0 => target = NULL
  /\ pc \in Putting /\ who = "target" /\ target.num \notin L \cup {0}
       => target.nlink = 0 \/ (target.dirty = DIRTY /\ Grown(L, target.num, target))
  /\ pc \in Putting /\ who = "target" /\ target.num \in L /\ target.dirty = CLEAN
       => target.addr = dinode[target.num].addr
  /\ pc = "detach" => target.nlink = 0
  /\ pc = "ifree" => target.addr = Unmapped

\* A file has one link, until rm takes it or cp gives it up.
FewLinks(c) == c.mode = "reg" => c.nlink \in {0, 1}
FilesLinked == (\A n \in Inodes : FewLinks(dinode[n])) /\ FewLinks(parent) /\ FewLinks(target)

\* c maps the first n chunks of the host file, in order, and no more.
Chunks(c, n) ==
  \A l \in Logical : IF l < n THEN c.addr[l] # 0 /\ chunk[c.addr[l]] = l + 1
                     ELSE c.addr[l] = 0

\* cp fills its file block by block.
Copied ==
  /\ pc \in {"idle", "walk", "lookup", "ibit", "iwrite"} => k = 0
  /\ pc \in Filling /\ tool = "cp" => k <= fsz /\ Chunks(target, k)

MarksInv(L) ==
  /\ Least(L, Table, Dirs)
  /\ InodesMarked(L) /\ BlocksMarked(L) /\ TargetOwned(L) /\ FilesLinked /\ Copied

\* In every state of a run without faults.
CleanTree == \E L \in SUBSET Inodes : LiveInv(L) /\ MarksInv(L)
=============================================================================
