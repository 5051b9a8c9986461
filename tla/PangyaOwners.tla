----------------------------- MODULE PangyaOwners -----------------------------
(***************************************************************************)
(* Why one failed read or write never lets two inodes share a block: an    *)
(* inductive invariant of the tools when none is killed.                   *)
(*                                                                         *)
(* After an I/O error the tree may be broken: an entry may name a free     *)
(* inode, or one that two entries name, and a link count may drop to 0     *)
(* that should not.  Nothing is said here of which inodes are live: every  *)
(* inode owns the blocks it maps, whoever names it, but for the stale ones *)
(* that put_inode freed and could not blank.  No entry names these.        *)
(***************************************************************************)
EXTENDS PangyaClean

\* No tool is killed, and one read or write fails at most.
OneIoError == MaxKills = 0 /\ MaxIoErrs <= 1

\* The blocks of inode n: the in-core inodes come before those on the disk.
MapOf(n) == IF n = target.num THEN target.addr
            ELSE IF n = parent.num THEN parent.addr ELSE dinode[n].addr

Owners(S) == Inodes \ S

\* Every block has one owner, and is marked; a block being allocated has none yet.
OwnedOnce(S) ==
  /\ \A n \in Owners(S), l \in Logical : MapOf(n)[l] # 0 => MapOf(n)[l] \in bbits
  /\ \A m, n \in Owners(S), l, j \in Logical :
       MapOf(m)[l] # 0 /\ MapOf(m)[l] = MapOf(n)[j] => m = n /\ l = j
  /\ pc \in {"bzero", "content", "ezero"} =>
       fresh \in bbits /\ \A n \in Owners(S), l \in Logical : MapOf(n)[l] # fresh

\* put_inode is giving back the in-core inode w.
Dropped(w) == pc \in Putting /\ held.nlink = 0 /\ who = w

\* The in-core inode c may be left unwritten: the disk inode maps nothing that c does
\* not.  And if it is in use it is marked.
Covered(c) == \A l \in Logical : dinode[c.num].addr[l] \in {0, c.addr[l]}
InUse(c)   == c.mode # "none" => c.num \in ibits

CoreCovers ==
  /\ target.num # 0 => InUse(target) /\ (Covered(target) \/ Dropped("target"))
  /\ parent.num # 0 => InUse(parent) /\ (Covered(parent) \/ Dropped("parent"))

\* Both in-core inodes are the same one only if neither will be written or released.
Apart ==
  target.num # 0 /\ target.num = parent.num =>
    pc = "put" /\ target = parent /\ parent = get_inode(parent.num) /\ parent.nlink # 0

FreeIsNone(S) == \A n \in Owners(S) \ ibits : dinode[n].mode = "none"

\* Where blocks hold the entries D, none of the directory c names a stale inode.
Avoids(D, S, c) ==
  c.mode = "dir" => \A l \in Logical, s \in Slots :
                      c.addr[l] # 0 => D[c.addr[l]][s].ino \notin S

StaleUnnamed(S) ==
  /\ ROOT_INODE \notin S /\ parent.num \notin S
  /\ target.num \in S => pc = "ifree" /\ who = "target"
  /\ \A n \in Owners(S) : Avoids(dirents, S, dinode[n])
  /\ Avoids(dirents, S, parent) /\ (target.num \notin S => Avoids(dirents, S, target))
  /\ pc = "content" => \A s \in Slots : dirents[fresh][s].ino \notin S
  /\ S # {} => ioerrs # 0

\* What the running tool holds.
OwnerTool(S) ==
  /\ pc = "idle" => core = NoInodes
  /\ pc # "idle" => base \notin Dots
  /\ pc \notin Putting => who = "target"
  /\ pc \in {"walk", "lookup", "ibit", "iwrite"} =>
       target = NULL /\ parent.num # 0 /\ parent = get_inode(parent.num)
  /\ pc = "ibit" => parent.mode = "dir" /\ tool \in Creators
  /\ pc = "iwrite" => fresh # parent.num /\ fresh \in ibits /\ tool \in Creators
  /\ pc \in Started => /\ target.num # 0 /\ target.num # parent.num /\ tool \in Creators
                       /\ dinode[target.num].addr = Unmapped
  /\ pc = "ezero" => parent.addr[k] = 0
  /\ pc \in {"pzero", "ifree"} => held.num # 0 /\ held.nlink = 0
  /\ pc = "ifree" => held.num \in S \/ dinode[held.num] = BlankInode

OwnersInv(S) ==
  /\ OwnedOnce(S) /\ CoreCovers /\ Apart /\ FreeIsNone(S) /\ StaleUnnamed(S) /\ OwnerTool(S)

\* In every state of such a run.
OwnersKept == \E S \in SUBSET Inodes : OwnersInv(S)

CleanUntilError == ioerrs = 0 => CleanTree
=============================================================================
