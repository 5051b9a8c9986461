--------------------------- MODULE PangyaRefinement ---------------------------
(***************************************************************************)
(* The tools of PangyaTools implement the file tree of PangyaTree.         *)
(*                                                                         *)
(* A tool changes the tree when it writes the directory entry (add_entry,  *)
(* detach_entry).  The inodes that go with the entry are then still in     *)
(* core and dirty, until put_inode writes them: the tree is therefore read *)
(* off the disk with the dirty in-core inodes laid over it.  A kill wipes  *)
(* them, and the tree is what the disk alone says.                         *)
(***************************************************************************)
EXTENDS PangyaTools, Sequences

\* Inode n once the running tool has put its inodes.
Dirty(n) == {w \in {"parent", "target"} : core[w].num = n /\ core[w].dirty = DIRTY}

AsPut(n) == IF Dirty(n) = {} THEN dinode[n] ELSE OnDisk(core[CHOOSE w \in Dirty(n) : TRUE])

\* The entries of d that users see.
EntriesIn(d) == IF d.mode = "dir"
                THEN {e \in {EntryAt(d, p) : p \in Mapped(d)} : e.ino # 0 /\ e.name \notin Dots}
                ELSE {}

\* Every path and the inode it leads to, when inode n has the entries lists[n]; a
\* path has at most as many names as there are inodes besides the root.
Deeper(lists, S) == UNION {{<<Append(x[1], e.name), e.ino>> : e \in lists[x[2]]} : x \in S}

LeadingTo(lists) ==
  LET Depth[i \in 0 .. NInodes - 2] ==
        IF i = 0 THEN {<<<<>>, ROOT_INODE>>} ELSE Deeper(lists, Depth[i - 1])
  IN  UNION {Depth[i] : i \in 0 .. NInodes - 2}

Lists == [n \in Inodes |-> EntriesIn(AsPut(n))]
Named == LeadingTo(Lists)

InodeAt(named, path) == (CHOOSE x \in named : x[1] = path)[2]
PathTo(named, n)     == (CHOOSE x \in named : x[2] = n)[1]

\* What stat and a read of every block of the inode show.
InTree(d) ==
  [kind |-> d.mode,
   data |-> IF d.mode = "dir" THEN <<>>
            ELSE [j \in 1 .. d.size |-> IF d.addr[j - 1] = 0 THEN 0 ELSE chunk[d.addr[j - 1]]]]

TreeOnDisk ==
  LET named == Named
  IN  [path \in {x[1] : x \in named} |-> InTree(AsPut(InodeAt(named, path)))]

Phase == IF pc = "idle" THEN "idle"
         ELSE IF pc \in {"put", "pzero", "ifree"}
              THEN IF status = EXIT_SUCCESS THEN "done" ELSE "refused"
              ELSE IF pc = "walk" THEN "walking" ELSE "working"

\* The directory the tool has walked to.
Here == IF core["parent"].num = 0 THEN <<>> ELSE PathTo(Named, core["parent"].num)

Tree == INSTANCE PangyaTree WITH
          MaxChunks  <- NDIRECT,
          MaxCrashes <- MaxKills,
          tree       <- TreeOnDisk,
          phase      <- Phase,
          request    <- [tool |-> tool, name |-> base, size |-> fsz],
          where      <- Here,
          crashes    <- kills

\* mkdir, cp and rm, with all their writes, behave as single changes of a file
\* tree: the one asked for, at the path walked to, exactly when the tool reports
\* success; rm succeeds whenever there is a file or an empty directory to remove; a
\* killed tool loses or empties at most the file it was creating.
ImplementsTree == Tree!TreeSpec
=============================================================================
