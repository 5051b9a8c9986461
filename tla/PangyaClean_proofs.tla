-------------------------- MODULE PangyaClean_proofs --------------------------
(***************************************************************************)
(* What holds of the image as long as no tool is interrupted, for every    *)
(* image size and set of names: see PangyaClean.  And that a tool that     *)
(* fails changes nothing then: see PangyaUndo.                             *)
(***************************************************************************)
EXTENDS PangyaUndo, PangyaLive_proofs

-----------------------------------------------------------------------------
(* The parts the actions share.                                            *)

\* The two in-core inodes are written one at a time.
LEMMA CoreFields ==
  ASSUME core \in [Inodes2 -> inode], NEW x
  PROVE  /\ core' = [core EXCEPT !["target"] = x] => target' = x /\ parent' = parent
         /\ core' = [core EXCEPT !["parent"] = x] => parent' = x /\ target' = target
         /\ core' = core => parent' = parent /\ target' = target
  BY DEF Inodes2, target, parent

\* What an error handler leaves in core: the target may have lost its links.
LEMMA HandlerFields ==
  ASSUME core \in [Inodes2 -> inode], error_handler(core)
  PROVE  /\ parent' = parent /\ target'.num = target.num /\ target'.addr = target.addr
         /\ target'.mode = target.mode /\ target'.size = target.size
         /\ target'.dirty = target.dirty
         /\ target' = target \/ target'.nlink = 0
         /\ tool \in Creators /\ target.num # 0 => target'.nlink = 0
         /\ tool \notin Creators \/ target.num = 0 => target' = target
         /\ pc' = "put" /\ who' = "target" /\ k' = 0 /\ fresh' = 0 /\ UNCHANGED args
<1> DEFINE t == [target EXCEPT !.nlink = 0]
<1>1. /\ core' = IF tool \in Creators /\ target.num # 0 THEN [core EXCEPT !["target"].nlink = 0] ELSE core
      /\ pc' = "put" /\ who' = "target" /\ k' = 0 /\ fresh' = 0 /\ UNCHANGED args
  BY DEF error_handler, target
<1>2. target \in inode
  BY DEF target, Inodes2
<1>3. /\ t.num = target.num /\ t.addr = target.addr /\ t.mode = target.mode
      /\ t.size = target.size /\ t.dirty = target.dirty /\ t.nlink = 0
  BY <1>2 DEF inode
<1>4. CASE tool \in Creators /\ target.num # 0
  <2>1. core' = [core EXCEPT !["target"] = t]
    BY <1>1, <1>4 DEF target
  <2>2. target' = t /\ parent' = parent
    BY <2>1, CoreFields
  <2> HIDE DEF t
  <2> QED
    BY <1>1, <1>3, <1>4, <2>2
<1>5. CASE ~(tool \in Creators /\ target.num # 0)
  BY <1>1, <1>5, CoreFields
<1> QED
  BY <1>4, <1>5

-----------------------------------------------------------------------------
(* Files and their links.                                                  *)

\* Reading an inode, or writing it, keeps its links.
LEMMA FewLinksCopied ==
  ASSUME NEW c, FewLinks(c), NEW n
  PROVE  FewLinks(InCore(n, c)) /\ FewLinks(OnDisk(c))
  BY DEF FewLinks, InCore, OnDisk

\* A step that writes no inode.
LEMMA LinksRead ==
  ASSUME FilesLinked, dinode' = dinode, FewLinks(parent'), FewLinks(target')
  PROVE  FilesLinked'
  BY DEF FilesLinked

\* Starting, walking to the parent, and failing.
LEMMA LinksWalk ==
  ASSUME NEW L, Before(L), FilesLinked,
         \/ Start \/ WalkDown \/ WalkFails \/ WalkEnds \/ CreateLookup \/ CreateLookupFails
         \/ NoFreeInode \/ NoFreeBlock \/ HostFails \/ AddEntryFails \/ RmLookupFails
  PROVE  FilesLinked'
<1>1. core \in [Inodes2 -> inode]
  BY BeforeParts
<1>2. dinode' = dinode
  BY DEF diskVars, Start, Invoke, WalkDown, WalkFails, WalkEnds, CreateLookup, CreateLookupFails,
     NoFreeInode, NoFreeBlock, HostFails, AddEntryFails, RmLookupFails
<1>3. \A n \in Inodes : FewLinks(get_inode(n))
  BY FewLinksCopied DEF FilesLinked, get_inode
<1>4. \/ error_handler(core)
      \/ core' = core
      \/ \E n \in Inodes : core' = [core EXCEPT !["parent"] = get_inode(n)]
  BY RootType DEF Start, Invoke, WalkDown, WalkFails, WalkEnds, CreateLookup, CreateLookupFails,
     NoFreeInode, NoFreeBlock, HostFails, AddEntryFails, RmLookupFails
<1>5. CASE error_handler(core)
  <2>1. FewLinks(parent') /\ FewLinks(target')
    BY <1>1, <1>5, HandlerFields DEF FilesLinked, FewLinks
  <2> QED
    BY <1>2, <2>1, LinksRead
<1>6. CASE core' = core
  BY <1>1, <1>2, <1>6, CoreFields, LinksRead DEF FilesLinked
<1>7. ASSUME NEW n \in Inodes, core' = [core EXCEPT !["parent"] = get_inode(n)]
      PROVE  FilesLinked'
  <2>1. parent' = get_inode(n) /\ target' = target
    BY <1>1, <1>7, CoreFields
  <2> QED
    BY <1>2, <1>3, <2>1, LinksRead DEF FilesLinked
<1> QED
  BY <1>4, <1>5, <1>6, <1>7

\* Creating: the new inode has one link if it is a file, and only the links of a
\* directory grow.
LEMMA LinksCreate ==
  ASSUME NEW L, Before(L), FilesLinked,
         \/ alloc_inode \/ InitInode \/ alloc_block \/ ZeroFresh \/ WriteDotEntries
         \/ CopyChunk \/ FileCopied \/ AddEntryInSlot \/ AddEntryAllocates
         \/ AddEntryZeroes \/ AddEntryInNewBlock
  PROVE  FilesLinked'
<1>1. core \in [Inodes2 -> inode] /\ DiskTypeOK /\ LiveTool(L) /\ L \subseteq Inodes
      /\ target \in inode /\ parent \in inode
  BY BeforeParts DEF target, parent, Inodes2
<1>2. FewLinks(NewInode)
  BY DEF FewLinks, NewInode, BlankInode
<1>3. CASE InitInode
  <2>1. core' = [core EXCEPT !["target"] = InCore(fresh, NewInode)]
        /\ dinode' = [dinode EXCEPT ![fresh] = NewInode]
    BY <1>3 DEF InitInode, write_disk_inode
  <2>2. target' = InCore(fresh, NewInode) /\ parent' = parent
    BY <1>1, <2>1, CoreFields
  <2>3. \A n \in Inodes : FewLinks(dinode'[n])
    BY <1>1, <1>2, <2>1 DEF FilesLinked, DiskTypeOK
  <2> QED
    BY <1>2, <2>2, <2>3, FewLinksCopied DEF FilesLinked
<1>4. CASE alloc_inode \/ alloc_block \/ ZeroFresh \/ AddEntryAllocates
  <2>1. core' = core /\ dinode' = dinode
    BY <1>4 DEF alloc_inode, alloc_block, ZeroFresh, AddEntryAllocates, SetInodeBit, SetBlockBit,
       zero_block
  <2> QED
    BY <1>1, <2>1, CoreFields, LinksRead DEF FilesLinked
<1>5. CASE WriteDotEntries \/ CopyChunk \/ FileCopied
  <2>1. dinode' = dinode
    BY <1>5 DEF WriteDotEntries, CopyChunk, FileCopied, WriteDots, WriteChunk, diskVars
  <2>2. \/ /\ pc = "content" /\ tool = "mkdir"
           /\ core' = [core EXCEPT !["target"] = [target EXCEPT !.size = 2, !.nlink = 2, !.addr[0] = fresh]]
        \/ core' = [core EXCEPT !["target"] = [target EXCEPT !.addr[k] = fresh]]
        \/ core' = [core EXCEPT !["target"] = [target EXCEPT !.size = fsz, !.nlink = 1]]
    BY <1>5 DEF WriteDotEntries, CopyChunk, FileCopied, target
  <2>3. CASE core' = [core EXCEPT !["target"] = [target EXCEPT !.size = 2, !.nlink = 2, !.addr[0] = fresh]]
             /\ pc = "content" /\ tool = "mkdir"
    <3>1. target' = [target EXCEPT !.size = 2, !.nlink = 2, !.addr[0] = fresh] /\ parent' = parent
      BY <1>1, <2>3, CoreFields
    <3>2. target.mode = "dir"
      BY <1>1, <2>3 DEF LiveTool, Started, TargetStarted
    <3>3. target'.mode = "dir"
      BY <1>1, <3>1, <3>2 DEF inode
    <3> QED
      BY <2>1, <3>1, <3>3, LinksRead DEF FilesLinked, FewLinks
  <2>4. CASE core' = [core EXCEPT !["target"] = [target EXCEPT !.addr[k] = fresh]]
    <3>1. target' = [target EXCEPT !.addr[k] = fresh] /\ parent' = parent
      BY <1>1, <2>4, CoreFields
    <3>2. target'.mode = target.mode /\ target'.nlink = target.nlink
      BY <1>1, <3>1 DEF inode
    <3> QED
      BY <2>1, <3>1, <3>2, LinksRead DEF FilesLinked, FewLinks
  <2>5. CASE core' = [core EXCEPT !["target"] = [target EXCEPT !.size = fsz, !.nlink = 1]]
    <3>1. target' = [target EXCEPT !.size = fsz, !.nlink = 1] /\ parent' = parent
      BY <1>1, <2>5, CoreFields
    <3>2. target'.nlink = 1
      BY <1>1, <3>1 DEF inode
    <3> QED
      BY <2>1, <3>1, <3>2, LinksRead DEF FilesLinked, FewLinks
  <2> QED
    BY <2>2, <2>3, <2>4, <2>5
<1>6. CASE AddEntryInSlot \/ AddEntryInNewBlock
  <2>1. dinode' = dinode /\ pc \in Creating
    BY <1>6 DEF AddEntryInSlot, AddEntryInNewBlock, WriteDirent, Creating
  <2>2. PICK size : core' = Linked(size)
    BY <1>6 DEF AddEntryInSlot, AddEntryInNewBlock
  <2>3. parent.mode = "dir"
    <3>1. CASE pc = "entry"
      BY <3>1, AddingTool
    <3>2. CASE pc = "ewrite"
      <4>1. parent = [get_inode(parent.num) EXCEPT !.addr[k] = fresh] /\ parent.num \in L \cap Dirs
        BY <1>1, <3>2 DEF LiveTool, Creating, CreatesIn
      <4>2. dinode[parent.num].mode = "dir"
        BY <4>1 DEF Dirs
      <4> QED
        BY <4>1, <4>2 DEF get_inode, InCore
    <3> QED
      BY <1>6, <3>1, <3>2 DEF AddEntryInSlot, AddEntryInNewBlock
  <2>4. parent'.mode = "dir" /\ target'.mode = target.mode /\ target'.nlink = target.nlink
    BY <1>1, <2>2, <2>3, LinkedFields
  <2> QED
    BY <2>1, <2>4, LinksRead DEF FilesLinked, FewLinks
<1>7. CASE AddEntryZeroes
  <2>1. dinode' = dinode /\ core' = [core EXCEPT !["parent"] = [parent EXCEPT !.addr[k] = fresh]]
    BY <1>7 DEF AddEntryZeroes, zero_block, parent
  <2>2. parent' = [parent EXCEPT !.addr[k] = fresh] /\ target' = target
    BY <1>1, <2>1, CoreFields
  <2>3. parent'.mode = parent.mode /\ parent'.nlink = parent.nlink
    BY <1>1, <2>2 DEF inode
  <2> QED
    BY <2>1, <2>2, <2>3, LinksRead DEF FilesLinked, FewLinks
<1> QED
  BY <1>3, <1>4, <1>5, <1>6, <1>7

\* rm takes the links of its target: those of a file go from one to none.
LEMMA LinksTaken ==
  ASSUME NEW L, Before(L), FilesLinked,
         RmFile \/ RmEmptyDir
  PROVE  FilesLinked' /\ target'.nlink = 0
<1>1. core \in [Inodes2 -> inode] /\ DiskTypeOK /\ L \subseteq Inodes /\ parent \in inode
      /\ target \in inode
  BY BeforeParts DEF parent, target, Inodes2
<1>2. CASE RmFile
  <2>1. PICK n \in Inodes :
          /\ Target(n) /\ dinode[n].mode # "dir" /\ dinode' = dinode
          /\ core' = [core EXCEPT !["target"] =
               [get_inode(n) EXCEPT !.nlink = IF dinode[n].mode = "reg" THEN Unlinked(@) ELSE @]]
    BY <1>2 DEF RmFile, diskVars
  <2>2. n \in L /\ dinode[n].mode = "reg" /\ dinode[n].nlink # 0
    <3>1. n \in L
      BY <2>1, TargetLive
    <3> QED
      BY <2>1, <3>1, LiveInode
  <2>3. dinode[n].nlink = 1
    BY <2>1, <2>2 DEF FilesLinked, FewLinks
  <2>4. target' = [get_inode(n) EXCEPT !.nlink = Unlinked(dinode[n].nlink)] /\ parent' = parent
    <3>1. get_inode(n).nlink = dinode[n].nlink
      BY DEF get_inode, InCore
    <3>2. core' = [core EXCEPT !["target"] = [get_inode(n) EXCEPT !.nlink = Unlinked(dinode[n].nlink)]]
      BY <2>1, <2>2, <3>1
    <3> QED
      BY <1>1, <3>2, CoreFields
  <2>5. Unlinked(1) = 0
    BY DEF Unlinked
  <2>6. target'.nlink = 0
    BY <1>1, <2>3, <2>4, <2>5, GetInodeType DEF inode
  <2> QED
    BY <2>1, <2>4, <2>6, LinksRead DEF FilesLinked, FewLinks
<1>3. CASE RmEmptyDir
  <2>1. PICK n \in Inodes :
          /\ Target(n) /\ dinode[n].mode = "dir" /\ dinode' = dinode
          /\ core' = [core EXCEPT !["target"] = [get_inode(n) EXCEPT !.nlink = 0],
                                  !["parent"].nlink = Unlinked(@)]
    BY <1>3 DEF RmEmptyDir, RmDirectory, diskVars
  <2>2. /\ target' = [get_inode(n) EXCEPT !.nlink = 0]
        /\ parent' = [parent EXCEPT !.nlink = Unlinked(parent.nlink)]
    BY <1>1, <2>1 DEF target, parent, Inodes2
  <2>3. parent.mode = "dir"
    <3>1. parent.num \in Dirs
      BY <2>1, TargetLive
    <3>2. pc \in {"walk", "lookup"}
      BY <2>1 DEF Target
    <3> QED
      BY <3>1, <3>2, WalkingTool DEF Dirs
  <2>4. parent'.mode = "dir"
    BY <1>1, <2>2, <2>3 DEF inode
  <2>5. target'.nlink = 0
    BY <1>1, <2>2, GetInodeType DEF inode
  <2> QED
    BY <2>1, <2>4, <2>5, LinksRead DEF FilesLinked, FewLinks
<1> QED
  BY <1>2, <1>3

\* rm gives up, or clears the entry.
LEMMA LinksRemove ==
  ASSUME NEW L, Before(L), FilesLinked, RmNotEmpty \/ detach_entry
  PROVE  FilesLinked'
<1>1. core \in [Inodes2 -> inode] /\ DiskTypeOK /\ L \subseteq Inodes /\ parent \in inode
      /\ target \in inode
  BY BeforeParts DEF parent, target, Inodes2
<1>2. CASE RmNotEmpty
  <2>1. PICK n \in Inodes :
          /\ Target(n) /\ dinode' = dinode
          /\ error_handler([core EXCEPT !["target"] = get_inode(n)])
    BY <1>2 DEF RmNotEmpty, diskVars
  <2>2. tool = "rm"
    BY <2>1 DEF Target
  <2>3. core' = [core EXCEPT !["target"] = get_inode(n)]
    BY <2>1, <2>2 DEF error_handler, Creators
  <2>4. target' = get_inode(n) /\ parent' = parent
    BY <1>1, <2>3, CoreFields
  <2>5. FewLinks(target')
    BY <2>4, FewLinksCopied DEF FilesLinked, get_inode
  <2> QED
    BY <2>1, <2>4, <2>5, LinksRead DEF FilesLinked
<1>3. CASE detach_entry
  <2>1. core' = [core EXCEPT !["target"].dirty = DIRTY, !["parent"].dirty = DIRTY] /\ dinode' = dinode
    BY <1>3 DEF detach_entry, WriteDirent
  <2>2. target' = [target EXCEPT !.dirty = DIRTY] /\ parent' = [parent EXCEPT !.dirty = DIRTY]
    BY <1>1, <2>1 DEF target, parent, Inodes2
  <2>3. /\ target'.mode = target.mode /\ target'.nlink = target.nlink
        /\ parent'.mode = parent.mode /\ parent'.nlink = parent.nlink
    BY <1>1, <2>2 DEF inode
  <2> QED
    BY <2>1, <2>3, LinksRead DEF FilesLinked, FewLinks
<1> QED
  BY <1>2, <1>3

\* put_inode writes the links it holds.
LEMMA LinksPut ==
  ASSUME NEW L, Before(L), FilesLinked, put_inode
  PROVE  FilesLinked'
<1>1. core \in [Inodes2 -> inode] /\ DiskTypeOK /\ L \subseteq Inodes /\ parent \in inode
      /\ target \in inode /\ who \in {"parent", "target"}
  BY BeforeParts DEF parent, target, Inodes2, ProcTypeOK
<1>2. FewLinks(held) /\ FewLinks(NULL)
  BY <1>1 DEF FilesLinked, held, parent, target, FewLinks, NULL
<1>3. PutDone => FewLinks(parent') /\ FewLinks(target')
  <2>1. CASE who = "target"
    <3>1. PutDone => core' = [core EXCEPT !["target"] = NULL]
      BY <2>1 DEF PutDone
    <3> QED
      BY <1>1, <1>2, <3>1, CoreFields DEF FilesLinked
  <2>2. CASE who = "parent"
    <3>1. PutDone => core' = NoInodes
      BY <2>2 DEF PutDone, Exit
    <3> QED
      BY <1>2, <3>1 DEF NoInodes, parent, target
  <2> QED
    BY <1>1, <2>1, <2>2
<1>4. CASE PutClean \/ free_inode
  BY <1>3, <1>4, LinksRead DEF PutClean, free_inode, ClearInodeBit, diskVars
<1>5. CASE update_inode
  <2>1. PutDone /\ dinode' = [dinode EXCEPT ![held.num] = OnDisk(held)]
    BY <1>5 DEF update_inode, write_disk_inode
  <2>2. \A n \in Inodes : FewLinks(dinode'[n])
    BY <1>1, <1>2, <2>1, FewLinksCopied DEF FilesLinked, DiskTypeOK
  <2> QED
    BY <1>3, <2>1, <2>2 DEF FilesLinked
<1>6. CASE free_block
  <2>1. PICK l : core' = [core EXCEPT ![who] = [@ EXCEPT !.addr[l] = 0]] /\ dinode' = dinode
    BY <1>6 DEF free_block, Unmaps, ClearBlockBit, diskVars
  <2>2. /\ target'.mode = target.mode /\ target'.nlink = target.nlink
        /\ parent'.mode = parent.mode /\ parent'.nlink = parent.nlink
    BY <1>1, <2>1 DEF target, parent, Inodes2, inode
  <2> QED
    BY <2>1, <2>2, LinksRead DEF FilesLinked, FewLinks
<1>7. CASE ZeroFreed
  <2>1. core' = core /\ dinode' = dinode
    BY <1>7 DEF ZeroFreed, zero_block
  <2> QED
    BY <1>1, <2>1, CoreFields, LinksRead DEF FilesLinked
<1>8. CASE BlankOut
  <2>1. core' = core /\ dinode' = [dinode EXCEPT ![held.num] = Released]
    BY <1>8 DEF BlankOut, write_disk_inode
  <2>2. FewLinks(Released)
    BY DEF FewLinks, Released, OnDisk
  <2>3. \A n \in Inodes : FewLinks(dinode'[n])
    BY <1>1, <2>1, <2>2 DEF FilesLinked, DiskTypeOK
  <2> QED
    BY <1>1, <2>1, <2>3, CoreFields DEF FilesLinked
<1> QED
  BY <1>4, <1>5, <1>6, <1>7, <1>8 DEF put_inode

-----------------------------------------------------------------------------
(* The live inodes are the least such set.                                 *)

\* A step that leaves their entries alone.
LEMMA LeastSame ==
  ASSUME NEW L, NEW t, NEW dirs, NEW t2, NEW dirs2, Least(L, t, dirs),
         \A n \in L : n \in dirs <=> n \in dirs2,
         \A n \in L, q \in Positions : t2[n][q] = t[n][q]
  PROVE  Least(L, t2, dirs2)
<1> SUFFICES ASSUME NEW S \in SUBSET L, ROOT_INODE \in S, Closed(S, t2, dirs2)
             PROVE  S = L
  BY DEF Least
<1>1. Closed(S, t, dirs)
  BY DEF Closed, Kids
<1> QED
  BY <1>1 DEF Least

\* A new entry for a new inode.
LEMMA LeastAdd ==
  ASSUME NEW L, NEW t, NEW dirs, NEW t2, NEW dirs2, NEW n, NEW p, NEW q0, NEW name,
         KidsStay(L, t, dirs), Adds(L, t, dirs, t2, dirs2, n, p, q0, name), Least(L, t, dirs)
  PROVE  Least(L \cup {n}, t2, dirs2)
<1> SUFFICES ASSUME NEW S \in SUBSET (L \cup {n}), ROOT_INODE \in S, Closed(S, t2, dirs2)
             PROVE  S = L \cup {n}
  BY DEF Least
<1>1. /\ ROOT_INODE \in L /\ n \notin L /\ n # 0 /\ p \in L \cap dirs /\ q0 \in Positions
      /\ name \notin Dots /\ \A m \in L : m \in dirs <=> m \in dirs2
      /\ \A m \in L \cap dirs : \A q \in Positions : m # p \/ q # q0 => t2[m][q] = t[m][q]
      /\ t[p][q0].ino = 0 /\ t2[p][q0].ino = n /\ t2[p][q0].name = name
  BY DEF Adds
<1>2. Closed(S \ {n}, t, dirs)
  <2> SUFFICES ASSUME NEW d \in (S \ {n}) \cap dirs, NEW q \in Kids(t, d)
               PROVE  t[d][q].ino \in S \ {n}
    BY DEF Closed
  <2>1. d \in L /\ d \in dirs2 /\ q \in Positions /\ t[d][q].ino # 0
    BY <1>1 DEF Kids
  <2>2. t2[d][q] = t[d][q]
    BY <1>1, <2>1
  <2>3. q \in Kids(t2, d)
    BY <2>1, <2>2 DEF Kids
  <2>4. t[d][q].ino \in S
    BY <2>1, <2>2, <2>3 DEF Closed
  <2>5. t[d][q].ino \in L
    BY <2>1 DEF KidsStay
  <2> QED
    BY <1>1, <2>4, <2>5
<1>3. S \ {n} = L
  BY <1>1, <1>2 DEF Least
<1>4. q0 \in Kids(t2, p) /\ p \in S \cap dirs2
  BY <1>1, <1>3 DEF Kids
<1>5. n \in S
  BY <1>1, <1>4 DEF Closed
<1> QED
  BY <1>3, <1>5

\* The entry of an inode without children is cleared.
LEMMA LeastRemove ==
  ASSUME NEW L, NEW t, NEW dirs, NEW t2, NEW dirs2, NEW n, NEW p, NEW q0,
         Removes(L, t, dirs, t2, dirs2, n, p, q0), Least(L, t, dirs)
  PROVE  Least(L \ {n}, t2, dirs2)
<1> SUFFICES ASSUME NEW S \in SUBSET (L \ {n}), ROOT_INODE \in S, Closed(S, t2, dirs2)
             PROVE  S = L \ {n}
  BY DEF Least
<1>1. /\ n \in L /\ q0 \in Kids(t, p) /\ t[p][q0].ino = n /\ (n \in dirs => Kids(t, n) = {})
      /\ \A m \in L : m \in dirs <=> m \in dirs2
      /\ \A m \in L \cap dirs : \A q \in Positions : m # p \/ q # q0 => t2[m][q] = t[m][q]
  BY DEF Removes
<1>2. Closed(S \cup {n}, t, dirs)
  <2> SUFFICES ASSUME NEW d \in (S \cup {n}) \cap dirs, NEW q \in Kids(t, d), d # p \/ q # q0
               PROVE  t[d][q].ino \in S \cup {n}
    BY <1>1 DEF Closed
  <2>1. d # n /\ d \in S /\ d \in L /\ d \in dirs2 /\ q \in Positions
    BY <1>1 DEF Kids
  <2>2. t2[d][q] = t[d][q]
    BY <1>1, <2>1
  <2>3. q \in Kids(t2, d)
    BY <2>2 DEF Kids
  <2> QED
    BY <2>1, <2>2, <2>3 DEF Closed
<1>3. S \cup {n} = L
  BY <1>1, <1>2 DEF Least
<1> QED
  BY <1>3

\* A new directory shows its dots.
LEMMA LeastFill ==
  ASSUME NEW L, NEW t, NEW dirs, NEW t2, NEW dirs2, NEW n, NEW p, NEW q0,
         Fills(L, t, dirs, t2, dirs2, n, p, q0), Least(L, t, dirs)
  PROVE  Least(L, t2, dirs2)
<1> SUFFICES ASSUME NEW S \in SUBSET L, ROOT_INODE \in S, Closed(S, t2, dirs2)
             PROVE  S = L
  BY DEF Least
<1>1. Closed(S, t, dirs)
  <2> SUFFICES ASSUME NEW d \in S \cap dirs, NEW q \in Kids(t, d)
               PROVE  t[d][q].ino \in S
    BY DEF Closed
  <2>1. q \in Positions /\ t[d][q].ino # 0 /\ d \in L /\ d \in dirs2
    BY DEF Kids, Fills
  <2>2. d # n /\ t2[d][q] = t[d][q]
    BY <2>1 DEF Fills
  <2>3. q \in Kids(t2, d)
    BY <2>2 DEF Kids
  <2> QED
    BY <2>1, <2>2, <2>3 DEF Closed
<1> QED
  BY <1>1 DEF Least

\* So it is with every write that keeps away from the live inodes.
LEMMA LeastKept ==
  ASSUME NEW L, LiveDisk(L), Unharmed(L), Least(L, Table, Dirs)
  PROVE  Least(L, Table', Dirs') /\ Taken(L)' = Taken(L)
<1>1. L \subseteq Inodes
  BY DEF LiveDisk, InodesOf
<1> QED
  BY <1>1, UnharmedView, LeastSame

-----------------------------------------------------------------------------
(* The marks.                                                              *)

\* Every inode that is marked after the step is accounted for, when it was before.
LEMMA InodesKept ==
  ASSUME NEW L, NEW K, InodesMarked(L), pc # "put" \/ who # "parent",
         \A n \in ibits' : n \in ibits \/ (pc' = "iwrite" /\ n = fresh'),
         \A n \in ibits' \cap (L \cup {0, target.num}) : n \in K \cup {0, target.num'},
         pc = "iwrite" => fresh = target.num'
  PROVE  InodesMarked(K)'
  BY DEF InodesMarked, Appears

\* And every block.
LEMMA BlocksKept ==
  ASSUME NEW L, NEW K, BlocksMarked(L), pc # "put" \/ who # "parent",
         \A b \in bbits' : b \in bbits \/ (pc' \in Holding /\ b = fresh'),
         \A b \in bbits' \cap (Taken(L) \cup BlocksIn(target) \cup BlocksIn(parent)) :
           badblock(b) \/ b \in Taken(K)' \cup BlocksIn(target') \cup BlocksIn(parent'),
         pc \in Holding => \/ pc' \in Holding /\ fresh' = fresh
                           \/ fresh \in BlocksIn(target') \cup BlocksIn(parent')
  PROVE  BlocksMarked(K)'
  BY DEF BlocksMarked, Appears, BlocksIn

\* Before a tool creates anything, and between two tools, nothing but the live inodes
\* and the metadata takes a block.
LEMMA NothingHeld ==
  ASSUME NEW L, Before(L), pc \in {"idle", "walk", "lookup", "ibit", "iwrite"}
  PROVE  /\ target = NULL /\ BlocksIn(target) \subseteq {0}
         /\ BlocksIn(parent) \subseteq Taken(L) \cup {0} /\ badblock(0)
         /\ pc \notin Holding /\ pc \notin Putting /\ pc # "put" /\ pc # "detach"
<1>1. /\ LiveTool(L) /\ DiskTypeOK /\ L \subseteq Inodes /\ badblock(0)
  BY BeforeParts, BlockRange
<1>2. BlocksIn(NULL) \subseteq {0}
  BY DEF BlocksIn, NULL, Unmapped
<1>3. target = NULL
  <2>1. NoInodes["target"] = NULL
    BY DEF NoInodes
  <2> QED
    BY <1>1, <2>1 DEF LiveTool, target
<1>4. BlocksIn(parent) \subseteq Taken(L) \cup {0}
  <2>1. CASE pc = "idle"
    BY <1>1, <1>2, <2>1 DEF LiveTool, NoInodes, parent
  <2>2. CASE pc # "idle"
    <3>1. ParentRead(L)
      BY <1>1, <2>2 DEF LiveTool, Reading
    <3>2. parent.num \in L /\ parent.addr = dinode[parent.num].addr
      BY <3>1 DEF ParentRead, get_inode, InCore
    <3> QED
      BY <3>2 DEF BlocksIn, Taken
  <2> QED
    BY <2>1, <2>2
<1> QED
  BY <1>1, <1>2, <1>3, <1>4 DEF Holding, Putting

-----------------------------------------------------------------------------
(* Every step keeps the marks.                                             *)

\* Starting a tool, walking to the parent, marking the new inode.
LEMMA MarksRead ==
  ASSUME NEW L, Before(L), MarksInv(L),
         Start \/ WalkDown \/ WalkEnds \/ CreateLookup \/ alloc_inode
  PROVE  MarksInv(L)'
<1>1. /\ LiveDisk(L) /\ L \subseteq Inodes /\ DiskTypeOK /\ core \in [Inodes2 -> inode]
  BY BeforeParts
<1>2. /\ pc \in {"idle", "walk", "lookup", "ibit"} /\ pc' \in {"walk", "lookup", "ibit", "iwrite"}
      /\ k' = k /\ bbits' = bbits
      /\ \/ UNCHANGED diskVars /\ ibits' = ibits
         \/ SetInodeBit(fresh') /\ ibits' = ibits \cup {fresh'} /\ pc' = "iwrite"
      /\ \/ core' = core
         \/ \E n \in Inodes : core' = [core EXCEPT !["parent"] = get_inode(n)]
  BY RootType DEF Start, Invoke, WalkDown, WalkEnds, CreateLookup, alloc_inode, SetInodeBit, diskVars
<1>3. target = NULL /\ badblock(0) /\ BlocksIn(target) \subseteq {0}
      /\ BlocksIn(parent) \subseteq Taken(L) \cup {0} /\ pc \notin Holding /\ pc \notin Putting
  BY <1>2, NothingHeld
<1>4. target' = target
  BY <1>1, <1>2, CoreFields
<1>5. Unharmed(L)
  <2>1. Allocating(L)
    BY <1>1, <1>2, UnharmedWrites
  <2> QED
    BY <2>1 DEF Allocating
<1>6. Least(L, Table', Dirs') /\ Taken(L)' = Taken(L)
  BY <1>1, <1>5, LeastKept DEF MarksInv
<1>7. InodesMarked(L)'
  BY <1>2, <1>4, InodesKept DEF MarksInv
<1>8. BlocksMarked(L)'
  BY <1>2, <1>3, <1>6, BlocksKept DEF MarksInv, Putting
<1>9. TargetOwned(L)'
  BY <1>2, <1>3, <1>4 DEF TargetOwned, Putting
<1>10. Copied'
  BY <1>2 DEF MarksInv, Copied, Filling
<1>11. FilesLinked'
  <2>1. CASE alloc_inode
    BY <2>1, LinksCreate DEF MarksInv
  <2>2. CASE Start \/ WalkDown \/ WalkEnds \/ CreateLookup
    BY <2>2, LinksWalk DEF MarksInv
  <2> QED
    BY <2>1, <2>2
<1> QED
  BY <1>6, <1>7, <1>8, <1>9, <1>10, <1>11 DEF MarksInv

\* A tool that gives up releases what it created, or has created nothing.
LEMMA MarksFail ==
  ASSUME NEW L, Before(L), MarksInv(L),
         \/ WalkFails \/ CreateLookupFails \/ NoFreeInode \/ RmLookupFails
         \/ NoFreeBlock \/ HostFails \/ AddEntryFails
  PROVE  MarksInv(L)'
<1>1. /\ LiveDisk(L) /\ L \subseteq Inodes /\ DiskTypeOK /\ core \in [Inodes2 -> inode]
      /\ badblock(0) /\ LiveTool(L)
  BY BeforeParts, BlockRange
<1>2. /\ pc \in {"walk", "lookup", "ibit", "block", "entry"}
      /\ pc \in {"block", "entry"} => tool \in Creators
      /\ error_handler(core) /\ UNCHANGED diskVars
  <2>1. pc = "block" \/ pc = "entry" => tool \in Creators
    BY <1>1 DEF LiveTool, Creating, CreatesIn
  <2> QED
    BY <2>1 DEF WalkFails, CreateLookupFails, NoFreeInode, RmLookupFails, NoFreeBlock, HostFails,
       AddEntryFails
<1>3. ibits' = ibits /\ bbits' = bbits
  BY <1>2 DEF diskVars
<1>4. /\ parent' = parent /\ target'.num = target.num /\ target'.addr = target.addr
      /\ tool \in Creators /\ target.num # 0 => target'.nlink = 0
      /\ tool \notin Creators \/ target.num = 0 => target' = target
      /\ pc' = "put" /\ who' = "target" /\ k' = 0
  BY <1>1, <1>2, HandlerFields
<1>5. Unharmed(L)
  <2>1. Allocating(L)
    BY <1>1, <1>2, UnharmedWrites
  <2> QED
    BY <2>1 DEF Allocating
<1>6. Least(L, Table', Dirs') /\ Taken(L)' = Taken(L)
  BY <1>1, <1>5, LeastKept DEF MarksInv
<1>7. BlocksIn(target') = BlocksIn(target) /\ BlocksIn(parent') = BlocksIn(parent)
  BY <1>4 DEF BlocksIn
<1>8. InodesMarked(L)'
  BY <1>2, <1>3, <1>4, InodesKept DEF MarksInv
<1>9. BlocksMarked(L)'
  BY <1>2, <1>3, <1>6, <1>7, BlocksKept DEF MarksInv, Holding
<1>10. TargetOwned(L)'
  <2>1. CASE target.num = 0
    BY <1>1, <1>4, <2>1 DEF MarksInv, TargetOwned, LiveDisk, InodesOf, Inodes
  <2>2. CASE target.num # 0
    <3>1. pc \notin {"walk", "lookup", "ibit"}
      <4>1. NULL.num = 0
        BY DEF NULL
      <4> QED
        BY <2>2, <4>1, NothingHeld
    <3>2. tool \in Creators /\ target.num \notin L
      BY <1>1, <1>2, <3>1 DEF LiveTool, Started, TargetStarted
    <3> QED
      BY <1>4, <2>2, <3>2 DEF TargetOwned
  <2> QED
    BY <2>1, <2>2
<1>11. Copied'
  BY <1>4 DEF Copied, Filling
<1>12. FilesLinked'
  BY LinksWalk DEF MarksInv
<1> QED
  BY <1>6, <1>8, <1>9, <1>10, <1>11, <1>12 DEF MarksInv

\* alloc_inode has written the inode: it is the target now.
LEMMA MarksInit ==
  ASSUME NEW L, Before(L), MarksInv(L), InitInode
  PROVE  MarksInv(L)'
<1>1. /\ LiveDisk(L) /\ L \subseteq Inodes /\ DiskTypeOK /\ core \in [Inodes2 -> inode]
      /\ LiveTool(L) /\ ProcTypeOK /\ InFlight
  BY BeforeParts
<1>2. /\ pc = "iwrite" /\ pc' = "block" /\ k' = k /\ UNCHANGED args
      /\ core' = [core EXCEPT !["target"] = InCore(fresh, NewInode)]
      /\ write_disk_inode(fresh, NewInode) /\ ibits' = ibits /\ bbits' = bbits
  BY DEF InitInode, write_disk_inode
<1>3. target = NULL /\ badblock(0) /\ BlocksIn(target) \subseteq {0}
  BY <1>2, NothingHeld
<1>4. target' = InCore(fresh, NewInode) /\ parent' = parent
  BY <1>1, <1>2, CoreFields
<1>5. target'.num = fresh /\ target'.addr = Unmapped /\ fresh \in Inodes /\ fresh # 0
  BY <1>1, <1>2, <1>4 DEF InCore, NewInode, BlankInode, InFlight, Inodes
<1>6. fresh \notin L
  BY <1>1, <1>2 DEF LiveTool
<1>7. Unharmed(L)
  <2>1. Allocating(L)
    BY <1>1, <1>2, <1>6, UnharmedWrites
  <2> QED
    BY <2>1 DEF Allocating
<1>8. Least(L, Table', Dirs') /\ Taken(L)' = Taken(L)
  BY <1>1, <1>7, LeastKept DEF MarksInv
<1>9. InodesMarked(L)'
  <2>1. target.num = 0
    BY <1>3 DEF NULL
  <2> QED
    BY <1>2, <1>5, <2>1, InodesKept DEF MarksInv
<1>10. BlocksMarked(L)'
  BY <1>2, <1>3, <1>4, <1>8, BlocksKept DEF MarksInv, Holding
<1>11. TargetOwned(L)'
  BY <1>2, <1>5 DEF TargetOwned, Putting
<1>12. Copied'
  <2>1. k = 0 /\ fsz' = fsz /\ fsz \in Nat
    <3>1. fsz \in 0 .. NDIRECT
      BY <1>1 DEF ProcTypeOK
    <3>2. fsz \in Nat
      BY <3>1, GeometryAssumption
    <3> QED
      BY <1>2, <3>2 DEF MarksInv, Copied, args
  <2>2. \A l \in Logical : ~(l < 0)
    BY DEF Logical
  <2>3. \A l \in Logical : target'.addr[l] = 0
    BY <1>5 DEF Unmapped
  <2> QED
    BY <1>2, <2>1, <2>2, <2>3 DEF Copied, Chunks, Filling
<1>13. FilesLinked'
  BY LinksCreate DEF MarksInv
<1> QED
  BY <1>8, <1>9, <1>10, <1>11, <1>12, <1>13 DEF MarksInv

\* Giving the new inode its blocks, and their contents.
LEMMA MarksFill ==
  ASSUME NEW L, Before(L), MarksInv(L),
         alloc_block \/ ZeroFresh \/ WriteDotEntries \/ CopyChunk \/ FileCopied
  PROVE  MarksInv(L)'
<1>1. /\ LiveDisk(L) /\ L \subseteq Inodes /\ DiskTypeOK /\ core \in [Inodes2 -> inode]
      /\ LiveTool(L) /\ ProcTypeOK /\ InFlight /\ badblock(0)
      /\ target \in inode /\ parent \in inode
  BY BeforeParts, BlockRange DEF target, parent, Inodes2
<1>2. /\ pc \in Filling /\ pc \in Started /\ pc' \in {"block", "bzero", "content", "entry"}
      /\ pc \in Holding => FreshBlock(L)
      /\ TargetStarted(L) /\ (tool = "mkdir" => target.addr = Unmapped)
      /\ FilesLinked'
  <2>1. /\ pc \in {"block", "bzero", "content"} /\ pc' \in {"block", "bzero", "content", "entry"}
    BY DEF alloc_block, ZeroFresh, WriteDotEntries, CopyChunk, FileCopied
  <2>2. FilesLinked'
    BY LinksCreate DEF MarksInv
  <2> QED
    BY <1>1, <2>1, <2>2 DEF LiveTool, Filling, Started
<1>3. target.num # 0 /\ target.num \notin L
  BY <1>2, GeometryAssumption DEF TargetStarted, TargetOnDisk, Inodes
<1>4. ASSUME BlocksIn(target) \subseteq BlocksIn(target') \cup {0},
             target'.num = target.num, parent' = parent, ibits' = ibits, Unharmed(L),
             \A b \in bbits' : b \in bbits \/ (pc' \in Holding /\ b = fresh'),
             pc \in Holding => (pc' \in Holding /\ fresh' = fresh) \/ fresh \in BlocksIn(target'),
             Copied'
      PROVE  MarksInv(L)'
  <2>1. Least(L, Table', Dirs') /\ Taken(L)' = Taken(L)
    BY <1>1, <1>4, LeastKept DEF MarksInv
  <2>2. InodesMarked(L)'
    BY <1>2, <1>4, InodesKept DEF MarksInv, Filling
  <2>3. BlocksMarked(L)'
    BY <1>1, <1>2, <1>4, <2>1, BlocksKept DEF MarksInv, Filling
  <2>4. TargetOwned(L)'
    BY <1>2, <1>3, <1>4 DEF TargetOwned, Putting
  <2> QED
    BY <1>2, <1>4, <2>1, <2>2, <2>3, <2>4 DEF MarksInv
<1>5. CASE alloc_block
  <2>1. /\ pc = "block" /\ pc' = "bzero" /\ SetBlockBit(fresh') /\ NeedsBlock
        /\ UNCHANGED <<args, core, k>>
    BY <1>5 DEF alloc_block
  <2>2. parent' = parent /\ target' = target
    BY <1>1, <2>1, CoreFields
  <2>3. /\ ibits' = ibits /\ bbits' = bbits \cup {fresh'} /\ chunk' = chunk /\ Unharmed(L)
    <3>1. Allocating(L)
      BY <1>1, <2>1, UnharmedWrites
    <3> QED
      BY <2>1, <3>1 DEF SetBlockBit, Allocating
  <2>4. Copied'
    BY <2>1, <2>2, <2>3 DEF MarksInv, Copied, Chunks, Filling, args
  <2> QED
    BY <1>4, <2>1, <2>2, <2>3, <2>4 DEF Holding
<1>6. CASE ZeroFresh
  <2>1. /\ pc = "bzero" /\ pc' = "content" /\ zero_block(fresh)
        /\ UNCHANGED <<args, core, fresh, k>>
    BY <1>6 DEF ZeroFresh
  <2>2. parent' = parent /\ target' = target
    BY <1>1, <2>1, CoreFields
  <2>3. fresh \notin Taken(L) /\ \A l \in Logical : target.addr[l] # fresh
    BY <1>2, <2>1 DEF FreshBlock, Spare, Holding
  <2>4. ibits' = ibits /\ bbits' = bbits /\ Unharmed(L)
    <3>1. Allocating(L)
      BY <1>1, <2>1, <2>3, UnharmedWrites
    <3> QED
      BY <2>1, <3>1 DEF zero_block, Allocating
  <2>5. \A l \in Logical : chunk'[target.addr[l]] = chunk[target.addr[l]]
    <3>1. \A l \in Logical : target.addr[l] \in Blocks
      BY <1>1 DEF inode
    <3> QED
      BY <1>1, <2>1, <2>3, <3>1 DEF zero_block, DiskTypeOK
  <2>6. Copied'
    BY <2>1, <2>2, <2>5 DEF MarksInv, Copied, Chunks, Filling, args
  <2> QED
    BY <1>4, <2>1, <2>2, <2>4, <2>6 DEF Holding
<1>7. CASE WriteDotEntries
  <2>1. /\ pc = "content" /\ pc' = "entry" /\ tool = "mkdir"
        /\ WriteDots(fresh, target.num, parent.num)
        /\ core' = [core EXCEPT !["target"] = [target EXCEPT !.size = 2, !.nlink = 2, !.addr[0] = fresh]]
    BY <1>7 DEF WriteDotEntries, target, parent
  <2>2. parent' = parent /\ target' = [target EXCEPT !.size = 2, !.nlink = 2, !.addr[0] = fresh]
    BY <1>1, <2>1, CoreFields
  <2>3. 0 \in Logical
    BY GeometryAssumption DEF Logical
  <2>4. target'.num = target.num /\ target'.addr[0] = fresh
    BY <1>1, <2>2, <2>3 DEF inode
  <2>5. BlocksIn(target) \subseteq {0} /\ fresh \in BlocksIn(target')
    BY <1>2, <2>1, <2>3, <2>4 DEF BlocksIn, Unmapped
  <2>6. fresh \notin Taken(L)
    BY <1>2, <2>1 DEF FreshBlock, Spare, Holding
  <2>7. ibits' = ibits /\ bbits' = bbits /\ Unharmed(L)
    <3>1. Allocating(L)
      BY <1>1, <2>1, <2>6, UnharmedWrites
    <3> QED
      BY <2>1, <3>1 DEF WriteDots, Allocating
  <2>8. Copied'
    BY <2>1 DEF Copied, Filling
  <2> QED
    BY <1>4, <2>1, <2>2, <2>4, <2>5, <2>7, <2>8
<1>8. CASE CopyChunk
  <2>1. /\ pc = "content" /\ pc' = "block" /\ tool = "cp" /\ WriteChunk(fresh, k)
        /\ core' = [core EXCEPT !["target"] = [target EXCEPT !.addr[k] = fresh]]
        /\ k' = k + 1 /\ UNCHANGED args
    BY <1>8 DEF CopyChunk, target
  <2>2. parent' = parent /\ target' = [target EXCEPT !.addr[k] = fresh]
    BY <1>1, <2>1, CoreFields
  <2>3. k < fsz /\ fsz <= NDIRECT /\ k \in Nat /\ k \in Logical /\ fsz \in Nat
    <3>1. k \in 0 .. NDIRECT /\ fsz \in 0 .. NDIRECT /\ k < fsz
      BY <1>1, <2>1 DEF ProcTypeOK, InFlight
    <3> QED
      BY <3>1, GeometryAssumption DEF Logical
  <2>4. /\ target'.num = target.num
        /\ \A l \in Logical : target'.addr[l] = IF l = k THEN fresh ELSE target.addr[l]
    BY <1>1, <2>2, <2>3 DEF inode
  <2>5. Chunks(target, k)
    BY <1>2, <2>1 DEF MarksInv, Copied
  <2>6. BlocksIn(target) \subseteq BlocksIn(target') \cup {0} /\ fresh \in BlocksIn(target')
    <3>1. target.addr[k] = 0
      BY <2>3, <2>5 DEF Chunks
    <3> QED
      BY <2>3, <2>4, <3>1 DEF BlocksIn
  <2>7. ibits' = ibits /\ bbits' = bbits /\ Unharmed(L)
    <3>1. Allocating(L)
      BY <1>1, <2>1, UnharmedWrites
    <3> QED
      BY <2>1, <3>1 DEF WriteChunk, Allocating
  <2>8. fresh # 0 /\ fresh \in Blocks /\ \A l \in Logical : target.addr[l] # fresh
    <3>1. FreshBlock(L)
      BY <1>2, <2>1 DEF Holding
    <3> QED
      BY <1>1, <3>1 DEF FreshBlock, Spare, DiskTypeOK
  <2>9. chunk' = [chunk EXCEPT ![fresh] = k + 1]
    BY <2>1 DEF WriteChunk
  <2>10. Chunks(target, k)'
    <3> SUFFICES ASSUME NEW l \in Logical
                 PROVE  IF l < k + 1 THEN target'.addr[l] # 0 /\ chunk'[target'.addr[l]] = l + 1
                        ELSE target'.addr[l] = 0
      BY <2>1 DEF Chunks
    <3>1. l \in Int /\ (IF l < k THEN target.addr[l] # 0 /\ chunk[target.addr[l]] = l + 1
                        ELSE target.addr[l] = 0)
      BY <2>5 DEF Chunks, Logical
    <3>2. CASE l = k
      BY <1>1, <2>3, <2>4, <2>8, <2>9, <3>2 DEF DiskTypeOK
    <3>3. CASE l # k
      <4>1. target'.addr[l] = target.addr[l] /\ target.addr[l] # fresh /\ target.addr[l] \in Blocks
        BY <1>1, <2>4, <2>8, <3>3 DEF inode
      <4>2. chunk'[target.addr[l]] = chunk[target.addr[l]]
        BY <1>1, <2>9, <4>1 DEF DiskTypeOK
      <4> QED
        BY <2>3, <3>1, <3>3, <4>1, <4>2
    <3> QED
      BY <3>2, <3>3
  <2>11. Copied'
    <3>1. k' <= fsz'
      BY <2>1, <2>3 DEF args
    <3> QED
      BY <2>1, <2>10, <3>1 DEF Copied
  <2> QED
    BY <1>4, <2>1, <2>2, <2>4, <2>6, <2>7, <2>11
<1>9. CASE FileCopied
  <2>1. /\ pc = "block" /\ pc' = "entry" /\ UNCHANGED diskVars
        /\ core' = [core EXCEPT !["target"] = [target EXCEPT !.size = fsz, !.nlink = 1]]
    BY <1>9 DEF FileCopied, target
  <2>2. parent' = parent /\ target' = [target EXCEPT !.size = fsz, !.nlink = 1]
    BY <1>1, <2>1, CoreFields
  <2>3. target'.num = target.num /\ target'.addr = target.addr
    BY <1>1, <2>2 DEF inode
  <2>4. BlocksIn(target') = BlocksIn(target)
    BY <2>3 DEF BlocksIn
  <2>5. ibits' = ibits /\ bbits' = bbits /\ Unharmed(L)
    <3>1. Allocating(L)
      BY <1>1, <2>1, UnharmedWrites
    <3> QED
      BY <2>1, <3>1 DEF diskVars, Allocating
  <2>6. Copied'
    BY <2>1 DEF Copied, Filling
  <2> QED
    BY <1>4, <2>1, <2>2, <2>3, <2>4, <2>5, <2>6 DEF Holding
<1> QED
  BY <1>5, <1>6, <1>7, <1>8, <1>9

\* add_entry in a new block: until the parent is written, its in-core inode holds the
\* block.
LEMMA MarksAddBlock ==
  ASSUME MaxKills <= 1, NEW L, Before(L), MarksInv(L),
         AddEntryAllocates \/ AddEntryZeroes \/ AddEntryInNewBlock
  PROVE  MarksInv(L)'
<1>1. /\ LiveDisk(L) /\ L \subseteq Inodes /\ DiskTypeOK /\ core \in [Inodes2 -> inode]
      /\ LiveTool(L) /\ ProcTypeOK /\ InFlight /\ badblock(0)
      /\ target \in inode /\ parent \in inode
  BY BeforeParts, BlockRange DEF target, parent, Inodes2
<1>2. /\ pc \in Adding /\ pc \in Started /\ pc' \in {"ezero", "ewrite", "put"} /\ who' = who
      /\ pc \in Holding => FreshBlock(L)
      /\ TargetStarted(L) /\ target = target /\ who = "target"
      /\ FilesLinked'
  <2>1. /\ pc \in {"entry", "ezero", "ewrite"} /\ pc' \in {"ezero", "ewrite", "put"} /\ who' = who
    BY DEF AddEntryAllocates, AddEntryZeroes, AddEntryInNewBlock
  <2>2. FilesLinked'
    BY LinksCreate DEF MarksInv
  <2> QED
    BY <1>1, <2>1, <2>2 DEF LiveTool, Adding, Started, Putting
<1>3. target.num # 0 /\ target.num \notin L
  BY <1>2, GeometryAssumption DEF TargetStarted, TargetOnDisk, Inodes
<1>4. ASSUME target'.addr = target.addr, target'.num = target.num,
             BlocksIn(parent) \subseteq BlocksIn(parent') \cup Taken(L) \cup {0},
             ibits' = ibits, Unharmed(L),
             \A b \in bbits' : b \in bbits \/ (pc' \in Holding /\ b = fresh'),
             pc \in Holding => (pc' \in Holding /\ fresh' = fresh) \/ fresh \in BlocksIn(parent'),
             TargetOwned(L)'
      PROVE  MarksInv(L)'
  <2>1. Least(L, Table', Dirs') /\ Taken(L)' = Taken(L)
    BY <1>1, <1>4, LeastKept DEF MarksInv
  <2>2. InodesMarked(L)'
    BY <1>2, <1>4, InodesKept DEF MarksInv, Adding
  <2>3. BlocksIn(target') = BlocksIn(target)
    BY <1>4 DEF BlocksIn
  <2>4. BlocksMarked(L)'
    BY <1>1, <1>2, <1>4, <2>1, <2>3, BlocksKept DEF MarksInv, Adding
  <2>5. Copied'
    BY <1>2 DEF Copied, Filling
  <2> QED
    BY <1>2, <1>4, <2>1, <2>2, <2>4, <2>5 DEF MarksInv
<1>5. CASE AddEntryAllocates
  <2>1. /\ pc = "entry" /\ pc' = "ezero" /\ SetBlockBit(fresh') /\ core' = core
    BY <1>5 DEF AddEntryAllocates
  <2>2. parent' = parent /\ target' = target
    BY <1>1, <2>1, CoreFields
  <2>3. /\ ibits' = ibits /\ bbits' = bbits \cup {fresh'} /\ Unharmed(L)
    <3>1. Allocating(L)
      BY <1>1, <2>1, UnharmedWrites
    <3> QED
      BY <2>1, <3>1 DEF SetBlockBit, Allocating
  <2>4. TargetOwned(L)'
    BY <1>3, <2>1, <2>2 DEF TargetOwned, Putting
  <2> QED
    BY <1>4, <2>1, <2>2, <2>3, <2>4 DEF Holding
<1>6. CASE AddEntryZeroes
  <2>1. /\ pc = "ezero" /\ pc' = "ewrite" /\ zero_block(fresh) /\ fresh' = fresh
        /\ core' = [core EXCEPT !["parent"] = [parent EXCEPT !.addr[k] = fresh]]
    BY <1>6 DEF AddEntryZeroes, parent
  <2>2. parent' = [parent EXCEPT !.addr[k] = fresh] /\ target' = target
    BY <1>1, <2>1, CoreFields
  <2>3. fresh \notin Taken(L)
    BY <1>2, <2>1 DEF FreshBlock, Spare, Holding
  <2>4. ibits' = ibits /\ bbits' = bbits /\ Unharmed(L)
    <3>1. Allocating(L)
      BY <1>1, <2>1, <2>3, UnharmedWrites
    <3> QED
      BY <2>1, <3>1 DEF zero_block, Allocating
  <2>5. BlocksIn(parent) \subseteq Taken(L)
    <3>1. parent.num \in L /\ parent.addr = dinode[parent.num].addr
      BY <2>1, AddingTool
    <3> QED
      BY <3>1 DEF BlocksIn, Taken
  <2>6. TargetOwned(L)'
    BY <1>3, <2>1, <2>2 DEF TargetOwned, Putting
  <2> QED
    BY <1>4, <2>1, <2>2, <2>4, <2>5, <2>6 DEF Holding
<1>7. CASE AddEntryInNewBlock
  <2>1. /\ pc = "ewrite" /\ pc' = "put" /\ WriteDirent(fresh, 0, NewEntry)
        /\ core' = Linked(SizeAt(<<k, 0>>))
    BY <1>7 DEF AddEntryInNewBlock
  <2>2. /\ parent'.addr = parent.addr /\ target'.num = target.num /\ target'.addr = target.addr
        /\ target'.dirty = DIRTY
    BY <1>1, <2>1, LinkedFields
  <2>3. fresh \notin Taken(L)
    BY <1>2, <2>1 DEF FreshBlock, Spare, Holding
  <2>4. ibits' = ibits /\ bbits' = bbits /\ Unharmed(L)
    <3>1. Allocating(L)
      BY <1>1, <2>1, <2>3, UnharmedWrites
    <3> QED
      BY <2>1, <3>1 DEF WriteDirent, Allocating
  <2>5. fresh \in BlocksIn(parent) /\ BlocksIn(parent') = BlocksIn(parent)
    <3>1. k \in Logical /\ parent = [get_inode(parent.num) EXCEPT !.addr[k] = fresh]
          /\ parent.num \in L
      BY <1>1, <2>1 DEF InFlight, LiveTool, Creating, CreatesIn
    <3>2. get_inode(parent.num) \in inode
      BY <1>1, <3>1, GetInodeType
    <3>3. parent.addr[k] = fresh
      BY <3>1, <3>2 DEF inode
    <3> QED
      BY <2>2, <3>1, <3>3 DEF BlocksIn
  <2>6. TargetOwned(L)'
    <3>1. Grown(L, target.num, target)'
      BY <1>7, LiveAddLast
    <3> QED
      BY <1>3, <2>1, <2>2, <3>1 DEF TargetOwned
  <2> QED
    BY <1>4, <2>1, <2>2, <2>4, <2>5, <2>6
<1> QED
  BY <1>5, <1>6, <1>7

\* add_entry in a block the parent has: the target becomes live.
LEMMA MarksAddSlot ==
  ASSUME MaxKills <= 1, NEW L, Before(L), MarksInv(L), AddEntryInSlot
  PROVE  \E n \in Inodes : n = target.num /\ LiveInv(L \cup {n})' /\ MarksInv(L \cup {n})'
<1>1. /\ LiveDisk(L) /\ L \subseteq Inodes /\ core \in [Inodes2 -> inode] /\ LiveTool(L)
  BY BeforeParts
<1>2. PICK n \in Inodes, P \in Inodes, p \in Positions :
        /\ n = target.num /\ LiveInv(L \cup {n})'
        /\ Adds(L, Table, Dirs, Table', Dirs', n, P, p, base)
  BY LiveAddSlot
<1> DEFINE K == L \cup {n}
<1>3. /\ pc = "entry" /\ pc' = "put" /\ ibits' = ibits /\ bbits' = bbits /\ dinode' = dinode
      /\ \E size : core' = Linked(size)
  BY DEF AddEntryInSlot, WriteDirent
<1>4. /\ parent'.addr = parent.addr /\ target'.num = n /\ target'.addr = target.addr
      /\ target'.dirty = DIRTY /\ n # 0
  BY <1>1, <1>2, <1>3, LinkedFields DEF Adds
<1>5. Least(K, Table', Dirs')
  BY <1>1, <1>2, LeastAdd DEF MarksInv, LiveDisk, TreeOf
<1>6. InodesMarked(K)'
  BY <1>2, <1>3, <1>4, InodesKept DEF MarksInv
<1>7. /\ BlocksIn(target') = BlocksIn(target) /\ BlocksIn(parent') = BlocksIn(parent)
      /\ Taken(L) \subseteq Taken(K)'
  BY <1>3, <1>4 DEF BlocksIn, Taken
<1>8. BlocksMarked(K)'
  BY <1>3, <1>7, BlocksKept DEF MarksInv, Holding
<1>9. TargetOwned(K)'
  BY <1>3, <1>4 DEF TargetOwned, DIRTY, CLEAN
<1>10. FilesLinked' /\ Copied'
  BY <1>3, LinksCreate DEF MarksInv, Copied, Filling
<1> QED
  BY <1>2, <1>5, <1>6, <1>8, <1>9, <1>10 DEF MarksInv

\* rm has found its target.
LEMMA MarksRmLookup ==
  ASSUME NEW L, Before(L), MarksInv(L), RmFile \/ RmEmptyDir \/ RmNotEmpty
  PROVE  MarksInv(L)'
<1>1. /\ LiveDisk(L) /\ L \subseteq Inodes /\ DiskTypeOK /\ core \in [Inodes2 -> inode]
      /\ parent \in inode
  BY BeforeParts DEF parent, Inodes2
<1>2. PICK n \in Inodes :
        /\ Target(n) /\ UNCHANGED diskVars
        /\ \/ /\ pc' = "detach" /\ (RmFile \/ RmEmptyDir)
              /\ \E links, up : core' = [core EXCEPT !["target"] = [get_inode(n) EXCEPT !.nlink = links],
                                                     !["parent"] = [parent EXCEPT !.nlink = up]]
           \/ pc' = "put" /\ core' = [core EXCEPT !["target"] = get_inode(n)]
  <2>1. CASE RmFile
    <3>1. PICK n \in Inodes :
            /\ Target(n) /\ UNCHANGED diskVars /\ pc' = "detach"
            /\ core' = [core EXCEPT !["target"] =
                 [get_inode(n) EXCEPT !.nlink = IF dinode[n].mode = "reg" THEN Unlinked(@) ELSE @]]
      BY <2>1 DEF RmFile
    <3>2. [parent EXCEPT !.nlink = parent.nlink] = parent
      BY <1>1 DEF inode
    <3>3. core' = [core EXCEPT !["target"] =
                      [get_inode(n) EXCEPT !.nlink = IF dinode[n].mode = "reg" THEN Unlinked(@) ELSE @],
                    !["parent"] = [parent EXCEPT !.nlink = parent.nlink]]
      BY <1>1, <3>1, <3>2 DEF parent, Inodes2
    <3>4. \E links, up : core' = [core EXCEPT !["target"] = [get_inode(n) EXCEPT !.nlink = links],
                                             !["parent"] = [parent EXCEPT !.nlink = up]]
      BY <3>3
    <3> QED
      BY <2>1, <3>1, <3>4
  <2>2. CASE RmEmptyDir
    <3>1. PICK n \in Inodes :
            /\ Target(n) /\ UNCHANGED diskVars /\ pc' = "detach"
            /\ core' = [core EXCEPT !["target"] = [get_inode(n) EXCEPT !.nlink = 0],
                                    !["parent"].nlink = Unlinked(@)]
      BY <2>2 DEF RmEmptyDir, RmDirectory
    <3>2. \E links, up : core' = [core EXCEPT !["target"] = [get_inode(n) EXCEPT !.nlink = links],
                                             !["parent"] = [parent EXCEPT !.nlink = up]]
      BY <3>1 DEF parent
    <3> QED
      BY <2>2, <3>1, <3>2
  <2>3. CASE RmNotEmpty
    <3>1. PICK n \in Inodes :
            /\ Target(n) /\ UNCHANGED diskVars
            /\ error_handler([core EXCEPT !["target"] = get_inode(n)])
      BY <2>3 DEF RmNotEmpty
    <3>2. tool = "rm"
      BY <3>1 DEF Target
    <3> QED
      BY <3>1, <3>2 DEF error_handler, Creators
  <2> QED
    BY <2>1, <2>2, <2>3
<1>3. pc = "lookup" /\ n \in L
  BY <1>2, TargetLive DEF Target
<1>4. /\ target'.num = n /\ target'.addr = dinode[n].addr /\ parent'.addr = parent.addr
  <2>1. get_inode(n) \in inode /\ get_inode(n).num = n /\ get_inode(n).addr = dinode[n].addr
    BY <1>3, LiveInode
  <2>2. CASE \E links, up : core' = [core EXCEPT !["target"] = [get_inode(n) EXCEPT !.nlink = links],
                                                     !["parent"] = [parent EXCEPT !.nlink = up]]
    <3>1. PICK links, up : core' = [core EXCEPT !["target"] = [get_inode(n) EXCEPT !.nlink = links],
                                                     !["parent"] = [parent EXCEPT !.nlink = up]]
      BY <2>2
    <3>2. target' = [get_inode(n) EXCEPT !.nlink = links] /\ parent' = [parent EXCEPT !.nlink = up]
      BY <1>1, <3>1 DEF target, parent, Inodes2
    <3> QED
      BY <1>1, <2>1, <3>2 DEF inode
  <2>3. CASE core' = [core EXCEPT !["target"] = get_inode(n)]
    BY <1>1, <2>1, <2>3, CoreFields
  <2> QED
    BY <1>2, <2>2, <2>3
<1>5. /\ target = NULL /\ badblock(0) /\ BlocksIn(target) \subseteq {0}
      /\ BlocksIn(parent) \subseteq Taken(L) \cup {0} /\ pc \notin Holding
  BY <1>3, NothingHeld
<1>6. ibits' = ibits /\ bbits' = bbits /\ dinode' = dinode /\ Unharmed(L)
  <2>1. Allocating(L)
    BY <1>1, <1>2, UnharmedWrites
  <2> QED
    BY <1>2, <2>1 DEF Allocating, diskVars
<1>7. Least(L, Table', Dirs') /\ Taken(L)' = Taken(L)
  BY <1>1, <1>6, LeastKept DEF MarksInv
<1>8. InodesMarked(L)'
  <2>1. target.num = 0
    BY <1>5 DEF NULL
  <2> QED
    BY <1>3, <1>4, <1>6, <2>1, InodesKept DEF MarksInv
<1>9. BlocksMarked(L)'
  BY <1>3, <1>5, <1>6, <1>7, BlocksKept DEF MarksInv
<1>10. n # 0
  BY DEF Inodes
<1>11. TargetOwned(L)'
  <2>1. CASE pc' = "detach"
    <3>1. RmFile \/ RmEmptyDir
      BY <1>2, <2>1
    <3>2. target'.nlink = 0
      BY <3>1, LinksTaken DEF MarksInv
    <3> QED
      BY <1>4, <1>10, <2>1, <3>2 DEF TargetOwned, Putting
  <2>2. CASE pc' = "put"
    BY <1>3, <1>4, <1>6, <1>10, <2>2 DEF TargetOwned
  <2> QED
    BY <1>2, <2>1, <2>2
<1>12. FilesLinked' /\ Copied'
  BY <1>2, LinksTaken, LinksRemove DEF MarksInv, Copied, Filling
<1> QED
  BY <1>7, <1>8, <1>9, <1>11, <1>12 DEF MarksInv

\* detach_entry: the target is no longer live, but in core, without links.
LEMMA MarksDetach ==
  ASSUME NEW L, Before(L), MarksInv(L), detach_entry
  PROVE  \E n \in Inodes : n = target.num /\ LiveInv(L \ {n})' /\ MarksInv(L \ {n})'
<1>1. /\ LiveDisk(L) /\ L \subseteq Inodes /\ core \in [Inodes2 -> inode] /\ LiveTool(L)
      /\ target \in inode /\ parent \in inode
  BY BeforeParts DEF target, parent, Inodes2
<1>2. PICK n \in Inodes, P \in Inodes, p \in Positions :
        /\ n = target.num /\ LiveInv(L \ {n})'
        /\ Removes(L, Table, Dirs, Table', Dirs', n, P, p)
  BY LiveDetach
<1> DEFINE K == L \ {n}
<1>3. /\ pc = "detach" /\ pc' = "put" /\ ibits' = ibits /\ bbits' = bbits /\ dinode' = dinode
      /\ core' = [core EXCEPT !["target"].dirty = DIRTY, !["parent"].dirty = DIRTY]
  BY DEF detach_entry, WriteDirent
<1>4. /\ parent'.addr = parent.addr /\ target'.num = n /\ target'.addr = target.addr
      /\ target'.nlink = target.nlink /\ n # 0
  <2>1. target' = [target EXCEPT !.dirty = DIRTY] /\ parent' = [parent EXCEPT !.dirty = DIRTY]
    BY <1>1, <1>3 DEF target, parent, Inodes2
  <2> QED
    BY <1>1, <1>2, <2>1 DEF inode, Inodes
<1>5. target.nlink = 0 /\ target.addr = dinode[n].addr
  BY <1>1, <1>2, <1>3 DEF MarksInv, TargetOwned, LiveTool, Detaching
<1>6. Least(K, Table', Dirs')
  BY <1>2, LeastRemove DEF MarksInv
<1>7. InodesMarked(K)'
  BY <1>2, <1>3, <1>4, InodesKept DEF MarksInv
<1>8. /\ BlocksIn(target') = BlocksIn(target) /\ BlocksIn(parent') = BlocksIn(parent)
      /\ Taken(L) \subseteq Taken(K)' \cup BlocksIn(target')
  BY <1>3, <1>4, <1>5 DEF BlocksIn, Taken
<1>9. BlocksMarked(K)'
  BY <1>3, <1>8, BlocksKept DEF MarksInv, Holding
<1>10. TargetOwned(K)'
  BY <1>3, <1>4, <1>5 DEF TargetOwned
<1>11. FilesLinked' /\ Copied'
  BY <1>3, LinksRemove DEF MarksInv, Copied, Filling
<1> QED
  BY <1>2, <1>6, <1>7, <1>9, <1>10, <1>11 DEF MarksInv

-----------------------------------------------------------------------------
(* put_inode.                                                              *)

\* The parent does not show a new entry and hide it.
LEMMA SettledNotGrown ==
  ASSUME DiskTypeOK, NEW L, Settled(L), parent.num \in Inodes, NEW n, NEW c
  PROVE  ~Grown(L, n, c)
<1> SUFFICES ASSUME Grown(L, n, c)
             PROVE  FALSE
  OBVIOUS
<1>1. PICK a : a = dinode[parent.num].addr
  OBVIOUS
<1>2. PICK l \in Logical, b \in Spare(L) : FirstHole(a, l) /\ parent.addr = [a EXCEPT ![l] = b]
  BY <1>1 DEF Grown
<1>3. a \in [Logical -> Blocks] /\ parent.addr = a
  BY <1>1 DEF DiskTypeOK, disk_inode, Settled
<1>4. a[l] = 0
  <2>1. ~(l < l)
    BY DEF Logical
  <2> QED
    BY <1>2, <2>1 DEF FirstHole
<1>5. b # 0
  BY GeometryAssumption DEF Spare, badblock
<1> QED
  BY <1>2, <1>3, <1>4, <1>5

\* Only one inode can become live with the parent.
LEMMA GrownOnce ==
  ASSUME DiskTypeOK, NEW L, parent.num \in Inodes, NEW m, NEW n, NEW c, NEW d,
         Grown(L, m, c), Grown(L, n, d)
  PROVE  m = n
<1>1. PICK a : a = dinode[parent.num].addr
  OBVIOUS
<1>2. PICK l \in Logical, b \in Spare(L) :
        /\ FirstHole(a, l) /\ parent.addr = [a EXCEPT ![l] = b]
        /\ dirents[b] = [ZeroBlock EXCEPT ![0] = [ino |-> m, name |-> base]]
  BY <1>1 DEF Grown
<1>3. PICK j \in Logical, x \in Spare(L) :
        /\ FirstHole(a, j) /\ parent.addr = [a EXCEPT ![j] = x]
        /\ dirents[x] = [ZeroBlock EXCEPT ![0] = [ino |-> n, name |-> base]]
  BY <1>1 DEF Grown
<1>4. a \in [Logical -> Blocks]
  BY <1>1 DEF DiskTypeOK, disk_inode
<1>5. l = j
  <2>1. l \in Int /\ j \in Int /\ ~(l < l) /\ ~(j < j)
    BY DEF Logical
  <2>2. a[l] = 0 /\ a[j] = 0
    BY <1>2, <1>3, <2>1 DEF FirstHole
  <2>3. ~(l < j) /\ ~(j < l)
    BY <1>2, <1>3, <2>2 DEF FirstHole
  <2> QED
    BY <2>1, <2>3
<1>6. b = x
  BY <1>2, <1>3, <1>4, <1>5
<1>7. 0 \in Slots
  BY GeometryAssumption DEF Slots
<1>8. /\ [ZeroBlock EXCEPT ![0] = [ino |-> m, name |-> base]][0].ino = m
      /\ [ZeroBlock EXCEPT ![0] = [ino |-> n, name |-> base]][0].ino = n
  BY <1>7 DEF ZeroBlock
<1> QED
  BY <1>2, <1>3, <1>6, <1>8

\* Before the parent is written without a new entry, everything is accounted for by the
\* live inodes; if it shows a new entry, by these and the new inode.
LEMMA ParentMarks ==
  ASSUME NEW L, Before(L), MarksInv(L), pc = "put", who = "parent"
  PROVE  /\ Settled(L) => /\ ibits \subseteq L \cup {0}
                          /\ \A b \in bbits : badblock(b) \/ b \in Taken(L)
         /\ \A n : Grown(L, n, dinode[n]) =>
              /\ ibits \subseteq L \cup {0, n}
              /\ \A b \in bbits :
                   badblock(b) \/ b \in Taken(L) \cup BlocksIn(parent) \cup BlocksIn(dinode[n])
<1>1. DiskTypeOK /\ badblock(0) /\ L \subseteq Inodes
  BY BeforeParts, BlockRange
<1>2. target = NULL /\ parent.num \in L /\ parent.num \in Inodes
  BY PuttingTool DEF Putting
<1>3. target.num = 0 /\ BlocksIn(target) \subseteq {0}
  BY <1>2 DEF NULL, BlocksIn, Unmapped
<1>4. InodesMarked(L) /\ BlocksMarked(L) /\ pc \notin Holding /\ pc # "iwrite"
  BY DEF MarksInv, Holding
<1>5. ASSUME Settled(L)
      PROVE  /\ ibits \subseteq L \cup {0}
             /\ \A b \in bbits : badblock(b) \/ b \in Taken(L)
  <2>1. \A n : ~Appears(L, n)
    BY <1>1, <1>2, <1>5, SettledNotGrown DEF Appears
  <2>2. BlocksIn(parent) \subseteq Taken(L)
    BY <1>2, <1>5 DEF Settled, BlocksIn, Taken
  <2> QED
    BY <1>1, <1>3, <1>4, <2>1, <2>2 DEF InodesMarked, BlocksMarked
<1>6. ASSUME NEW n, Grown(L, n, dinode[n])
      PROVE  /\ ibits \subseteq L \cup {0, n}
             /\ \A b \in bbits :
                  badblock(b) \/ b \in Taken(L) \cup BlocksIn(parent) \cup BlocksIn(dinode[n])
  <2>1. \A m : Appears(L, m) => m = n
    BY <1>1, <1>2, <1>6, GrownOnce DEF Appears
  <2> QED
    BY <1>1, <1>3, <1>4, <2>1 DEF InodesMarked, BlocksMarked
<1> QED
  BY <1>5, <1>6

\* exit() leaves nothing but the live inodes to account for the marks.
LEMMA ExitMarks ==
  ASSUME NEW K, Exit, Least(K, Table', Dirs'), ibits' \subseteq K \cup {0}, FilesLinked',
         \A b \in bbits' : badblock(b) \/ b \in Taken(K)'
  PROVE  MarksInv(K)'
<1>1. pc' = "idle" /\ k' = 0 /\ target' = NULL
  BY DEF Exit, NoInodes, target
<1>2. InodesMarked(K)' /\ BlocksMarked(K)'
  BY DEF InodesMarked, BlocksMarked
<1>3. TargetOwned(K)' /\ Copied'
  BY <1>1 DEF TargetOwned, Copied, Putting, Filling
<1> QED
  BY <1>2, <1>3 DEF MarksInv

\* put_inode is done with the target.
LEMMA TargetPut ==
  ASSUME NEW L, Before(L), pc \in Putting, who = "target", PutDone
  PROVE  /\ pc' = "put" /\ who' = "parent" /\ target' = NULL /\ parent' = parent
         /\ target'.num = 0 /\ pc \notin Holding /\ pc # "iwrite"
         /\ TargetOwned(L)' /\ Copied'
<1>1. core \in [Inodes2 -> inode]
  BY BeforeParts
<1>2. pc' = "put" /\ who' = "parent" /\ core' = [core EXCEPT !["target"] = NULL]
  BY DEF PutDone
<1>3. target' = NULL /\ parent' = parent
  BY <1>1, <1>2, CoreFields
<1> QED
  BY <1>2, <1>3 DEF TargetOwned, Copied, Filling, Putting, Holding, NULL

\* put_inode of an inode that needs no write.
LEMMA MarksPutClean ==
  ASSUME NEW L, Before(L), MarksInv(L), PutClean
  PROVE  MarksInv(L)'
<1>1. /\ LiveDisk(L) /\ L \subseteq Inodes /\ DiskTypeOK /\ badblock(0)
  BY BeforeParts, BlockRange
<1>2. /\ pc = "put" /\ PutDone /\ UNCHANGED diskVars
      /\ held.num = 0 \/ (held.nlink # 0 /\ held.dirty = CLEAN)
  BY DEF PutClean
<1>3. ibits' = ibits /\ bbits' = bbits /\ Unharmed(L)
  <2>1. Allocating(L)
    BY <1>1, <1>2, UnharmedWrites
  <2> QED
    BY <1>2, <2>1 DEF Allocating, diskVars
<1>4. Least(L, Table', Dirs') /\ Taken(L)' = Taken(L)
  BY <1>1, <1>3, LeastKept DEF MarksInv
<1>5. FilesLinked'
  BY LinksPut DEF MarksInv, put_inode
<1>6. CASE who = "target"
  <2>1. held = target
    BY <1>2, <1>6, PuttingTool DEF Putting
  <2>2. target.num \in L \cup {0}
    BY <1>2, <1>6, <2>1 DEF MarksInv, TargetOwned, Putting, CLEAN, DIRTY
  <2>3. BlocksIn(target) \subseteq Taken(L) \cup {0}
    <3>1. CASE target.num = 0
      BY <3>1 DEF MarksInv, TargetOwned, BlocksIn, NULL, Unmapped
    <3>2. CASE target.num # 0
      <4>1. target.num \in L /\ target.addr = dinode[target.num].addr
        BY <1>2, <1>6, <2>1, <2>2, <3>2 DEF MarksInv, TargetOwned, Putting
      <4> QED
        BY <4>1 DEF BlocksIn, Taken
    <3> QED
      BY <3>1, <3>2
  <2>4. /\ pc' = "put" /\ who' = "parent" /\ parent' = parent /\ target'.num = 0
        /\ pc \notin Holding /\ TargetOwned(L)' /\ Copied'
    BY <1>2, <1>6, TargetPut DEF Putting
  <2>5. InodesMarked(L)'
    BY <1>2, <1>3, <1>6, <2>2, <2>4, InodesKept DEF MarksInv
  <2>6. BlocksMarked(L)'
    BY <1>1, <1>3, <1>4, <1>6, <2>3, <2>4, BlocksKept DEF MarksInv
  <2> QED
    BY <1>4, <1>5, <2>4, <2>5, <2>6 DEF MarksInv
<1>7. CASE who = "parent"
  <2>1. held = parent /\ parent.num # 0 /\ ParentDone(L)
    BY <1>2, <1>7, PuttingTool DEF Putting
  <2>5. parent.dirty = CLEAN
    BY <1>2, <2>1, PuttingTool DEF Putting
  <2>6. \A n, c : ~Grown(L, n, c)
    BY <2>5 DEF Grown, CLEAN, DIRTY
  <2>2. Settled(L)
    BY <1>7, <2>1, <2>6 DEF ParentDone
  <2>3. /\ ibits \subseteq L \cup {0}
        /\ \A b \in bbits : badblock(b) \/ b \in Taken(L)
    BY <1>2, <1>7, <2>2, ParentMarks
  <2>4. Exit
    BY <1>2, <1>7 DEF PutDone
  <2> QED
    BY <1>3, <1>4, <1>5, <2>3, <2>4, ExitMarks
<1> QED
  BY <1>2, <1>6, <1>7, PuttingTool DEF Putting

\* put_inode writes a target that no entry names yet: it will be live with the parent.
LEMMA MarksPutUnnamed ==
  ASSUME NEW L, Before(L), MarksInv(L), update_inode, who = "target", target.num \notin L
  PROVE  MarksInv(L)'
<1>1. /\ LiveDisk(L) /\ L \subseteq Inodes /\ DiskTypeOK /\ badblock(0)
  BY BeforeParts, BlockRange
<1>2. /\ pc = "put" /\ PutDone /\ held.num # 0 /\ held.nlink > 0 /\ held.dirty = DIRTY
      /\ dinode' = [dinode EXCEPT ![held.num] = OnDisk(held)]
      /\ ibits' = ibits /\ bbits' = bbits
  BY DEF update_inode, write_disk_inode
<1>3. held = target /\ target \in inode /\ parent \in inode
  BY <1>2, PuttingTool DEF Putting
<1>4. target.num \in Inodes
  BY <1>2, <1>3, GeometryAssumption DEF inode, Inodes
<1>5. Grown(L, target.num, target)
  <2>1. ~(0 > 0)
    OBVIOUS
  <2>2. target.nlink # 0
    BY <1>2, <1>3, <2>1
  <2> QED
    BY <1>2, <1>3, <1>4, <2>2 DEF MarksInv, TargetOwned, Putting, Inodes
<1>6. Unharmed(L) /\ Least(L, Table', Dirs') /\ Taken(L)' = Taken(L)
  BY <1>1, LivePutUnnamed, LeastKept DEF MarksInv
<1>7. PICK n \in Inodes : n = target.num /\ Grown(L, n, dinode[n])'
  BY <1>4, <1>5, LivePutUnnamed
<1>8. /\ pc' = "put" /\ who' = "parent" /\ parent' = parent /\ target' = NULL /\ target'.num = 0
      /\ pc \notin Holding /\ pc # "iwrite" /\ TargetOwned(L)' /\ Copied'
  BY <1>2, TargetPut DEF Putting
<1>9. Appears(L, n)'
  BY <1>7, <1>8 DEF Appears
<1>10. \A m : ~Appears(L, m)
  BY DEF Appears
<1>11. InodesMarked(L)'
  <2>1. InodesMarked(L)
    BY DEF MarksInv
  <2> QED
    BY <1>2, <1>7, <1>8, <1>9, <1>10, <2>1 DEF InodesMarked
<1>12. BlocksMarked(L)'
  <2>1. BlocksMarked(L)
    BY DEF MarksInv
  <2>2. dinode'[n].addr = target.addr
    BY <1>1, <1>2, <1>3, <1>7 DEF OnDisk, DiskTypeOK
  <2>3. BlocksIn(dinode'[n]) = BlocksIn(target)
    BY <2>2 DEF BlocksIn
  <2>4. BlocksIn(parent') = BlocksIn(parent)
    BY <1>8
  <2>5. \A b \in bbits : badblock(b) \/ b \in Taken(L) \cup BlocksIn(target) \cup BlocksIn(parent)
    BY <1>8, <1>10, <2>1 DEF BlocksMarked
  <2> HIDE DEF badblock
  <2>6. \A b \in bbits' : \/ badblock(b) \/ b \in Taken(L)' \cup BlocksIn(parent')
                          \/ b \in BlocksIn(dinode'[n])
    BY <1>2, <1>6, <2>3, <2>4, <2>5
  <2> QED
    BY <1>7, <1>9, <2>6 DEF BlocksMarked
<1>13. FilesLinked'
  BY LinksPut DEF MarksInv, put_inode
<1> QED
  BY <1>6, <1>8, <1>11, <1>12, <1>13 DEF MarksInv

\* put_inode writes the content of a new inode that is live already.
LEMMA MarksPutNamed ==
  ASSUME NEW L, Before(L), MarksInv(L), update_inode, who = "target", target.num \in L
  PROVE  MarksInv(L)'
<1>1. /\ LiveDisk(L) /\ L \subseteq Inodes /\ DiskTypeOK /\ badblock(0)
  BY BeforeParts, BlockRange
<1>2. /\ pc = "put" /\ PutDone /\ held.num # 0 /\ held.nlink > 0 /\ held.dirty = DIRTY
      /\ dinode' = [dinode EXCEPT ![held.num] = OnDisk(held)]
      /\ ibits' = ibits /\ bbits' = bbits
  BY DEF update_inode, write_disk_inode
<1>3. held = target /\ target \in inode /\ parent \in inode /\ TargetDone(L)
  BY <1>2, PuttingTool DEF Putting
<1>4. PICK n \in Inodes, P \in Inodes, p \in Positions :
        n = target.num /\ Fills(L, Table, Dirs, Table', Dirs', n, P, p)
  BY LivePutNamed
<1>5. Least(L, Table', Dirs')
  BY <1>4, LeastFill DEF MarksInv
<1>6. dinode[n].addr = Unmapped
  BY <1>2, <1>3, <1>4 DEF TargetDone, ToFill, ToRelease, TargetOnDisk, CLEAN, DIRTY
<1>7. dinode'[n].addr = target.addr /\ \A m \in L : m # n => dinode'[m] = dinode[m]
  BY <1>1, <1>2, <1>3, <1>4 DEF OnDisk, DiskTypeOK
<1>8. n \in L
  BY <1>4
<1>9. Taken(L) \cup BlocksIn(target) \subseteq Taken(L)' \cup {0}
  <2>1. BlocksIn(target) \subseteq Taken(L)'
    BY <1>7, <1>8 DEF BlocksIn, Taken
  <2>2. ASSUME NEW m \in L, NEW l \in Logical
        PROVE  dinode[m].addr[l] \in Taken(L)' \cup {0}
    <3>1. CASE m = n
      BY <1>6, <3>1 DEF Unmapped
    <3>2. CASE m # n
      BY <1>7, <3>2 DEF Taken
    <3> QED
      BY <3>1, <3>2
  <2> QED
    BY <2>1, <2>2 DEF Taken
<1>10. /\ pc' = "put" /\ who' = "parent" /\ parent' = parent /\ target' = NULL /\ target'.num = 0
       /\ pc \notin Holding /\ pc # "iwrite" /\ TargetOwned(L)' /\ Copied'
  BY <1>2, TargetPut DEF Putting
<1>11. InodesMarked(L)'
  BY <1>2, <1>4, <1>8, <1>10, InodesKept DEF MarksInv
<1>12. BlocksMarked(L)'
  BY <1>1, <1>2, <1>9, <1>10, BlocksKept DEF MarksInv
<1>13. FilesLinked'
  BY LinksPut DEF MarksInv, put_inode
<1> QED
  BY <1>5, <1>10, <1>11, <1>12, <1>13 DEF MarksInv

\* put_inode writes a parent that brings no new entry, as the last thing the tool does.
LEMMA MarksPutSettled ==
  ASSUME NEW L, Before(L), MarksInv(L), update_inode, who = "parent", Settled(L)
  PROVE  MarksInv(L)'
<1>1. pc = "put" /\ PutDone /\ ibits' = ibits /\ bbits' = bbits
  BY DEF update_inode, write_disk_inode
<1>2. Exit
  BY <1>1 DEF PutDone
<1>3. Table' = Table /\ Dirs' = Dirs /\ Taken(L)' = Taken(L)
  BY LivePutSettled
<1>4. Least(L, Table', Dirs')
  BY <1>3 DEF MarksInv
<1>5. FilesLinked'
  BY LinksPut DEF MarksInv, put_inode
<1>6. /\ ibits \subseteq L \cup {0}
      /\ \A b \in bbits : badblock(b) \/ b \in Taken(L)
  BY <1>1, ParentMarks
<1> QED
  BY <1>1, <1>2, <1>3, <1>4, <1>5, <1>6, ExitMarks

\* put_inode writes a parent that shows a new entry: the new inode is live.
LEMMA MarksPutGrown ==
  ASSUME NEW L, Before(L), MarksInv(L), update_inode, who = "parent",
         NEW n \in Inodes \ L, Grown(L, n, dinode[n])
  PROVE  MarksInv(L \cup {n})'
<1>1. /\ LiveDisk(L) /\ L \subseteq Inodes /\ DiskTypeOK /\ badblock(0)
  BY BeforeParts, BlockRange
<1>2. /\ pc = "put" /\ PutDone /\ ibits' = ibits /\ bbits' = bbits
      /\ dinode' = [dinode EXCEPT ![held.num] = OnDisk(held)]
  BY DEF update_inode, write_disk_inode
<1>3. Exit
  BY <1>2 DEF PutDone
<1>4. held = parent /\ parent.num \in L /\ parent.num \in Inodes
  BY <1>2, PuttingTool DEF Putting
<1>5. PICK P \in Inodes, p \in Positions :
        P = parent.num /\ Adds(L, Table, Dirs, Table', Dirs', n, P, p, base)
  BY LivePutGrown
<1>6. Least(L \cup {n}, Table', Dirs')
  <2>1. KidsStay(L, Table, Dirs) /\ Least(L, Table, Dirs)
    BY <1>1 DEF LiveDisk, TreeOf, MarksInv
  <2> QED
    BY <1>5, <2>1, LeastAdd
<1>7. FilesLinked'
  BY LinksPut DEF MarksInv, put_inode
<1>8. /\ ibits \subseteq L \cup {0, n}
      /\ \A b \in bbits :
           badblock(b) \/ b \in Taken(L) \cup BlocksIn(parent) \cup BlocksIn(dinode[n])
  BY <1>2, ParentMarks
<1>9. dinode'[P].addr = parent.addr /\ \A m \in L \cup {n} : m # P => dinode'[m] = dinode[m]
  BY <1>1, <1>2, <1>4, <1>5 DEF OnDisk, DiskTypeOK
<1>10. PICK l \in Logical, x \in Spare(L) :
         /\ FirstHole(dinode[P].addr, l)
         /\ parent.addr = [dinode[P].addr EXCEPT ![l] = x]
  BY <1>5 DEF Grown
<1>11. dinode[P].addr \in [Logical -> Blocks]
  BY <1>1, <1>5 DEF DiskTypeOK, disk_inode
<1>12. dinode[P].addr[l] = 0 /\ \A j \in Logical : j # l => parent.addr[j] = dinode[P].addr[j]
  <2>1. l \in Int /\ ~(l < l)
    BY DEF Logical
  <2> QED
    BY <1>10, <1>11, <2>1 DEF FirstHole
<1>13. P \in L /\ n # P
  BY <1>4, <1>5
<1>14. BlocksIn(parent) \subseteq Taken(L \cup {n})'
  BY <1>9, <1>13 DEF BlocksIn, Taken
<1>15. BlocksIn(dinode[n]) \subseteq Taken(L \cup {n})'
  BY <1>9, <1>13 DEF BlocksIn, Taken
<1>16. Taken(L) \subseteq Taken(L \cup {n})' \cup {0}
  <2>1. ASSUME NEW m \in L, NEW j \in Logical
        PROVE  dinode[m].addr[j] \in Taken(L \cup {n})' \cup {0}
    <3>1. CASE m = P /\ j = l
      BY <1>12, <3>1
    <3>2. CASE m = P /\ j # l
      BY <1>9, <1>12, <1>13, <3>2 DEF Taken
    <3>3. CASE m # P
      BY <1>9, <3>3 DEF Taken
    <3> QED
      BY <3>1, <3>2, <3>3
  <2> QED
    BY <2>1 DEF Taken
<1>17. \A b \in bbits' : badblock(b) \/ b \in Taken(L \cup {n})'
  BY <1>1, <1>2, <1>8, <1>14, <1>15, <1>16
<1>18. ibits' \subseteq (L \cup {n}) \cup {0}
  BY <1>2, <1>8
<1> QED
  BY <1>3, <1>6, <1>7, <1>17, <1>18, ExitMarks

\* put_inode writes the target's disk inode, then the parent's.
LEMMA MarksUpdate ==
  ASSUME NEW L, Before(L), MarksInv(L), update_inode
  PROVE  \E K \in SUBSET Inodes : LiveInv(K)' /\ MarksInv(K)'
<1>1. pc \in Putting /\ L \subseteq Inodes
  BY BeforeParts DEF update_inode, Putting
<1>2. CASE who = "target" /\ target.num \notin L
  BY <1>1, <1>2, LivePutUnnamed, MarksPutUnnamed
<1>3. CASE who = "target" /\ target.num \in L
  BY <1>1, <1>3, LivePutNamed, MarksPutNamed
<1>4. CASE who = "parent"
  <2>1. Settled(L) \/ \E n \in Inodes \ L : Grown(L, n, dinode[n])
    BY <1>1, <1>4, PuttingTool DEF ParentDone
  <2>2. CASE Settled(L)
    BY <1>1, <1>4, <2>2, LivePutSettled, MarksPutSettled
  <2>3. CASE \E n \in Inodes \ L : Grown(L, n, dinode[n])
    <3>1. PICK n \in Inodes \ L : Grown(L, n, dinode[n])
      BY <2>3
    <3>2. LiveInv(L \cup {n})' /\ MarksInv(L \cup {n})'
      BY <1>4, <3>1, LivePutGrown, MarksPutGrown
    <3>3. L \cup {n} \in SUBSET Inodes
      BY <1>1
    <3> QED
      BY <3>2, <3>3
  <2> QED
    BY <2>1, <2>2, <2>3
<1> QED
  BY <1>1, <1>2, <1>3, <1>4, PuttingTool

\* What is released is accounted for by the target until its bit is cleared.
LEMMA MarksRelease ==
  ASSUME NEW L, Before(L), MarksInv(L), free_block \/ ZeroFreed \/ BlankOut \/ free_inode
  PROVE  MarksInv(L)'
<1>1. /\ LiveDisk(L) /\ L \subseteq Inodes /\ DiskTypeOK /\ badblock(0)
      /\ core \in [Inodes2 -> inode]
  BY BeforeParts, BlockRange
<1>2. /\ pc \in Putting /\ who = "target" /\ held = target /\ target.num # 0
      /\ target.nlink = 0 /\ target.num \notin L /\ Private(Spare(L), target)
  BY ReleasingTool
<1>3. target \in inode /\ pc \notin Holding /\ pc # "iwrite"
  BY <1>2, PuttingTool DEF Putting, Holding
<1>4. FilesLinked'
  BY LinksPut DEF MarksInv, put_inode
<1>5. ASSUME Unharmed(L), ibits' = ibits, parent' = parent, target'.num = target.num,
             target'.nlink = 0, pc' \in Putting, who' = "target", pc' = "ifree" => target'.addr = Unmapped,
             \A b \in bbits' : /\ b \in bbits
                               /\ b \in BlocksIn(target) => badblock(b) \/ b \in BlocksIn(target')
      PROVE  MarksInv(L)'
  <2>1. Least(L, Table', Dirs') /\ Taken(L)' = Taken(L)
    BY <1>1, <1>5, LeastKept DEF MarksInv
  <2>2. InodesMarked(L)'
    BY <1>2, <1>3, <1>5, InodesKept DEF MarksInv
  <2>3. BlocksMarked(L)'
    BY <1>2, <1>3, <1>5, <2>1, BlocksKept DEF MarksInv
  <2>4. TargetOwned(L)' /\ Copied'
    BY <1>2, <1>5 DEF TargetOwned, Copied, Putting, Filling
  <2> QED
    BY <1>4, <2>1, <2>2, <2>3, <2>4 DEF MarksInv
<1>6. CASE free_block
  <2>1. PICK l \in Logical :
          /\ Unmaps(l)
          /\ IF badblock(held.addr[l])
             THEN pc' = "put" /\ fresh' = 0 /\ UNCHANGED diskVars
             ELSE pc' = "pzero" /\ fresh' = held.addr[l] /\ ClearBlockBit(held.addr[l])
    BY <1>6 DEF free_block
  <2>2. /\ target.addr[l] # 0 /\ UNCHANGED <<args, who, k, status>>
        /\ core' = [core EXCEPT !["target"] = [@ EXCEPT !.addr[l] = 0]]
    BY <1>2, <2>1 DEF Unmaps, Lowest, Holes
  <2>3. PICK b : b = target.addr[l]
    OBVIOUS
  <2>4. b \in Spare(L) /\ b \notin Taken(L) /\ ~badblock(b)
    BY <1>2, <2>2, <2>3 DEF Private, Spare
  <2>5. pc' = "pzero" /\ ClearBlockBit(b)
    BY <1>2, <2>1, <2>3, <2>4
  <2>6. parent' = parent /\ target' = [target EXCEPT !.addr[l] = 0]
    BY <1>1, <2>2 DEF parent, target, Inodes2
  <2>7. /\ target'.num = target.num /\ target'.nlink = 0
        /\ \A j \in Logical : j # l => target'.addr[j] = target.addr[j]
    BY <1>2, <1>3, <2>6 DEF inode
  <2>8. Unharmed(L)
    BY <1>1, <2>4, <2>5, UnharmedFrees
  <2>9. ibits' = ibits /\ bbits' = bbits \ {b}
    BY <2>5 DEF ClearBlockBit
  <2>10. \A x \in BlocksIn(target) : x = b \/ x \in BlocksIn(target')
    BY <2>3, <2>7 DEF BlocksIn
  <2>11. pc' \in Putting /\ pc' # "ifree" /\ who' = "target"
    BY <1>2, <2>2, <2>5 DEF Putting
  <2> QED
    BY <1>5, <2>6, <2>7, <2>8, <2>9, <2>10, <2>11
<1>7. CASE ZeroFreed
  <2>1. /\ pc = "pzero" /\ pc' = "put" /\ zero_block(fresh)
        /\ UNCHANGED <<args, core, who, k, status, faults>>
    BY <1>7 DEF ZeroFreed
  <2>2. fresh \notin Taken(L)
    BY <2>1 DEF Before, LiveInv, LiveTool
  <2>3. /\ Unharmed(L) /\ bbits' = bbits /\ ibits' = ibits /\ parent' = parent
        /\ target' = target
    BY <1>1, <2>1, <2>2, UnharmedWrites DEF Allocating, zero_block, parent, target
  <2> QED
    BY <1>2, <1>5, <2>1, <2>3 DEF Putting
<1>8. CASE BlankOut
  <2>1. /\ pc' = "ifree" /\ write_disk_inode(target.num, Released)
        /\ UNCHANGED <<args, core, who, fresh, k, status, faults>> /\ Holes(target) = Logical
    BY <1>2, <1>8 DEF BlankOut
  <2>2. /\ Unharmed(L) /\ bbits' = bbits /\ ibits' = ibits /\ parent' = parent
        /\ target' = target
    BY <1>1, <1>2, <2>1, UnharmedWrites DEF Allocating, write_disk_inode, parent, target
  <2>3. target.addr = Unmapped
    BY <1>3, <2>1 DEF Holes, Unmapped, inode
  <2> QED
    BY <1>2, <1>5, <2>1, <2>2, <2>3 DEF Putting
<1>9. CASE free_inode
  <2>1. ClearInodeBit(target.num) /\ PutDone /\ pc = "ifree"
    BY <1>2, <1>9 DEF free_inode
  <2>2. Unharmed(L)
    BY <1>1, <1>2, <2>1, UnharmedFrees
  <2>3. Least(L, Table', Dirs') /\ Taken(L)' = Taken(L)
    BY <1>1, <2>2, LeastKept DEF MarksInv
  <2>4. target.addr = Unmapped
    BY <2>1 DEF MarksInv, TargetOwned
  <2>5. BlocksIn(target) \subseteq {0}
    BY <2>4 DEF BlocksIn, Unmapped
  <2>6. parent' = parent /\ target'.num = 0 /\ TargetOwned(L)' /\ Copied' /\ pc' = "put"
    BY <1>2, <2>1, TargetPut
  <2>7. ibits' = ibits \ {target.num} /\ bbits' = bbits
    BY <2>1 DEF ClearInodeBit
  <2>8. InodesMarked(L)'
    BY <1>2, <1>3, <2>6, <2>7, InodesKept DEF MarksInv
  <2>9. BlocksMarked(L)'
    BY <1>1, <1>2, <1>3, <2>3, <2>5, <2>6, <2>7, BlocksKept DEF MarksInv
  <2> QED
    BY <1>4, <2>3, <2>6, <2>8, <2>9 DEF MarksInv
<1> QED
  BY <1>6, <1>7, <1>8, <1>9

\* A step that does nothing.
LEMMA MarksStutter ==
  ASSUME NEW L, MarksInv(L), UNCHANGED vars
  PROVE  MarksInv(L)'
<1>1. /\ ibits' = ibits /\ bbits' = bbits /\ dinode' = dinode /\ dirents' = dirents
      /\ chunk' = chunk /\ pc' = pc /\ tool' = tool /\ base' = base /\ core' = core /\ who' = who
      /\ fresh' = fresh /\ k' = k /\ kills' = kills /\ fsz' = fsz
  BY DEF vars
<1>2. parent' = parent /\ target' = target /\ Table' = Table /\ Dirs' = Dirs
      /\ Taken(L)' = Taken(L) /\ Spare(L)' = Spare(L) /\ \A d : LinksOf(d)' = LinksOf(d)
  BY <1>1 DEF parent, target, Table, Dirs, Taken, Spare, LinksOf
<1>3. ASSUME NEW n, NEW c
      PROVE  Grown(L, n, c)' = Grown(L, n, c)
  <2>1. NameFree' = NameFree /\ LinksOf(parent.num)' = LinksOf(parent.num)
    BY <1>1, <1>2 DEF NameFree, LinksOf
  <2> QED
    BY <1>1, <1>2, <2>1 DEF Grown
<1>4. \A n : Appears(L, n)' = Appears(L, n)
  BY <1>1, <1>3 DEF Appears
<1>5. InodesMarked(L)' /\ BlocksMarked(L)'
  BY <1>1, <1>2, <1>4 DEF MarksInv, InodesMarked, BlocksMarked
<1>6. TargetOwned(L)'
  <2>1. Grown(L, target.num, target)' = Grown(L, target.num, target)
    BY <1>2, <1>3
  <2> QED
    BY <1>1, <1>2, <2>1 DEF MarksInv, TargetOwned
<1>7. FilesLinked' /\ Copied' /\ Least(L, Table', Dirs')
  BY <1>1, <1>2 DEF MarksInv, FilesLinked, Copied, Chunks
<1> QED
  BY <1>5, <1>6, <1>7 DEF MarksInv

\* mkfs marks the root, its block and the metadata (mkfs.c:268-320).
LEMMA MarksRoot == Init => LiveInv({ROOT_INODE}) /\ MarksInv({ROOT_INODE})
<1> SUFFICES ASSUME Init
             PROVE  LiveInv({ROOT_INODE}) /\ MarksInv({ROOT_INODE})
  OBVIOUS
<1> DEFINE L == {ROOT_INODE}
<1>1. LiveInv(L)
  BY LiveRoot
<1>2. /\ ibits = {0, ROOT_INODE} /\ bbits = 0 .. FirstData /\ core = NoInodes
      /\ dinode = [n \in Inodes |-> IF n = ROOT_INODE THEN RootInode ELSE BlankInode]
      /\ pc = "idle" /\ k = 0
  BY DEF Init, mkfs
<1>3. Least(L, Table, Dirs)
  BY DEF Least
<1>4. InodesMarked(L)
  BY <1>2 DEF InodesMarked
<1>5. BlocksMarked(L)
  <2>1. dinode[ROOT_INODE].addr[0] = FirstData /\ 0 \in Logical
    <3>1. 0 \in Logical
      BY GeometryAssumption DEF Logical
    <3>2. dinode[ROOT_INODE] = RootInode
      BY <1>2, RootType
    <3> QED
      BY <3>1, <3>2 DEF RootInode, Unmapped
  <2>2. FirstData \in Taken(L)
    BY <2>1 DEF Taken
  <2>3. \A b \in bbits : b = FirstData \/ badblock(b)
    BY <1>2, GeometryAssumption DEF badblock
  <2> QED
    BY <2>2, <2>3 DEF BlocksMarked
<1>6. target = NULL /\ parent = NULL
  BY <1>2 DEF NoInodes, target, parent
<1>7. TargetOwned(L) /\ Copied
  BY <1>2, <1>6 DEF TargetOwned, Copied, Putting, Filling
<1>8. FilesLinked
  BY <1>2, <1>6 DEF FilesLinked, FewLinks, RootInode, BlankInode, NULL
<1> QED
  BY <1>1, <1>3, <1>4, <1>5, <1>7, <1>8 DEF MarksInv

\* The image mkfs leaves behind is clean.
LEMMA CleanStart == Init => CleanTree
  BY MarksRoot, RootType DEF CleanTree

\* Nothing is killed and nothing fails.
LEMMA NoFaultHappens ==
  ASSUME NoFaults, ProcTypeOK
  PROVE  ~Fault /\ OneKill
<1>1. OneKill
  BY DEF NoFaults, OneKill
<1>2. kills \in 0 .. MaxKills /\ MaxKills = 0
  BY DEF NoFaults, ProcTypeOK
<1>3. ~Kill
  BY <1>2 DEF Kill
<1> QED
  BY <1>1, <1>3, NoFailedIo

\* Every step that is not a fault accounts for what it marks and frees.
LEMMA CleanStep ==
  ASSUME MaxKills <= 1, ~Fault, Inv, UnlinkedIsBlank, CleanTree, [Next]_vars
  PROVE  CleanTree'
<1>1. PICK L \in SUBSET Inodes : LiveInv(L) /\ MarksInv(L)
  BY DEF CleanTree
<1>2. Before(L) /\ MarksInv(L) /\ ProcTypeOK
  BY <1>1 DEF Before, Inv, TypeOK
<1>3. MaxKills <= 1 /\ ~Fault
  OBVIOUS
<1>4. LiveInv(L)' /\ MarksInv(L)' => CleanTree'
  BY DEF CleanTree
<1>5. CASE Start \/ WalkDown \/ WalkFails \/ WalkEnds
  BY <1>2, <1>4, <1>5, LiveWalk, MarksRead, MarksFail
<1>6. CASE Create
  <2>1. CASE CreateLookupFails \/ NoFreeInode \/ NoFreeBlock \/ HostFails \/ AddEntryFails
    BY <1>2, <1>4, <2>1, LiveCreateFails, MarksFail
  <2>2. CASE CreateLookup \/ alloc_inode \/ InitInode
    BY <1>2, <1>4, <2>2, LiveAllocInode, MarksRead, MarksInit
  <2>3. CASE alloc_block \/ ZeroFresh \/ FileCopied
    BY <1>2, <1>4, <2>3, LiveFill, MarksFill
  <2>4. CASE WriteDotEntries \/ CopyChunk
    BY <1>2, <1>4, <2>4, LiveContent, MarksFill
  <2>5. CASE AddEntryAllocates \/ AddEntryZeroes
    BY <1>2, <1>3, <1>4, <2>5, LiveAddBlock, MarksAddBlock
  <2>6. CASE AddEntryInSlot
    <3>1. PICK n \in Inodes : LiveInv(L \cup {n})' /\ MarksInv(L \cup {n})'
      BY <1>2, <1>3, <2>6, MarksAddSlot
    <3>2. L \cup {n} \in SUBSET Inodes
      BY <1>1
    <3> QED
      BY <3>1, <3>2 DEF CleanTree
  <2>7. CASE AddEntryInNewBlock
    BY <1>2, <1>3, <1>4, <2>7, LiveAddLast, MarksAddBlock
  <2> QED
    BY <1>6, <2>1, <2>2, <2>3, <2>4, <2>5, <2>6, <2>7 DEF Create
<1>7. CASE Remove
  <2>1. CASE detach_entry
    <3>1. PICK n \in Inodes : LiveInv(L \ {n})' /\ MarksInv(L \ {n})'
      BY <1>2, <2>1, MarksDetach
    <3> QED
      BY <1>1, <3>1 DEF CleanTree
  <2>2. CASE RmLookupFails \/ RmFile \/ RmEmptyDir \/ RmNotEmpty
    BY <1>2, <1>3, <1>4, <2>2, LiveRmLookup, MarksFail, MarksRmLookup
  <2> QED
    BY <1>7, <2>1, <2>2 DEF Remove
<1>8. CASE put_inode
  <2>1. CASE PutClean
    BY <1>2, <1>4, <2>1, LivePutClean, MarksPutClean
  <2>2. CASE update_inode
    BY <1>2, <2>2, MarksUpdate DEF CleanTree
  <2>3. CASE free_block \/ ZeroFreed \/ BlankOut \/ free_inode
    BY <1>2, <1>4, <2>3, LiveRelease, MarksRelease
  <2> QED
    BY <1>8, <2>1, <2>2, <2>3 DEF put_inode
<1>9. CASE UNCHANGED vars
  BY <1>1, <1>4, <1>9, LiveStutter, MarksStutter
<1> QED
  BY <1>3, <1>5, <1>6, <1>7, <1>8, <1>9 DEF Next, Step

\* The invariant.
LEMMA AlwaysClean ==
  ASSUME NoFaults
  PROVE  Spec => [](Inv /\ UnlinkedIsBlank /\ CleanTree)
<1>1. Init => Inv /\ UnlinkedIsBlank /\ CleanTree
  BY InvInit, InitIsHalf, UnlinkedInit, CleanStart
<1>2. Inv /\ UnlinkedIsBlank /\ CleanTree /\ [Next]_vars => (Inv /\ UnlinkedIsBlank /\ CleanTree)'
  <2>1. Inv => ~Fault /\ MaxKills <= 1
    BY NoFaultHappens DEF Inv, TypeOK, OneKill
  <2> QED
    BY <2>1, InvStep, UnlinkedStep, CleanStep
<1> QED
  BY <1>1, <1>2, PTL DEF Spec

\* As long as no tool is interrupted and no read or write fails, every mark in a bitmap
\* belongs to a live inode or to the running tool (mkdir.c, cp.c, rm.c, allocator.c).
THEOREM TreeIsClean ==
  ASSUME NoFaults
  PROVE  Spec => []CleanTree
<1> QED
  BY AlwaysClean, PTL

-----------------------------------------------------------------------------
(* What the root leads to is all that is live.                             *)

\* The live inodes, being the least set that the entries do not lead out of, are those
\* that are reachable.
LEMMA ReachableIsLive ==
  ASSUME NEW L, Alive(L), Least(L, Table, Dirs)
  PROVE  Reachable = L
<1>1. L \subseteq Inodes /\ ROOT_INODE \in L /\ Reachable \subseteq L /\ DiskTypeOK
  BY AliveParts, ReachableLives DEF Alive
<1>2. \A d \in L : Children(d) \subseteq L
  BY AliveParts DEF Children
<1>3. ROOT_INODE \in Reachable /\ \A d \in Reachable : Children(d) \subseteq Reachable
  BY <1>1, <1>2, ReachableClosed
<1>4. Closed(Reachable, Table, Dirs)
  <2> SUFFICES ASSUME NEW d \in Reachable \cap Dirs, NEW q \in Kids(Table, d)
               PROVE  Table[d][q].ino \in Reachable
    BY DEF Closed
  <2>1. q \in Entries(d)
    BY <1>1, EntriesAreKids
  <2>2. Child(d, q) = Table[d][q].ino
    BY <1>1, <2>1, AliveParts
  <2>3. Child(d, q) \in Children(d)
    BY <2>1 DEF Children
  <2> QED
    BY <1>3, <2>2, <2>3
<1> QED
  BY <1>1, <1>3, <1>4 DEF Least

-----------------------------------------------------------------------------
(* What a run checks between two tools, when none was interrupted.         *)

\* The state between two tools, with its live inodes.
AtRest(L) ==
  Alive(L) /\ MarksInv(L) /\ TypeOK /\ MetadataSafe /\ pc = "idle" /\ kills = 0

\* Nothing is in core, and nothing but the live inodes and the metadata is marked.
LEMMA RestParts ==
  ASSUME NEW L, AtRest(L)
  PROVE  /\ Reachable = L /\ ibits \subseteq L \cup {0}
         /\ \A b \in bbits : badblock(b) \/ b \in Taken(L)
<1>1. Reachable = L
  BY ReachableIsLive DEF AtRest, MarksInv
<1>2. target = NULL /\ parent = NULL
  <2>1. core = NoInodes
    BY AliveParts DEF AtRest, LiveTool
  <2> QED
    BY <2>1 DEF target, parent, NoInodes
<1>3. target.num = 0 /\ BlocksIn(target) \subseteq {0} /\ BlocksIn(parent) \subseteq {0}
  BY <1>2 DEF NULL, BlocksIn, Unmapped
<1>4. \A n : ~Appears(L, n)
  BY DEF AtRest, Appears
<1>5. InodesMarked(L) /\ BlocksMarked(L) /\ pc \notin Holding /\ pc # "iwrite"
  BY DEF AtRest, MarksInv, Holding
<1>6. badblock(0)
  BY GeometryAssumption DEF badblock
<1>7. ibits \subseteq L \cup {0}
  BY <1>3, <1>4, <1>5 DEF InodesMarked
<1>8. \A b \in bbits : badblock(b) \/ b \in Taken(L)
  BY <1>3, <1>4, <1>5, <1>6 DEF BlocksMarked
<1> QED
  BY <1>1, <1>7, <1>8

\* The inode bitmap.
LEMMA RestInodes ==
  ASSUME NEW L, AtRest(L)
  PROVE  InodesAccounted
<1>1. Reachable = L /\ ibits \subseteq L \cup {0}
  BY RestParts
<1>2. L \subseteq ibits /\ 0 \in ibits
  BY AliveParts DEF AtRest, MetadataSafe
<1> QED
  BY <1>1, <1>2 DEF InodesAccounted

\* The block bitmap.
LEMMA RestBlocks ==
  ASSUME NEW L, AtRest(L)
  PROVE  BlocksAccounted
<1>1. Reachable = L /\ \A b \in bbits : badblock(b) \/ b \in Taken(L)
  BY RestParts
<1>2. bbits \subseteq Blocks /\ 0 .. FirstData - 1 \subseteq bbits
  BY DEF AtRest, Alive, DiskTypeOK, MetadataSafe
<1>3. ReachableBlocksSafe
  BY AliveBlocks DEF AtRest
<1>4. \A b \in bbits : badblock(b) => b \in 0 .. FirstData - 1
  BY <1>2, GeometryAssumption DEF badblock, Blocks
<1>5. \A b \in bbits : b \in Taken(L) => b = 0 \/ \E u \in Uses : Use(u) = b
  <2> SUFFICES ASSUME NEW n \in L, NEW l \in Logical, dinode[n].addr[l] # 0
               PROVE  \E u \in Uses : Use(u) = dinode[n].addr[l]
    BY DEF Taken
  <2>1. <<n, l>> \in Uses /\ Use(<<n, l>>) = dinode[n].addr[l]
    BY <1>1 DEF Uses, Use
  <2> QED
    BY <2>1
<1>6. 0 \in 0 .. FirstData - 1
  BY GeometryAssumption
<1>7. \A u \in Uses : Use(u) \in bbits
  BY <1>3 DEF ReachableBlocksSafe
<1>8. bbits = (0 .. FirstData - 1) \cup {Use(u) : u \in Uses}
  BY <1>1, <1>2, <1>4, <1>5, <1>6, <1>7
<1> QED
  BY <1>8 DEF BlocksAccounted

\* The link counts.
LEMMA RestLinks ==
  ASSUME NEW L, AtRest(L)
  PROVE  LinkCountsExact
<1> SUFFICES ASSUME NEW n \in Reachable
             PROVE  dinode[n].nlink = IF dinode[n].mode = "dir"
                                      THEN 2 + Cardinality(Subdirs(n)) ELSE 1
  BY DEF LinkCountsExact
<1>1. n \in L /\ n \in Inodes /\ DiskTypeOK
  BY RestParts, AliveParts DEF AtRest, Alive
<1>2. dinode[n].mode \in {"reg", "dir"} /\ dinode[n].nlink # 0
  BY <1>1, AliveParts DEF AtRest
<1>3. CASE dinode[n].mode = "dir"
  <2>1. LinkCountsWithinKills
    BY AliveLinks DEF AtRest
  <2>3. dinode[n].nlink \in Int
    BY <1>1, LinkTypes
  <2>4. Cardinality(Subdirs(n)) \in Int
    <3>1. Subdirs(n) = SubdirsIn(Table, Dirs, n)
      BY <1>1, <1>3, SubdirsAsKids DEF AtRest, Dirs
    <3> QED
      BY <3>1, SubdirsFinite
  <2>5. kills = 0
    BY DEF AtRest
  <2>6. dinode[n].nlink \in (2 + Cardinality(Subdirs(n))) - 0 .. (2 + Cardinality(Subdirs(n))) + 0
    BY <1>3, <2>1, <2>5 DEF LinkCountsWithinKills, AtRest, Quiet
  <2>7. dinode[n].nlink = 2 + Cardinality(Subdirs(n))
    BY <2>3, <2>4, <2>6
  <2> QED
    BY <1>3, <2>7
<1>4. CASE dinode[n].mode = "reg"
  BY <1>1, <1>2, <1>4 DEF AtRest, MarksInv, FilesLinked, FewLinks
<1> QED
  BY <1>2, <1>3, <1>4

\* The invariant, between two tools.
LEMMA AlwaysAtRest ==
  ASSUME NoFaults
  PROVE  Spec => [](pc = "idle" => \E L \in SUBSET Inodes : AtRest(L))
<1>1. Inv /\ UnlinkedIsBlank /\ CleanTree /\ MetadataSafe
        => (pc = "idle" => \E L \in SUBSET Inodes : AtRest(L))
  <2> SUFFICES ASSUME Inv, UnlinkedIsBlank, CleanTree, MetadataSafe, pc = "idle"
               PROVE  \E L \in SUBSET Inodes : AtRest(L)
    OBVIOUS
  <2>1. PICK L \in SUBSET Inodes : LiveInv(L) /\ MarksInv(L)
    BY DEF CleanTree
  <2>2. kills \in 0 .. MaxKills
    BY DEF Inv, TypeOK, ProcTypeOK
  <2>3. kills = 0
    BY <2>2 DEF NoFaults
  <2> QED
    BY <2>1, <2>3 DEF AtRest, Alive, Inv, TypeOK
<1> QED
  BY <1>1, AlwaysClean, MetadataIsSafe, PTL

\* Between two tools that were not interrupted exactly the reachable inodes are marked
\* (alloc_inode, free_inode and the error handlers of mkdir.c and cp.c).
THEOREM InodesAreAccounted ==
  ASSUME NoFaults
  PROVE  Spec => []InodesAccounted
<1>1. (pc = "idle" => \E L \in SUBSET Inodes : AtRest(L)) => InodesAccounted
  BY RestInodes DEF InodesAccounted, Quiet
<1> QED
  BY <1>1, AlwaysAtRest, PTL

\* And exactly the blocks they map, with the metadata (alloc_block, free_block,
\* truncate_inode, add_entry).
THEOREM BlocksAreAccounted ==
  ASSUME NoFaults
  PROVE  Spec => []BlocksAccounted
<1>1. (pc = "idle" => \E L \in SUBSET Inodes : AtRest(L)) => BlocksAccounted
  BY RestBlocks DEF BlocksAccounted, Quiet
<1> QED
  BY <1>1, AlwaysAtRest, PTL

\* A directory's link count is 2 plus its subdirectories, a file's is 1 (mkdir.c:198,
\* rm.c:164, 199-200).
THEOREM LinkCountsAreExact ==
  ASSUME NoFaults
  PROVE  Spec => []LinkCountsExact
<1>1. (pc = "idle" => \E L \in SUBSET Inodes : AtRest(L)) => LinkCountsExact
  BY RestLinks DEF LinkCountsExact, Quiet
<1> QED
  BY <1>1, AlwaysAtRest, PTL

-----------------------------------------------------------------------------
(* What a tool that fails undoes.                                          *)

\* What is known before a step.
Doing(L) == Before(L) /\ MarksInv(L) /\ DirtyLast /\ UndoInv

\* Its parts.
LEMMA DoingParts ==
  ASSUME NEW L, Doing(L)
  PROVE  /\ Before(L) /\ DiskTypeOK /\ ProcTypeOK /\ LiveDisk(L) /\ LiveTool(L) /\ L \subseteq Inodes
         /\ core \in [Inodes2 -> inode] /\ target \in inode /\ parent \in inode /\ InFlight
         /\ TargetOwned(L) /\ Copied /\ DirtyLast
         /\ FreeIsBlank /\ GivenUp /\ BeforeOK /\ (pc = "idle" => before = diskVars)
         /\ Undecided => InodesWere(NewInodes) /\ BlocksWere(NewBlocks, GivenBack)
         /\ \A n \in L : n \in ibits
         /\ \A b \in Taken(L) : b # 0 => b \in bbits
<1>1. /\ Before(L) /\ DiskTypeOK /\ ProcTypeOK /\ LiveDisk(L) /\ LiveTool(L) /\ L \subseteq Inodes
      /\ core \in [Inodes2 -> inode] /\ InFlight
  BY BeforeParts DEF Doing
<1>2. TargetOwned(L) /\ Copied /\ DirtyLast
  BY DEF Doing, MarksInv
<1>3. /\ FreeIsBlank /\ GivenUp /\ BeforeOK /\ (pc = "idle" => before = diskVars)
      /\ Undecided => InodesWere(NewInodes) /\ BlocksWere(NewBlocks, GivenBack)
  BY DEF Doing, UndoInv
<1>4. /\ \A n \in L : n \in ibits
      /\ \A b \in Taken(L) : b # 0 => b \in bbits
  BY <1>1 DEF LiveDisk, InodesOf, BlocksOf
<1>5. target \in inode /\ parent \in inode
  BY <1>1 DEF target, parent, Inodes2
<1> QED
  BY <1>1, <1>2, <1>3, <1>4, <1>5

-----------------------------------------------------------------------------
(* What is free stays blank.                                               *)

\* As long as a tool writes only what is marked.
LEMMA FreeKept ==
  ASSUME DiskTypeOK, FreeIsBlank, pc # "pzero", pc' # "ifree",
         NEW n, NEW b, NEW x, NEW y,
         \/ SetInodeBit(n) \/ SetBlockBit(b) \/ UNCHANGED diskVars
         \/ n \in ibits /\ write_disk_inode(n, x)
         \/ b \in bbits /\ (zero_block(b) \/ WriteDots(b, x, y) \/ WriteDirent(b, x, y)
                            \/ WriteChunk(b, x))
  PROVE  FreeIsBlank'
<1>1. GivenBack = {}
  BY DEF GivenBack
<1>2. \A m \in Inodes \ ibits' : m \notin ibits /\ dinode'[m] = dinode[m]
  BY DEF SetInodeBit, SetBlockBit, diskVars, write_disk_inode, zero_block, WriteDots,
         WriteDirent, WriteChunk, DiskTypeOK
<1>3. \A c \in Blocks \ bbits' : /\ c \notin bbits
                                 /\ dirents'[c] = dirents[c] /\ chunk'[c] = chunk[c]
  BY DEF SetInodeBit, SetBlockBit, diskVars, write_disk_inode, zero_block, WriteDots,
         WriteDirent, WriteChunk, DiskTypeOK
<1> QED
  BY <1>1, <1>2, <1>3 DEF FreeIsBlank, ZeroAt

-----------------------------------------------------------------------------
(* What the disk was.                                                      *)

\* A step that writes no inode.
LEMMA InodesSame ==
  ASSUME NEW N, InodesWere(N), before' = before, UNCHANGED <<ibits, dinode>>
  PROVE  InodesWere(N)'
  BY DEF InodesWere

\* One that writes no block.
LEMMA BlocksSame ==
  ASSUME NEW B, NEW G, BlocksWere(B, G), before' = before, UNCHANGED <<bbits, dirents, chunk>>
  PROVE  BlocksWere(B, G)'
  BY DEF BlocksWere, ZeroAt

\* A free inode is marked,
LEMMA InodeMarked ==
  ASSUME NEW n \in Inodes, n \notin ibits, FreeIsBlank, InodesWere({}), before' = before,
         SetInodeBit(n)
  PROVE  InodesWere({n})'
  BY DEF InodesWere, FreeIsBlank, SetInodeBit

\* written,
LEMMA InodeWritten ==
  ASSUME DiskTypeOK, NEW N, NEW n \in N, NEW x, InodesWere(N), before' = before,
         write_disk_inode(n, x)
  PROVE  InodesWere(N)'
  BY DEF InodesWere, write_disk_inode, DiskTypeOK

\* and marked free again.
LEMMA InodeCleared ==
  ASSUME NEW n \in Inodes, dinode[n] = BlankInode, InodesWere({n}), before' = before,
         ClearInodeBit(n)
  PROVE  InodesWere({})'
  BY DEF InodesWere, ClearInodeBit

\* A free block is marked,
LEMMA BlockMarked ==
  ASSUME NEW B, NEW b \in Blocks, b \notin bbits, pc # "pzero", FreeIsBlank, BlocksWere(B, {}),
         before' = before, SetBlockBit(b)
  PROVE  BlocksWere(B \cup {b}, {})'
<1>1. b \notin B /\ ZeroAt(dirents, chunk, b)
  BY DEF BlocksWere, FreeIsBlank, GivenBack
<1> QED
  BY <1>1 DEF BlocksWere, SetBlockBit, ZeroAt

\* written,
LEMMA BlockWritten ==
  ASSUME DiskTypeOK, NEW B, NEW b \in B, NEW x, NEW y, BlocksWere(B, {}), before' = before,
         zero_block(b) \/ WriteDots(b, x, y) \/ WriteChunk(b, x)
  PROVE  BlocksWere(B, {})'
<1>1. /\ bbits' = bbits
      /\ \A c \in Blocks \ B : dirents'[c] = dirents[c] /\ chunk'[c] = chunk[c]
  BY DEF zero_block, WriteDots, WriteChunk, DiskTypeOK
<1> QED
  BY <1>1 DEF BlocksWere, ZeroAt

\* and given back, to be cleared.
LEMMA BlockGiven ==
  ASSUME NEW B, NEW b \in B, BlocksWere(B, {}), before' = before, ClearBlockBit(b)
  PROVE  BlocksWere(B \ {b}, {b})'
  BY DEF BlocksWere, ClearBlockBit, ZeroAt

\* It is zero again then.
LEMMA BlockCleared ==
  ASSUME DiskTypeOK, NEW B, NEW b \in Blocks, BlocksWere(B, {b}), before' = before, zero_block(b)
  PROVE  BlocksWere(B, {})'
<1>1. /\ bbits' = bbits /\ ZeroAt(dirents', chunk', b)
      /\ \A c \in Blocks \ {b} : dirents'[c] = dirents[c] /\ chunk'[c] = chunk[c]
  BY DEF zero_block, DiskTypeOK, ZeroAt
<1> QED
  BY <1>1 DEF BlocksWere, ZeroAt

\* The invariant in the middle of a tool.
LEMMA UndoFrom ==
  ASSUME NEW L, Doing(L), before' = before, pc' # "idle", FreeIsBlank', GivenUp',
         Undecided' => InodesWere(NewInodes)' /\ BlocksWere(NewBlocks, GivenBack)'
  PROVE  UndoInv'
  BY DoingParts DEF UndoInv, BeforeOK

-----------------------------------------------------------------------------
(* Before anything is marked, and failing.                                 *)

\* The running tool has marked nothing.
EmptyHanded ==
  (target = NULL \/ tool \notin Creators) /\ pc # "iwrite" /\ pc # "pzero" /\ pc \notin Holding

\* So nothing is new.
LEMMA NothingNew ==
  /\ EmptyHanded => NewInodes = {} /\ NewBlocks = {} /\ GivenBack = {}
  /\ EmptyHanded' => NewInodes' = {} /\ NewBlocks' = {} /\ GivenBack' = {}
<1>1. NULL.num = 0 /\ BlocksIn(NULL) \subseteq {0}
  BY DEF NULL, BlocksIn, Unmapped
<1>2. target = NULL => BlocksIn(target) \subseteq {0}
  BY <1>1
<1>3. target' = NULL => BlocksIn(target)' \subseteq {0}
  BY <1>1 DEF BlocksIn
<1> QED
  BY <1>1, <1>2, <1>3 DEF EmptyHanded, NewInodes, NewBlocks, GivenBack

\* Nor does it write anything.
LEMMA StaysEmpty ==
  ASSUME NEW L, Doing(L), before' = before, UNCHANGED diskVars, EmptyHanded, EmptyHanded',
         Undecided, pc' # "idle", pc' # "ifree", GivenUp'
  PROVE  UndoInv'
<1>1. InodesWere({}) /\ BlocksWere({}, {})
  BY DoingParts, NothingNew
<1>2. InodesWere({})' /\ BlocksWere({}, {})'
  BY <1>1, InodesSame, BlocksSame DEF diskVars
<1>3. FreeIsBlank'
  BY DoingParts, FreeKept DEF EmptyHanded
<1>4. NewInodes' = {} /\ NewBlocks' = {} /\ GivenBack' = {}
  BY NothingNew
<1>5. Undecided' => InodesWere(NewInodes)' /\ BlocksWere(NewBlocks, GivenBack)'
  BY <1>2, <1>4 DEF InodesWere, BlocksWere
<1> QED
  BY <1>3, <1>5, UndoFrom

\* Starting a tool, walking to the parent, and rm up to the write of detach_entry.
LEMMA UndoRead ==
  ASSUME NEW L, Doing(L), before' = before,
         Start \/ WalkDown \/ WalkEnds \/ CreateLookup \/ RmFile \/ RmEmptyDir
  PROVE  UndoInv'
<1>1. core \in [Inodes2 -> inode] /\ Before(L)
  BY DoingParts
<1>2. /\ UNCHANGED diskVars /\ pc \in {"idle", "walk", "lookup"}
      /\ pc' \in {"walk", "lookup", "ibit", "detach"}
  BY DEF Start, Invoke, WalkDown, WalkEnds, CreateLookup, RmFile, RmEmptyDir, RmDirectory, Target
<1>3. target = NULL
  BY <1>1, <1>2, NothingHeld
<1>4. CASE RmFile \/ RmEmptyDir
  <2>1. tool = "rm" /\ tool' = "rm"
    BY <1>4 DEF RmFile, RmEmptyDir, RmDirectory, Target, args
  <2> QED
    BY <1>2, <2>1, StaysEmpty DEF EmptyHanded, Creators, Holding, Undecided, Putting, GivenUp
<1>5. CASE Start \/ WalkDown \/ WalkEnds \/ CreateLookup
  <2>1. (\E x : core' = [core EXCEPT !["parent"] = x]) \/ core' = core
    BY <1>5 DEF Start, Invoke, WalkDown, WalkEnds, CreateLookup
  <2>2. target' = target
    BY <1>1, <2>1, CoreFields
  <2> QED
    BY <1>2, <1>3, <2>2, StaysEmpty DEF EmptyHanded, Holding, Undecided, Putting, GivenUp
<1> QED
  BY <1>4, <1>5

\* A tool that fails holds what it made until put_inode gives it back.
LEMMA UndoFail ==
  ASSUME NEW L, Doing(L), before' = before,
         \/ WalkFails \/ CreateLookupFails \/ NoFreeInode \/ RmLookupFails
         \/ NoFreeBlock \/ HostFails \/ AddEntryFails
  PROVE  UndoInv'
<1>1. core \in [Inodes2 -> inode] /\ Before(L) /\ FreeIsBlank /\ DiskTypeOK /\ ProcTypeOK
  BY DoingParts
<1>2. /\ UNCHANGED diskVars /\ error_handler(core)
      /\ pc \in {"walk", "lookup", "ibit", "block", "entry"}
      /\ pc \in {"walk", "lookup", "ibit"} \/ tool \in Creators
  <2>1. /\ UNCHANGED diskVars /\ error_handler(core)
        /\ pc \in {"walk", "lookup", "ibit", "block", "entry"}
    BY DEF WalkFails, CreateLookupFails, NoFreeInode, RmLookupFails, NoFreeBlock, HostFails,
           AddEntryFails
  <2>2. pc \in {"block", "entry"} => tool \in Creators
    BY <1>1, CreatingTool DEF Creating
  <2> QED
    BY <2>1, <2>2
<1>3. /\ target'.num = target.num /\ target'.addr = target.addr /\ tool' = tool /\ pc' = "put"
      /\ tool \in Creators /\ target.num # 0 => target'.nlink = 0
      /\ tool \notin Creators => target' = target
  BY <1>1, <1>2, HandlerFields DEF args
<1>4. NewInodes' = NewInodes /\ NewBlocks' = NewBlocks /\ GivenBack = {} /\ GivenBack' = {}
  BY <1>2, <1>3 DEF NewInodes, NewBlocks, GivenBack, BlocksIn, Holding
<1>5. InodesWere(NewInodes) /\ BlocksWere(NewBlocks, {})
  BY <1>2, <1>4, DoingParts DEF Undecided, Putting
<1>6. PICK N, B : N = NewInodes /\ B = NewBlocks
  OBVIOUS
<1>7. InodesWere(N)' /\ BlocksWere(B, {})'
  BY <1>2, <1>5, <1>6, InodesSame, BlocksSame DEF diskVars
<1>8. InodesWere(NewInodes)' /\ BlocksWere(NewBlocks, GivenBack)'
  BY <1>4, <1>6, <1>7 DEF InodesWere, BlocksWere
<1>9. GivenUp'
  <2>1. tool \notin Creators => target = NULL
    BY <1>1, <1>2, NothingHeld
  <2>2. tool \notin Creators => target'.num = 0
    BY <1>3, <2>1 DEF NULL
  <2> QED
    BY <1>3, <2>2 DEF GivenUp
<1>10. FreeIsBlank'
  BY <1>1, <1>2, <1>3, FreeKept
<1> QED
  BY <1>3, <1>8, <1>9, <1>10, UndoFrom

\* rm refuses a directory that is not empty, and puts back what it read.
LEMMA UndoNotEmpty ==
  ASSUME NEW L, Doing(L), before' = before, RmNotEmpty
  PROVE  UndoInv'
<1>1. Before(L)
  BY DoingParts
<1>2. PICK n \in Inodes : Target(n) /\ error_handler([core EXCEPT !["target"] = get_inode(n)])
  BY DEF RmNotEmpty
<1>3. /\ tool = "rm" /\ tool' = "rm" /\ pc = "lookup" /\ pc' = "put" /\ UNCHANGED diskVars
      /\ core' = [core EXCEPT !["target"] = get_inode(n)]
  BY <1>2 DEF Target, error_handler, args, RmNotEmpty, Creators
<1>4. target' = get_inode(n)
  BY <1>3, CoreFields, DoingParts
<1>5. target'.nlink # 0
  <2>1. n \in L
    BY <1>1, <1>2, TargetLive
  <2>2. get_inode(n).nlink # 0
    BY <1>1, <2>1, LiveInode
  <2> QED
    BY <1>4, <2>2
<1>6. GivenUp'
  BY <1>3, <1>5 DEF GivenUp, Creators
<1> QED
  BY <1>3, <1>6, StaysEmpty DEF EmptyHanded, Creators, Holding, Undecided, Putting

-----------------------------------------------------------------------------
(* mkdir and cp make something new.                                        *)

\* alloc_inode marks the inode and then writes it.
LEMMA UndoInode ==
  ASSUME NEW L, Doing(L), before' = before, alloc_inode \/ InitInode
  PROVE  UndoInv'
<1>1. /\ core \in [Inodes2 -> inode] /\ Before(L) /\ FreeIsBlank /\ DiskTypeOK /\ InFlight
      /\ LiveTool(L)
  BY DoingParts
<1>2. pc \in {"ibit", "iwrite"} /\ pc' \in {"iwrite", "block"} /\ UNCHANGED <<args, bbits, dirents, chunk>>
  BY DEF alloc_inode, InitInode, SetInodeBit, write_disk_inode
<1>3. target = NULL /\ tool \in Creators /\ tool' = tool
  BY <1>1, <1>2, NothingHeld, CreatingTool DEF Creating, args
<1>4. NULL.num = 0 /\ BlocksIn(NULL) \subseteq {0} /\ pc \notin Holding /\ pc' \notin Holding
  BY <1>2 DEF NULL, BlocksIn, Unmapped, Holding
<1>5. BlocksWere({}, {})
  <2>1. NewBlocks = {} /\ GivenBack = {}
    BY <1>2, <1>3, <1>4 DEF NewBlocks, GivenBack
  <2> QED
    BY <1>2, <2>1, DoingParts DEF Undecided, Putting
<1>6. BlocksWere({}, {})'
  BY <1>2, <1>5, BlocksSame
<1>7. GivenUp' /\ GivenBack' = {}
  BY <1>2 DEF GivenUp, Putting, GivenBack
<1>8. ASSUME NEW n \in Inodes, NewInodes' = {n}, InodesWere({n})', NewBlocks' = {}, FreeIsBlank'
      PROVE  UndoInv'
  BY <1>2, <1>6, <1>7, <1>8, UndoFrom DEF InodesWere, BlocksWere
<1>9. CASE alloc_inode
  <2>1. PICK n \in Inodes : n \notin ibits /\ SetInodeBit(n) /\ fresh' = n
    BY <1>9 DEF alloc_inode, Lowest, FreeInodes
  <2>2. pc = "ibit" /\ pc' = "iwrite" /\ core' = core
    BY <1>9 DEF alloc_inode
  <2>3. target' = NULL
    BY <1>1, <1>3, <2>2, CoreFields
  <2>4. InodesWere({})
    <3>1. NewInodes = {}
      BY <1>3, <1>4, <2>2 DEF NewInodes
    <3> QED
      BY <2>2, <3>1, DoingParts DEF Undecided, Putting
  <2>5. InodesWere({n})'
    BY <1>1, <2>1, <2>4, InodeMarked
  <2>6. NewInodes' = {n}
    BY <1>3, <1>4, <2>1, <2>2, <2>3 DEF NewInodes, Inodes
  <2>7. NewBlocks' = {}
    BY <1>4, <2>3 DEF NewBlocks, BlocksIn
  <2>8. FreeIsBlank'
    BY <1>1, <2>1, <2>2, FreeKept
  <2> QED
    BY <1>8, <2>5, <2>6, <2>7, <2>8
<1>10. CASE InitInode
  <2>1. /\ pc = "iwrite" /\ pc' = "block" /\ write_disk_inode(fresh, NewInode)
        /\ core' = [core EXCEPT !["target"] = InCore(fresh, NewInode)]
    BY <1>10 DEF InitInode
  <2>2. fresh \in Inodes /\ fresh \in ibits
    BY <1>1, <2>1 DEF InFlight, LiveTool
  <2>3. PICK n \in Inodes : n = fresh
    BY <2>2
  <2>4. target' = InCore(n, NewInode)
    BY <1>1, <2>1, <2>3, CoreFields
  <2>5. target'.num = n /\ target'.addr = Unmapped
    BY <2>4 DEF InCore, NewInode, BlankInode
  <2>6. InodesWere({n})
    <3>1. NewInodes = {n}
      BY <1>3, <1>4, <2>1, <2>3 DEF NewInodes, Inodes
    <3> QED
      BY <2>1, <3>1, DoingParts DEF Undecided, Putting
  <2>7. InodesWere({n})'
    BY <1>1, <2>1, <2>3, <2>6, InodeWritten
  <2>8. NewInodes' = {n}
    BY <1>3, <2>1, <2>5 DEF NewInodes, Inodes
  <2>9. NewBlocks' = {}
    BY <1>4, <2>5 DEF NewBlocks, BlocksIn, Unmapped
  <2>10. FreeIsBlank'
    BY <1>1, <2>1, <2>2, FreeKept
  <2> QED
    BY <1>8, <2>7, <2>8, <2>9, <2>10
<1> QED
  BY <1>9, <1>10

\* While it fills its inode: what that is, and the blocks it has.
LEMMA FillingTool ==
  ASSUME NEW L, Doing(L), pc \in Started
  PROVE  /\ tool \in Creators /\ target.num \in Inodes /\ NewInodes = {target.num}
         /\ GivenBack = {} /\ InodesWere({target.num}) /\ BlocksWere(NewBlocks, {})
         /\ NewBlocks \subseteq bbits /\ (pc \in Holding => fresh \in NewBlocks)
         /\ pc # "pzero" /\ pc \notin Putting
<1>1. /\ Before(L) /\ LiveTool(L) /\ DiskTypeOK
  BY DoingParts
<1>2. /\ TargetStarted(L) /\ tool \in Creators /\ (pc \in Holding => FreshBlock(L))
  BY <1>1 DEF LiveTool, Started, Creating, CreatesIn
<1>3. target.num \in Inodes /\ target.num # 0
  BY <1>2, GeometryAssumption DEF TargetStarted, TargetOnDisk, Inodes
<1>4. /\ NewInodes = {target.num} /\ GivenBack = {} /\ pc # "pzero" /\ pc \notin Putting
      /\ pc # "iwrite"
  BY <1>2, <1>3 DEF Started, NewInodes, GivenBack, Putting
<1>5. InodesWere({target.num}) /\ BlocksWere(NewBlocks, {})
  BY <1>4, DoingParts DEF Undecided
<1>6. NewBlocks \subseteq bbits
  BY <1>5 DEF BlocksWere
<1>7. pc \in Holding => fresh \in NewBlocks
  <2>1. pc \in Holding => ~badblock(fresh) /\ badblock(0)
    BY <1>2, GeometryAssumption DEF FreshBlock, Spare, badblock
  <2>2. pc \in Holding => fresh # 0
    BY <2>1
  <2> QED
    BY <1>2, <2>2 DEF NewBlocks
<1> QED
  BY <1>2, <1>3, <1>4, <1>5, <1>6, <1>7

\* It goes on with the blocks C.
LEMMA GoesOn ==
  ASSUME NEW L, Doing(L), before' = before, pc \in Started, pc' \in Started, UNCHANGED args,
         target'.num = target.num, UNCHANGED <<ibits, dinode>>, FreeIsBlank',
         NEW C, C = NewBlocks', BlocksWere(C, {})'
  PROVE  UndoInv'
<1>1. PICK n \in Inodes : n = target.num /\ InodesWere({n}) /\ tool \in Creators
  BY FillingTool
<1>2. InodesWere({n})'
  BY <1>1, InodesSame
<1>3. NewInodes' = {n} /\ GivenBack' = {}
  BY <1>1 DEF NewInodes, GivenBack, Started, args, Inodes
<1>4. InodesWere(NewInodes)' /\ BlocksWere(NewBlocks, GivenBack)'
  BY <1>2, <1>3 DEF InodesWere, BlocksWere
<1>5. pc' # "idle" /\ GivenUp'
  BY DEF Started, GivenUp, Putting
<1> QED
  BY <1>4, <1>5, UndoFrom

\* alloc_block, and what mkdir and cp do with the block.
LEMMA UndoFill ==
  ASSUME NEW L, Doing(L), before' = before,
         alloc_block \/ ZeroFresh \/ WriteDotEntries \/ CopyChunk \/ FileCopied
  PROVE  UndoInv'
<1>1. /\ core \in [Inodes2 -> inode] /\ Before(L) /\ FreeIsBlank /\ DiskTypeOK /\ ProcTypeOK
      /\ InFlight /\ LiveTool(L) /\ Copied /\ target \in inode
  BY DoingParts
<1>2. /\ pc \in Started /\ pc \in Filling /\ pc' \in Started /\ UNCHANGED args /\ pc' # "ifree"
  BY DEF alloc_block, ZeroFresh, WriteDotEntries, CopyChunk, FileCopied, Started, Filling
<1>3. PICK B : B = NewBlocks
  OBVIOUS
<1>4. /\ tool \in Creators /\ BlocksWere(B, {}) /\ B \subseteq bbits /\ (pc \in Holding => fresh \in B)
      /\ pc # "pzero"
  BY <1>2, <1>3, FillingTool
<1>5. B = (BlocksIn(target) \cup {IF pc \in Holding THEN fresh ELSE 0}) \ {0}
  BY <1>3, <1>4 DEF NewBlocks
<1>6. NewBlocks' = (BlocksIn(target') \cup {IF pc' \in Holding THEN fresh' ELSE 0}) \ {0}
  BY <1>2, <1>4 DEF NewBlocks, BlocksIn, args
<1>7. CASE alloc_block
  <2>1. PICK b \in Blocks : b \notin bbits /\ ~badblock(b) /\ SetBlockBit(b) /\ fresh' = b
    BY <1>7 DEF alloc_block, Lowest, FreeBlocks
  <2>2. pc = "block" /\ pc' = "bzero" /\ core' = core
    BY <1>7 DEF alloc_block
  <2>3. target' = target /\ b # 0
    BY <1>1, <2>1, <2>2, CoreFields, GeometryAssumption DEF badblock
  <2>4. BlocksWere(B \cup {b}, {})'
    BY <1>1, <1>4, <2>1, BlockMarked
  <2>5. B \cup {b} = NewBlocks'
    BY <1>5, <1>6, <2>1, <2>2, <2>3 DEF Holding
  <2>6. FreeIsBlank'
    BY <1>1, <1>2, <1>4, <2>1, FreeKept
  <2>7. UNCHANGED <<ibits, dinode>>
    BY <2>1 DEF SetBlockBit
  <2> QED
    BY <1>2, <2>3, <2>4, <2>5, <2>6, <2>7, GoesOn
<1>8. CASE ZeroFresh
  <2>1. /\ pc = "bzero" /\ pc' = "content" /\ zero_block(fresh) /\ UNCHANGED <<core, fresh>>
    BY <1>8 DEF ZeroFresh
  <2>2. target' = target
    BY <1>1, <2>1, CoreFields
  <2>3. fresh \in B
    BY <1>4, <2>1 DEF Holding
  <2>4. BlocksWere(B, {})' /\ FreeIsBlank'
    BY <1>1, <1>2, <1>4, <2>1, <2>3, BlockWritten, FreeKept
  <2>5. B = NewBlocks'
    BY <1>5, <1>6, <2>1, <2>2 DEF Holding
  <2>6. UNCHANGED <<ibits, dinode>>
    BY <2>1 DEF zero_block
  <2> QED
    BY <1>2, <2>2, <2>4, <2>5, <2>6, GoesOn
<1>9. CASE WriteDotEntries
  <2>1. /\ pc = "content" /\ tool = "mkdir" /\ pc' = "entry"
        /\ WriteDots(fresh, target.num, parent.num)
        /\ core' = [core EXCEPT !["target"] = [target EXCEPT !.size = 2, !.nlink = 2, !.addr[0] = fresh]]
    BY <1>9 DEF WriteDotEntries, target, parent
  <2>2. target' = [target EXCEPT !.size = 2, !.nlink = 2, !.addr[0] = fresh]
    BY <1>1, <2>1, CoreFields
  <2>3. 0 \in Logical /\ target.addr = Unmapped
    BY <1>1, <1>2, <2>1, GeometryAssumption DEF LiveTool, Logical
  <2>4. /\ target'.num = target.num
        /\ \A l \in Logical : target'.addr[l] = IF l = 0 THEN fresh ELSE 0
    BY <1>1, <2>2, <2>3 DEF inode, Unmapped
  <2>5. fresh \in B
    BY <1>4, <2>1 DEF Holding
  <2>6. BlocksWere(B, {})' /\ FreeIsBlank'
    BY <1>1, <1>2, <1>4, <2>1, <2>5, BlockWritten, FreeKept
  <2>7. B = NewBlocks'
    <3>1. B = {fresh} \ {0}
      BY <1>5, <2>1, <2>3 DEF Holding, BlocksIn, Unmapped
    <3>2. NewBlocks' = {fresh} \ {0}
      BY <1>6, <2>1, <2>3, <2>4 DEF Holding, BlocksIn
    <3> QED
      BY <3>1, <3>2
  <2>8. UNCHANGED <<ibits, dinode>>
    BY <2>1 DEF WriteDots
  <2> QED
    BY <1>2, <2>4, <2>6, <2>7, <2>8, GoesOn
<1>10. CASE CopyChunk
  <2>1. /\ pc = "content" /\ pc' = "block" /\ tool = "cp" /\ WriteChunk(fresh, k)
        /\ core' = [core EXCEPT !["target"] = [target EXCEPT !.addr[k] = fresh]]
    BY <1>10 DEF CopyChunk, target
  <2>2. target' = [target EXCEPT !.addr[k] = fresh]
    BY <1>1, <2>1, CoreFields
  <2>3. k \in Logical
    <3>1. k \in 0 .. NDIRECT /\ fsz \in 0 .. NDIRECT /\ k < fsz
      BY <1>1, <2>1 DEF ProcTypeOK, InFlight
    <3> QED
      BY <3>1, GeometryAssumption DEF Logical
  <2>4. target.addr[k] = 0
    <3>1. Chunks(target, k)
      BY <1>1, <1>2, <2>1 DEF Copied
    <3> QED
      BY <2>3, <3>1 DEF Chunks, Logical
  <2>5. /\ target'.num = target.num
        /\ \A l \in Logical : target'.addr[l] = IF l = k THEN fresh ELSE target.addr[l]
    BY <1>1, <2>2, <2>3 DEF inode
  <2>6. fresh \in B
    BY <1>4, <2>1 DEF Holding
  <2>7. BlocksWere(B, {})' /\ FreeIsBlank'
    BY <1>1, <1>2, <1>4, <2>1, <2>6, BlockWritten, FreeKept
  <2>8. B = NewBlocks'
    <3>1. BlocksIn(target') \cup {0} = BlocksIn(target) \cup {fresh, 0}
      BY <2>3, <2>4, <2>5 DEF BlocksIn
    <3> QED
      BY <1>5, <1>6, <2>1, <3>1 DEF Holding
  <2>9. UNCHANGED <<ibits, dinode>>
    BY <2>1 DEF WriteChunk
  <2> QED
    BY <1>2, <2>5, <2>7, <2>8, <2>9, GoesOn
<1>11. CASE FileCopied
  <2>1. /\ pc = "block" /\ pc' = "entry" /\ UNCHANGED diskVars
        /\ core' = [core EXCEPT !["target"] = [target EXCEPT !.size = fsz, !.nlink = 1]]
    BY <1>11 DEF FileCopied, target
  <2>2. target' = [target EXCEPT !.size = fsz, !.nlink = 1]
    BY <1>1, <2>1, CoreFields
  <2>3. target'.num = target.num /\ target'.addr = target.addr
    BY <1>1, <2>2 DEF inode
  <2>4. BlocksWere(B, {})' /\ FreeIsBlank'
    BY <1>1, <1>2, <1>4, <2>1, BlocksSame, FreeKept DEF diskVars
  <2>5. B = NewBlocks'
    BY <1>5, <1>6, <2>1, <2>3 DEF Holding, BlocksIn
  <2> QED
    BY <1>2, <2>1, <2>3, <2>4, <2>5, GoesOn DEF diskVars
<1> QED
  BY <1>7, <1>8, <1>9, <1>10, <1>11

-----------------------------------------------------------------------------
(* add_entry and detach_entry.                                             *)

\* The tool has succeeded: the entry is written, and put_inode will write the rest.
LEMMA Succeeds ==
  ASSUME NEW L, Doing(L), before' = before, pc \notin Putting, pc' = "put", status' = status,
         FreeIsBlank'
  PROVE  UndoInv'
<1>1. status' = EXIT_SUCCESS
  BY DoingParts DEF DirtyLast
<1>2. GivenUp' /\ ~Undecided'
  BY <1>1 DEF GivenUp, Undecided, Putting, EXIT_SUCCESS, EXIT_FAILURE
<1> QED
  BY <1>2, UndoFrom

\* A mapped block of the parent is marked.
LEMMA ParentBlocks ==
  ASSUME NEW L, Doing(L), pc \in {"entry", "detach"}, NEW p \in Positions, parent.addr[p[1]] # 0
  PROVE  parent.addr[p[1]] \in bbits
<1>1. /\ Before(L) /\ DiskTypeOK /\ LiveTool(L) /\ \A b \in Taken(L) : b # 0 => b \in bbits
  BY DoingParts
<1>2. parent.num \in L /\ parent.addr = dinode[parent.num].addr
  <2>1. CASE pc = "entry"
    BY <1>1, <2>1, AddingTool
  <2>2. CASE pc = "detach"
    BY <1>1, <2>2 DEF LiveTool, Detaching, get_inode, InCore
  <2> QED
    BY <2>1, <2>2
<1>3. p[1] \in Logical
  BY DEF Positions
<1>4. parent.addr[p[1]] \in Taken(L)
  BY <1>2, <1>3 DEF Taken
<1> QED
  BY <1>1, <1>4

\* The write that decides that a tool succeeds.
LEMMA UndoDecides ==
  ASSUME NEW L, Doing(L), before' = before,
         AddEntryInSlot \/ AddEntryInNewBlock \/ detach_entry
  PROVE  UndoInv'
<1>1. FreeIsBlank /\ DiskTypeOK
  BY DoingParts
<1>2. /\ pc \in {"entry", "ewrite", "detach"} /\ pc' = "put" /\ status' = status
      /\ pc \notin Putting /\ pc # "pzero" /\ pc' # "ifree"
  BY DEF AddEntryInSlot, AddEntryInNewBlock, detach_entry, Putting
<1>3. \E b \in bbits : \E s, e : WriteDirent(b, s, e)
  <2>1. CASE AddEntryInSlot
    <3>1. PICK p \in Positions : /\ parent.addr[p[1]] # 0
                                 /\ WriteDirent(parent.addr[p[1]], p[2], NewEntry)
      BY <2>1 DEF AddEntryInSlot, FreeSlots, Mapped, parent
    <3>2. parent.addr[p[1]] \in bbits
      BY <2>1, <3>1, ParentBlocks DEF AddEntryInSlot
    <3> QED
      BY <3>1, <3>2
  <2>2. CASE detach_entry
    <3>1. PICK p \in Positions : /\ parent.addr[p[1]] # 0
                                 /\ WriteDirent(parent.addr[p[1]], p[2], NoEntry)
      BY <2>2 DEF detach_entry, Mapped, parent
    <3>2. parent.addr[p[1]] \in bbits
      BY <2>2, <3>1, ParentBlocks DEF detach_entry
    <3> QED
      BY <3>1, <3>2
  <2>3. CASE AddEntryInNewBlock
    <3>1. pc = "ewrite" /\ WriteDirent(fresh, 0, NewEntry)
      BY <2>3 DEF AddEntryInNewBlock
    <3>2. fresh \in bbits
      BY <3>1, FillingTool DEF Started, Holding
    <3> QED
      BY <3>1, <3>2
  <2> QED
    BY <2>1, <2>2, <2>3
<1>4. FreeIsBlank'
  BY <1>1, <1>2, <1>3, FreeKept
<1> QED
  BY <1>2, <1>4, Succeeds

\* A new block for the parent is marked and cleared before that.
LEMMA UndoAddBlock ==
  ASSUME NEW L, Doing(L), before' = before, AddEntryAllocates \/ AddEntryZeroes
  PROVE  UndoInv'
<1>1. /\ core \in [Inodes2 -> inode] /\ FreeIsBlank /\ DiskTypeOK
  BY DoingParts
<1>2. /\ pc \in Started /\ pc' \in Started /\ UNCHANGED args /\ pc' # "ifree"
  BY DEF AddEntryAllocates, AddEntryZeroes, Started
<1>3. PICK B : B = NewBlocks
  OBVIOUS
<1>4. /\ tool \in Creators /\ BlocksWere(B, {}) /\ B \subseteq bbits /\ (pc \in Holding => fresh \in B)
      /\ pc # "pzero"
  BY <1>2, <1>3, FillingTool
<1>5. B = (BlocksIn(target) \cup {IF pc \in Holding THEN fresh ELSE 0}) \ {0}
  BY <1>3, <1>4 DEF NewBlocks
<1>6. NewBlocks' = (BlocksIn(target') \cup {IF pc' \in Holding THEN fresh' ELSE 0}) \ {0}
  BY <1>2, <1>4 DEF NewBlocks, BlocksIn, args
<1>7. CASE AddEntryAllocates
  <2>1. PICK b \in Blocks : b \notin bbits /\ ~badblock(b) /\ SetBlockBit(b) /\ fresh' = b
    BY <1>7 DEF AddEntryAllocates, Lowest, FreeBlocks
  <2>2. pc = "entry" /\ pc' = "ezero" /\ core' = core
    BY <1>7 DEF AddEntryAllocates
  <2>3. target' = target /\ b # 0
    BY <1>1, <2>1, <2>2, CoreFields, GeometryAssumption DEF badblock
  <2>4. BlocksWere(B \cup {b}, {})'
    BY <1>1, <1>4, <2>1, BlockMarked
  <2>5. B \cup {b} = NewBlocks'
    BY <1>5, <1>6, <2>1, <2>2, <2>3 DEF Holding
  <2>6. FreeIsBlank'
    BY <1>1, <1>2, <1>4, <2>1, FreeKept
  <2>7. UNCHANGED <<ibits, dinode>>
    BY <2>1 DEF SetBlockBit
  <2> QED
    BY <1>2, <2>3, <2>4, <2>5, <2>6, <2>7, GoesOn
<1>8. CASE AddEntryZeroes
  <2>1. /\ pc = "ezero" /\ pc' = "ewrite" /\ zero_block(fresh) /\ fresh' = fresh
        /\ \E x : core' = [core EXCEPT !["parent"] = x]
    BY <1>8 DEF AddEntryZeroes
  <2>2. target' = target
    BY <1>1, <2>1, CoreFields
  <2>3. fresh \in B
    BY <1>4, <2>1 DEF Holding
  <2>4. BlocksWere(B, {})' /\ FreeIsBlank'
    BY <1>1, <1>2, <1>4, <2>1, <2>3, BlockWritten, FreeKept
  <2>5. B = NewBlocks'
    BY <1>5, <1>6, <2>1, <2>2 DEF Holding
  <2>6. UNCHANGED <<ibits, dinode>>
    BY <2>1 DEF zero_block
  <2> QED
    BY <1>2, <2>2, <2>4, <2>5, <2>6, GoesOn
<1> QED
  BY <1>7, <1>8

-----------------------------------------------------------------------------
(* put_inode.                                                              *)

\* The tool ends.
LEMMA UndoExit ==
  ASSUME DiskTypeOK', Exit, before' = diskVars', FreeIsBlank'
  PROVE  UndoInv'
<1>1. pc' = "idle" /\ core' = NoInodes
  BY DEF Exit
<1>2. target' = NULL
  BY <1>1 DEF target, NoInodes
<1>3. EmptyHanded'
  BY <1>1, <1>2 DEF EmptyHanded, Holding
<1>4. NewInodes' = {} /\ NewBlocks' = {} /\ GivenBack' = {}
  BY <1>3, NothingNew
<1>5. /\ before'[1] = ibits' /\ before'[2] = bbits' /\ before'[3] = dinode'
      /\ before'[4] = dirents' /\ before'[5] = chunk'
  BY DEF diskVars
<1>6. InodesWere(NewInodes)' /\ BlocksWere(NewBlocks, GivenBack)'
  BY <1>4, <1>5 DEF InodesWere, BlocksWere
<1>7. BeforeOK'
  BY <1>5 DEF BeforeOK, DiskTypeOK, diskVars
<1>8. GivenUp'
  BY <1>1 DEF GivenUp, Putting
<1> QED
  BY <1>6, <1>7, <1>8 DEF UndoInv

\* put_inode returns when the tool has failed and holds nothing new, or has succeeded.
LEMMA UndoDone ==
  ASSUME NEW L, Doing(L), DiskTypeOK', PutDone, pc \in Putting,
         before' = IF pc' = "idle" THEN diskVars' ELSE before, FreeIsBlank',
         who = "target" /\ Undecided => InodesWere({})' /\ BlocksWere({}, {})'
  PROVE  UndoInv'
<1>1. CASE who = "target"
  <2>1. pc' = "put" /\ target' = NULL /\ status' = status
    BY <1>1, DoingParts, TargetPut DEF PutDone
  <2>2. before' = before
    BY <2>1
  <2>3. EmptyHanded'
    BY <2>1 DEF EmptyHanded, Holding
  <2>4. NewInodes' = {} /\ NewBlocks' = {} /\ GivenBack' = {}
    BY <2>3, NothingNew
  <2>5. GivenUp' /\ (Undecided' => Undecided)
    BY <2>1 DEF GivenUp, NULL, Undecided, Putting
  <2>6. Undecided' => InodesWere(NewInodes)' /\ BlocksWere(NewBlocks, GivenBack)'
    BY <1>1, <2>4, <2>5 DEF InodesWere, BlocksWere
  <2> QED
    BY <2>1, <2>2, <2>5, <2>6, UndoFrom
<1>2. CASE who # "target"
  <2>1. Exit /\ pc' = "idle"
    BY <1>2 DEF PutDone, Exit
  <2> QED
    BY <2>1, UndoExit
<1> QED
  BY <1>1, <1>2

\* A tool that has failed, and has nothing to release, holds nothing new.
LEMMA NothingToRelease ==
  ASSUME NEW L, Doing(L), PutClean, Undecided
  PROVE  /\ EmptyHanded /\ InodesWere({}) /\ BlocksWere({}, {})
<1>1. Before(L) /\ GivenUp /\ TargetOwned(L) /\ DirtyLast /\ target \in inode
  BY DoingParts
<1>2. pc = "put" /\ pc \in Putting /\ status = EXIT_FAILURE
  BY DEF PutClean, Putting, Undecided
<1>3. who = "parent" => target = NULL
  BY <1>1, <1>2, PuttingTool
<1>4. who = "target" /\ target.num # 0 => target.nlink # 0
  <2> SUFFICES ASSUME who = "target", target.num # 0
               PROVE  target.nlink # 0
    OBVIOUS
  <2>1. held = target
    BY DEF held, target
  <2>2. target.nlink > 0
    BY <2>1 DEF PutClean
  <2> QED
    BY <2>2
<1>5. tool \in Creators => target = NULL
  BY <1>1, <1>2, <1>3, <1>4, PuttingTool DEF GivenUp, TargetOwned
<1>6. EmptyHanded
  BY <1>2, <1>5 DEF EmptyHanded, Holding
<1> QED
  BY <1>6, NothingNew, DoingParts

\* put_inode has nothing to write.
LEMMA UndoPutClean ==
  ASSUME NEW L, Doing(L), DiskTypeOK', before' = (IF pc' = "idle" THEN diskVars' ELSE before),
         PutClean
  PROVE  UndoInv'
<1>1. /\ pc = "put" /\ pc \in Putting /\ pc' # "ifree" /\ PutDone /\ UNCHANGED diskVars
      /\ FreeIsBlank /\ DiskTypeOK
  BY DoingParts DEF PutClean, PutDone, Exit, Putting
<1>2. FreeIsBlank'
  BY <1>1, FreeKept
<1>3. who = "target" /\ Undecided => InodesWere({})' /\ BlocksWere({}, {})'
  <2> SUFFICES ASSUME who = "target", Undecided
               PROVE  InodesWere({})' /\ BlocksWere({}, {})'
    OBVIOUS
  <2>1. InodesWere({}) /\ BlocksWere({}, {})
    BY NothingToRelease
  <2>2. before' = before
    BY <1>1 DEF PutDone
  <2> QED
    BY <1>1, <2>1, <2>2, InodesSame, BlocksSame DEF diskVars
<1> QED
  BY <1>1, <1>2, <1>3, UndoDone

\* Only a tool that has succeeded writes an inode that stays.
LEMMA UndoUpdate ==
  ASSUME NEW L, Doing(L), DiskTypeOK', before' = (IF pc' = "idle" THEN diskVars' ELSE before),
         update_inode
  PROVE  UndoInv'
<1>1. /\ pc = "put" /\ pc \in Putting /\ pc' # "ifree" /\ PutDone /\ FreeIsBlank /\ DiskTypeOK
      /\ held.num # 0 /\ held.nlink > 0 /\ held.dirty = DIRTY
      /\ write_disk_inode(held.num, OnDisk(held))
      /\ Before(L) /\ TargetOwned(L) /\ DirtyLast /\ \A n \in L : n \in ibits
  BY DoingParts DEF update_inode, PutDone, Exit, Putting
<1>2. held = (IF who = "target" THEN target ELSE parent) /\ parent.num \in L
  BY <1>1, PuttingTool
<1>3. ~Undecided
  BY <1>1, <1>2 DEF DirtyLast, Undecided, CLEAN, DIRTY
<1>4. held.num \in ibits
  <2>1. CASE who = "target"
    <3>1. held = target /\ target.nlink # 0
      BY <1>1, <1>2, <2>1
    <3>2. target.num \notin L => Grown(L, target.num, target)
      BY <1>1, <2>1, <3>1 DEF TargetOwned
    <3> QED
      BY <1>1, <3>1, <3>2 DEF Grown
  <2>2. CASE who # "target"
    BY <1>1, <1>2, <2>2
  <2> QED
    BY <2>1, <2>2
<1>5. FreeIsBlank'
  BY <1>1, <1>4, FreeKept
<1> QED
  BY <1>1, <1>3, <1>5, UndoDone

\* What put_inode releases: of a tool that has failed, what it made.
LEMMA ReleasingNew ==
  ASSUME NEW L, Doing(L), free_block \/ ZeroFreed \/ BlankOut \/ free_inode
  PROVE  /\ who = "target" /\ held = target /\ target.num \in Inodes /\ target.nlink = 0
         /\ Private(Spare(L), target) /\ pc \in Putting /\ pc \notin Holding /\ pc # "iwrite"
         /\ Undecided => /\ tool \in Creators /\ InodesWere({target.num})
                         /\ NewInodes = {target.num} /\ NewBlocks = BlocksIn(target) \ {0}
                         /\ BlocksWere(NewBlocks, GivenBack)
<1>1. Before(L) /\ GivenUp /\ target \in inode
  BY DoingParts
<1>2. /\ who = "target" /\ held = target /\ target.num # 0 /\ target.nlink = 0
      /\ Private(Spare(L), target) /\ pc \in Putting
  BY <1>1, ReleasingTool
<1>3. pc \notin Holding /\ pc # "iwrite"
  BY <1>2 DEF Putting, Holding
<1>4. target.num \in Inodes
  BY <1>1, <1>2 DEF inode, Inodes
<1>5. Undecided => tool \in Creators
  BY <1>1, <1>2 DEF Undecided, GivenUp
<1>6. tool \in Creators => NewInodes = {target.num} /\ NewBlocks = BlocksIn(target) \ {0}
  BY <1>2, <1>3 DEF NewInodes, NewBlocks
<1> QED
  BY <1>2, <1>3, <1>4, <1>5, <1>6, DoingParts

\* truncate_inode gives a block back,
LEMMA UndoFreeBlock ==
  ASSUME NEW L, Doing(L), before' = before, free_block
  PROVE  UndoInv'
<1>1. core \in [Inodes2 -> inode] /\ FreeIsBlank /\ DiskTypeOK /\ target \in inode
  BY DoingParts
<1>2. who = "target" /\ held = target /\ target.nlink = 0 /\ Private(Spare(L), target)
  BY ReleasingNew
<1>3. PICK l \in Logical : Unmaps(l) /\ IF badblock(target.addr[l])
                                        THEN pc' = "put" /\ fresh' = 0 /\ UNCHANGED diskVars
                                        ELSE /\ pc' = "pzero" /\ fresh' = target.addr[l]
                                             /\ ClearBlockBit(target.addr[l])
  BY <1>2 DEF free_block
<1>4. /\ pc = "put" /\ target.addr[l] # 0 /\ UNCHANGED args /\ status' = status
      /\ core' = [core EXCEPT !["target"] = [target EXCEPT !.addr[l] = 0]]
  BY <1>2, <1>3 DEF Unmaps, Releasing, Lowest, Holes, target
<1>5. target' = [target EXCEPT !.addr[l] = 0]
  BY <1>1, <1>4, CoreFields
<1>6. /\ target'.num = target.num /\ target'.nlink = target.nlink
      /\ \A j \in Logical : target'.addr[j] = IF j = l THEN 0 ELSE target.addr[j]
  BY <1>1, <1>5 DEF inode
<1>7. PICK b \in Blocks : b = target.addr[l]
  BY <1>1 DEF inode
<1>8. ~badblock(b)
  BY <1>2, <1>4, <1>7 DEF Private, Spare
<1>9. pc' = "pzero" /\ fresh' = b /\ ClearBlockBit(b)
  BY <1>3, <1>7, <1>8
<1>10. GivenBack = {} /\ GivenBack' = {b}
  BY <1>4, <1>9 DEF GivenBack
<1>11. FreeIsBlank'
  BY <1>1, <1>9, <1>10 DEF FreeIsBlank, ClearBlockBit, ZeroAt
<1>12. GivenUp'
  <2>1. GivenUp
    BY DoingParts
  <2> QED
    BY <1>2, <1>4, <1>6, <1>9, <2>1 DEF GivenUp, Putting, args
<1>13. BlocksIn(target') \ {0} = (BlocksIn(target) \ {0}) \ {b}
  <2>1. \A j \in Logical : target.addr[j] = b => j = l
    BY <1>2, <1>4, <1>7 DEF Private
  <2> QED
    BY <1>6, <1>7, <2>1 DEF BlocksIn
<1>14. ASSUME Undecided'
       PROVE  InodesWere(NewInodes)' /\ BlocksWere(NewBlocks, GivenBack)'
  <2>1. Undecided
    BY <1>4, <1>9, <1>14 DEF Undecided, Putting
  <2>2. PICK n, B : n = target.num /\ B = BlocksIn(target) \ {0}
    OBVIOUS
  <2>3. tool \in Creators /\ InodesWere({n}) /\ BlocksWere(B, {}) /\ NewInodes = {n}
    BY <1>10, <2>1, <2>2, ReleasingNew
  <2>4. b \in B
    BY <1>4, <1>7, <2>2 DEF BlocksIn
  <2>5. InodesWere({n})' /\ BlocksWere(B \ {b}, {b})'
    BY <1>9, <2>3, <2>4, InodesSame, BlockGiven DEF ClearBlockBit
  <2>6. NewInodes' = {n}
    BY <1>4, <1>6, <1>9, <2>2, <2>3 DEF NewInodes, args
  <2>7. NewBlocks' = B \ {b}
    BY <1>4, <1>9, <1>13, <2>2, <2>3 DEF NewBlocks, Holding, args, BlocksIn
  <2> QED
    BY <1>10, <2>5, <2>6, <2>7 DEF InodesWere, BlocksWere
<1> QED
  BY <1>9, <1>11, <1>12, <1>14, UndoFrom

\* clears it,
LEMMA UndoZero ==
  ASSUME NEW L, Doing(L), before' = before, ZeroFreed
  PROVE  UndoInv'
<1>1. core \in [Inodes2 -> inode] /\ FreeIsBlank /\ DiskTypeOK /\ InFlight /\ GivenUp
  BY DoingParts
<1>2. /\ pc = "pzero" /\ pc' = "put" /\ zero_block(fresh) /\ UNCHANGED args /\ status' = status
      /\ core' = core
  BY DEF ZeroFreed
<1>3. PICK b \in Blocks : b = fresh
  BY <1>1, <1>2 DEF InFlight
<1>4. target' = target
  BY <1>1, <1>2, CoreFields
<1>5. GivenBack = {b} /\ GivenBack' = {}
  BY <1>2, <1>3 DEF GivenBack
<1>6. GivenUp' /\ (Undecided' => Undecided)
  BY <1>1, <1>2, <1>4 DEF GivenUp, Undecided, Putting, args
<1>7. FreeIsBlank'
  <2>1. /\ ZeroAt(dirents', chunk', b) /\ UNCHANGED <<ibits, bbits, dinode>>
        /\ \A c \in Blocks \ {b} : dirents'[c] = dirents[c] /\ chunk'[c] = chunk[c]
    BY <1>1, <1>2, <1>3 DEF zero_block, DiskTypeOK, ZeroAt
  <2> QED
    BY <1>1, <1>2, <1>5, <2>1 DEF FreeIsBlank, ZeroAt
<1>8. ASSUME Undecided'
      PROVE  InodesWere(NewInodes)' /\ BlocksWere(NewBlocks, GivenBack)'
  <2>1. PICK N, B : N = NewInodes /\ B = NewBlocks
    OBVIOUS
  <2>2. InodesWere(N) /\ BlocksWere(B, {b})
    BY <1>5, <1>6, <1>8, <2>1, DoingParts
  <2>3. InodesWere(N)' /\ BlocksWere(B, {})'
    BY <1>1, <1>2, <1>3, <2>2, InodesSame, BlockCleared DEF zero_block
  <2>4. NewInodes' = N /\ NewBlocks' = B
    BY <1>2, <1>4, <2>1 DEF NewInodes, NewBlocks, Holding, args, BlocksIn
  <2> QED
    BY <1>5, <2>3, <2>4 DEF InodesWere, BlocksWere
<1> QED
  BY <1>2, <1>6, <1>7, <1>8, UndoFrom

\* put_inode blanks the inode,
LEMMA UndoBlank ==
  ASSUME NEW L, Doing(L), before' = before, BlankOut
  PROVE  UndoInv'
<1>1. /\ core \in [Inodes2 -> inode] /\ FreeIsBlank /\ DiskTypeOK /\ ProcTypeOK /\ GivenUp
  BY DoingParts
<1>2. who = "target" /\ held = target /\ target.nlink = 0 /\ target.num \in Inodes
  BY ReleasingNew
<1>3. /\ pc = "put" /\ pc' = "ifree" /\ UNCHANGED args /\ status' = status /\ core' = core
      /\ Holes(held) = Logical /\ write_disk_inode(target.num, Released)
  BY <1>2 DEF BlankOut, Releasing
<1>4. target' = target
  BY <1>1, <1>3, CoreFields
<1>5. PICK n \in Inodes : n = target.num
  BY <1>2
<1>6. dinode' = [dinode EXCEPT ![n] = BlankInode] /\ UNCHANGED <<ibits, bbits, dirents, chunk>>
  BY <1>1, <1>2, <1>3, <1>5, ReleasedIsBlank DEF write_disk_inode
<1>7. GivenBack = {} /\ GivenBack' = {}
  BY <1>3 DEF GivenBack
<1>8. GivenUp' /\ (Undecided' => Undecided)
  BY <1>1, <1>3, <1>4 DEF GivenUp, Undecided, Putting, args
<1>9. FreeIsBlank'
  <2>1. \A m \in Inodes : dinode'[m] = IF m = n THEN BlankInode ELSE dinode[m]
    BY <1>1, <1>6 DEF DiskTypeOK
  <2> QED
    BY <1>1, <1>4, <1>5, <1>6, <1>7, <2>1 DEF FreeIsBlank, ZeroAt
<1>10. ASSUME Undecided'
       PROVE  InodesWere(NewInodes)' /\ BlocksWere(NewBlocks, GivenBack)'
  <2>1. PICK B : B = NewBlocks
    OBVIOUS
  <2>2. NewInodes = {n} /\ InodesWere({n}) /\ BlocksWere(B, {})
    BY <1>5, <1>7, <1>8, <1>10, <2>1, ReleasingNew
  <2>3. InodesWere({n})' /\ BlocksWere(B, {})'
    BY <1>1, <1>3, <1>5, <1>6, <2>2, InodeWritten, BlocksSame
  <2>4. NewInodes' = {n} /\ NewBlocks' = B
    BY <1>3, <1>4, <2>1, <2>2 DEF NewInodes, NewBlocks, Holding, args, BlocksIn
  <2> QED
    BY <1>7, <2>3, <2>4 DEF InodesWere, BlocksWere
<1> QED
  BY <1>3, <1>8, <1>9, <1>10, UndoFrom

\* and marks it free.
LEMMA UndoFreeInode ==
  ASSUME NEW L, Doing(L), DiskTypeOK', before' = (IF pc' = "idle" THEN diskVars' ELSE before),
         free_inode
  PROVE  UndoInv'
<1>1. FreeIsBlank /\ DiskTypeOK /\ TargetOwned(L)
  BY DoingParts
<1>2. /\ who = "target" /\ held = target /\ target.num \in Inodes /\ pc \in Putting
  BY ReleasingNew
<1>3. pc = "ifree" /\ PutDone /\ ClearInodeBit(target.num)
  BY <1>2 DEF free_inode
<1>4. pc' = "put" /\ before' = before
  BY <1>2, <1>3 DEF PutDone
<1>5. PICK n \in Inodes : n = target.num
  BY <1>2
<1>6. dinode[n] = BlankInode
  BY <1>1, <1>3, <1>5 DEF FreeIsBlank
<1>7. GivenBack = {} /\ GivenBack' = {}
  BY <1>3, <1>4 DEF GivenBack
<1>8. FreeIsBlank'
  BY <1>1, <1>3, <1>4, <1>5, <1>6, <1>7 DEF FreeIsBlank, ClearInodeBit, ZeroAt
<1>9. Undecided => InodesWere({})' /\ BlocksWere({}, {})'
  <2> SUFFICES ASSUME Undecided
               PROVE  InodesWere({})' /\ BlocksWere({}, {})'
    OBVIOUS
  <2>1. target.addr = Unmapped
    BY <1>1, <1>3 DEF TargetOwned
  <2>2. BlocksIn(target) \ {0} = {}
    BY <2>1 DEF BlocksIn, Unmapped
  <2>3. InodesWere({n}) /\ BlocksWere({}, {})
    BY <1>5, <1>7, <2>2, ReleasingNew
  <2> QED
    BY <1>3, <1>4, <1>5, <1>6, <2>3, InodeCleared, BlocksSame DEF ClearInodeBit
<1> QED
  BY <1>2, <1>3, <1>8, <1>9, UndoDone

-----------------------------------------------------------------------------
(* Every step, and the end of a tool that fails.                           *)

\* The disk is as it was when nothing is new.
LEMMA AsBefore ==
  ASSUME DiskTypeOK, BeforeOK, InodesWere({}), BlocksWere({}, {})
  PROVE  diskVars = before
<1>1. PICK I, B, D, E, C : before = <<I, B, D, E, C>>
  BY DEF BeforeOK
<1>2. I = before[1] /\ B = before[2] /\ D = before[3] /\ E = before[4] /\ C = before[5]
  BY <1>1
<1>3. I = ibits /\ B = bbits
  BY <1>2 DEF InodesWere, BlocksWere
<1>4. D = dinode
  <2>1. D \in [Inodes -> disk_inode] /\ dinode \in [Inodes -> disk_inode]
    BY <1>2 DEF BeforeOK, DiskTypeOK
  <2>2. \A n \in Inodes : D[n] = dinode[n]
    BY <1>2 DEF InodesWere
  <2> QED
    BY <2>1, <2>2
<1>5. E = dirents /\ C = chunk
  <2>1. /\ E \in [Blocks -> [Slots -> dirent]] /\ dirents \in [Blocks -> [Slots -> dirent]]
        /\ C \in [Blocks -> 0 .. NDIRECT] /\ chunk \in [Blocks -> 0 .. NDIRECT]
    BY <1>2 DEF BeforeOK, DiskTypeOK
  <2>2. \A b \in Blocks : E[b] = dirents[b] /\ C[b] = chunk[b]
    BY <1>2 DEF BlocksWere
  <2> QED
    BY <2>1, <2>2
<1> QED
  BY <1>1, <1>3, <1>4, <1>5 DEF diskVars

\* Only put_inode ends a tool that is not killed.
LEMMA EndsInPut ==
  ASSUME ~Fault, Next, pc' = "idle"
  PROVE  PutClean \/ update_inode \/ free_inode
<1>1. ~Start /\ ~WalkDown /\ ~WalkFails /\ ~WalkEnds
  BY DEF Start, Invoke, WalkDown, WalkFails, WalkEnds, error_handler
<1>2. ~Create
  <2>1. ~(\/ CreateLookup \/ CreateLookupFails \/ alloc_inode \/ NoFreeInode \/ InitInode
          \/ alloc_block \/ NoFreeBlock \/ HostFails \/ ZeroFresh)
    BY DEF CreateLookup, CreateLookupFails, alloc_inode, NoFreeInode, InitInode, alloc_block,
           NoFreeBlock, HostFails, ZeroFresh, error_handler
  <2>2. ~(\/ WriteDotEntries \/ CopyChunk \/ FileCopied \/ AddEntryInSlot \/ AddEntryAllocates
          \/ AddEntryZeroes \/ AddEntryInNewBlock \/ AddEntryFails)
    BY DEF WriteDotEntries, CopyChunk, FileCopied, AddEntryInSlot, AddEntryAllocates,
           AddEntryZeroes, AddEntryInNewBlock, AddEntryFails, error_handler
  <2> QED
    BY <2>1, <2>2 DEF Create
<1>3. ~Remove
  BY DEF Remove, RmLookupFails, RmFile, RmEmptyDir, RmDirectory, RmNotEmpty, detach_entry,
         error_handler
<1>4. ~free_block /\ ~ZeroFreed /\ ~BlankOut
  BY DEF free_block, ZeroFreed, BlankOut
<1> QED
  BY <1>1, <1>2, <1>3, <1>4 DEF Next, Step, put_inode

\* The invariant is kept.
LEMMA UndoStep ==
  ASSUME NEW L, Doing(L), DiskTypeOK', ~Fault, [UndoNext]_<<vars, before>>
  PROVE  UndoInv'
<1>1. CASE UNCHANGED <<vars, before>>
  <2>1. UndoInv
    BY DEF Doing
  <2>2. /\ diskVars' = diskVars /\ before' = before /\ pc' = pc /\ tool' = tool
        /\ core' = core /\ fresh' = fresh /\ status' = status
    BY <1>1 DEF vars, diskVars
  <2>3. UNCHANGED <<ibits, bbits, dinode, dirents, chunk>> /\ target' = target
    BY <2>2 DEF diskVars, target
  <2>4. NewInodes' = NewInodes /\ NewBlocks' = NewBlocks /\ GivenBack' = GivenBack
    BY <2>2, <2>3 DEF NewInodes, NewBlocks, GivenBack, BlocksIn
  <2>5. FreeIsBlank' /\ GivenUp' /\ BeforeOK' /\ (pc' = "idle" => before' = diskVars')
    BY <2>1, <2>2, <2>3, <2>4 DEF UndoInv, FreeIsBlank, GivenUp, BeforeOK, ZeroAt
  <2>6. Undecided' => InodesWere(NewInodes)' /\ BlocksWere(NewBlocks, GivenBack)'
    BY <2>1, <2>2, <2>3, <2>4 DEF UndoInv, Undecided, InodesWere, BlocksWere, ZeroAt
  <2> QED
    BY <2>5, <2>6 DEF UndoInv
<1>2. CASE UndoNext
  <2>1. Next /\ before' = IF pc' = "idle" THEN diskVars' ELSE before
    BY <1>2 DEF UndoNext
  <2>2. pc' = "idle" => PutClean \/ update_inode \/ free_inode
    BY <2>1, EndsInPut
  <2>3. CASE PutClean
    BY <2>1, <2>3, UndoPutClean
  <2>4. CASE update_inode
    BY <2>1, <2>4, UndoUpdate
  <2>5. CASE free_inode
    BY <2>1, <2>5, UndoFreeInode
  <2>6. ASSUME ~PutClean, ~update_inode, ~free_inode
        PROVE  UndoInv'
    <3>1. before' = before
      BY <2>1, <2>2, <2>6
    <3>2. CASE Start \/ WalkDown \/ WalkFails \/ WalkEnds
      BY <3>1, <3>2, UndoRead, UndoFail
    <3>3. CASE Create
      <4>1. CASE CreateLookupFails \/ NoFreeInode \/ NoFreeBlock \/ HostFails \/ AddEntryFails
        BY <3>1, <4>1, UndoFail
      <4>2. CASE CreateLookup \/ alloc_inode \/ InitInode
        BY <3>1, <4>2, UndoRead, UndoInode
      <4>3. CASE alloc_block \/ ZeroFresh \/ FileCopied \/ WriteDotEntries \/ CopyChunk
        BY <3>1, <4>3, UndoFill
      <4>4. CASE AddEntryAllocates \/ AddEntryZeroes \/ AddEntryInSlot \/ AddEntryInNewBlock
        BY <3>1, <4>4, UndoAddBlock, UndoDecides
      <4> QED
        BY <3>3, <4>1, <4>2, <4>3, <4>4 DEF Create
    <3>4. CASE Remove
      BY <3>1, <3>4, UndoFail, UndoRead, UndoNotEmpty, UndoDecides DEF Remove
    <3>5. CASE free_block \/ ZeroFreed \/ BlankOut
      BY <3>1, <3>5, UndoFreeBlock, UndoZero, UndoBlank
    <3> QED
      BY <2>1, <2>6, <3>2, <3>3, <3>4, <3>5 DEF Next, Step, put_inode
  <2> QED
    BY <2>3, <2>4, <2>5, <2>6
<1> QED
  BY <1>1, <1>2

\* A tool that ends and has failed leaves what was there before.
LEMMA FailureEnds ==
  ASSUME NEW L, Doing(L), ~Fault, Next, pc' = "idle", status = EXIT_FAILURE
  PROVE  diskVars' = before
<1>1. PutClean \/ update_inode \/ free_inode
  BY EndsInPut
<1>2. DiskTypeOK /\ BeforeOK /\ Before(L) /\ DirtyLast
  BY DoingParts
<1>3. Undecided
  BY DEF Undecided
<1>4. ~free_inode
  <2>1. free_inode => who = "target" /\ PutDone
    BY ReleasingNew DEF free_inode
  <2> QED
    BY <2>1 DEF PutDone
<1>5. ~update_inode
  <2> SUFFICES ASSUME update_inode
               PROVE  FALSE
    OBVIOUS
  <2>1. pc \in Putting /\ held.dirty = DIRTY
    BY DEF update_inode, Putting
  <2>2. held = (IF who = "target" THEN target ELSE parent)
    BY <1>2, <2>1, PuttingTool
  <2> QED
    BY <1>2, <2>1, <2>2 DEF DirtyLast, CLEAN, DIRTY
<1>6. PutClean /\ UNCHANGED diskVars
  BY <1>1, <1>4, <1>5 DEF PutClean
<1>7. InodesWere({}) /\ BlocksWere({}, {})
  BY <1>3, <1>6, NothingToRelease
<1> QED
  BY <1>2, <1>6, <1>7, AsBefore

-----------------------------------------------------------------------------
(* Tools that fail change nothing.                                         *)

\* Before the first tool.
LEMMA UndoStart ==
  ASSUME UndoInit
  PROVE  DirtyLast /\ UndoInv
<1>1. Init /\ before = diskVars /\ mkfs
  BY DEF UndoInit, Init
<1>2. pc = "idle" /\ core = NoInodes /\ status = EXIT_SUCCESS
  BY <1>1 DEF Init
<1>3. target = NULL /\ parent = NULL
  BY <1>2 DEF target, parent, NoInodes
<1>4. DirtyLast
  BY <1>2, <1>3 DEF DirtyLast, NULL
<1>5. EmptyHanded
  BY <1>2, <1>3 DEF EmptyHanded, Holding
<1>6. NewInodes = {} /\ NewBlocks = {} /\ GivenBack = {}
  BY <1>5, NothingNew
<1>7. /\ before[1] = ibits /\ before[2] = bbits /\ before[3] = dinode
      /\ before[4] = dirents /\ before[5] = chunk
  BY <1>1 DEF diskVars
<1>8. InodesWere(NewInodes) /\ BlocksWere(NewBlocks, GivenBack)
  BY <1>6, <1>7 DEF InodesWere, BlocksWere
<1>9. DiskTypeOK
  BY <1>1, InvInit, InitIsHalf DEF Inv, TypeOK
<1>10. BeforeOK
  BY <1>1, <1>7, <1>9 DEF BeforeOK, DiskTypeOK, diskVars
<1>11. FreeIsBlank
  <2>1. \A n \in Inodes \ ibits : dinode[n] = BlankInode
    BY <1>1 DEF mkfs
  <2>2. \A b \in Blocks \ bbits : b # FirstData
    BY <1>1, GeometryAssumption DEF mkfs
  <2>3. \A b \in Blocks \ bbits : ZeroAt(dirents, chunk, b)
    BY <1>1, <2>2 DEF mkfs, ZeroAt
  <2> QED
    BY <1>2, <2>1, <2>3 DEF FreeIsBlank
<1>12. GivenUp
  BY <1>2 DEF GivenUp, Putting
<1> QED
  BY <1>1, <1>4, <1>8, <1>10, <1>11, <1>12 DEF UndoInv

\* The invariant, with those it rests on, and the end of every tool that fails.
LEMMA UndoAlways ==
  ASSUME NoFaults
  PROVE  UndoSpec => /\ [](Inv /\ UnlinkedIsBlank /\ CleanTree /\ DirtyLast /\ UndoInv)
                     /\ FailedToolChangesNothing
<1> DEFINE All == Inv /\ UnlinkedIsBlank /\ CleanTree /\ DirtyLast /\ UndoInv
           Ends == pc # "idle" /\ pc' = "idle" /\ status = EXIT_FAILURE => diskVars' = before
<1>1. UndoInit => All
  BY InvInit, InitIsHalf, UnlinkedInit, CleanStart, UndoStart DEF UndoInit
<1>2. All => /\ ~Fault /\ MaxKills <= 1 /\ OneKill /\ ProcTypeOK
             /\ \E L : Doing(L)
  BY NoFaultHappens DEF Inv, TypeOK, OneKill, CleanTree, Doing, Before
<1>3. All /\ [UndoNext]_<<vars, before>> => All'
  <2> SUFFICES ASSUME All, [UndoNext]_<<vars, before>>
               PROVE  All'
    OBVIOUS
  <2>1. [Next]_vars
    BY DEF UndoNext
  <2>2. Inv' /\ UnlinkedIsBlank' /\ CleanTree' /\ DirtyLast'
    BY <1>2, <2>1, InvStep, UnlinkedStep, CleanStep, DirtyLastStep
  <2>3. PICK L : Doing(L)
    BY <1>2
  <2>4. UndoInv'
    BY <1>2, <2>2, <2>3, UndoStep DEF Inv, TypeOK
  <2> QED
    BY <2>2, <2>4
<1>4. All /\ [UndoNext]_<<vars, before>> => [Ends]_<<vars, before>>
  <2> SUFFICES ASSUME All, UndoNext, pc' = "idle", status = EXIT_FAILURE
               PROVE  diskVars' = before
    OBVIOUS
  <2>1. PICK L : Doing(L)
    BY <1>2
  <2>2. Next
    BY DEF UndoNext
  <2> QED
    BY <1>2, <2>1, <2>2, FailureEnds
<1> HIDE DEF All
<1>5. UndoSpec => []All
  BY <1>1, <1>3, PTL DEF UndoSpec
<1>6. UndoSpec => [][Ends]_<<vars, before>>
  BY <1>4, <1>5, PTL DEF UndoSpec
<1> QED
  BY <1>5, <1>6 DEF All, FailedToolChangesNothing

\* As long as none is killed and no read or write fails, a mkdir, cp or rm that reports
\* failure leaves the image as it found it, bit for bit: the error handlers of mkdir.c,
\* cp.c and rm.c release all that was allocated, and free_block and put_inode blank it.
THEOREM FailuresChangeNothing ==
  ASSUME NoFaults
  PROVE  UndoSpec => FailedToolChangesNothing
<1> QED
  BY UndoAlways
=============================================================================
