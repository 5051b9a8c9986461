-------------------------- MODULE PangyaOwners_proofs --------------------------
(***************************************************************************)
(* One failed read or write never lets two inodes share a block, for every *)
(* image size and set of names: see PangyaOwners.                          *)
(***************************************************************************)
EXTENDS PangyaOwners, PangyaClean_proofs

\* What is known before a step.
Owning(S) == Inv /\ UnlinkedIsBlank /\ OwnersInv(S)

\* Its parts.
LEMMA OwningParts ==
  ASSUME NEW S, Owning(S)
  PROVE  /\ DiskTypeOK /\ ProcTypeOK /\ InFlight /\ UnlinkedIsBlank
         /\ core \in [Inodes2 -> inode] /\ target \in inode /\ parent \in inode
         /\ OwnedOnce(S) /\ CoreCovers /\ Apart /\ FreeIsNone(S) /\ StaleUnnamed(S) /\ OwnerTool(S)
  BY DEF Owning, Inv, TypeOK, OwnersInv, ProcTypeOK, target, parent, Inodes2

-----------------------------------------------------------------------------
(* Who maps what.                                                          *)

\* A block list, and an inode number.
LEMMA MapOfType ==
  ASSUME DiskTypeOK, target \in inode, parent \in inode, NEW n \in Inodes
  PROVE  MapOf(n) \in [Logical -> Blocks] /\ n # 0
<1>1. dinode[n].addr \in [Logical -> Blocks]
  BY DEF DiskTypeOK, disk_inode
<1>2. target.addr \in [Logical -> Blocks] /\ parent.addr \in [Logical -> Blocks]
  BY DEF inode
<1> QED
  BY <1>1, <1>2 DEF MapOf, Inodes

\* A step after which every owner maps what it mapped before, or less, keeps each block
\* with its owner.
LEMMA OwnedKept ==
  ASSUME NEW S, NEW S2, OwnedOnce(S),
         \A n \in Owners(S2), l \in Logical : MapOf(n)'[l] # 0 =>
           n \in Owners(S) /\ MapOf(n)'[l] = MapOf(n)[l] /\ MapOf(n)[l] \in bbits',
         pc' \in {"bzero", "content", "ezero"} =>
           fresh' \in bbits' /\ \A n \in Owners(S2), l \in Logical : MapOf(n)'[l] # fresh'
  PROVE  OwnedOnce(S2)'
<1>1. \A n \in Owners(S2), l \in Logical : MapOf(n)'[l] # 0 => MapOf(n)'[l] \in bbits'
  OBVIOUS
<1>2. ASSUME NEW m \in Owners(S2), NEW n \in Owners(S2), NEW l \in Logical, NEW j \in Logical,
             MapOf(m)'[l] # 0, MapOf(m)'[l] = MapOf(n)'[j]
      PROVE  m = n /\ l = j
  <2>1. /\ m \in Owners(S) /\ n \in Owners(S) /\ MapOf(m)[l] # 0
        /\ MapOf(m)[l] = MapOf(n)[j]
    BY <1>2
  <2> QED
    BY <2>1 DEF OwnedOnce
<1> QED
  BY <1>1, <1>2 DEF OwnedOnce

\* A step that gives the block just allocated to one of them.
LEMMA OwnedMore ==
  ASSUME NEW S, OwnedOnce(S), pc \in {"bzero", "content", "ezero"}, bbits' = bbits,
         pc' \notin {"bzero", "content", "ezero"},
         NEW p \in 0 .. NInodes - 1, NEW m \in Logical,
         \A n \in Owners(S), l \in Logical :
           MapOf(n)'[l] = IF n = p /\ l = m THEN fresh ELSE MapOf(n)[l]
  PROVE  OwnedOnce(S)'
<1>1. /\ \A n \in Owners(S), l \in Logical : MapOf(n)[l] # 0 => MapOf(n)[l] \in bbits
      /\ fresh \in bbits /\ \A n \in Owners(S), l \in Logical : MapOf(n)[l] # fresh
      /\ \A x, n \in Owners(S), l, j \in Logical :
           MapOf(x)[l] # 0 /\ MapOf(x)[l] = MapOf(n)[j] => x = n /\ l = j
  BY DEF OwnedOnce
<1>2. \A n \in Owners(S), l \in Logical : MapOf(n)'[l] # 0 => MapOf(n)'[l] \in bbits'
  BY <1>1
<1>3. ASSUME NEW x \in Owners(S), NEW n \in Owners(S), NEW l \in Logical, NEW j \in Logical,
             MapOf(x)'[l] # 0, MapOf(x)'[l] = MapOf(n)'[j]
      PROVE  x = n /\ l = j
  BY <1>1, <1>3
<1> QED
  BY <1>2, <1>3 DEF OwnedOnce

-----------------------------------------------------------------------------
(* Who names whom.                                                         *)

\* What is written into blocks names no stale inode.
Harmless(S) ==
  \A b \in Blocks, s \in Slots :
    dirents'[b][s] = dirents[b][s] \/ dirents'[b][s].ino \notin S

\* So a directory that names none goes on to name none.
LEMMA AvoidsKept ==
  ASSUME NEW S, NEW c, Harmless(S), c.addr \in [Logical -> Blocks], Avoids(dirents, S, c)
  PROVE  Avoids(dirents', S, c)
  BY DEF Avoids, Harmless

\* The writes of directory blocks.
LEMMA HarmlessWrites ==
  ASSUME DiskTypeOK, NEW S \in SUBSET Inodes, NEW b, NEW s, NEW e, NEW i, NEW j,
         \/ zero_block(b) \/ WriteChunk(b, i) \/ dirents' = dirents
         \/ WriteDots(b, i, j) /\ i \notin S /\ j \notin S
         \/ WriteDirent(b, s, e) /\ e.ino \notin S
  PROVE  Harmless(S)
<1> SUFFICES ASSUME NEW c \in Blocks, NEW t \in Slots
             PROVE  dirents'[c][t] = dirents[c][t] \/ dirents'[c][t].ino \notin S
  BY DEF Harmless
<1>1. dirents \in [Blocks -> [Slots -> dirent]]
  BY DEF DiskTypeOK
<1>2. CASE zero_block(b)
  <2>1. dirents' = [dirents EXCEPT ![b] = ZeroBlock]
    BY <1>2 DEF zero_block
  <2>2. ZeroBlock[t].ino = 0
    BY DEF ZeroBlock, NoEntry
  <2>3. 0 \notin S
    BY DEF Inodes
  <2> QED
    BY <1>1, <2>1, <2>2, <2>3
<1>3. CASE WriteChunk(b, i) \/ dirents' = dirents
  BY <1>3 DEF WriteChunk
<1>4. CASE WriteDots(b, i, j) /\ i \notin S /\ j \notin S
  BY <1>1, <1>4 DEF WriteDots
<1>5. CASE WriteDirent(b, s, e) /\ e.ino \notin S
  BY <1>1, <1>5 DEF WriteDirent
<1> QED
  BY <1>2, <1>3, <1>4, <1>5

\* What search_dir finds in a directory is not stale.
LEMMA FoundIsNamed ==
  ASSUME NEW S, NEW c, Avoids(dirents, S, c), NEW token, NEW n \in Inodes,
         search_dir(c, token, n)
  PROVE  n \notin S /\ c.mode = "dir"
<1>1. c.mode = "dir" /\ \E p \in Hits(c, token) : n = EntryAt(c, p).ino
  BY GeometryAssumption DEF search_dir, ENOTDIR, Inodes
<1>2. PICK p \in Hits(c, token) : n = EntryAt(c, p).ino
  BY <1>1
<1>3. p \in Positions /\ c.addr[p[1]] # 0
  <2>1. p \in Positions /\ \A l \in 0 .. p[1] : c.addr[l] # 0
    BY DEF Hits, Searched
  <2>2. p[1] \in 0 .. p[1]
    BY <2>1 DEF Positions, Logical
  <2> QED
    BY <2>1, <2>2
<1>4. p[1] \in Logical /\ p[2] \in Slots
  BY <1>3 DEF Positions
<1> QED
  BY <1>1, <1>2, <1>3, <1>4 DEF Avoids, EntryAt

-----------------------------------------------------------------------------
(* Reading and failing.                                                    *)

\* The in-core inode c maps what it does on the disk.
OnDiskAlready(c) == c.num = 0 \/ c.addr = dinode[c.num].addr

\* Where that is so of both, every inode maps what it does on the disk.
LEMMA MapOnDisk ==
  /\ OnDiskAlready(target) /\ OnDiskAlready(parent)
       => \A n \in Inodes : MapOf(n) = dinode[n].addr
  /\ OnDiskAlready(target)' /\ OnDiskAlready(parent)'
       => \A n \in Inodes : MapOf(n)' = dinode'[n].addr
  BY DEF OnDiskAlready, MapOf, Inodes

\* What get_inode returns.
LEMMA ReadInode ==
  ASSUME NEW n
  PROVE  /\ get_inode(n).num = n /\ get_inode(n).addr = dinode[n].addr
         /\ get_inode(n).mode = dinode[n].mode /\ get_inode(n).nlink = dinode[n].nlink
         /\ get_inode(n).dirty = CLEAN
  BY DEF get_inode, InCore

\* The parent is read, or read no further.
LEMMA OwnersRead ==
  ASSUME NEW S \in SUBSET Inodes, Owning(S), UNCHANGED diskVars, ioerrs' = ioerrs,
         target = NULL, OnDiskAlready(parent), target' = NULL,
         NEW n \in Inodes \ S, parent' = get_inode(n),
         pc' \in {"walk", "lookup", "ibit"}, who' = "target", base' \notin Dots,
         pc' = "ibit" => get_inode(n).mode = "dir" /\ tool' \in Creators
  PROVE  OwnersInv(S)'
<1>1. /\ OwnedOnce(S) /\ FreeIsNone(S) /\ StaleUnnamed(S) /\ DiskTypeOK
  BY OwningParts
<1>2. /\ dinode' = dinode /\ dirents' = dirents /\ bbits' = bbits /\ ibits' = ibits
      /\ NULL.num = 0 /\ n # 0
  BY DEF diskVars, NULL, Inodes
<1>3. /\ parent'.num = n /\ parent'.addr = dinode[n].addr /\ parent'.mode = dinode[n].mode
  BY ReadInode
<1>4. \A m \in Inodes : MapOf(m)' = MapOf(m)
  <2>1. OnDiskAlready(target) /\ OnDiskAlready(target)' /\ OnDiskAlready(parent)'
    BY <1>2, <1>3 DEF OnDiskAlready
  <2> QED
    BY <1>2, <2>1, MapOnDisk
<1>5. OwnedOnce(S)'
  <2>1. \A m \in Owners(S), l \in Logical : MapOf(m)'[l] # 0 =>
          m \in Owners(S) /\ MapOf(m)'[l] = MapOf(m)[l] /\ MapOf(m)[l] \in bbits'
    BY <1>1, <1>2, <1>4 DEF OwnedOnce, Owners
  <2> QED
    BY <1>1, <2>1, OwnedKept
<1>6. CoreCovers'
  BY <1>1, <1>2, <1>3 DEF CoreCovers, Covered, InUse, FreeIsNone, Owners
<1>7. Apart' /\ FreeIsNone(S)'
  BY <1>1, <1>2 DEF Apart, FreeIsNone
<1>8. StaleUnnamed(S)'
  <2>1. 0 \notin S
    BY DEF Inodes
  <2>2. Avoids(dirents, S, NULL)
    BY DEF Avoids, NULL
  <2>3. Avoids(dirents, S, get_inode(n))
    BY <1>1, ReadInode DEF StaleUnnamed, Avoids, Owners
  <2> QED
    BY <1>1, <1>2, <1>3, <2>1, <2>2, <2>3 DEF StaleUnnamed
<1>9. OwnerTool(S)'
  <2>1. parent' = get_inode(parent.num)'
    <3>1. get_inode(n)' = get_inode(n)
      BY <1>2 DEF get_inode
    <3> QED
      BY <1>3, <3>1
  <2>2. pc' = "ibit" => parent'.mode = "dir" /\ tool' \in Creators
    BY <1>3, ReadInode
  <2> QED
    BY <1>2, <1>3, <2>1, <2>2 DEF OwnerTool, Started, Putting
<1> QED
  BY <1>5, <1>6, <1>7, <1>8, <1>9 DEF OwnersInv

\* A tool starts, walks, or finds its name free.
LEMMA OwnersWalk ==
  ASSUME NEW S \in SUBSET Inodes, Owning(S), Start \/ WalkDown \/ WalkEnds \/ CreateLookup
  PROVE  OwnersInv(S)'
<1>1. /\ core \in [Inodes2 -> inode] /\ StaleUnnamed(S) /\ OwnerTool(S) /\ parent \in inode
  BY OwningParts
<1>2. UNCHANGED diskVars /\ ioerrs' = ioerrs /\ who' = who /\ pc \notin Putting
  BY DEF Start, Invoke, WalkDown, WalkEnds, CreateLookup, faults, Putting
<1>3. who' = "target" /\ base' \notin Dots
  <2>1. \/ base' \notin Dots
        \/ base' = base /\ pc # "idle"
    BY DEF Start, Invoke, WalkDown, WalkEnds, CreateLookup, args, base_name_ok
  <2> QED
    BY <1>1, <1>2, <2>1 DEF OwnerTool
<1>4. NULL.num = 0 /\ NoInodes["target"] = NULL /\ NoInodes["parent"] = NULL
  BY DEF NULL, NoInodes
<1>5. CASE Start
  <2>1. core' = [core EXCEPT !["parent"] = get_inode(ROOT_INODE)] /\ pc = "idle" /\ pc' = "walk"
    BY <1>5 DEF Start, Invoke
  <2>2. target = NULL /\ parent = NULL
    BY <1>1, <1>4, <2>1 DEF OwnerTool, target, parent
  <2>3. parent' = get_inode(ROOT_INODE) /\ target' = NULL
    BY <1>1, <2>1, <2>2, CoreFields
  <2>4. ROOT_INODE \in Inodes \ S
    BY <1>1, RootType DEF StaleUnnamed
  <2> QED
    BY <1>2, <1>3, <1>4, <2>1, <2>2, <2>3, <2>4, OwnersRead DEF OnDiskAlready
<1>6. CASE WalkDown \/ WalkEnds \/ CreateLookup
  <2>1. pc \in {"walk", "lookup"} /\ (pc = "lookup" => tool \in Creators /\ pc' = "ibit")
        /\ pc' \in {"walk", "lookup", "ibit"} /\ tool' = tool
        /\ (pc' = "ibit" => CreateLookup)
    BY <1>6 DEF WalkDown, WalkEnds, CreateLookup, args
  <2>2. target = NULL /\ parent = get_inode(parent.num) /\ parent.num \in Inodes \ S
    <3>1. target = NULL /\ parent = get_inode(parent.num) /\ parent.num # 0
      BY <1>1, <2>1 DEF OwnerTool
    <3>2. parent.num \in 0 .. NInodes - 1
      BY <1>1 DEF inode
    <3> QED
      BY <1>1, <3>1, <3>2 DEF StaleUnnamed, Inodes
  <2>3. OnDiskAlready(parent)
    BY <2>2, ReadInode DEF OnDiskAlready
  <2>4. CASE WalkDown
    <3>1. PICK n \in Inodes, token \in Names \cup Dots :
            /\ search_dir(parent, token, n)
            /\ core' = [core EXCEPT !["parent"] = get_inode(n)]
      BY <2>4 DEF WalkDown, parent
    <3>2. n \notin S
      BY <1>1, <3>1, FoundIsNamed DEF StaleUnnamed
    <3>3. parent' = get_inode(n) /\ target' = NULL
      BY <1>1, <2>2, <3>1, CoreFields
    <3>4. pc' = "walk"
      BY <2>4 DEF WalkDown
    <3> QED
      BY <1>2, <1>3, <2>2, <2>3, <3>2, <3>3, <3>4, OwnersRead
  <2>5. CASE WalkEnds \/ CreateLookup
    <3>1. core' = core
      BY <2>5 DEF WalkEnds, CreateLookup
    <3>2. parent' = get_inode(parent.num) /\ target' = NULL
      BY <1>1, <2>2, <3>1, CoreFields
    <3>3. pc' = "ibit" => get_inode(parent.num).mode = "dir" /\ tool' \in Creators
      <4> SUFFICES ASSUME CreateLookup PROVE get_inode(parent.num).mode = "dir" /\ tool' \in Creators
        BY <2>1
      <4>1. search_dir(core["parent"], base, 0) /\ tool \in Creators
        BY DEF CreateLookup
      <4>2. core["parent"].mode = "dir"
        BY <4>1 DEF search_dir, ENOTDIR
      <4> QED
        BY <2>1, <2>2, <4>1, <4>2 DEF parent
    <3> QED
      BY <1>2, <1>3, <2>1, <2>2, <2>3, <3>2, <3>3, OwnersRead
  <2> QED
    BY <1>6, <2>4, <2>5
<1> QED
  BY <1>5, <1>6

\* goto error_handler: the target may have lost its links, but what it maps stays its own
\* until put_inode gives it back.
LEMMA OwnersHandled ==
  ASSUME NEW S \in SUBSET Inodes, Owning(S), error_handler(core), UNCHANGED diskVars,
         pc # "idle", pc \notin Putting, S # {} => ioerrs' # 0
  PROVE  OwnersInv(S)'
<1>1. /\ OwnedOnce(S) /\ FreeIsNone(S) /\ StaleUnnamed(S) /\ CoreCovers /\ Apart /\ OwnerTool(S)
      /\ core \in [Inodes2 -> inode]
  BY OwningParts
<1>2. dinode' = dinode /\ dirents' = dirents /\ bbits' = bbits /\ ibits' = ibits
  BY DEF diskVars
<1>3. /\ parent' = parent /\ target'.num = target.num /\ target'.addr = target.addr
      /\ target'.mode = target.mode /\ pc' = "put" /\ who' = "target" /\ base' = base
  BY <1>1, HandlerFields DEF args
<1>4. \A m \in Inodes : MapOf(m)' = MapOf(m)
  BY <1>2, <1>3 DEF MapOf
<1>5. OwnedOnce(S)'
  <2>1. \A m \in Owners(S), l \in Logical : MapOf(m)'[l] # 0 =>
          m \in Owners(S) /\ MapOf(m)'[l] = MapOf(m)[l] /\ MapOf(m)[l] \in bbits'
    BY <1>1, <1>2, <1>4 DEF OwnedOnce, Owners
  <2> QED
    BY <1>1, <1>3, <2>1, OwnedKept
<1>6. CoreCovers'
  BY <1>1, <1>2, <1>3 DEF CoreCovers, Covered, InUse, Dropped
<1>7. Apart' /\ FreeIsNone(S)'
  BY <1>1, <1>2, <1>3 DEF Apart, FreeIsNone, Putting
<1>8. StaleUnnamed(S)'
  BY <1>1, <1>2, <1>3 DEF StaleUnnamed, Putting, Avoids
<1>9. OwnerTool(S)'
  BY <1>1, <1>3 DEF OwnerTool, Started, Putting
<1> QED
  BY <1>5, <1>6, <1>7, <1>8, <1>9 DEF OwnersInv

-----------------------------------------------------------------------------
(* Steps that leave every block list alone.                                *)

\* What fresh is after a step, if it is a block being allocated.
FreshOwned(S) ==
  pc' \in {"bzero", "content", "ezero"} =>
    fresh' \in bbits' /\ \A n \in Owners(S), l \in Logical : MapOf(n)[l] # fresh'

FreshBlank(S) == pc' = "content" => \A s \in Slots : dirents'[fresh'][s].ino \notin S

\* No inode is written, and nothing is freed.
LEMMA OwnersFrame ==
  ASSUME NEW S \in SUBSET Inodes, Owning(S), dinode' = dinode,
         ibits \subseteq ibits', bbits \subseteq bbits', Harmless(S), ioerrs' # 0 \/ ioerrs' = ioerrs,
         target'.num = target.num, target'.addr = target.addr, target'.mode = target.mode,
         parent'.num = parent.num, parent'.addr = parent.addr, parent'.mode = parent.mode,
         pc \notin {"put", "ifree"}, pc' \notin {"idle", "pzero", "ifree"},
         pc = "pzero" => pc' = "put" /\ who' = who /\ core' = core,
         FreshOwned(S), FreshBlank(S), OwnerTool(S)'
  PROVE  OwnersInv(S)'
<1>1. /\ OwnedOnce(S) /\ FreeIsNone(S) /\ StaleUnnamed(S) /\ CoreCovers /\ Apart /\ OwnerTool(S)
      /\ DiskTypeOK /\ target \in inode /\ parent \in inode
  BY OwningParts
<1>2. \A m \in Inodes : MapOf(m)' = MapOf(m)
  BY DEF MapOf
<1>3. OwnedOnce(S)'
  <2>1. \A m \in Owners(S), l \in Logical : MapOf(m)'[l] # 0 =>
          m \in Owners(S) /\ MapOf(m)'[l] = MapOf(m)[l] /\ MapOf(m)[l] \in bbits'
    BY <1>1, <1>2 DEF OwnedOnce, Owners
  <2>2. pc' \in {"bzero", "content", "ezero"} =>
          fresh' \in bbits' /\ \A n \in Owners(S), l \in Logical : MapOf(n)'[l] # fresh'
    BY <1>2 DEF FreshOwned, Owners
  <2> QED
    BY <1>1, <2>1, <2>2, OwnedKept
<1>4. CoreCovers'
  <2>1. \A w \in {"target", "parent"} : Dropped(w) => Dropped(w)'
    BY DEF Dropped, Putting, held
  <2> QED
    BY <1>1, <2>1 DEF CoreCovers, Covered, InUse
<1>5. Apart' /\ FreeIsNone(S)'
  BY <1>1 DEF Apart, FreeIsNone
<1>6. StaleUnnamed(S)'
  <2>1. target.num \notin S /\ ROOT_INODE \notin S /\ parent.num \notin S
    BY <1>1 DEF StaleUnnamed
  <2>2. \A n \in Owners(S) : Avoids(dirents', S, dinode[n])
    BY <1>1, AvoidsKept DEF StaleUnnamed, DiskTypeOK, disk_inode, Owners
  <2>3. Avoids(dirents', S, parent) /\ Avoids(dirents', S, target)
    BY <1>1, <2>1, AvoidsKept DEF StaleUnnamed, inode
  <2>4. Avoids(dirents', S, parent') /\ Avoids(dirents', S, target')
    BY <2>3 DEF Avoids
  <2> QED
    BY <1>1, <2>1, <2>2, <2>4 DEF StaleUnnamed, FreshBlank
<1> QED
  BY <1>3, <1>4, <1>5, <1>6 DEF OwnersInv

\* A bit is set: an inode's, or a block's.
LEMMA OwnersAlloc ==
  ASSUME NEW S \in SUBSET Inodes, Owning(S), alloc_inode \/ alloc_block \/ AddEntryAllocates
  PROVE  OwnersInv(S)'
<1>1. /\ OwnedOnce(S) /\ StaleUnnamed(S) /\ CoreCovers /\ OwnerTool(S) /\ Apart /\ FreeIsNone(S)
      /\ DiskTypeOK /\ target \in inode /\ parent \in inode /\ core \in [Inodes2 -> inode]
  BY OwningParts
<1>2. /\ core' = core /\ UNCHANGED args /\ who' = who /\ ioerrs' = ioerrs
      /\ dinode' = dinode /\ dirents' = dirents
      /\ pc \in {"ibit", "block", "entry"} /\ pc' \in {"iwrite", "bzero", "ezero"}
  BY DEF alloc_inode, alloc_block, AddEntryAllocates, SetInodeBit, SetBlockBit, faults
<1>3. parent' = parent /\ target' = target
  BY <1>1, <1>2, CoreFields
<1>4. Harmless(S)
  BY <1>2 DEF Harmless
<1>5. CASE alloc_inode
  <2>1. PICK n \in FreeInodes : SetInodeBit(n) /\ fresh' = n
    BY <1>5 DEF alloc_inode
  <2>2. pc = "ibit" /\ pc' = "iwrite"
    BY <1>5 DEF alloc_inode
  <2>3. ibits' = ibits \cup {n} /\ bbits' = bbits /\ n \notin ibits
    BY <2>1 DEF SetInodeBit, FreeInodes
  <2>4. fresh' # parent.num
    BY <1>1, <2>1, <2>2, <2>3 DEF OwnerTool, CoreCovers, InUse
  <2>5. get_inode(parent.num)' = get_inode(parent.num)
    BY <1>2, <1>3 DEF get_inode
  <2>6. OwnerTool(S)'
    BY <1>1, <1>2, <1>3, <2>1, <2>2, <2>3, <2>4, <2>5 DEF OwnerTool, Started, Putting, args
  <2> QED
    BY <1>2, <1>3, <1>4, <2>2, <2>3, <2>6, OwnersFrame DEF FreshOwned, FreshBlank
<1>6. CASE alloc_block \/ AddEntryAllocates
  <2>1. PICK b \in FreeBlocks : SetBlockBit(b) /\ fresh' = b
    BY <1>6 DEF alloc_block, AddEntryAllocates
  <2>2. /\ pc \in {"block", "entry"} /\ pc' \in {"bzero", "ezero"}
        /\ pc' = "ezero" => parent.addr[k'] = 0
    BY <1>6 DEF alloc_block, AddEntryAllocates, Lowest, Holes, parent
  <2>3. ibits' = ibits /\ bbits' = bbits \cup {b} /\ b \notin bbits /\ ~badblock(b)
    BY <2>1 DEF SetBlockBit, FreeBlocks
  <2>4. b # 0
    BY <2>3, BlockRange, <1>1
  <2>5. FreshOwned(S)
    BY <1>1, <2>1, <2>3, <2>4 DEF FreshOwned, OwnedOnce
  <2>6. OwnerTool(S)'
    BY <1>1, <1>2, <1>3, <2>2 DEF OwnerTool, Started, Putting, args
  <2> QED
    BY <1>2, <1>3, <1>4, <2>2, <2>3, <2>5, <2>6, OwnersFrame DEF FreshBlank
<1> QED
  BY <1>5, <1>6

\* The contents of blocks: a zeroed block, an entry, and what is left of a block given
\* back, whether it could be zeroed or not.
LEMMA OwnersWrite ==
  ASSUME NEW S \in SUBSET Inodes, Owning(S),
         \/ ZeroFresh \/ FileCopied \/ AddEntryInSlot \/ AddEntryInNewBlock \/ detach_entry
         \/ ZeroFreed
         \/ IoError /\ UNCHANGED diskVars /\ pc = "pzero" /\ pc' = "put" /\ fresh' = 0
              /\ UNCHANGED <<args, core, who, k, status>>
  PROVE  OwnersInv(S)'
<1>1. /\ OwnedOnce(S) /\ StaleUnnamed(S) /\ CoreCovers /\ OwnerTool(S) /\ InFlight
      /\ DiskTypeOK /\ ProcTypeOK /\ target \in inode /\ parent \in inode /\ core \in [Inodes2 -> inode]
  BY OwningParts
<1>2. UNCHANGED args /\ who' = who /\ (ioerrs' = ioerrs \/ ioerrs' # 0)
  <2>1. ioerrs \in 0 .. MaxIoErrs
    BY <1>1 DEF ProcTypeOK
  <2>2. ioerrs + 1 # 0
    BY <2>1, FaultAssumption
  <2> QED
    BY <2>2 DEF ZeroFresh, FileCopied, AddEntryInSlot, AddEntryInNewBlock, detach_entry, ZeroFreed,
       IoError, faults
<1>3. 0 \notin S
  BY DEF Inodes
<1>4. CASE ZeroFresh
  <2>1. /\ pc = "bzero" /\ pc' = "content" /\ zero_block(fresh) /\ core' = core /\ fresh' = fresh
    BY <1>4 DEF ZeroFresh
  <2>2. /\ dinode' = dinode /\ bbits' = bbits /\ ibits' = ibits
        /\ dirents' = [dirents EXCEPT ![fresh] = ZeroBlock]
    BY <2>1 DEF zero_block
  <2>3. Harmless(S)
    BY <1>1, <2>1, HarmlessWrites
  <2>4. FreshBlank(S)
    <3>1. fresh \in Blocks
      BY <1>1, <2>1 DEF InFlight
    <3>2. dirents'[fresh] = ZeroBlock
      BY <1>1, <2>2, <3>1 DEF DiskTypeOK
    <3>3. \A s \in Slots : ZeroBlock[s].ino \notin S
      BY <1>3 DEF ZeroBlock, NoEntry
    <3>4. dirents'[fresh'] = ZeroBlock
      BY <2>1, <3>2
    <3> QED
      BY <3>3, <3>4 DEF FreshBlank
  <2>5. FreshOwned(S)
    BY <1>1, <2>1, <2>2 DEF FreshOwned, OwnedOnce
  <2>6. parent' = parent /\ target' = target
    BY <1>1, <2>1, CoreFields
  <2>7. OwnerTool(S)'
    BY <1>1, <1>2, <2>1, <2>2, <2>6 DEF OwnerTool, Started, Putting, args
  <2> QED
    BY <1>2, <2>1, <2>2, <2>3, <2>4, <2>5, <2>6, <2>7, OwnersFrame
<1>5. CASE FileCopied
  <2> DEFINE t == [target EXCEPT !.size = fsz, !.nlink = 1]
  <2>1. /\ pc = "block" /\ pc' = "entry" /\ core' = [core EXCEPT !["target"] = t]
        /\ UNCHANGED diskVars
    BY <1>5 DEF FileCopied, target
  <2>2. /\ dinode' = dinode /\ bbits' = bbits /\ ibits' = ibits /\ dirents' = dirents
    BY <2>1 DEF diskVars
  <2>3. t.num = target.num /\ t.addr = target.addr /\ t.mode = target.mode
    BY <1>1 DEF inode
  <2> HIDE DEF t
  <2>4. parent' = parent /\ target' = t
    BY <1>1, <2>1, CoreFields
  <2>5. Harmless(S) /\ FreshOwned(S) /\ FreshBlank(S)
    BY <2>1, <2>2 DEF Harmless, FreshOwned, FreshBlank
  <2>6. OwnerTool(S)'
    BY <1>1, <1>2, <2>1, <2>2, <2>3, <2>4 DEF OwnerTool, Started, Putting, args
  <2> QED
    BY <1>2, <2>1, <2>2, <2>3, <2>4, <2>5, <2>6, OwnersFrame
<1>6. CASE AddEntryInSlot \/ AddEntryInNewBlock
  <2>1. PICK b, s, size : WriteDirent(b, s, NewEntry) /\ core' = Linked(size)
    BY <1>6 DEF AddEntryInSlot, AddEntryInNewBlock
  <2>2. pc \in {"entry", "ewrite"} /\ pc' = "put"
    BY <1>6 DEF AddEntryInSlot, AddEntryInNewBlock
  <2>3. NewEntry.ino \notin S
    BY <1>1, <2>2 DEF NewEntry, StaleUnnamed, target
  <2>4. Harmless(S) /\ dinode' = dinode /\ ibits' = ibits /\ bbits' = bbits
    BY <1>1, <2>1, <2>3, HarmlessWrites DEF WriteDirent
  <2>5. /\ parent'.num = parent.num /\ parent'.addr = parent.addr /\ parent'.mode = parent.mode
        /\ target'.num = target.num /\ target'.addr = target.addr /\ target'.mode = target.mode
    BY <1>1, <2>1, LinkedFields
  <2>6. FreshOwned(S) /\ FreshBlank(S)
    BY <2>2 DEF FreshOwned, FreshBlank
  <2>7. OwnerTool(S)'
    BY <1>1, <1>2, <2>2 DEF OwnerTool, Started, Putting, args
  <2> QED
    BY <1>2, <2>2, <2>4, <2>5, <2>6, <2>7, OwnersFrame
<1>7. CASE detach_entry
  <2>1. PICK b, s : WriteDirent(b, s, NoEntry)
    BY <1>7 DEF detach_entry
  <2>2. /\ pc = "detach" /\ pc' = "put"
        /\ core' = [core EXCEPT !["target"].dirty = DIRTY, !["parent"].dirty = DIRTY]
    BY <1>7 DEF detach_entry
  <2>3. NoEntry.ino \notin S
    BY <1>3 DEF NoEntry
  <2>4. Harmless(S) /\ dinode' = dinode /\ ibits' = ibits /\ bbits' = bbits
    BY <1>1, <2>1, <2>3, HarmlessWrites DEF WriteDirent
  <2>5. target' = [target EXCEPT !.dirty = DIRTY] /\ parent' = [parent EXCEPT !.dirty = DIRTY]
    BY <1>1, <2>2 DEF Inodes2, target, parent
  <2>6. /\ parent'.num = parent.num /\ parent'.addr = parent.addr /\ parent'.mode = parent.mode
        /\ target'.num = target.num /\ target'.addr = target.addr /\ target'.mode = target.mode
    BY <1>1, <2>5 DEF inode
  <2>7. FreshOwned(S) /\ FreshBlank(S)
    BY <2>2 DEF FreshOwned, FreshBlank
  <2>8. OwnerTool(S)'
    BY <1>1, <1>2, <2>2 DEF OwnerTool, Started, Putting, args
  <2> QED
    BY <1>2, <2>2, <2>4, <2>6, <2>7, <2>8, OwnersFrame
<1>8. CASE \/ ZeroFreed
           \/ IoError /\ UNCHANGED diskVars /\ pc = "pzero" /\ pc' = "put" /\ fresh' = 0
                /\ UNCHANGED <<args, core, who, k, status>>
  <2>1. pc = "pzero" /\ pc' = "put" /\ core' = core /\ (zero_block(fresh) \/ UNCHANGED diskVars)
    BY <1>8 DEF ZeroFreed
  <2>2. Harmless(S) /\ dinode' = dinode /\ ibits' = ibits /\ bbits' = bbits
    BY <1>1, <2>1, HarmlessWrites DEF zero_block, diskVars
  <2>3. parent' = parent /\ target' = target
    BY <1>1, <2>1, CoreFields
  <2>4. FreshOwned(S) /\ FreshBlank(S)
    BY <2>1 DEF FreshOwned, FreshBlank
  <2>5. OwnerTool(S)'
    BY <1>1, <1>2, <2>1 DEF OwnerTool, Started, Putting, args
  <2> QED
    BY <1>2, <2>1, <2>2, <2>3, <2>4, <2>5, OwnersFrame
<1> QED
  BY <1>4, <1>5, <1>6, <1>7, <1>8

-----------------------------------------------------------------------------
(* Steps that map the block just allocated.                                *)

\* The inode it is mapped in is in core; c is the other one in core.
LEMMA OwnersMapped ==
  ASSUME NEW S \in SUBSET Inodes, Owning(S), NEW m \in Logical,
         dinode' = dinode, ibits' = ibits, bbits' = bbits, Harmless(S), ioerrs' = ioerrs,
         pc \in {"content", "ezero"}, pc' \in {"entry", "block", "ewrite"},
         fresh \in Blocks, \A s \in Slots : dirents'[fresh][s].ino \notin S,
         target.num # 0, target.num # parent.num,
         target'.num = target.num, target'.mode = target.mode,
         parent'.num = parent.num, parent'.mode = parent.mode,
         \/ /\ dinode[target.num].addr[m] = 0 /\ target'.addr = [target.addr EXCEPT ![m] = fresh]
            /\ parent'.addr = parent.addr
         \/ /\ parent.num # 0 => dinode[parent.num].addr[m] = 0
            /\ parent'.addr = [parent.addr EXCEPT ![m] = fresh]
            /\ target'.addr = target.addr,
         OwnerTool(S)'
  PROVE  OwnersInv(S)'
<1>1. /\ OwnedOnce(S) /\ FreeIsNone(S) /\ StaleUnnamed(S) /\ CoreCovers /\ Apart /\ OwnerTool(S)
      /\ DiskTypeOK /\ target \in inode /\ parent \in inode
  BY OwningParts
<1>2. target.num \notin S /\ parent.num \notin S /\ 0 \notin S
  BY <1>1 DEF StaleUnnamed, Inodes
<1>3. /\ target.addr \in [Logical -> Blocks] /\ parent.addr \in [Logical -> Blocks]
      /\ \A n \in Inodes : dinode[n].addr \in [Logical -> Blocks]
  BY <1>1 DEF inode, DiskTypeOK, disk_inode
<1>4. OwnedOnce(S)'
  <2>1. \/ \A n \in Owners(S), l \in Logical :
             MapOf(n)'[l] = IF n = target.num /\ l = m THEN fresh ELSE MapOf(n)[l]
        \/ \A n \in Owners(S), l \in Logical :
             MapOf(n)'[l] = IF n = parent.num /\ l = m THEN fresh ELSE MapOf(n)[l]
    BY <1>3 DEF MapOf, Owners
  <2>2. pc' \notin {"bzero", "content", "ezero"} /\ pc \in {"bzero", "content", "ezero"}
    OBVIOUS
  <2>3. PICK t \in 0 .. NInodes - 1, u \in 0 .. NInodes - 1 : t = target.num /\ u = parent.num
    BY <1>1 DEF inode
  <2>4. CASE \A n \in Owners(S), l \in Logical :
               MapOf(n)'[l] = IF n = t /\ l = m THEN fresh ELSE MapOf(n)[l]
    BY <1>1, <2>2, <2>3, <2>4, OwnedMore
  <2>5. CASE \A n \in Owners(S), l \in Logical :
               MapOf(n)'[l] = IF n = u /\ l = m THEN fresh ELSE MapOf(n)[l]
    BY <1>1, <2>2, <2>3, <2>5, OwnedMore
  <2> QED
    BY <2>1, <2>3, <2>4, <2>5
<1>5. CoreCovers'
  <2>1. ~Dropped("target") /\ ~Dropped("parent")
    BY DEF Dropped, Putting
  <2>2. target.num \in Inodes /\ (parent.num # 0 => parent.num \in Inodes)
    BY <1>1 DEF inode, Inodes
  <2>3. Covered(target) /\ (parent.num # 0 => Covered(parent))
    BY <1>1, <2>1 DEF CoreCovers
  <2>4. (Covered(target) /\ (parent.num # 0 => Covered(parent)))'
    BY <1>3, <2>2, <2>3 DEF Covered
  <2> QED
    BY <1>1, <2>4 DEF CoreCovers, InUse
<1>6. Apart' /\ FreeIsNone(S)'
  BY <1>1 DEF Apart, FreeIsNone
<1>7. StaleUnnamed(S)'
  <2>1. \A n \in Owners(S) : Avoids(dirents', S, dinode[n])
    BY <1>1, <1>3, AvoidsKept DEF StaleUnnamed, Owners
  <2>2. Avoids(dirents', S, parent) /\ Avoids(dirents', S, target)
    BY <1>1, <1>2, <1>3, AvoidsKept DEF StaleUnnamed
  <2>3. Avoids(dirents', S, parent')
    BY <1>3, <2>2 DEF Avoids
  <2>4. Avoids(dirents', S, target')
    BY <1>3, <2>2 DEF Avoids
  <2> QED
    BY <1>1, <1>2, <2>1, <2>3, <2>4 DEF StaleUnnamed
<1> QED
  BY <1>4, <1>5, <1>6, <1>7 DEF OwnersInv

\* mkdir's first block, one of cp's, and add_entry's.
LEMMA OwnersGrow ==
  ASSUME NEW S \in SUBSET Inodes, Owning(S), WriteDotEntries \/ CopyChunk \/ AddEntryZeroes
  PROVE  OwnersInv(S)'
<1>1. /\ StaleUnnamed(S) /\ CoreCovers /\ OwnerTool(S)
      /\ InFlight /\ DiskTypeOK /\ ProcTypeOK /\ target \in inode /\ parent \in inode
      /\ core \in [Inodes2 -> inode]
  BY OwningParts
<1>2. /\ UNCHANGED args /\ who' = who /\ ioerrs' = ioerrs /\ fresh \in Blocks
      /\ pc \in {"content", "ezero"} /\ pc' \in {"entry", "block", "ewrite"}
  BY <1>1 DEF WriteDotEntries, CopyChunk, AddEntryZeroes, faults, InFlight
<1>3. /\ target.num # 0 /\ target.num # parent.num /\ dinode[target.num].addr = Unmapped
      /\ target.num \notin S /\ parent.num \notin S /\ 0 \notin S
  BY <1>1, <1>2 DEF OwnerTool, Started, Putting, StaleUnnamed, Inodes
<1>4. dirents \in [Blocks -> [Slots -> dirent]]
  BY <1>1 DEF DiskTypeOK
<1>5. CASE WriteDotEntries
  <2> DEFINE c == [target EXCEPT !.size = 2, !.nlink = 2, !.addr[0] = fresh]
  <2>1. /\ core' = [core EXCEPT !["target"] = c] /\ WriteDots(fresh, target.num, parent.num)
        /\ pc = "content" /\ pc' = "entry" /\ 0 \in Logical
    BY <1>5, GeometryAssumption DEF WriteDotEntries, target, parent, Logical
  <2>2. c.num = target.num /\ c.mode = target.mode /\ c.addr = [target.addr EXCEPT ![0] = fresh]
    BY <1>1 DEF inode
  <2> HIDE DEF c
  <2>3. target' = c /\ parent' = parent
    BY <1>1, <2>1, CoreFields
  <2>4. Harmless(S) /\ dinode' = dinode /\ ibits' = ibits /\ bbits' = bbits
    BY <1>1, <1>3, <2>1, HarmlessWrites DEF WriteDots
  <2>5. \A s \in Slots : dirents'[fresh][s].ino \notin S
    BY <1>1, <1>2, <2>1, <2>4 DEF Harmless, StaleUnnamed
  <2>6. OwnerTool(S)'
    BY <1>1, <1>2, <2>1, <2>2, <2>3, <2>4 DEF OwnerTool, Started, Putting, args
  <2>7. dinode[target.num].addr[0] = 0
    BY <1>3, <2>1 DEF Unmapped
  <2> QED
    BY <1>2, <1>3, <2>1, <2>2, <2>3, <2>4, <2>5, <2>6, <2>7, OwnersMapped
<1>6. CASE CopyChunk
  <2> DEFINE c == [target EXCEPT !.addr[k] = fresh]
  <2>1. /\ core' = [core EXCEPT !["target"] = c] /\ WriteChunk(fresh, k)
        /\ pc = "content" /\ pc' = "block" /\ tool = "cp"
    BY <1>6 DEF CopyChunk, target
  <2>2. c.num = target.num /\ c.mode = target.mode /\ c.addr = [target.addr EXCEPT ![k] = fresh]
    BY <1>1 DEF inode
  <2> HIDE DEF c
  <2>3. target' = c /\ parent' = parent
    BY <1>1, <2>1, CoreFields
  <2>4. Harmless(S) /\ dinode' = dinode /\ ibits' = ibits /\ bbits' = bbits /\ dirents' = dirents
    BY <1>1, <2>1, HarmlessWrites DEF WriteChunk
  <2>5. \A s \in Slots : dirents'[fresh][s].ino \notin S
    BY <1>1, <2>1, <2>4 DEF StaleUnnamed
  <2>6. OwnerTool(S)'
    BY <1>1, <1>2, <2>1, <2>2, <2>3, <2>4 DEF OwnerTool, Started, Putting, args
  <2>7. PICK m \in Logical : m = k
    <3>1. k < fsz
      BY <1>1, <2>1 DEF InFlight
    <3> QED
      BY <1>1, <3>1, IndexTypes
  <2>8. dinode[target.num].addr[m] = 0
    BY <1>3 DEF Unmapped
  <2> QED
    BY <1>2, <1>3, <2>1, <2>2, <2>3, <2>4, <2>5, <2>6, <2>7, <2>8, OwnersMapped
<1>7. CASE AddEntryZeroes
  <2> DEFINE c == [parent EXCEPT !.addr[k] = fresh]
  <2>1. /\ core' = [core EXCEPT !["parent"] = c] /\ zero_block(fresh)
        /\ pc = "ezero" /\ pc' = "ewrite"
    BY <1>7 DEF AddEntryZeroes, parent
  <2>2. c.num = parent.num /\ c.mode = parent.mode /\ c.addr = [parent.addr EXCEPT ![k] = fresh]
    BY <1>1 DEF inode
  <2> HIDE DEF c
  <2>3. parent' = c /\ target' = target
    BY <1>1, <2>1, CoreFields
  <2>4. Harmless(S) /\ dinode' = dinode /\ ibits' = ibits /\ bbits' = bbits
    BY <1>1, <2>1, HarmlessWrites DEF zero_block
  <2>5. \A s \in Slots : dirents'[fresh][s].ino \notin S
    <3>1. dirents'[fresh] = ZeroBlock
      BY <1>2, <1>4, <2>1 DEF zero_block
    <3>2. \A s \in Slots : ZeroBlock[s].ino \notin S
      BY <1>3 DEF ZeroBlock, NoEntry
    <3> QED
      BY <3>1, <3>2
  <2>6. OwnerTool(S)'
    BY <1>1, <1>2, <2>1, <2>2, <2>3, <2>4 DEF OwnerTool, Started, Putting, args
  <2>7. PICK m \in Logical : m = k
    BY <1>1, <2>1 DEF InFlight
  <2>8. parent.num # 0 => dinode[parent.num].addr[m] = 0
    <3>1. parent.num # 0 => Covered(parent)
      BY <1>1, <2>1 DEF CoreCovers, Dropped, Putting
    <3>2. parent.addr[k] = 0
      BY <1>1, <2>1 DEF OwnerTool
    <3> QED
      BY <2>7, <3>1, <3>2 DEF Covered
  <2> QED
    BY <1>2, <1>3, <2>1, <2>2, <2>3, <2>4, <2>5, <2>6, <2>7, <2>8, OwnersMapped
<1> QED
  BY <1>5, <1>6, <1>7

-----------------------------------------------------------------------------
(* The inode alloc_inode writes.                                           *)

\* It is written, and it can be read back or not: it is stale no longer.
LEMMA OwnersInit ==
  ASSUME NEW S \in SUBSET Inodes, Owning(S), InitInode \/ IoErrorReload,
         NEW n \in Inodes, n = fresh
  PROVE  OwnersInv(S \ {n})'
<1>1. /\ OwnedOnce(S) /\ FreeIsNone(S) /\ StaleUnnamed(S) /\ CoreCovers /\ Apart /\ OwnerTool(S)
      /\ InFlight /\ DiskTypeOK /\ ProcTypeOK /\ parent \in inode /\ core \in [Inodes2 -> inode]
  BY OwningParts
<1>2. /\ pc = "iwrite" /\ write_disk_inode(fresh, NewInode) /\ who' = "target" /\ base' = base
      /\ tool' = tool /\ pc' \in {"block", "put"}
  BY <1>1 DEF InitInode, IoErrorReload, error_handler, args, OwnerTool, Putting
<1>3. ioerrs \in Nat /\ (ioerrs' = ioerrs \/ ioerrs' = ioerrs + 1)
  <2>1. ioerrs \in 0 .. MaxIoErrs
    BY <1>1 DEF ProcTypeOK
  <2> QED
    BY <2>1, FaultAssumption DEF InitInode, IoErrorReload, IoError, faults
<1>4. /\ dinode' = [dinode EXCEPT ![n] = NewInode] /\ dirents' = dirents
      /\ ibits' = ibits /\ bbits' = bbits /\ dinode'[n] = NewInode
      /\ \A m \in Inodes \ {n} : dinode'[m] = dinode[m]
  BY <1>1, <1>2 DEF write_disk_inode, DiskTypeOK
<1>5. /\ target = NULL /\ parent.num # 0 /\ parent = get_inode(parent.num)
      /\ n # parent.num /\ n \in ibits /\ tool \in Creators
  BY <1>1, <1>2 DEF OwnerTool
<1>6. NewInode.addr = Unmapped /\ InCore(n, NewInode).addr = Unmapped /\ InCore(n, NewInode).num = n
  BY DEF NewInode, BlankInode, InCore
<1>7. /\ parent' = parent
      /\ \/ target' = InCore(n, NewInode) /\ pc' = "block"
         \/ target' = NULL /\ pc' = "put"
  <2>1. CASE InitInode
    BY <1>1, <2>1, CoreFields DEF InitInode
  <2>2. CASE IoErrorReload
    <3>1. error_handler(core)
      BY <2>2 DEF IoErrorReload
    <3>2. parent' = parent /\ (target.num = 0 => target' = target) /\ pc' = "put"
      BY <1>1, <3>1, HandlerFields
    <3> QED
      BY <1>5, <3>2 DEF NULL
  <2> QED
    BY <2>1, <2>2
<1>8. NULL.num = 0 /\ n # 0 /\ parent.num \in Inodes /\ 0 \notin S
  BY <1>1, <1>5 DEF NULL, Inodes, inode
<1>9. \A m \in Inodes : MapOf(m)' = IF m = n THEN Unmapped ELSE MapOf(m)
  BY <1>4, <1>5, <1>6, <1>7, <1>8 DEF MapOf, Inodes
<1>10. \A l \in Logical : Unmapped[l] = 0
  BY DEF Unmapped
<1>11. OwnedOnce(S \ {n})'
  <2>1. \A m \in Owners(S \ {n}), l \in Logical : MapOf(m)'[l] # 0 =>
          m \in Owners(S) /\ MapOf(m)'[l] = MapOf(m)[l] /\ MapOf(m)[l] \in bbits'
    BY <1>1, <1>4, <1>9, <1>10 DEF OwnedOnce, Owners
  <2>2. pc' \notin {"bzero", "content", "ezero"}
    BY <1>2
  <2> QED
    BY <1>1, <2>1, <2>2, OwnedKept
<1>12. CoreCovers'
  <2>1. Covered(parent) /\ InUse(parent)
    BY <1>1, <1>2, <1>5 DEF CoreCovers, Dropped, Putting
  <2>2. (Covered(parent) /\ InUse(parent))'
    BY <1>4, <1>5, <1>7, <1>8, <2>1 DEF Covered, InUse
  <2>3. target'.num # 0 => (Covered(target) /\ InUse(target))'
    BY <1>4, <1>5, <1>6, <1>7, <1>8 DEF Covered, InUse
  <2> QED
    BY <2>2, <2>3 DEF CoreCovers
<1>13. Apart' /\ FreeIsNone(S \ {n})'
  BY <1>1, <1>4, <1>5, <1>6, <1>7, <1>8 DEF Apart, FreeIsNone, Owners
<1>14. StaleUnnamed(S \ {n})'
  <2>1. \A m \in Owners(S \ {n}) : Avoids(dirents', S \ {n}, dinode'[m])
    BY <1>1, <1>4, <1>6, <1>10 DEF StaleUnnamed, Owners, Avoids
  <2>2. Avoids(dirents', S \ {n}, parent') /\ Avoids(dirents', S \ {n}, target')
    <3>1. NULL.addr = Unmapped
      BY DEF NULL
    <3> QED
      BY <1>1, <1>4, <1>6, <1>7, <1>10, <3>1 DEF StaleUnnamed, Avoids
  <2>3. target'.num \notin S \ {n} /\ parent'.num \notin S /\ ROOT_INODE \notin S /\ pc' # "content"
    BY <1>1, <1>2, <1>6, <1>7, <1>8 DEF StaleUnnamed
  <2>4. S \ {n} # {} => ioerrs' # 0
    BY <1>1, <1>3 DEF StaleUnnamed
  <2> QED
    BY <2>1, <2>2, <2>3, <2>4 DEF StaleUnnamed
<1>15. OwnerTool(S \ {n})'
  <2>1. target'.num # 0 => target'.num # parent'.num /\ dinode'[target'.num].addr = Unmapped
    BY <1>4, <1>5, <1>6, <1>7, <1>8
  <2> QED
    BY <1>1, <1>2, <1>5, <1>6, <1>7, <1>8, <2>1 DEF OwnerTool, Started, Putting
<1> QED
  BY <1>11, <1>12, <1>13, <1>14, <1>15 DEF OwnersInv

-----------------------------------------------------------------------------
(* rm's target.                                                            *)

\* What rm reads as its target is no stale inode, since an entry names it.
LEMMA OwnersTarget ==
  ASSUME NEW S \in SUBSET Inodes, Owning(S), NEW n \in Inodes, Target(n)
  PROVE  /\ n \notin S /\ target = NULL /\ parent.num \in Inodes /\ parent = get_inode(parent.num)
         /\ parent.mode = "dir" /\ dinode[parent.num].mode = "dir"
         /\ pc = "lookup" /\ tool = "rm" /\ who = "target"
<1>1. /\ StaleUnnamed(S) /\ OwnerTool(S) /\ parent \in inode
  BY OwningParts
<1>2. pc = "lookup" /\ tool = "rm" /\ search_dir(parent, base, n)
  BY DEF Target, parent
<1>3. /\ target = NULL /\ parent.num # 0 /\ parent = get_inode(parent.num) /\ who = "target"
  BY <1>1, <1>2 DEF OwnerTool, Putting
<1>4. parent.num \in Inodes
  BY <1>1, <1>3 DEF inode, Inodes
<1>5. n \notin S /\ parent.mode = "dir"
  BY <1>1, <1>2, FoundIsNamed DEF StaleUnnamed
<1>6. dinode[parent.num].mode = "dir"
  BY <1>3, <1>5, ReadInode
<1> QED
  BY <1>2, <1>3, <1>4, <1>5, <1>6

\* It is read: its links may be dropped, and its parent's.
LEMMA OwnersLoaded ==
  ASSUME NEW S \in SUBSET Inodes, Owning(S), NEW n \in Inodes, Target(n), UNCHANGED diskVars,
         target'.num = n, target'.addr = dinode[n].addr, target'.mode = dinode[n].mode,
         parent'.num = parent.num, parent'.addr = parent.addr, parent'.mode = parent.mode,
         who' = who, base' = base, ioerrs' # 0 \/ ioerrs' = ioerrs,
         \/ pc' = "detach" /\ n # parent.num
         \/ pc' = "put" /\ target' = get_inode(n) /\ parent' = parent
  PROVE  OwnersInv(S)'
<1>1. /\ OwnedOnce(S) /\ FreeIsNone(S) /\ StaleUnnamed(S) /\ OwnerTool(S) /\ UnlinkedIsBlank
      /\ DiskTypeOK /\ parent \in inode
  BY OwningParts
<1>2. /\ n \notin S /\ target = NULL /\ parent.num \in Inodes /\ parent = get_inode(parent.num)
      /\ dinode[parent.num].mode = "dir" /\ pc = "lookup" /\ who = "target"
  BY OwnersTarget
<1>3. /\ dinode' = dinode /\ dirents' = dirents /\ bbits' = bbits /\ ibits' = ibits
      /\ NULL.num = 0 /\ n # 0 /\ parent.addr = dinode[parent.num].addr
      /\ parent.mode = dinode[parent.num].mode /\ 0 \notin S
  BY <1>2, ReadInode DEF diskVars, NULL, Inodes
<1>4. \A m \in Inodes : MapOf(m)' = MapOf(m)
  <2>1. OnDiskAlready(target) /\ OnDiskAlready(parent)
        /\ OnDiskAlready(target)' /\ OnDiskAlready(parent)'
    BY <1>2, <1>3 DEF OnDiskAlready
  <2> QED
    BY <1>3, <2>1, MapOnDisk
<1>5. OwnedOnce(S)'
  <2>1. \A m \in Owners(S), l \in Logical : MapOf(m)'[l] # 0 =>
          m \in Owners(S) /\ MapOf(m)'[l] = MapOf(m)[l] /\ MapOf(m)[l] \in bbits'
    BY <1>1, <1>3, <1>4 DEF OwnedOnce, Owners
  <2>2. pc' \notin {"bzero", "content", "ezero"}
    OBVIOUS
  <2> QED
    BY <1>1, <2>1, <2>2, OwnedKept
<1>6. CoreCovers'
  <2>1. Covered(target)' /\ Covered(parent)'
    BY <1>2, <1>3 DEF Covered
  <2>2. InUse(target)' /\ InUse(parent)'
    BY <1>1, <1>2, <1>3 DEF InUse, FreeIsNone, Owners, StaleUnnamed
  <2> QED
    BY <2>1, <2>2 DEF CoreCovers
<1>7. Apart' /\ FreeIsNone(S)'
  <2>1. FreeIsNone(S)'
    BY <1>1, <1>3 DEF FreeIsNone
  <2>2. parent.nlink # 0
    <3>1. dinode[parent.num].nlink # 0
      BY <1>1, <1>2 DEF UnlinkedIsBlank, BlankInode
    <3> QED
      BY <1>2, <3>1, ReadInode
  <2>3. get_inode(parent.num)' = get_inode(parent.num)
    BY <1>3 DEF get_inode
  <2> QED
    BY <1>2, <2>1, <2>2, <2>3 DEF Apart
<1>8. StaleUnnamed(S)'
  <2>1. Avoids(dirents, S, dinode[n])
    BY <1>1, <1>2 DEF StaleUnnamed, Owners
  <2> QED
    BY <1>1, <1>2, <1>3, <2>1 DEF StaleUnnamed, Avoids
<1>9. OwnerTool(S)'
  BY <1>1, <1>2 DEF OwnerTool, Started, Putting
<1> QED
  BY <1>5, <1>6, <1>7, <1>8, <1>9 DEF OwnersInv

\* The fields rm changes.
LEMMA LoadedFields ==
  ASSUME NEW n \in Inodes, DiskTypeOK, NEW i
  PROVE  LET c == [get_inode(n) EXCEPT !.nlink = i]
         IN  c.num = n /\ c.addr = dinode[n].addr /\ c.mode = dinode[n].mode
  BY GetInodeType, ReadInode DEF inode

\* A file, or a directory that holds nothing but "." and "..": so it is not its own parent.
LEMMA OwnersRmFile ==
  ASSUME NEW S \in SUBSET Inodes, Owning(S), RmFile
  PROVE  OwnersInv(S)'
<1>1. DiskTypeOK /\ core \in [Inodes2 -> inode]
  BY OwningParts
<1>2. PICK n \in Inodes :
        /\ Target(n) /\ dinode[n].mode # "dir"
        /\ \E i : core' = [core EXCEPT !["target"] = [get_inode(n) EXCEPT !.nlink = i]]
  BY DEF RmFile
<1>7. PICK i : core' = [core EXCEPT !["target"] = [get_inode(n) EXCEPT !.nlink = i]]
  BY <1>2
<1>3. pc' = "detach" /\ UNCHANGED <<diskVars, base, who, ioerrs>>
  BY DEF RmFile, args, faults
<1>4. n # parent.num
  BY <1>2, OwnersTarget
<1> DEFINE c == [get_inode(n) EXCEPT !.nlink = i]
<1>5. c.num = n /\ c.addr = dinode[n].addr /\ c.mode = dinode[n].mode
  BY <1>1, LoadedFields
<1> HIDE DEF c
<1>6. target' = c /\ parent' = parent
  BY <1>1, <1>7, CoreFields DEF c
<1> QED
  BY <1>2, <1>3, <1>4, <1>5, <1>6, OwnersLoaded

\* rm takes a directory that looks empty: its own blocks, and those of its parent, keep
\* their owners, whether or not a block could be read.
LEMMA OwnersRmDir ==
  ASSUME NEW S \in SUBSET Inodes, Owning(S), NEW blocks, RmDirectory(blocks),
         \A n \in Inodes : Target(n) /\ dinode[n].mode = "dir" /\ Occupants(get_inode(n), blocks) = {}
           => n # parent.num,
         ioerrs' # 0 \/ ioerrs' = ioerrs
  PROVE  OwnersInv(S)'
<1>1. DiskTypeOK /\ core \in [Inodes2 -> inode] /\ parent \in inode
  BY OwningParts
<1>2. PICK n \in Inodes :
        /\ Target(n) /\ dinode[n].mode = "dir" /\ Occupants(get_inode(n), blocks) = {}
        /\ core' = [core EXCEPT !["target"] = [get_inode(n) EXCEPT !.nlink = 0],
                                !["parent"].nlink = Unlinked(@)]
  BY DEF RmDirectory
<1>3. pc' = "detach" /\ UNCHANGED <<diskVars, base, who>>
  BY DEF RmDirectory, args
<1>4. n # parent.num
  BY <1>2
<1> DEFINE c == [get_inode(n) EXCEPT !.nlink = 0]
           d == [parent EXCEPT !.nlink = Unlinked(parent.nlink)]
<1>5. c.num = n /\ c.addr = dinode[n].addr /\ c.mode = dinode[n].mode
  BY <1>1, LoadedFields
<1>6. d.num = parent.num /\ d.addr = parent.addr /\ d.mode = parent.mode
  BY <1>1 DEF inode
<1>7. target' = c /\ parent' = d
  BY <1>1, <1>2 DEF Inodes2, target, parent
<1> HIDE DEF c, d
<1> QED
  BY <1>2, <1>3, <1>4, <1>5, <1>6, <1>7, OwnersLoaded

\* So does rm of an empty directory of which every block was read.
LEMMA OwnersRmEmptyDir ==
  ASSUME NEW S \in SUBSET Inodes, Owning(S), RmEmptyDir
  PROVE  OwnersInv(S)'
<1>1. OwnerTool(S) /\ DiskTypeOK
  BY OwningParts
<1>2. RmDirectory(Logical) /\ ioerrs' = ioerrs
  BY DEF RmEmptyDir, faults
<1>3. ASSUME NEW n \in Inodes, Target(n), Occupants(get_inode(n), Logical) = {}, n = parent.num
      PROVE  FALSE
  <2>1. parent = get_inode(n) /\ parent.mode = "dir" /\ pc = "lookup"
    BY <1>3, OwnersTarget
  <2>2. base \notin Dots
    BY <1>1, <2>1 DEF OwnerTool
  <2>3. search_dir(parent, base, n) /\ n # 0
    BY <1>3 DEF Target, parent, Inodes
  <2>4. PICK p \in Hits(parent, base) : TRUE
    BY <2>1, <2>3, GeometryAssumption DEF search_dir, ENOTDIR, Inodes
  <2>5. /\ p \in Positions /\ parent.addr[p[1]] # 0 /\ EntryAt(parent, p).ino # 0
        /\ EntryAt(parent, p).name = base /\ p[1] \in Logical
    <3>1. p \in Positions /\ \A l \in 0 .. p[1] : parent.addr[l] # 0
      BY DEF Hits, Searched
    <3>2. p[1] \in 0 .. p[1] /\ p[1] \in Logical
      BY <3>1 DEF Positions, Logical
    <3> QED
      BY <3>1, <3>2 DEF Hits
  <2>6. p \in Occupants(parent, Logical)
    BY <2>2, <2>5 DEF Occupants, Mapped
  <2> QED
    BY <1>3, <2>1, <2>6
<1> QED
  BY <1>2, <1>3, OwnersRmDir

\* A directory that holds something is put back as it is, be it the parent itself.
LEMMA OwnersNotEmpty ==
  ASSUME NEW S \in SUBSET Inodes, Owning(S), RmNotEmpty
  PROVE  OwnersInv(S)'
<1>1. DiskTypeOK /\ core \in [Inodes2 -> inode]
  BY OwningParts
<1>2. PICK n \in Inodes :
        Target(n) /\ error_handler([core EXCEPT !["target"] = get_inode(n)])
  BY DEF RmNotEmpty
<1>3. tool = "rm" /\ who = "target"
  BY <1>2, OwnersTarget
<1>4. /\ core' = [core EXCEPT !["target"] = get_inode(n)]
      /\ pc' = "put" /\ who' = "target" /\ base' = base
  BY <1>2, <1>3 DEF error_handler, Creators, args
<1>5. target' = get_inode(n) /\ parent' = parent
  BY <1>1, <1>4, CoreFields
<1>6. UNCHANGED diskVars /\ ioerrs' = ioerrs
  BY DEF RmNotEmpty, faults
<1> QED
  BY <1>2, <1>3, <1>4, <1>5, <1>6, ReadInode, OwnersLoaded

-----------------------------------------------------------------------------
(* put_inode.                                                              *)

\* Of the inodes that put_inode is not giving back, the disk shows what is in core, or
\* less.
LEMMA DiskCovered ==
  ASSUME NEW S, Owning(S), NEW n \in Inodes, NEW l \in Logical,
         n # held.num \/ held.nlink # 0
  PROVE  dinode[n].addr[l] = 0 \/ dinode[n].addr[l] = MapOf(n)[l]
<1>1. CoreCovers /\ n # 0
  BY OwningParts DEF Inodes
<1>2. held = core[who] /\ target = core["target"] /\ parent = core["parent"]
  BY DEF held, target, parent
<1>3. CASE n = target.num
  <2>1. ~Dropped("target")
    BY <1>2, <1>3 DEF Dropped
  <2> QED
    BY <1>1, <1>3, <2>1 DEF CoreCovers, Covered, MapOf
<1>4. CASE n # target.num /\ n = parent.num
  <2>1. ~Dropped("parent")
    BY <1>2, <1>4 DEF Dropped
  <2> QED
    BY <1>1, <1>4, <2>1 DEF CoreCovers, Covered, MapOf
<1>5. CASE n # target.num /\ n # parent.num
  BY <1>5 DEF MapOf
<1> QED
  BY <1>3, <1>4, <1>5

\* Both in-core inodes are the same one only where put_inode just forgets them.
LEMMA HeldAlone ==
  ASSUME NEW S, Owning(S), pc \in Putting, held.num # 0, held.nlink = 0 \/ held.dirty = DIRTY
  PROVE  target.num # parent.num /\ held.num \in Inodes /\ MapOf(held.num) = held.addr
<1>1. /\ Apart /\ target \in inode /\ parent \in inode /\ core \in [Inodes2 -> inode] /\ ProcTypeOK
  BY OwningParts
<1>2. who \in Inodes2 /\ held = IF who = "target" THEN target ELSE parent
  BY <1>1 DEF ProcTypeOK, held, target, parent, Inodes2
<1>3. held.num \in Inodes
  BY <1>1, <1>2 DEF inode, Inodes
<1>4. ASSUME target.num = parent.num
      PROVE  FALSE
  <2>1. target.num # 0
    BY <1>2, <1>4
  <2>2. target = parent /\ parent = get_inode(parent.num) /\ parent.nlink # 0
    BY <1>1, <1>4, <2>1 DEF Apart
  <2>3. parent.dirty = CLEAN
    BY <2>2, ReadInode
  <2> QED
    BY <1>2, <2>2, <2>3 DEF CLEAN, DIRTY
<1> QED
  BY <1>2, <1>3, <1>4 DEF MapOf

\* put_inode returns: what it held is on the disk only.
LEMMA OwnersPutDone ==
  ASSUME NEW S \in SUBSET Inodes, Owning(S), PutDone, pc \in {"put", "ifree"},
         bbits' = bbits, dirents' = dirents, ioerrs' # 0 \/ ioerrs' = ioerrs,
         \A n \in Owners(S) : n \in ibits' \/ dinode'[n].mode = "none",
         \A n \in Owners(S) : Avoids(dirents, S, dinode'[n]),
         \A n \in Owners(S), l \in Logical :
           dinode'[n].addr[l] = 0 \/ dinode'[n].addr[l] = MapOf(n)[l],
         who = "target" /\ parent.num # 0 =>
           /\ parent.mode # "none" => parent.num \in ibits'
           /\ \A l \in Logical : dinode'[parent.num].addr[l] \in {0, parent.addr[l]}
  PROVE  OwnersInv(S)'
<1>1. /\ OwnedOnce(S) /\ StaleUnnamed(S) /\ Apart /\ OwnerTool(S)
      /\ ProcTypeOK /\ target \in inode /\ parent \in inode /\ core \in [Inodes2 -> inode]
  BY OwningParts
<1>2. /\ NULL.num = 0 /\ NULL.mode = "none" /\ 0 \notin S /\ 0 \notin Inodes
      /\ NoInodes["target"] = NULL /\ NoInodes["parent"] = NULL
  BY DEF NULL, NoInodes, Inodes
<1>3. /\ target' = NULL /\ pc' \in {"put", "idle"}
      /\ \/ pc' = "put" /\ parent' = parent /\ who = "target" /\ base' = base
         \/ pc' = "idle" /\ parent' = NULL /\ core' = NoInodes /\ who' = "target"
  <2>1. CASE who = "target"
    BY <1>1, <2>1, CoreFields DEF PutDone, args
  <2>2. CASE who # "target"
    BY <1>2, <2>2 DEF PutDone, Exit, target, parent
  <2> QED
    BY <2>1, <2>2
<1>4. \A n \in Inodes : MapOf(n)' = dinode'[n].addr \/ MapOf(n)' = MapOf(n)
  <2>1. target.num = parent.num /\ target.num # 0 => target = parent
    BY <1>1 DEF Apart
  <2> QED
    BY <1>2, <1>3, <2>1 DEF MapOf
<1>5. OwnedOnce(S)'
  <2>1. ASSUME NEW n \in Owners(S), NEW l \in Logical, MapOf(n)'[l] # 0
        PROVE  MapOf(n)'[l] = MapOf(n)[l] /\ MapOf(n)[l] \in bbits'
    <3>1. MapOf(n)'[l] = MapOf(n)[l]
      BY <1>4, <2>1 DEF Owners
    <3> QED
      BY <1>1, <2>1, <3>1 DEF OwnedOnce
  <2>2. pc' \notin {"bzero", "content", "ezero"}
    BY <1>3
  <2> QED
    BY <1>1, <2>1, <2>2, OwnedKept
<1>6. CoreCovers'
  BY <1>2, <1>3 DEF CoreCovers, Covered, InUse
<1>7. Apart' /\ FreeIsNone(S)'
  BY <1>2, <1>3 DEF Apart, FreeIsNone
<1>8. StaleUnnamed(S)'
  BY <1>1, <1>2, <1>3 DEF StaleUnnamed, Avoids
<1>9. OwnerTool(S)'
  BY <1>1, <1>3 DEF OwnerTool, Started, Putting
<1> QED
  BY <1>5, <1>6, <1>7, <1>8, <1>9 DEF OwnersInv

\* It wrote nothing, be it for a failed write.
LEMMA OwnersPutClean ==
  ASSUME NEW S \in SUBSET Inodes, Owning(S), pc = "put", PutDone, UNCHANGED diskVars,
         held.num = 0 \/ held.nlink > 0, ioerrs' # 0 \/ ioerrs' = ioerrs
  PROVE  OwnersInv(S)'
<1>1. /\ OwnedOnce(S) /\ FreeIsNone(S) /\ StaleUnnamed(S) /\ CoreCovers
      /\ core \in [Inodes2 -> inode] /\ target \in inode /\ parent \in inode
  BY OwningParts
<1>2. /\ dinode' = dinode /\ dirents' = dirents /\ bbits' = bbits /\ ibits' = ibits
  BY DEF diskVars
<1>3. held.num = 0 \/ held.nlink # 0
  BY SMT
<1>4. \A n \in Owners(S), l \in Logical :
        dinode'[n].addr[l] = 0 \/ dinode'[n].addr[l] = MapOf(n)[l]
  BY <1>2, <1>3, DiskCovered DEF Owners, Inodes
<1>5. \A n \in Owners(S) : n \in ibits' \/ dinode'[n].mode = "none"
  BY <1>1, <1>2 DEF FreeIsNone
<1>6. \A n \in Owners(S) : Avoids(dirents, S, dinode'[n])
  BY <1>1, <1>2 DEF StaleUnnamed
<1>7. who = "target" /\ parent.num # 0 => InUse(parent) /\ Covered(parent)
  BY <1>1 DEF CoreCovers, Dropped
<1> QED
  BY <1>2, <1>4, <1>5, <1>6, <1>7, OwnersPutDone DEF InUse, Covered

\* It wrote the inode.
LEMMA OwnersUpdate ==
  ASSUME NEW S \in SUBSET Inodes, Owning(S), update_inode
  PROVE  OwnersInv(S)'
<1>1. /\ OwnedOnce(S) /\ FreeIsNone(S) /\ StaleUnnamed(S) /\ CoreCovers /\ DiskTypeOK
      /\ core \in [Inodes2 -> inode] /\ target \in inode /\ parent \in inode /\ ProcTypeOK
  BY OwningParts
<1>2. /\ pc = "put" /\ held.num # 0 /\ held.nlink > 0 /\ held.dirty = DIRTY /\ PutDone
      /\ write_disk_inode(held.num, OnDisk(held)) /\ ioerrs' = ioerrs
  BY DEF update_inode, faults
<1>3. /\ target.num # parent.num /\ held.num \in Inodes /\ MapOf(held.num) = held.addr
      /\ pc \in Putting
  BY <1>2, HeldAlone DEF Putting
<1>4. /\ who \in Inodes2 /\ held = IF who = "target" THEN target ELSE parent
      /\ held \in inode
  BY <1>1 DEF ProcTypeOK, held, target, parent, Inodes2
<1>5. held.nlink # 0
  BY <1>2, SMT
<1>6. PICK n \in Inodes : n = held.num
  BY <1>3
<1>7. /\ dinode' = [dinode EXCEPT ![n] = OnDisk(held)] /\ dirents' = dirents /\ bbits' = bbits
      /\ ibits' = ibits /\ dinode'[n].addr = held.addr /\ dinode'[n].mode = held.mode
      /\ \A m \in Inodes \ {n} : dinode'[m] = dinode[m]
  BY <1>1, <1>2, <1>6 DEF write_disk_inode, DiskTypeOK, OnDisk
<1>8. n \notin S
  BY <1>1, <1>2, <1>4, <1>6 DEF StaleUnnamed
<1>9. \A m \in Owners(S), l \in Logical :
        dinode'[m].addr[l] = 0 \/ dinode'[m].addr[l] = MapOf(m)[l]
  <2> SUFFICES ASSUME NEW m \in Owners(S), NEW l \in Logical
               PROVE  dinode'[m].addr[l] = 0 \/ dinode'[m].addr[l] = MapOf(m)[l]
    OBVIOUS
  <2>1. CASE m = n
    BY <1>3, <1>6, <1>7, <2>1
  <2>2. CASE m # n
    BY <1>6, <1>7, <2>2, DiskCovered DEF Owners
  <2> QED
    BY <2>1, <2>2
<1>10. held.mode # "none" => n \in ibits
  BY <1>1, <1>2, <1>4, <1>6 DEF CoreCovers, InUse
<1>11. \A m \in Owners(S) : m \in ibits' \/ dinode'[m].mode = "none"
  BY <1>1, <1>7, <1>10 DEF FreeIsNone, Owners
<1>12. \A m \in Owners(S) : Avoids(dirents, S, dinode'[m])
  <2>1. Avoids(dirents, S, held)
    BY <1>1, <1>4, <1>6, <1>8 DEF StaleUnnamed
  <2> QED
    BY <1>1, <1>7, <2>1 DEF StaleUnnamed, Avoids, Owners
<1>13. who = "target" /\ parent.num # 0 =>
         /\ parent.mode # "none" => parent.num \in ibits'
         /\ \A l \in Logical : dinode'[parent.num].addr[l] \in {0, parent.addr[l]}
  <2> SUFFICES ASSUME who = "target", parent.num # 0
               PROVE  /\ parent.mode # "none" => parent.num \in ibits'
                      /\ \A l \in Logical : dinode'[parent.num].addr[l] \in {0, parent.addr[l]}
    OBVIOUS
  <2>1. InUse(parent) /\ Covered(parent)
    BY <1>1 DEF CoreCovers, Dropped
  <2>2. parent.num \in Inodes \ {n}
    BY <1>1, <1>3, <1>4, <1>6 DEF inode, Inodes
  <2> QED
    BY <1>7, <2>1, <2>2 DEF InUse, Covered
<1> QED
  BY <1>2, <1>7, <1>9, <1>11, <1>12, <1>13, OwnersPutDone

\* It released the inode, whose bit may stay set for a failed write.
LEMMA OwnersFreed ==
  ASSUME NEW S \in SUBSET Inodes, Owning(S), pc = "ifree", PutDone,
         ClearInodeBit(held.num) \/ UNCHANGED diskVars, ioerrs' # 0 \/ ioerrs' = ioerrs
  PROVE  OwnersInv(S)'
<1>1. /\ OwnedOnce(S) /\ FreeIsNone(S) /\ StaleUnnamed(S) /\ CoreCovers /\ DiskTypeOK /\ OwnerTool(S)
      /\ core \in [Inodes2 -> inode] /\ target \in inode /\ parent \in inode /\ ProcTypeOK
  BY OwningParts
<1>2. /\ dinode' = dinode /\ dirents' = dirents /\ bbits' = bbits
      /\ ibits' = ibits \/ ibits' = ibits \ {held.num}
  BY DEF ClearInodeBit, diskVars
<1>3. /\ held.num # 0 /\ held.nlink = 0
      /\ held.num \in S \/ dinode[held.num] = BlankInode
  BY <1>1 DEF OwnerTool
<1>4. target.num # parent.num /\ held.num \in Inodes /\ pc \in Putting
  BY <1>3, HeldAlone DEF Putting
<1>5. who \in Inodes2 /\ held = IF who = "target" THEN target ELSE parent
  BY <1>1 DEF ProcTypeOK, held, target, parent, Inodes2
<1>6. \A n \in Owners(S), l \in Logical :
        dinode'[n].addr[l] = 0 \/ dinode'[n].addr[l] = MapOf(n)[l]
  <2> SUFFICES ASSUME NEW n \in Owners(S), NEW l \in Logical
               PROVE  dinode[n].addr[l] = 0 \/ dinode[n].addr[l] = MapOf(n)[l]
    BY <1>2
  <2>1. CASE n = held.num
    BY <1>3, <2>1 DEF Owners, BlankInode, Unmapped
  <2>2. CASE n # held.num
    BY <2>2, DiskCovered DEF Owners
  <2> QED
    BY <2>1, <2>2
<1>7. \A n \in Owners(S) : n \in ibits' \/ dinode'[n].mode = "none"
  BY <1>1, <1>2, <1>3 DEF FreeIsNone, Owners, BlankInode
<1>8. \A n \in Owners(S) : Avoids(dirents, S, dinode'[n])
  BY <1>1, <1>2 DEF StaleUnnamed
<1>9. who = "target" /\ parent.num # 0 =>
        InUse(parent) /\ Covered(parent) /\ parent.num # held.num
  BY <1>1, <1>4, <1>5 DEF CoreCovers, Dropped
<1> QED
  BY <1>2, <1>6, <1>7, <1>8, <1>9, OwnersPutDone DEF InUse, Covered

\* truncate_inode: the next block is given back, if only in core.
LEMMA OwnersUnmap ==
  ASSUME NEW S \in SUBSET Inodes, Owning(S), NEW l \in Logical, Unmaps(l),
         pc' \in {"put", "pzero"}, ClearBlockBit(held.addr[l]) \/ UNCHANGED diskVars,
         ioerrs' # 0 \/ ioerrs' = ioerrs
  PROVE  OwnersInv(S)'
<1>1. /\ OwnedOnce(S) /\ FreeIsNone(S) /\ StaleUnnamed(S) /\ CoreCovers /\ Apart
      /\ DiskTypeOK /\ OwnerTool(S)
      /\ core \in [Inodes2 -> inode] /\ target \in inode /\ parent \in inode /\ ProcTypeOK
  BY OwningParts
<1>2. /\ pc = "put" /\ held.num # 0 /\ held.nlink = 0 /\ who' = who /\ base' = base
      /\ core' = [core EXCEPT ![who] = [@ EXCEPT !.addr[l] = 0]]
  BY DEF Unmaps, Releasing, args
<1>3. /\ dinode' = dinode /\ dirents' = dirents /\ ibits' = ibits
      /\ bbits' = bbits \/ bbits' = bbits \ {held.addr[l]}
  BY DEF ClearBlockBit, diskVars
<1>4. /\ target.num # parent.num /\ held.num \in Inodes /\ MapOf(held.num) = held.addr
      /\ pc \in Putting
  BY <1>2, HeldAlone DEF Putting
<1>5. who \in Inodes2 /\ held = core[who] /\ held \in inode
  BY <1>1 DEF ProcTypeOK, held, Inodes2
<1> DEFINE c == [held EXCEPT !.addr[l] = 0]
<1>6. /\ c.num = held.num /\ c.mode = held.mode /\ c.nlink = held.nlink
      /\ c.addr = [held.addr EXCEPT ![l] = 0]
  BY <1>5 DEF inode
<1>7. core' = [core EXCEPT ![who] = c]
  BY <1>2, <1>5
<1> HIDE DEF c
<1>8. /\ held' = c
      /\ \/ who = "target" /\ held = target /\ target' = c /\ parent' = parent
         \/ who = "parent" /\ held = parent /\ parent' = c /\ target' = target
  <2>1. held' = c
    BY <1>1, <1>2, <1>5, <1>7 DEF held
  <2>2. CASE who = "target"
    BY <1>1, <1>5, <1>7, <2>1, <2>2, CoreFields DEF target
  <2>3. CASE who = "parent"
    BY <1>1, <1>5, <1>7, <2>1, <2>3, CoreFields DEF parent
  <2> QED
    BY <1>5, <2>1, <2>2, <2>3 DEF Inodes2
<1>9. PICK n \in Inodes : n = held.num
  BY <1>4
<1>10. /\ held.addr \in [Logical -> Blocks] /\ c.addr[l] = 0
       /\ \A j \in Logical : j # l => c.addr[j] = held.addr[j]
  BY <1>5, <1>6 DEF inode
<1>11. n \in Owners(S)
  <2>1. n = target.num \/ n = parent.num
    BY <1>8, <1>9
  <2> QED
    BY <1>1, <1>2, <1>9, <2>1 DEF StaleUnnamed, Owners
<1>12. MapOf(n) = held.addr /\ MapOf(n)' = c.addr /\ \A m \in Inodes : m # n => MapOf(m)' = MapOf(m)
  BY <1>3, <1>4, <1>6, <1>8, <1>9 DEF MapOf
<1>13. OwnedOnce(S)'
  <2>1. ASSUME NEW m \in Owners(S), NEW j \in Logical, MapOf(m)'[j] # 0
        PROVE  MapOf(m)'[j] = MapOf(m)[j] /\ MapOf(m)[j] \in bbits'
    <3>1. MapOf(m)'[j] = MapOf(m)[j] /\ ~(m = n /\ j = l)
      BY <1>10, <1>12, <2>1 DEF Owners
    <3>2. MapOf(m)[j] \in bbits /\ MapOf(m)[j] # MapOf(n)[l]
      BY <1>1, <1>11, <2>1, <3>1 DEF OwnedOnce
    <3> QED
      BY <1>3, <1>12, <3>1, <3>2
  <2>2. pc' \notin {"bzero", "content", "ezero"}
    OBVIOUS
  <2> QED
    BY <1>1, <2>1, <2>2, OwnedKept
<1>14. CoreCovers'
  <2>1. Dropped(who)'
    BY <1>2, <1>6, <1>8 DEF Dropped, Putting
  <2>2. \A w \in Inodes2 : w # who => ~Dropped(w)
    BY DEF Dropped
  <2> QED
    BY <1>1, <1>2, <1>3, <1>6, <1>8, <2>1, <2>2 DEF CoreCovers, Covered, InUse, Inodes2
<1>15. Apart' /\ FreeIsNone(S)'
  BY <1>1, <1>3, <1>4, <1>6, <1>8 DEF Apart, FreeIsNone
<1>16. StaleUnnamed(S)'
  <2>1. Avoids(dirents, S, held)
    BY <1>1, <1>8, <1>9, <1>11 DEF StaleUnnamed, Owners
  <2>2. Avoids(dirents, S, c)
    BY <1>6, <1>10, <2>1 DEF Avoids
  <2>3. target.num \notin S
    BY <1>1, <1>2 DEF StaleUnnamed
  <2>4. /\ ROOT_INODE \notin S /\ parent.num \notin S /\ (S # {} => ioerrs' # 0)
        /\ \A m \in Owners(S) : Avoids(dirents', S, dinode'[m])
    BY <1>1, <1>3 DEF StaleUnnamed
  <2>5. /\ target'.num = target.num /\ parent'.num = parent.num
    BY <1>6, <1>8
  <2>6. Avoids(dirents', S, parent') /\ Avoids(dirents', S, target')
    BY <1>1, <1>3, <1>8, <2>2, <2>3 DEF StaleUnnamed
  <2> QED
    BY <2>3, <2>4, <2>5, <2>6 DEF StaleUnnamed
<1>17. OwnerTool(S)'
  BY <1>1, <1>2, <1>6, <1>8 DEF OwnerTool, Started, Putting
<1> QED
  BY <1>13, <1>14, <1>15, <1>16, <1>17 DEF OwnersInv

\* The inode is blanked before its bit is cleared: in core it maps nothing already.
LEMMA OwnersBlankOut ==
  ASSUME NEW S \in SUBSET Inodes, Owning(S), BlankOut
  PROVE  OwnersInv(S)'
<1>1. /\ OwnedOnce(S) /\ FreeIsNone(S) /\ StaleUnnamed(S) /\ CoreCovers /\ Apart
      /\ DiskTypeOK /\ OwnerTool(S)
      /\ core \in [Inodes2 -> inode] /\ target \in inode /\ parent \in inode /\ ProcTypeOK
  BY OwningParts
<1>2. /\ pc = "put" /\ pc' = "ifree" /\ held.num # 0 /\ held.nlink = 0 /\ Holes(held) = Logical
      /\ UNCHANGED args /\ core' = core /\ who' = who /\ ioerrs' = ioerrs
      /\ write_disk_inode(held.num, Released)
  BY DEF BlankOut, Releasing, faults
<1>3. /\ target.num # parent.num /\ held.num \in Inodes /\ MapOf(held.num) = held.addr
  BY <1>2, HeldAlone DEF Putting
<1>4. who \in Inodes2 /\ held = IF who = "target" THEN target ELSE parent
  BY <1>1 DEF ProcTypeOK, held, target, parent, Inodes2
<1>5. Released = BlankInode
  BY <1>1, <1>2, ReleasedIsBlank
<1>6. PICK n \in Inodes : n = held.num
  BY <1>3
<1>7. /\ dirents' = dirents /\ bbits' = bbits /\ ibits' = ibits
      /\ dinode'[n] = BlankInode /\ \A m \in Inodes \ {n} : dinode'[m] = dinode[m]
      /\ held' = held /\ target' = target /\ parent' = parent
  <2>1. target' = target /\ parent' = parent /\ held' = held
    BY <1>1, <1>2, CoreFields DEF held
  <2> QED
    BY <1>1, <1>2, <1>5, <1>6, <2>1 DEF write_disk_inode, DiskTypeOK
<1>8. n \notin S /\ target.num \notin S /\ parent.num \notin S /\ (n = target.num \/ n = parent.num)
  BY <1>1, <1>2, <1>4, <1>6 DEF StaleUnnamed
<1>9. \A m \in Inodes : MapOf(m)' = MapOf(m)
  BY <1>7, <1>8 DEF MapOf
<1>10. OwnedOnce(S)'
  <2>1. \A m \in Owners(S), l \in Logical : MapOf(m)'[l] # 0 =>
          m \in Owners(S) /\ MapOf(m)'[l] = MapOf(m)[l] /\ MapOf(m)[l] \in bbits'
    BY <1>1, <1>7, <1>9 DEF OwnedOnce, Owners
  <2>2. pc' \notin {"bzero", "content", "ezero"}
    BY <1>2
  <2> QED
    BY <1>1, <2>1, <2>2, OwnedKept
<1>11. CoreCovers'
  <2>1. ASSUME NEW c, Covered(c), c.num \in Inodes
        PROVE  \A l \in Logical : dinode'[c.num].addr[l] \in {0, c.addr[l]}
    <3>1. CASE c.num = n
      BY <1>7, <3>1 DEF BlankInode, Unmapped
    <3>2. CASE c.num # n
      BY <1>7, <2>1, <3>2 DEF Covered
    <3> QED
      BY <3>1, <3>2
  <2>2. /\ target.num # 0 => target.num \in Inodes
        /\ parent.num # 0 => parent.num \in Inodes
    BY <1>1 DEF inode, Inodes
  <2>3. \A w \in Inodes2 : Dropped(w) => Dropped(w)'
    BY <1>2, <1>7 DEF Dropped, Putting
  <2>4. target.num # 0 /\ Covered(target) => Covered(target)'
    BY <1>7, <2>1, <2>2 DEF Covered
  <2>5. parent.num # 0 /\ Covered(parent) => Covered(parent)'
    BY <1>7, <2>1, <2>2 DEF Covered
  <2> QED
    BY <1>1, <1>7, <2>3, <2>4, <2>5 DEF CoreCovers, InUse, Inodes2
<1>12. Apart' /\ FreeIsNone(S)'
  BY <1>1, <1>3, <1>7 DEF Apart, FreeIsNone, Owners, BlankInode
<1>13. StaleUnnamed(S)'
  <2>1. \A m \in Owners(S) : Avoids(dirents', S, dinode'[m])
    BY <1>1, <1>7 DEF StaleUnnamed, Owners, Avoids, BlankInode
  <2> QED
    BY <1>1, <1>2, <1>7, <1>8, <2>1 DEF StaleUnnamed
<1>14. OwnerTool(S)'
  BY <1>1, <1>2, <1>6, <1>7 DEF OwnerTool, Started, Putting, args
<1> QED
  BY <1>10, <1>11, <1>12, <1>13, <1>14 DEF OwnersInv

-----------------------------------------------------------------------------
(* Where no read or write has failed before, the tree is clean.            *)

\* No directory of the tree holds its own entry.
LEMMA NotItself ==
  ASSUME NEW L, LiveDisk(L), Least(L, Table, Dirs), NEW n \in L \cap Dirs, n # ROOT_INODE,
         NEW q \in Kids(Table, n), Table[n][q].ino = n
  PROVE  FALSE
<1>1. /\ KidsStay(L, Table, Dirs) /\ KidsOnce(L, Table, Dirs)
      /\ \A S \in SUBSET L : ROOT_INODE \in S /\ Closed(S, Table, Dirs) => S = L
      /\ ROOT_INODE \in L
  BY DEF LiveDisk, TreeOf, InodesOf, Least
<1>2. Closed(L \ {n}, Table, Dirs)
  <2> SUFFICES ASSUME NEW d \in (L \ {n}) \cap Dirs, NEW r \in Kids(Table, d)
               PROVE  Table[d][r].ino \in L \ {n}
    BY DEF Closed
  <2>1. Table[d][r].ino \in L
    BY <1>1 DEF KidsStay
  <2>2. Table[d][r].ino # n
    BY <1>1 DEF KidsOnce
  <2> QED
    BY <2>1, <2>2
<1>3. L \ {n} \in SUBSET L /\ ROOT_INODE \in L \ {n}
  BY <1>1
<1>4. L \ {n} = L
  BY <1>1, <1>2, <1>3
<1> QED
  BY <1>4

\* rm misses the entries of a block it cannot read; its target is not its parent all the
\* same.
LEMMA OwnersRmUnread ==
  ASSUME NEW S \in SUBSET Inodes, Owning(S), CleanTree, IoErrorInRm
  PROVE  OwnersInv(S)'
<1>1. PICK L \in SUBSET Inodes : LiveInv(L) /\ MarksInv(L)
  BY DEF CleanTree
<1>2. Before(L) /\ Least(L, Table, Dirs) /\ LiveDisk(L)
  BY <1>1 DEF Before, Owning, MarksInv, LiveInv
<1>3. PICK blocks : RmDirectory(blocks)
  BY DEF IoErrorInRm
<1>4. ioerrs' # 0
  <2>1. ioerrs \in 0 .. MaxIoErrs
    BY OwningParts DEF ProcTypeOK
  <2> QED
    BY <2>1, FaultAssumption DEF IoErrorInRm, IoError
<1>5. ASSUME NEW n \in Inodes, Target(n), n = parent.num
      PROVE  FALSE
  <2>1. /\ n \in L \cap Dirs /\ n # ROOT_INODE
        /\ \E q \in Kids(Table, n) : Table[n][q] = [ino |-> n, name |-> base]
    BY <1>2, <1>5, TargetLive
  <2>2. PICK q \in Kids(Table, n) : Table[n][q].ino = n
    BY <2>1
  <2> QED
    BY <1>2, <2>1, <2>2, NotItself
<1> QED
  BY <1>3, <1>4, <1>5, OwnersRmDir

\* What put_inode gives back no entry names.
LEMMA ReleasedUnnamed ==
  ASSUME Owning({}), CleanTree, pc = "put", held.num # 0, held.nlink = 0
  PROVE  /\ who = "target" /\ held = target /\ target.num \in Inodes
         /\ target.num # ROOT_INODE /\ target.num # parent.num
         /\ \A n \in Inodes \ {target.num} : Avoids(dirents, {target.num}, dinode[n])
         /\ Avoids(dirents, {target.num}, parent)
<1>1. PICK L \in SUBSET Inodes : LiveInv(L) /\ MarksInv(L)
  BY DEF CleanTree
<1>2. Before(L) /\ LiveDisk(L) /\ InodesMarked(L) /\ L \subseteq Inodes
  BY <1>1 DEF Before, Owning, MarksInv, LiveInv
<1>3. pc \in Putting
  BY DEF Putting
<1>4. who = "target" /\ held = target /\ ToRelease(L)
  BY <1>2, <1>3, ReleasesTarget
<1>5. /\ parent.num \in L /\ target.num \notin L /\ Settled(L) /\ ROOT_INODE \in L
  BY <1>2, <1>3, <1>4, PuttingTool DEF ToRelease, LiveDisk, InodesOf
<1>6. /\ FreeIsNone({}) /\ DiskTypeOK /\ target \in inode
  BY OwningParts
<1>7. target.num \in Inodes
  BY <1>4, <1>6 DEF inode, Inodes
<1>8. ASSUME NEW n \in L, dinode[n].mode = "dir"
      PROVE  Avoids(dirents, {target.num}, dinode[n])
  <2> SUFFICES ASSUME NEW l \in Logical, NEW s \in Slots, dinode[n].addr[l] # 0
               PROVE  dirents[dinode[n].addr[l]][s].ino # target.num
    BY DEF Avoids
  <2>1. PICK q \in Positions : q = <<l, s>>
    BY DEF Positions
  <2>2. n \in L \cap Dirs /\ n \in Inodes /\ q[1] = l /\ q[2] = s
    BY <1>2, <1>8, <2>1 DEF Dirs
  <2>3. Table[n][q] = dirents[dinode[n].addr[l]][s]
    BY <1>6, <2>2, EntryTypesInTable DEF EntryAt
  <2>4. Table[n][q].ino = 0 \/ Table[n][q].ino \in L
    BY <1>2, <2>2, EntriesLive
  <2> QED
    BY <1>4, <1>5, <2>3, <2>4
<1>9. ASSUME NEW n \in Inodes \ {target.num}
      PROVE  Avoids(dirents, {target.num}, dinode[n])
  <2>1. CASE dinode[n].mode = "dir"
    <3>1. n \in ibits /\ n # 0
      BY <1>6, <2>1 DEF FreeIsNone, Owners, Inodes
    <3>2. n \in L
      BY <1>2, <1>4, <3>1 DEF InodesMarked, Appears
    <3> QED
      BY <1>8, <2>1, <3>2
  <2>2. CASE dinode[n].mode # "dir"
    BY <2>2 DEF Avoids
  <2> QED
    BY <2>1, <2>2
<1>10. Avoids(dirents, {target.num}, parent)
  <2>1. parent.addr = dinode[parent.num].addr /\ parent.mode = dinode[parent.num].mode
    BY <1>5 DEF Settled
  <2>2. parent.mode = "dir" => Avoids(dirents, {target.num}, dinode[parent.num])
    BY <1>5, <1>8, <2>1
  <2> QED
    BY <2>1, <2>2 DEF Avoids
<1> QED
  BY <1>4, <1>5, <1>7, <1>9, <1>10

\* put_inode could not blank it: it maps blocks that are no longer its own, and stays so.
LEMMA OwnersBlankFails ==
  ASSUME Owning({}), CleanTree, Releasing, pc' = "ifree", UNCHANGED diskVars,
         UNCHANGED <<args, core, who>>, ioerrs' # 0
  PROVE  OwnersKept'
<1>1. /\ OwnedOnce({}) /\ FreeIsNone({}) /\ StaleUnnamed({}) /\ CoreCovers /\ Apart /\ OwnerTool({})
      /\ core \in [Inodes2 -> inode]
  BY OwningParts
<1>2. /\ pc = "put" /\ held.num # 0 /\ held.nlink = 0
      /\ dinode' = dinode /\ dirents' = dirents /\ bbits' = bbits /\ ibits' = ibits
      /\ who' = who /\ base' = base
  BY DEF Releasing, diskVars, args
<1>3. /\ who = "target" /\ held = target /\ target.num \in Inodes
      /\ target.num # ROOT_INODE /\ target.num # parent.num
      /\ \A n \in Inodes \ {target.num} : Avoids(dirents, {target.num}, dinode[n])
      /\ Avoids(dirents, {target.num}, parent)
  BY <1>2, ReleasedUnnamed
<1>4. target' = target /\ parent' = parent /\ held' = held
  BY <1>1, CoreFields DEF held
<1>5. PICK n \in Inodes : n = target.num
  BY <1>3
<1> DEFINE S == {n}
<1>6. Owners(S) \subseteq Owners({}) /\ \A m \in Inodes : MapOf(m)' = MapOf(m)
  BY <1>2, <1>4 DEF Owners, MapOf
<1>7. OwnedOnce(S)'
  <2>1. \A m \in Owners(S), l \in Logical : MapOf(m)'[l] # 0 =>
          m \in Owners({}) /\ MapOf(m)'[l] = MapOf(m)[l] /\ MapOf(m)[l] \in bbits'
    BY <1>1, <1>2, <1>6 DEF OwnedOnce, Owners
  <2> QED
    BY <1>1, <2>1, OwnedKept
<1>8. CoreCovers'
  BY <1>1, <1>2, <1>4 DEF CoreCovers, Covered, InUse, Dropped, Putting
<1>9. Apart' /\ FreeIsNone(S)'
  BY <1>1, <1>2, <1>3, <1>4, <1>6 DEF Apart, FreeIsNone
<1>10. StaleUnnamed(S)'
  BY <1>2, <1>3, <1>4, <1>5 DEF StaleUnnamed, Owners
<1>11. OwnerTool(S)'
  BY <1>1, <1>2, <1>3, <1>4, <1>5 DEF OwnerTool, Started, Putting
<1> QED
  BY <1>7, <1>8, <1>9, <1>10, <1>11 DEF OwnersKept, OwnersInv

-----------------------------------------------------------------------------
(* Every step.                                                             *)

\* One read or write fails at most, and none has failed before.
LEMMA FirstFailure ==
  ASSUME OneIoError, ProcTypeOK, IoError
  PROVE  ioerrs = 0 /\ ioerrs' = 1
<1>1. ioerrs \in 0 .. MaxIoErrs /\ MaxIoErrs \in Nat /\ MaxIoErrs <= 1
  BY FaultAssumption DEF ProcTypeOK, OneIoError
<1> QED
  BY <1>1 DEF IoError

\* A step that fails without a write.
LEMMA OwnersFails ==
  ASSUME NEW S \in SUBSET Inodes, Owning(S),
         \/ WalkFails \/ CreateLookupFails \/ NoFreeInode \/ NoFreeBlock \/ HostFails
         \/ AddEntryFails \/ RmLookupFails \/ IoErrorFails
  PROVE  OwnersInv(S)'
<1>1. /\ error_handler(core) /\ UNCHANGED diskVars /\ pc # "idle" /\ pc \notin Putting
      /\ ioerrs' = ioerrs \/ IoError
  BY DEF WalkFails, CreateLookupFails, NoFreeInode, NoFreeBlock, HostFails, AddEntryFails,
     RmLookupFails, IoErrorFails, faults, Putting
<1>2. S # {} => ioerrs' # 0
  <2>1. ioerrs \in 0 .. MaxIoErrs /\ (S # {} => ioerrs # 0)
    BY OwningParts DEF ProcTypeOK, StaleUnnamed
  <2> QED
    BY <1>1, <2>1, FaultAssumption DEF IoError
<1> QED
  BY <1>1, <1>2, OwnersHandled

\* put_inode, when nothing fails.
LEMMA OwnersPut ==
  ASSUME NEW S \in SUBSET Inodes, Owning(S), put_inode
  PROVE  OwnersInv(S)'
<1>1. CASE PutClean
  <2>1. /\ pc = "put" /\ PutDone /\ UNCHANGED diskVars /\ (held.num = 0 \/ held.nlink > 0)
        /\ ioerrs' = ioerrs
    BY <1>1 DEF PutClean, faults
  <2> QED
    BY <2>1, OwnersPutClean
<1>2. CASE free_block
  <2>1. PICK l \in Logical :
          /\ Unmaps(l) /\ pc' \in {"put", "pzero"}
          /\ ClearBlockBit(held.addr[l]) \/ UNCHANGED diskVars
    BY <1>2 DEF free_block
  <2>2. ioerrs' = ioerrs
    BY <1>2 DEF free_block, faults
  <2> QED
    BY <2>1, <2>2, OwnersUnmap
<1>3. CASE free_inode
  <2>1. pc = "ifree" /\ ClearInodeBit(held.num) /\ PutDone /\ ioerrs' = ioerrs
    BY <1>3 DEF free_inode, faults
  <2> QED
    BY <2>1, OwnersFreed
<1> QED
  BY <1>1, <1>2, <1>3, OwnersUpdate, OwnersWrite, OwnersBlankOut DEF put_inode

\* And when it is put_inode's write that fails.
LEMMA OwnersPutFails ==
  ASSUME Owning({}), CleanTree, IoErrorInPut, ioerrs' # 0
  PROVE  OwnersKept'
<1>1. IoError /\ UNCHANGED diskVars
  BY DEF IoErrorInPut
<1>2. CASE pc = "put" /\ held.num # 0 /\ held.nlink > 0 /\ held.dirty = DIRTY /\ PutDone
  <2>1. OwnersInv({})'
    BY <1>1, <1>2, OwnersPutClean
  <2> QED
    BY <2>1 DEF OwnersKept
<1>3. CASE \E l \in Logical : Unmaps(l) /\ pc' = "put" /\ fresh' = 0
  <2>1. PICK l \in Logical : Unmaps(l) /\ pc' = "put"
    BY <1>3
  <2>2. OwnersInv({})'
    BY <1>1, <2>1, OwnersUnmap
  <2> QED
    BY <2>2 DEF OwnersKept
<1>4. CASE pc = "pzero" /\ pc' = "put" /\ fresh' = 0 /\ UNCHANGED <<args, core, who, k, status>>
  <2>1. OwnersInv({})'
    BY <1>1, <1>4, OwnersWrite
  <2> QED
    BY <2>1 DEF OwnersKept
<1>5. CASE /\ Releasing /\ Holes(held) = Logical /\ pc' = "ifree"
           /\ UNCHANGED <<args, core, who, fresh, k, status>>
  BY <1>1, <1>5, OwnersBlankFails
<1>6. CASE pc = "ifree" /\ PutDone
  <2>1. OwnersInv({})'
    BY <1>1, <1>6, OwnersFreed
  <2> QED
    BY <2>1 DEF OwnersKept
<1> QED
  BY <1>2, <1>3, <1>4, <1>5, <1>6 DEF IoErrorInPut

\* Whatever fails, or does not.
LEMMA OwnersStep ==
  ASSUME OneIoError, Inv, UnlinkedIsBlank, OwnersKept, CleanUntilError, [Next]_vars
  PROVE  OwnersKept'
<1>1. PICK S \in SUBSET Inodes : OwnersInv(S)
  BY DEF OwnersKept
<1>2. Owning(S) /\ ProcTypeOK /\ InFlight /\ OwnerTool(S)
  BY <1>1, OwningParts DEF Owning, Inv, TypeOK, OwnersInv
<1>3. OwnersInv(S)' => OwnersKept'
  BY DEF OwnersKept
<1>4. CASE Start \/ WalkDown \/ WalkFails \/ WalkEnds
  BY <1>2, <1>3, <1>4, OwnersWalk, OwnersFails
<1>5. ASSUME InitInode \/ IoErrorReload
      PROVE  OwnersKept'
  <2>1. PICK n \in Inodes : n = fresh
    BY <1>2, <1>5 DEF InFlight, InitInode, IoErrorReload
  <2>2. OwnersInv(S \ {n})'
    BY <1>2, <1>5, <2>1, OwnersInit
  <2>3. S \ {n} \in SUBSET Inodes
    OBVIOUS
  <2> QED
    BY <2>2, <2>3 DEF OwnersKept
<1>6. CASE Create
  BY <1>2, <1>3, <1>5, <1>6, OwnersWalk, OwnersFails, OwnersAlloc, OwnersWrite, OwnersGrow DEF Create
<1>7. CASE Remove
  BY <1>2, <1>3, <1>7, OwnersFails, OwnersRmFile, OwnersRmEmptyDir, OwnersNotEmpty, OwnersWrite
     DEF Remove
<1>8. CASE put_inode
  BY <1>2, <1>3, <1>8, OwnersPut
<1>9. CASE Fault
  <2>1. ~Kill
    <3>1. kills \in 0 .. MaxKills /\ MaxKills = 0
      BY <1>2 DEF ProcTypeOK, OneIoError
    <3> QED
      BY <3>1 DEF Kill
  <2>2. CASE IoErrorFails \/ IoErrorReload
    BY <1>2, <1>3, <1>5, <2>2, OwnersFails
  <2>3. CASE IoErrorInRm \/ IoErrorInPut
    <3>1. IoError
      BY <2>3 DEF IoErrorInRm, IoErrorInPut
    <3>2. ioerrs = 0 /\ ioerrs' # 0
      BY <1>2, <3>1, FirstFailure
    <3>3. CleanTree
      BY <3>2 DEF CleanUntilError
    <3>4. S = {}
      BY <1>1, <3>2 DEF OwnersInv, StaleUnnamed
    <3>5. Owning({})
      BY <1>2, <3>4
    <3> QED
      BY <1>2, <1>3, <2>3, <3>2, <3>3, <3>5, OwnersRmUnread, OwnersPutFails
  <2> QED
    BY <1>9, <2>1, <2>2, <2>3 DEF Fault
<1>10. CASE UNCHANGED vars
  <2>1. OwnersInv(S)'
    BY <1>1, <1>10 DEF vars, OwnersInv, OwnedOnce, CoreCovers, Covered, InUse, Dropped, Apart, FreeIsNone,
       StaleUnnamed, OwnerTool, MapOf, target, parent, held, get_inode
  <2> QED
    BY <1>3, <2>1
<1> QED
  BY <1>4, <1>6, <1>7, <1>8, <1>9, <1>10 DEF Next, Step

\* As long as none has failed, the tree stays clean.
LEMMA CleanUntilStep ==
  ASSUME OneIoError, Inv, UnlinkedIsBlank, CleanUntilError, [Next]_vars
  PROVE  CleanUntilError'
<1> SUFFICES ASSUME ioerrs' = 0
             PROVE  CleanTree'
  BY DEF CleanUntilError
<1>1. ProcTypeOK /\ MaxKills = 0
  BY DEF Inv, TypeOK, OneIoError
<1>2. ~IoError
  BY <1>1, FirstFailure
<1>3. ~Kill
  <2>1. kills \in 0 .. MaxKills
    BY <1>1 DEF ProcTypeOK
  <2> QED
    BY <1>1, <2>1 DEF Kill
<1>4. ~Fault
  BY <1>2, <1>3 DEF Fault, IoErrorFails, IoErrorReload, IoErrorInRm, IoErrorInPut
<1>5. ioerrs = 0
  BY <1>4 DEF vars, Next, Start, Invoke, Step, WalkDown, WalkFails, WalkEnds, Create, CreateLookup,
     CreateLookupFails, alloc_inode, NoFreeInode, InitInode, alloc_block, NoFreeBlock, HostFails,
     ZeroFresh, WriteDotEntries, CopyChunk, FileCopied, AddEntryInSlot, AddEntryAllocates,
     AddEntryZeroes, AddEntryInNewBlock, AddEntryFails, Remove, RmLookupFails, RmFile, RmEmptyDir,
     RmNotEmpty, detach_entry, put_inode, PutClean, update_inode, free_block, ZeroFreed, BlankOut,
     free_inode, faults
<1>6. CleanTree
  BY <1>5 DEF CleanUntilError
<1> QED
  BY <1>1, <1>4, <1>6, CleanStep

\* The image mkfs leaves behind: the root owns a block.
LEMMA OwnersStart == Init => OwnersKept /\ CleanUntilError
<1> SUFFICES ASSUME Init
             PROVE  OwnersInv({}) /\ CleanUntilError
  BY DEF OwnersKept
<1>1. /\ ibits = {0, ROOT_INODE} /\ bbits = 0 .. FirstData /\ pc = "idle" /\ core = NoInodes
      /\ who = "target"
      /\ dinode = [n \in Inodes |-> IF n = ROOT_INODE THEN RootInode ELSE BlankInode]
  BY DEF Init, mkfs
<1>2. target = NULL /\ parent = NULL /\ NULL.num = 0 /\ NULL.mode = "none"
  BY <1>1 DEF target, parent, NoInodes, NULL
<1>3. \A n \in Inodes : MapOf(n) = dinode[n].addr /\ n # 0
  BY <1>2 DEF MapOf, Inodes
<1>4. \A n \in Inodes, l \in Logical :
        dinode[n].addr[l] = IF n = ROOT_INODE /\ l = 0 THEN FirstData ELSE 0
  BY <1>1 DEF RootInode, BlankInode, Unmapped
<1>5. FirstData \in bbits
  BY <1>1, GeometryAssumption
<1>6. OwnedOnce({})
  <2>1. \A n \in Inodes, l \in Logical : MapOf(n)[l] # 0 => MapOf(n)[l] \in bbits
    BY <1>3, <1>4, <1>5
  <2>2. \A m, n \in Inodes, l, j \in Logical :
          MapOf(m)[l] # 0 /\ MapOf(m)[l] = MapOf(n)[j] => m = n /\ l = j
    BY <1>3, <1>4
  <2> QED
    BY <1>1, <2>1, <2>2 DEF OwnedOnce, Owners
<1>7. CoreCovers /\ Apart /\ OwnerTool({})
  BY <1>1, <1>2 DEF CoreCovers, Apart, OwnerTool, Started, Putting
<1>8. FreeIsNone({})
  BY <1>1 DEF FreeIsNone, Owners, BlankInode
<1>9. StaleUnnamed({})
  BY <1>1 DEF StaleUnnamed, Avoids
<1>10. CleanUntilError
  BY CleanStart DEF CleanUntilError
<1> QED
  BY <1>6, <1>7, <1>8, <1>9, <1>10 DEF OwnersInv

-----------------------------------------------------------------------------
(* At rest the disk tells who owns what.                                   *)

\* No reachable inode is stale, and each maps what it does on the disk.
LEMMA OwnersAtRest ==
  ASSUME DiskTypeOK, NEW S \in SUBSET Inodes, OwnersInv(S), pc = "idle"
  PROVE  /\ Reachable \subseteq Owners(S)
         /\ \A n \in Inodes : MapOf(n) = dinode[n].addr
<1>1. StaleUnnamed(S) /\ core = NoInodes
  BY DEF OwnersInv, OwnerTool
<1>2. \A n \in Inodes : MapOf(n) = dinode[n].addr
  BY <1>1 DEF MapOf, target, parent, NoInodes, NULL, Inodes
<1>3. ROOT_INODE \in Owners(S)
  BY <1>1, RootType DEF Owners, StaleUnnamed
<1>4. ASSUME NEW d \in Owners(S)
      PROVE  Children(d) \subseteq Owners(S)
  <2> SUFFICES ASSUME NEW p \in Entries(d)
               PROVE  Child(d, p) \in Owners(S)
    BY DEF Children
  <2>1. /\ dinode[d].mode = "dir" /\ p \in Positions /\ dinode[d].addr[p[1]] # 0
        /\ EntryAt(dinode[d], p).ino # 0
    BY DEF Entries, Used, Mapped
  <2>2. p[1] \in Logical /\ p[2] \in Slots
    BY <2>1 DEF Positions
  <2>3. dinode[d].addr[p[1]] \in Blocks
    BY <2>2 DEF DiskTypeOK, disk_inode, Owners
  <2>4. EntryAt(dinode[d], p) \in dirent
    BY <2>2, <2>3 DEF EntryAt, DiskTypeOK
  <2>5. EntryAt(dinode[d], p).ino \in Inodes
    <3>1. PICK i \in 0 .. NInodes - 1 : i = EntryAt(dinode[d], p).ino
      BY <2>4 DEF dirent
    <3>2. i \in 1 .. NInodes - 1
      BY <2>1, <3>1, GeometryAssumption
    <3> QED
      BY <3>1, <3>2 DEF Inodes
  <2>6. EntryAt(dinode[d], p).ino \notin S
    BY <1>1, <2>1, <2>2 DEF StaleUnnamed, Avoids, EntryAt
  <2> QED
    BY <2>5, <2>6 DEF Child, Owners
<1>5. Reachable \subseteq Owners(S)
  BY <1>3, <1>4, ReachableWithin
<1> QED
  BY <1>2, <1>5

\* Hence the blocks of the tree are safe between tools.
LEMMA SafeAtRest ==
  ASSUME Inv, MetadataSafe, OwnersKept
  PROVE  BlocksSafeAtRest
<1> SUFFICES ASSUME pc = "idle"
             PROVE  ReachableBlocksSafe
  BY DEF BlocksSafeAtRest, Quiet
<1>1. PICK S \in SUBSET Inodes : OwnersInv(S)
  BY DEF OwnersKept
<1>2. /\ OwnedOnce(S) /\ Reachable \subseteq Owners(S) /\ Owners(S) \subseteq Inodes
      /\ \A n \in Inodes : MapOf(n) = dinode[n].addr
  BY <1>1, OwnersAtRest DEF Inv, TypeOK, OwnersInv, Owners
<1>3. \A u \in Uses : /\ u[1] \in Owners(S) /\ u[1] \in Inodes /\ u[2] \in Logical
                      /\ u = <<u[1], u[2]>> /\ dinode[u[1]].addr[u[2]] # 0
                      /\ Use(u) = MapOf(u[1])[u[2]]
  BY <1>2 DEF Uses, Use
<1>4. ASSUME NEW u \in Uses
      PROVE  ~badblock(Use(u)) /\ Use(u) \in bbits
  <2>1. Use(u) \in bbits
    BY <1>2, <1>3 DEF OwnedOnce
  <2>2. ~badblock(Use(u))
    BY <1>3 DEF MetadataSafe, MapsData, Use
  <2> QED
    BY <2>1, <2>2
<1>5. ASSUME NEW u \in Uses, NEW v \in Uses, Use(u) = Use(v)
      PROVE  u = v
  <2>1. u[1] = v[1] /\ u[2] = v[2]
    BY <1>2, <1>3, <1>5 DEF OwnedOnce
  <2> QED
    BY <1>3, <2>1
<1> QED
  BY <1>4, <1>5 DEF ReachableBlocksSafe

-----------------------------------------------------------------------------
(* The theorems.                                                           *)

\* The invariant, with what its steps need of one another.
LEMMA AlwaysOwned ==
  ASSUME OneIoError
  PROVE  Spec => [](Inv /\ UnlinkedIsBlank /\ OwnersKept /\ CleanUntilError)
<1>1. Init => Inv /\ UnlinkedIsBlank /\ OwnersKept /\ CleanUntilError
  BY InvInit, InitIsHalf, UnlinkedInit, OwnersStart
<1>2. Inv /\ UnlinkedIsBlank /\ OwnersKept /\ CleanUntilError /\ [Next]_vars
        => (Inv /\ UnlinkedIsBlank /\ OwnersKept /\ CleanUntilError)'
  BY InvStep, UnlinkedStep, OwnersStep, CleanUntilStep
<1> QED
  BY <1>1, <1>2, PTL DEF Spec

\* Whichever read or write fails, if one does, at every step every block has one owner,
\* and no entry names an inode that put_inode freed and could not blank (inode.c, dir.c).
THEOREM BlocksKeepOwners ==
  ASSUME OneIoError
  PROVE  Spec => []OwnersKept
<1> QED
  BY AlwaysOwned, PTL

\* So between two tools a block of the tree is marked, is a data block and has one user:
\* one failed read or write is not enough to let two inodes share a block, or to leave a
\* block of the tree free for the next alloc_block.
THEOREM BlocksAreSafeAtRest ==
  ASSUME OneIoError
  PROVE  Spec => []BlocksSafeAtRest
<1>1. Inv /\ MetadataSafe /\ OwnersKept => BlocksSafeAtRest
  BY SafeAtRest
<1> QED
  BY <1>1, AlwaysOwned, MetadataIsSafe, PTL
=============================================================================
