----------------------------- MODULE PangyaTools -----------------------------
(***************************************************************************)
(* The tools that change a PangYa image (mkdir.c, cp.c, rm.c), run one     *)
(* after the other on the disk of PangyaDisk.  A tool is a sequence of     *)
(* steps each of which makes at most one write; between two steps it may   *)
(* be killed, and any read or write may fail (Kill and the IoError         *)
(* actions, bounded by MaxKills and MaxIoErrs).                            *)
(*                                                                         *)
(*   idle - walk - lookup - ibit - iwrite - block - bzero - content -      *)
(*          entry - (ezero - ewrite -) put ...             mkdir and cp    *)
(*   idle - walk - lookup - detach - put ...               rm              *)
(*   put (- pzero - put)* (- ifree) - idle                 put_inode, of   *)
(*                                        the target, then of the parent   *)
(***************************************************************************)
EXTENDS PangyaDisk

CONSTANTS
  MaxKills,   \* bound: how many tools may be killed
  MaxIoErrs   \* bound: how many reads or writes may fail

ASSUME FaultAssumption == MaxKills \in Nat /\ MaxIoErrs \in Nat

VARIABLES
  pc,       \* the next step of the running tool, "idle" when none runs
  tool,     \* which tool runs
  base,     \* base_name, the last component of its path
  fsz,      \* host_stat.st_size in blocks (cp)
  core,     \* in-core inodes: of the parent directory and of the target
  who,      \* the in-core inode put_inode is working on
  fresh,    \* the inode or block number being allocated or released
  k,        \* cp's loop index; add_entry's logical_block in scenario #2
  status,   \* what the tool will exit with
  kills,    \* how many tools were killed
  ioerrs    \* how many reads or writes failed

args  == <<tool, base, fsz>>
vars  == <<ibits, bbits, dinode, dirents, chunk, pc, tool, base, fsz, core, who,
           fresh, k, status, kills, ioerrs>>
faults == <<kills, ioerrs>>

EXIT_SUCCESS == 0
EXIT_FAILURE == 1

Creators == {"mkdir", "cp"}

ProcTypeOK ==
  /\ pc \in {"idle", "walk", "lookup", "ibit", "iwrite", "block", "bzero", "content",
             "entry", "ezero", "ewrite", "detach", "put", "pzero", "ifree"}
  /\ tool \in Creators \cup {"rm", "none"}
  /\ base \in Names \cup Dots \cup {""}
  /\ fsz \in 0 .. NDIRECT
  /\ core \in [{"parent", "target"} -> inode]
  /\ who \in {"parent", "target"}
  /\ fresh \in Nat
  /\ k \in 0 .. NDIRECT
  /\ status \in {EXIT_SUCCESS, EXIT_FAILURE}
  /\ kills \in 0 .. MaxKills
  /\ ioerrs \in 0 .. MaxIoErrs

TypeOK == DiskTypeOK /\ ProcTypeOK

NoInodes == [w \in {"parent", "target"} |-> NULL]

Init ==
  /\ mkfs
  /\ pc = "idle" /\ tool = "none" /\ base = "" /\ fsz = 0
  /\ core = NoInodes /\ who = "target" /\ fresh = 0 /\ k = 0
  /\ status = EXIT_SUCCESS /\ kills = 0 /\ ioerrs = 0

\* The process ends: exit(), or it is killed.
Exit ==
  /\ pc' = "idle" /\ tool' = "none" /\ base' = "" /\ fsz' = 0
  /\ core' = NoInodes /\ who' = "target" /\ fresh' = 0 /\ k' = 0
  /\ status' = EXIT_SUCCESS

\* Seeded faults: the created inode keeps its links, of any tool or of cp only;
\* the wrong in-core inode loses them.
error_handler_keeps(c) ==
  /\ pc' = "put" /\ who' = "target" /\ status' = EXIT_FAILURE
  /\ core' = c /\ fresh' = 0 /\ k' = 0 /\ UNCHANGED args

error_handler_keeps_file(c) ==
  /\ pc' = "put" /\ who' = "target" /\ status' = EXIT_FAILURE
  /\ core' = IF tool = "mkdir" /\ c["target"].num # 0
             THEN [c EXCEPT !["target"].nlink = 0] ELSE c
  /\ fresh' = 0 /\ k' = 0
  /\ UNCHANGED args

error_handler_drops_parent(c) ==
  /\ pc' = "put" /\ who' = "target" /\ status' = EXIT_FAILURE
  /\ core' = IF tool \in Creators /\ c["target"].num # 0
             THEN [c EXCEPT !["parent"].nlink = 0] ELSE c
  /\ fresh' = 0 /\ k' = 0
  /\ UNCHANGED args

\* goto error_handler with the in-core inodes c: mkdir and cp force the release
\* of what they created, rm puts back its target as it is.
error_handler(c) ==
  /\ pc' = "put" /\ who' = "target" /\ status' = EXIT_FAILURE
  /\ core' = IF tool \in Creators /\ c["target"].num # 0
             THEN [c EXCEPT !["target"].nlink = 0] ELSE c
  /\ fresh' = 0 /\ k' = 0
  /\ UNCHANGED args

-----------------------------------------------------------------------------
(* Starting a tool and walking to the parent directory (namei).            *)

\* The guards on base_name before anything is read.
base_name_ok(name) == name \notin Dots

Invoke(t, name, size) ==
  /\ pc = "idle"
  /\ base_name_ok(name)
  /\ size > 0 => t = "cp"
  /\ pc' = "walk" /\ tool' = t /\ base' = name /\ fsz' = size
  /\ core' = [core EXCEPT !["parent"] = get_inode(ROOT_INODE)]
  /\ UNCHANGED <<diskVars, who, fresh, k, status, faults>>

\* One more component of dirname: the in-core inode of a directory was only
\* read, so that put_inode writes nothing when namei moves to the child.
WalkDown ==
  /\ pc = "walk"
  /\ \E token \in Names \cup Dots, n \in Inodes :
       /\ search_dir(core["parent"], token, n)
       /\ core' = [core EXCEPT !["parent"] = get_inode(n)]
  /\ UNCHANGED <<diskVars, pc, args, who, fresh, k, status, faults>>

\* A component that does not exist, or below something that is not a directory:
\* namei puts the inode it stands on and the tool fails.
WalkFails ==
  /\ pc = "walk"
  /\ \E token \in Names \cup Dots, r \in {0, ENOTDIR} :
       search_dir(core["parent"], token, r)
  /\ error_handler(core)
  /\ UNCHANGED <<diskVars, faults>>

\* Seeded fault: the token is not advanced, and namei goes on as long as it is found.
WalkEndsNotFound ==
  /\ pc = "walk" /\ pc' = "lookup"
  /\ \E token \in Names \cup Dots : ~ \E n \in Inodes : search_dir(core["parent"], token, n)
  /\ UNCHANGED <<diskVars, args, core, who, fresh, k, status, faults>>

\* strtok has no more components.
WalkEnds ==
  /\ pc = "walk" /\ pc' = "lookup"
  /\ UNCHANGED <<diskVars, args, core, who, fresh, k, status, faults>>

-----------------------------------------------------------------------------
(* mkdir and cp: search_dir for the name, alloc_inode, alloc_block.        *)

CreateLookup ==
  /\ pc = "lookup" /\ tool \in Creators
  /\ search_dir(core["parent"], base, 0)
  /\ pc' = "ibit"
  /\ UNCHANGED <<diskVars, args, core, who, fresh, k, status, faults>>

CreateLookupFails ==
  /\ pc = "lookup" /\ tool \in Creators
  /\ \E r \in Inodes \cup {ENOTDIR} : search_dir(core["parent"], base, r)
  /\ error_handler(core)
  /\ UNCHANGED <<diskVars, faults>>

alloc_inode ==
  /\ pc = "ibit" /\ pc' = "iwrite"
  /\ \E n \in FreeInodes : Lowest(n, FreeInodes) /\ SetInodeBit(n) /\ fresh' = n
  /\ UNCHANGED <<args, core, who, k, status, faults>>

NoFreeInode ==
  /\ pc = "ibit" /\ FreeInodes = {}
  /\ error_handler(core)
  /\ UNCHANGED <<diskVars, faults>>

\* The disk inode alloc_inode writes.
NewInode ==
  [BlankInode EXCEPT !.mode = IF tool = "mkdir" THEN "dir" ELSE "reg",
                     !.nlink = IF tool = "mkdir" THEN 2 ELSE 1]

\* Seeded fault: the inode is initialised in core only.
InitInodeInCore ==
  /\ pc = "iwrite" /\ pc' = "block"
  /\ core' = [core EXCEPT !["target"] = InCore(fresh, NewInode)]
  /\ fresh' = 0
  /\ UNCHANGED <<diskVars, args, who, k, status, faults>>

InitInode ==
  /\ pc = "iwrite" /\ pc' = "block"
  /\ write_disk_inode(fresh, NewInode)
  /\ core' = [core EXCEPT !["target"] = InCore(fresh, NewInode)]
  /\ fresh' = 0
  /\ UNCHANGED <<args, who, k, status, faults>>

\* Seeded fault: cp's loop runs once too often.
NeedsBlockTooMany == tool = "mkdir" \/ k <= fsz

\* mkdir needs one block, cp one for each chunk of the host file.
NeedsBlock == tool = "mkdir" \/ k < fsz

alloc_block ==
  /\ pc = "block" /\ NeedsBlock /\ pc' = "bzero"
  /\ \E b \in FreeBlocks : Lowest(b, FreeBlocks) /\ SetBlockBit(b) /\ fresh' = b
  /\ UNCHANGED <<args, core, who, k, status, faults>>

NoFreeBlock ==
  /\ pc = "block" /\ NeedsBlock /\ FreeBlocks = {}
  /\ error_handler(core)
  /\ UNCHANGED <<diskVars, faults>>

\* The host file cannot be opened, or a read of it fails.
HostFails ==
  /\ pc = "block" /\ tool = "cp" /\ (k = 0 \/ k < fsz)
  /\ error_handler(core)
  /\ UNCHANGED <<diskVars, faults>>

ZeroFresh ==
  /\ pc = "bzero" /\ pc' = "content"
  /\ zero_block(fresh)
  /\ UNCHANGED <<args, core, who, fresh, k, status, faults>>

\* Seeded fault: i_addr[0] of the new directory is not set.
WriteDotEntriesUnmapped ==
  /\ pc = "content" /\ tool = "mkdir" /\ pc' = "entry"
  /\ WriteDots(fresh, core["target"].num, core["parent"].num)
  /\ core' = [core EXCEPT !["target"] = [@ EXCEPT !.size = 2, !.nlink = 2]]
  /\ fresh' = 0
  /\ UNCHANGED <<args, who, k, status, faults>>

WriteDotEntries ==
  /\ pc = "content" /\ tool = "mkdir" /\ pc' = "entry"
  /\ WriteDots(fresh, core["target"].num, core["parent"].num)
  /\ core' = [core EXCEPT !["target"] = [@ EXCEPT !.size = 2, !.nlink = 2, !.addr[0] = fresh]]
  /\ fresh' = 0
  /\ UNCHANGED <<args, who, k, status, faults>>

CopyChunk ==
  /\ pc = "content" /\ tool = "cp" /\ pc' = "block"
  /\ WriteChunk(fresh, k)
  /\ core' = [core EXCEPT !["target"] = [@ EXCEPT !.addr[k] = fresh]]
  /\ fresh' = 0 /\ k' = k + 1
  /\ UNCHANGED <<args, who, status, faults>>

FileCopied ==
  /\ pc = "block" /\ ~NeedsBlock /\ pc' = "entry"
  /\ core' = [core EXCEPT !["target"] = [@ EXCEPT !.size = fsz, !.nlink = 1]]
  /\ k' = 0
  /\ UNCHANGED <<diskVars, args, who, fresh, status, faults>>

-----------------------------------------------------------------------------
(* add_entry and what mkdir and cp do when it returns.                     *)

\* Seeded fault: mkdir does not link the parent.
LinkedNoParent(size) ==
  [core EXCEPT !["target"].dirty = DIRTY,
               !["parent"] = [@ EXCEPT !.dirty = DIRTY, !.size = size]]

\* ++parent_dir_inode->i_nlink of an uint16_t
LinkedOnce(n) == IF n = UINT16_MAX THEN 0 ELSE n + 1

ParentLinks ==
  IF tool = "mkdir" THEN LinkedOnce(core["parent"].nlink) ELSE core["parent"].nlink

\* Seeded fault: the created inode is not marked DIRTY.
LinkedTargetClean(size) ==
  [core EXCEPT !["parent"] = [@ EXCEPT !.dirty = DIRTY, !.size = size, !.nlink = ParentLinks]]

\* The in-core inodes after add_entry; mkdir also links the parent.
Linked(size) ==
  [core EXCEPT !["target"].dirty = DIRTY,
               !["parent"] = [@ EXCEPT !.dirty = DIRTY, !.size = size, !.nlink = ParentLinks]]

NewEntry == [ino |-> core["target"].num, name |-> base]

SizeAt(p) == p[1] * DirentsPerBlock + p[2] + 1

\* Seeded fault: the size follows every new entry.
SizeFollows(p) == SizeAt(p)

\* add_entry leaves the size alone when the entry lies below it.
SizeWith(p) == IF SizeAt(p) > core["parent"].size THEN SizeAt(p) ELSE core["parent"].size

\* Scenario #1: a free entry of a block the directory has.
AddEntryInSlot ==
  /\ pc = "entry" /\ pc' = "put"
  /\ search_dir(core["parent"], base, 0)
  /\ \E p \in FreeSlots(core["parent"]) :
       /\ IsFirst(p, FreeSlots(core["parent"]))
       /\ WriteDirent(core["parent"].addr[p[1]], p[2], NewEntry)
       /\ core' = Linked(SizeWith(p))
  /\ UNCHANGED <<args, who, fresh, k, status, faults>>

\* Scenario #2: a new block for the directory, in three writes.
AddEntryAllocates ==
  /\ pc = "entry" /\ pc' = "ezero"
  /\ search_dir(core["parent"], base, 0)
  /\ FreeSlots(core["parent"]) = {}
  /\ \E l \in Holes(core["parent"]) : Lowest(l, Holes(core["parent"])) /\ k' = l
  /\ \E b \in FreeBlocks : Lowest(b, FreeBlocks) /\ SetBlockBit(b) /\ fresh' = b
  /\ UNCHANGED <<args, core, who, status, faults>>

AddEntryZeroes ==
  /\ pc = "ezero" /\ pc' = "ewrite"
  /\ zero_block(fresh)
  /\ core' = [core EXCEPT !["parent"] = [@ EXCEPT !.addr[k] = fresh]]
  /\ UNCHANGED <<args, who, fresh, k, status, faults>>

AddEntryInNewBlock ==
  /\ pc = "ewrite" /\ pc' = "put"
  /\ WriteDirent(fresh, 0, NewEntry)
  /\ core' = Linked(SizeAt(<<k, 0>>))
  /\ fresh' = 0 /\ k' = 0
  /\ UNCHANGED <<args, who, status, faults>>

AddEntryFails ==
  /\ pc = "entry"
  /\ \/ ~search_dir(core["parent"], base, 0)
     \/ FreeSlots(core["parent"]) = {} /\ (Holes(core["parent"]) = {} \/ FreeBlocks = {})
  /\ error_handler(core)
  /\ UNCHANGED <<diskVars, faults>>

-----------------------------------------------------------------------------
(* rm: the target's inode, the emptiness check, detach_entry.              *)

\* rm's target is inode n: search_dir finds it, and namei then walks to it again
\* through the same, unchanged directories.
Target(n) == pc = "lookup" /\ tool = "rm" /\ search_dir(core["parent"], base, n)

RmLookupFails ==
  /\ pc = "lookup" /\ tool = "rm"
  /\ \E r \in {0, ENOTDIR} : search_dir(core["parent"], base, r)
  /\ error_handler(core)
  /\ UNCHANGED <<diskVars, faults>>

\* Seeded fault: no link is dropped.
UnlinkedNot(n) == n

\* --pathname_inode->i_nlink of an uint16_t
Unlinked(n) == IF n = 0 THEN UINT16_MAX ELSE n - 1

\* A regular file; the inode of an entry left over from a failed rm is neither
\* file nor directory and goes through unchanged.
RmFile ==
  /\ \E n \in Inodes :
       /\ Target(n)
       /\ dinode[n].mode # "dir"
       /\ core' = [core EXCEPT !["target"] =
            [get_inode(n) EXCEPT !.nlink = IF dinode[n].mode = "reg" THEN Unlinked(@) ELSE @]]
  /\ pc' = "detach"
  /\ UNCHANGED <<diskVars, args, who, fresh, k, status, faults>>

\* rm of a directory whose blocks blocksRead could be read.
RmDirectory(blocksRead) ==
  /\ \E n \in Inodes :
       /\ Target(n)
       /\ dinode[n].mode = "dir"
       /\ Occupants(get_inode(n), blocksRead) = {}
       /\ core' = [core EXCEPT !["target"] = [get_inode(n) EXCEPT !.nlink = 0],
                               !["parent"].nlink = Unlinked(@)]
  /\ pc' = "detach"
  /\ UNCHANGED <<diskVars, args, who, fresh, k, status>>

RmEmptyDir == RmDirectory(Logical) /\ UNCHANGED faults

RmNotEmpty ==
  /\ \E n \in Inodes :
       /\ Target(n)
       /\ dinode[n].mode = "dir"
       /\ Occupants(get_inode(n), Logical) # {}
       /\ error_handler([core EXCEPT !["target"] = get_inode(n)])
  /\ UNCHANGED <<diskVars, faults>>

\* detach_entry: "." and ".." stay, and the entry is looked up once more.
DetachOk(name) == name \notin Dots

detach_entry ==
  /\ pc = "detach" /\ pc' = "put"
  /\ DetachOk(base)
  /\ \E i \in Inodes, p \in Mapped(core["parent"]) :
       /\ search_dir(core["parent"], base, i)
       /\ IsFirst(p, Detachable(core["parent"], base, i))
       /\ WriteDirent(core["parent"].addr[p[1]], p[2], NoEntry)
  /\ core' = [core EXCEPT !["target"].dirty = DIRTY, !["parent"].dirty = DIRTY]
  /\ UNCHANGED <<args, who, fresh, k, status, faults>>

-----------------------------------------------------------------------------
(* put_inode of the target, then of the parent, then exit.                 *)

\* input_inode of put_inode.
held == core[who]

\* put_inode returns.
PutDone ==
  IF who = "target"
  THEN /\ pc' = "put" /\ who' = "parent" /\ fresh' = 0
       /\ core' = [core EXCEPT !["target"] = NULL]
       /\ UNCHANGED <<args, k, status>>
  ELSE Exit

PutClean ==
  /\ pc = "put"
  /\ held.num = 0 \/ (held.nlink > 0 /\ held.dirty = CLEAN)
  /\ PutDone
  /\ UNCHANGED <<diskVars, faults>>

update_inode ==
  /\ pc = "put" /\ held.num # 0 /\ held.nlink > 0 /\ held.dirty = DIRTY
  /\ write_disk_inode(held.num, OnDisk(held))
  /\ PutDone
  /\ UNCHANGED faults

Releasing == pc = "put" /\ held.num # 0 /\ held.nlink = 0

\* truncate_inode: the next mapped block, l, is given back and unmapped.  All that
\* the loop's index has passed is unmapped, so that the next one is the lowest.
Unmaps(l) ==
  /\ Releasing
  /\ Lowest(l, Logical \ Holes(held))
  /\ core' = [core EXCEPT ![who] = [@ EXCEPT !.addr[l] = 0]]
  /\ UNCHANGED <<args, who, k, status>>

\* Seeded fault: the logical block's number is cleared in the bitmap.
free_logical_block ==
  /\ \E l \in Logical :
       /\ Unmaps(l)
       /\ IF badblock(held.addr[l])
          THEN pc' = "put" /\ fresh' = 0 /\ UNCHANGED diskVars
          ELSE pc' = "pzero" /\ fresh' = held.addr[l] /\ ClearBlockBit(l)
  /\ UNCHANGED faults

\* free_block refuses the blocks before the data blocks.
free_block ==
  /\ \E l \in Logical :
       /\ Unmaps(l)
       /\ IF badblock(held.addr[l])
          THEN pc' = "put" /\ fresh' = 0 /\ UNCHANGED diskVars
          ELSE pc' = "pzero" /\ fresh' = held.addr[l] /\ ClearBlockBit(held.addr[l])
  /\ UNCHANGED faults

ZeroFreed ==
  /\ pc = "pzero" /\ pc' = "put"
  /\ zero_block(fresh)
  /\ fresh' = 0
  /\ UNCHANGED <<args, core, who, k, status, faults>>

\* Seeded fault: the mode is not cleared.
ReleasedInMode == [OnDisk(held) EXCEPT !.size = 0]

\* The disk inode put_inode writes once nothing is mapped any more.
Released == [OnDisk(held) EXCEPT !.mode = "none", !.size = 0]

BlankOut ==
  /\ Releasing /\ Holes(held) = Logical /\ pc' = "ifree"
  /\ write_disk_inode(held.num, Released)
  /\ UNCHANGED <<args, core, who, fresh, k, status, faults>>

free_inode ==
  /\ pc = "ifree"
  /\ ClearInodeBit(held.num)
  /\ PutDone
  /\ UNCHANGED faults

-----------------------------------------------------------------------------
(* Faults.                                                                 *)

\* The tool dies between two writes.
Kill ==
  /\ pc # "idle" /\ kills < MaxKills /\ kills' = kills + 1
  /\ Exit
  /\ UNCHANGED <<diskVars, ioerrs>>

IoError == ioerrs < MaxIoErrs /\ ioerrs' = ioerrs + 1 /\ UNCHANGED kills

\* A read or write fails that the tool checks: it goes to its error_handler.
IoErrorFails ==
  /\ pc \in {"walk", "lookup", "ibit", "iwrite", "bzero", "content", "entry", "ezero",
             "ewrite", "detach"} \/ (pc = "block" /\ NeedsBlock)
  /\ IoError
  /\ error_handler(core)
  /\ UNCHANGED diskVars

\* alloc_inode has written the inode and get_inode cannot read it back.
IoErrorReload ==
  /\ pc = "iwrite"
  /\ IoError
  /\ write_disk_inode(fresh, NewInode)
  /\ error_handler(core)

\* rm goes on when a block of the directory cannot be read, as if it were empty.
IoErrorInRm ==
  /\ \E l \in Logical : RmDirectory(Logical \ {l}) /\ core'["target"].addr[l] # 0
  /\ IoError

\* put_inode goes on after every failed write.
IoErrorInPut ==
  /\ IoError
  /\ UNCHANGED diskVars
  /\ \/ pc = "put" /\ held.num # 0 /\ held.nlink > 0 /\ held.dirty = DIRTY /\ PutDone
     \/ \E l \in Logical : Unmaps(l) /\ pc' = "put" /\ fresh' = 0
     \/ /\ pc = "pzero" /\ pc' = "put" /\ fresh' = 0
        /\ UNCHANGED <<args, core, who, k, status>>
     \/ /\ Releasing /\ Holes(held) = Logical /\ pc' = "ifree"
        /\ UNCHANGED <<args, core, who, fresh, k, status>>
     \/ pc = "ifree" /\ PutDone

-----------------------------------------------------------------------------
Create ==
  \/ CreateLookup \/ CreateLookupFails \/ alloc_inode \/ NoFreeInode \/ InitInode
  \/ alloc_block \/ NoFreeBlock \/ HostFails \/ ZeroFresh
  \/ WriteDotEntries \/ CopyChunk \/ FileCopied
  \/ AddEntryInSlot \/ AddEntryAllocates \/ AddEntryZeroes \/ AddEntryInNewBlock
  \/ AddEntryFails

Remove == RmLookupFails \/ RmFile \/ RmEmptyDir \/ RmNotEmpty \/ detach_entry

put_inode == PutClean \/ update_inode \/ free_block \/ ZeroFreed \/ BlankOut \/ free_inode

Step == WalkDown \/ WalkFails \/ WalkEnds \/ Create \/ Remove \/ put_inode

Start == \E t \in Creators \cup {"rm"}, name \in Names \cup Dots, size \in 0 .. NDIRECT :
           Invoke(t, name, size)

Fault == Kill \/ IoErrorFails \/ IoErrorReload \/ IoErrorInRm \/ IoErrorInPut

Next == Start \/ Step \/ Fault

Spec == Init /\ [][Next]_vars

\* A running tool goes on, and a path has finitely many components.
Fairness == WF_vars(Step) /\ WF_vars(WalkEnds)
=============================================================================
