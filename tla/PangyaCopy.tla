------------------------------ MODULE PangyaCopy ------------------------------
(***************************************************************************)
(* cp reading a host file that other programs change while it runs (cp.c): *)
(* stat, open and one read for each round of the loop see the file at      *)
(* different times, and a read that comes back short is no error.  What cp *)
(* does on the image is in PangyaTools; here the target is the list of the *)
(* blocks cp wrote, and contents matter unit by unit.                      *)
(*                                                                         *)
(*   stat - open - (read - write)* - done, or failed                       *)
(***************************************************************************)
EXTENDS Integers, Sequences

CONSTANTS
  BLOCKSIZE,  \* units of a block
  NDIRECT,    \* logical blocks of an inode
  MaxEdits    \* bound: how often the host file changes

ASSUME CopyAssumption ==
  /\ BLOCKSIZE \in Nat \ {0} /\ NDIRECT \in Nat \ {0}
  /\ MaxEdits \in Nat

VARIABLES
  host,     \* the host file: what stands at each place, and which edit put it there
  edits,    \* how often it was changed
  shrunk,   \* whether it was cut since cp's stat
  stated,   \* the host file at the time of cp's stat, whose length is st_size
  pc,       \* the next step of cp
  offset,   \* the file offset of host_file_fd
  buffer,   \* the block to be written
  blocks    \* the contents of the target's blocks, in the order of i_addr

vars == <<host, edits, shrunk, stated, pc, offset, buffer, blocks>>

Nothing == [at |-> 0, edit |-> 0]     \* a zero unit

Unit(place, edit) == [at |-> place, edit |-> edit]

Init ==
  /\ \E n \in 0 .. NDIRECT * BLOCKSIZE + 1 : host = [q \in 1 .. n |-> Unit(q, 0)]
  /\ edits = 0 /\ shrunk = FALSE /\ stated = <<>>
  /\ pc = "stat" /\ offset = 0
  /\ buffer = [u \in 1 .. BLOCKSIZE |-> Nothing] /\ blocks = <<>>

-----------------------------------------------------------------------------
(* Other programs.                                                         *)

Edit ==
  /\ edits < MaxEdits /\ edits' = edits + 1
  /\ UNCHANGED <<stated, pc, offset, buffer, blocks>>

Grow ==
  /\ Edit
  /\ \E n \in 1 .. BLOCKSIZE :
       host' = host \o [q \in 1 .. n |-> Unit(Len(host) + q, edits')]
  /\ UNCHANGED shrunk

Shrink ==
  /\ Edit
  /\ \E n \in 0 .. Len(host) - 1 : host' = SubSeq(host, 1, n)
  /\ shrunk' = TRUE

-----------------------------------------------------------------------------
(* cp.                                                                     *)

stat ==
  /\ pc = "stat"
  /\ stated' = host /\ shrunk' = FALSE
  /\ pc' = IF Len(host) > NDIRECT * BLOCKSIZE THEN "failed" ELSE "open"   \* EFBIG
  /\ UNCHANGED <<host, edits, offset, buffer, blocks>>

\* Seeded faults: a round too many for a file that fills its blocks; no round for
\* what does not fill one.
RoundsOver == Len(stated) \div BLOCKSIZE + 1
RoundsDown == Len(stated) \div BLOCKSIZE

Rounds == (Len(stated) + BLOCKSIZE - 1) \div BLOCKSIZE

\* The loop goes on, or the target gets its size and its entry.
LoopFrom(i) == pc' = IF i < Rounds THEN "read" ELSE "done"

open ==
  /\ pc = "open" /\ LoopFrom(0)
  /\ UNCHANGED <<host, edits, shrunk, stated, offset, buffer, blocks>>

\* The n units of the host file from the offset on: fewer, or none, at its end.
FromOffset(n) ==
  SubSeq(host, offset + 1, IF offset + n <= Len(host) THEN offset + n ELSE Len(host))

\* Seeded fault: the last unit is kept for a terminating zero.
AtOffsetShort == FromOffset(BLOCKSIZE - 1)

\* What a read of one block at the offset returns.
AtOffset == FromOffset(BLOCKSIZE)

\* One read, into a buffer that held old.
ReadInto(old) ==
  /\ pc = "read" /\ pc' = "write"
  /\ buffer' = [u \in 1 .. BLOCKSIZE |-> IF u <= Len(AtOffset) THEN AtOffset[u] ELSE old[u]]
  /\ offset' = offset + Len(AtOffset)
  /\ UNCHANGED <<host, edits, shrunk, stated, blocks>>

\* Seeded fault: the buffer is not cleared before each read.
read_uncleared == ReadInto(buffer)

read == ReadInto([u \in 1 .. BLOCKSIZE |-> Nothing])

\* alloc_block, write_block and the next i_addr.
write ==
  /\ pc = "write"
  /\ blocks' = Append(blocks, buffer)
  /\ LoopFrom(Len(blocks'))
  /\ UNCHANGED <<host, edits, shrunk, stated, offset, buffer>>

\* A failing open or read, no free block, a failing write.
Fails ==
  /\ pc \in {"open", "read", "write"} /\ pc' = "failed"
  /\ UNCHANGED <<host, edits, shrunk, stated, offset, buffer, blocks>>

Next == Grow \/ Shrink \/ stat \/ open \/ read \/ write \/ Fails

Spec == Init /\ [][Next]_vars

-----------------------------------------------------------------------------
Units == [at : Nat, edit : 0 .. MaxEdits]

CopyTypeOK ==
  /\ host \in Seq(Units) /\ stated \in Seq(Units)
  /\ edits \in 0 .. MaxEdits /\ shrunk \in BOOLEAN
  /\ pc \in {"stat", "open", "read", "write", "done", "failed"}
  /\ offset \in Nat /\ buffer \in [1 .. BLOCKSIZE -> Units]
  /\ blocks \in Seq([1 .. BLOCKSIZE -> Units]) /\ Len(blocks) <= NDIRECT

\* What the target's blocks hold, and the part of it that its size covers.
Contents == [q \in 1 .. Len(blocks) * BLOCKSIZE |->
               blocks[(q - 1) \div BLOCKSIZE + 1][((q - 1) % BLOCKSIZE) + 1]]
Copy     == SubSeq(Contents, 1, Len(stated))

\* However the host file changes, the size cp records (from stat) and the blocks
\* it maps (from the loop) agree: no block is missing and none lies past the size.
SizeMatchesBlocks ==
  pc = "done" => /\ Len(stated) <= Len(Contents)
                 /\ Len(Contents) < Len(stated) + BLOCKSIZE

\* No unit of the host file gets into the copy twice or out of order, though reads
\* come back short: the buffer holds nothing of the round before (cp.c:197).
UnitsOnceInOrder ==
  \A q, r \in DOMAIN Contents :
    q < r /\ Contents[q] # Nothing /\ Contents[r] # Nothing => Contents[q].at < Contents[r].at

\* A host file that only grows while it is copied is copied as it was when cp
\* looked at its size; one that does not change is copied exactly.
GrowingFileCopiedAsStated == pc = "done" /\ ~shrunk => Copy = stated
=============================================================================
