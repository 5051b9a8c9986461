------------------------------ MODULE PangyaUndo ------------------------------
(***************************************************************************)
(* What a tool that fails leaves behind: the disk as it was when the tool  *)
(* began.  The history variable before remembers that.                     *)
(***************************************************************************)
EXTENDS PangyaClean

VARIABLE before  \* the disk when the running tool began

UndoInit == Init /\ before = diskVars

UndoNext == Next /\ before' = IF pc' = "idle" THEN diskVars' ELSE before

UndoSpec == UndoInit /\ [][UndoNext]_<<vars, before>>

\* A tool that fails, at whatever point and for whatever reason but an I/O error,
\* leaves the image as it found it: the error handlers of mkdir, cp and rm undo
\* every allocation, and what they free is zero again.
FailedToolChangesNothing ==
  [][pc # "idle" /\ pc' = "idle" /\ status = EXIT_FAILURE => diskVars' = before]_<<vars, before>>

-----------------------------------------------------------------------------
(* Why it does.                                                            *)

\* The inode and the blocks that the running mkdir or cp has marked, and the block
\* put_inode has given back and not cleared yet.
NewInodes ==
  IF tool \in Creators THEN {target.num, IF pc = "iwrite" THEN fresh ELSE 0} \ {0} ELSE {}
NewBlocks ==
  IF tool \in Creators
  THEN (BlocksIn(target) \cup {IF pc \in Holding THEN fresh ELSE 0}) \ {0} ELSE {}
GivenBack == IF pc = "pzero" THEN {fresh} ELSE {}

ZeroAt(D, C, b) == D[b] = ZeroBlock /\ C[b] = 0

\* What is free is blank.
FreeIsBlank ==
  /\ \A n \in Inodes \ ibits : dinode[n] = BlankInode
  /\ \A b \in Blocks \ (bbits \cup GivenBack) : ZeroAt(dirents, chunk, b)
  /\ pc = "ifree" => dinode[target.num] = BlankInode

\* The disk differs from what it was by the inodes of N and the blocks of B, which were
\* free, and by the block of G, which was and is.
InodesWere(N) ==
  /\ ibits = before[1] \cup N /\ N \cap before[1] = {}
  /\ \A n \in Inodes : before[3][n] = IF n \in N THEN BlankInode ELSE dinode[n]
BlocksWere(B, G) ==
  /\ bbits = before[2] \cup B /\ (B \cup G) \cap before[2] = {}
  /\ \A b \in Blocks : IF b \in B \cup G THEN ZeroAt(before[4], before[5], b)
                       ELSE before[4][b] = dirents[b] /\ before[5][b] = chunk[b]

\* The running tool has not succeeded; if it failed, put_inode releases what it made.
Undecided == pc \notin Putting \/ status = EXIT_FAILURE
GivenUp ==
  pc \in Putting /\ status = EXIT_FAILURE /\ target.num # 0
    => IF tool \in Creators THEN target.nlink = 0 ELSE target.nlink # 0

BeforeOK ==
  /\ before = <<before[1], before[2], before[3], before[4], before[5]>>
  /\ before[3] \in [Inodes -> disk_inode]
  /\ before[4] \in [Blocks -> [Slots -> dirent]] /\ before[5] \in [Blocks -> 0 .. NDIRECT]

\* In every state of a run without faults.
UndoInv ==
  /\ FreeIsBlank /\ GivenUp /\ BeforeOK
  /\ pc = "idle" => before = diskVars
  /\ Undecided => InodesWere(NewInodes) /\ BlocksWere(NewBlocks, GivenBack)
=============================================================================
