---------------------------- MODULE PangyaReaders ----------------------------
(***************************************************************************)
(* What ls and stat print of the images that mkdir, cp and rm leave, also  *)
(* interrupted ones.  They open the image read-only and run between two    *)
(* tools, so that each is an operator on the disk.  namei, which leads     *)
(* them to the inode of their path, is a walk along entries that           *)
(* search_dir finds.                                                       *)
(***************************************************************************)
EXTENDS PangyaProperties

CONSTANTS
  BLOCKSIZE,   \* units of a block
  DIRENT_SIZE  \* sizeof(struct dirent), in the same units

ASSUME DirentAssumption ==
  /\ BLOCKSIZE \in Nat /\ DIRENT_SIZE \in Nat \ {0}
  /\ BLOCKSIZE \div DIRENT_SIZE = DirentsPerBlock     \* get_dirent_per_block()

\* i_size0: a directory's in entries, a file's in blocks that it fills.
i_size0(d) == d.size * (IF d.mode = "dir" THEN DIRENT_SIZE ELSE BLOCKSIZE)

\* Seeded fault: a size that fills its last block counts one more.
get_file_block_size_over(file_size) == file_size \div BLOCKSIZE + 1

get_file_block_size(file_size) == (file_size + BLOCKSIZE - 1) \div BLOCKSIZE

get_file_type_name(mode) == CASE mode = "reg" -> "REG" [] mode = "dir" -> "DIR" [] OTHER -> "UNK"

\* The inodes namei can reach: along every entry search_dir finds, "." and ".." too.
Paths ==
  LET Within[i \in 0 .. NInodes] ==
        IF i = 0 THEN {ROOT_INODE}
        ELSE LET nearer == Within[i - 1]
             IN  nearer \cup {n \in Inodes : \E d \in nearer, token \in Names \cup Dots :
                                               search_dir(dinode[d], token, n)}
  IN  Within[NInodes]

stat(n) == [inode  |-> n,
            links  |-> dinode[n].nlink,
            size   |-> i_size0(dinode[n]),
            blocks |-> get_file_block_size(i_size0(dinode[n])),
            type   |-> get_file_type_name(dinode[n].mode)]

\* Seeded fault: like search_dir, the loop ends at an entry without an inode.
ListedToGap(d) == {p \in Mapped(d) : \A q \in Mapped(d) : (q = p \/ Precedes(q, p))
                                                             => EntryAt(d, q).ino # 0}

\* The entries of a directory that ls prints a line for, and the line.
Listed(d) == {p \in Mapped(d) : EntryAt(d, p).ino # 0}

Line(d, p) ==
  LET n == EntryAt(d, p).ino
  IN  [inode |-> n,
       links |-> dinode[n].nlink,
       size  |-> i_size0(dinode[n]),
       type  |-> get_file_type_name(dinode[n].mode),
       name  |-> EntryAt(d, p).name]

ls(d) == {Line(d, p) : p \in Listed(d)}

-----------------------------------------------------------------------------
\* The inode's own numbers on a line of ls are those stat prints for the path.
SameInode(line, st) ==
  line.inode = st.inode /\ line.links = st.links /\ line.size = st.size /\ line.type = st.type

\* ls of a directory and namei never contradict each other: ls prints one line for
\* each name that namei finds there, with what stat prints for that path, and none
\* for a name that leads nowhere.
LsAgreesWithNamei ==
  Quiet => \A n \in Paths : LET d == dinode[n] IN d.mode = "dir" =>
             /\ \A token \in Names \cup Dots, i \in Inodes :
                  search_dir(d, token, i)
                    => \E line \in ls(d) : line.name = token /\ SameInode(line, stat(i))
             /\ \A line \in ls(d) : search_dir(d, line.name, line.inode)
             /\ Cardinality(ls(d)) = Cardinality(Listed(d))

\* Whatever tool was killed, no line of ls and no stat shows an inode that was
\* given back: a type that is not REG or DIR, or no links.
NothingUnknownShown ==
  Quiet => \A n \in Paths : stat(n).type # "UNK" /\ stat(n).links > 0

\* What the entries leave unused at the ends of a directory's full blocks.
Unused(d) == (Cardinality(Logical \ Holes(d)) - 1) * (BLOCKSIZE % DIRENT_SIZE)

\* stat prints as many blocks for a file as it occupies in the bitmap, also when the
\* cp that made it was killed, and for a directory as long as its blocks' unused
\* ends do not make up an entry: the size counts entries and no ends (dir.c:158,
\* 200), so that directories of 6 blocks and more may be shown one block short.
BlocksShown ==
  Quiet => \A n \in Paths :
             LET d == dinode[n]
             IN  d.mode = "reg" \/ Unused(d) < DIRENT_SIZE
                   => stat(n).blocks = Cardinality(Logical \ Holes(d))
=============================================================================
