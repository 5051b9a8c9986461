------------------------------ MODULE PangyaTree ------------------------------
(***************************************************************************)
(* What mkdir, cp and rm promise to their user: a tree of named files and  *)
(* directories, which each tool that succeeds changes once and at once,    *)
(* and which a tool that is refused does not change.  There are no inodes, *)
(* blocks or bitmaps here.  PangyaRefinement shows that the tools of       *)
(* PangyaTools keep this promise; a crash may only lose or empty the very  *)
(* file that the killed tool was creating.                                 *)
(***************************************************************************)
EXTENDS Integers, Sequences, SequencesExt

CONSTANTS
  Names,      \* the names users choose
  MaxChunks,  \* the largest file, in blocks
  MaxCrashes  \* bound: how many tools may be killed

VARIABLES
  tree,     \* from the paths that exist to what lies there
  phase,    \* of the running tool: idle, walking, working, done or refused
  request,  \* which tool runs, the name it was given and the host file's size
  where,    \* the path of the directory the tool has walked to
  crashes   \* how many tools were killed

treeVars == <<tree, phase, request, where, crashes>>

Root     == <<>>
Dir      == [kind |-> "dir", data |-> <<>>]
File(s)  == [kind |-> "reg", data |-> s]
NoRequest == [tool |-> "none", name |-> "", size |-> 0]

\* The chunks of a host file of n blocks, in order.
HostFile(n) == [j \in 1 .. n |-> j]

IsDir(path) == path \in DOMAIN tree /\ tree[path].kind = "dir"

Target == Append(where, request.name)

IsLeaf(path) == \A q \in DOMAIN tree : ~IsStrictPrefix(path, q)

TreeInit ==
  /\ tree = [p \in {Root} |-> Dir]
  /\ phase = "idle" /\ request = NoRequest /\ where = Root /\ crashes = 0

-----------------------------------------------------------------------------
Begin ==
  /\ phase = "idle" /\ phase' = "walking"
  /\ \E t \in {"mkdir", "cp", "rm"}, n \in Names, s \in 0 .. MaxChunks :
       request' = [tool |-> t, name |-> n, size |-> s]
  /\ UNCHANGED <<crashes, where, tree>>

\* One component of the path: down into a directory or a file, or up by "..".
Walk ==
  /\ phase = "walking" /\ phase' = "walking"
  /\ \/ where # Root /\ where' = Front(where)
     \/ \E n \in Names : where' = Append(where, n)
  /\ UNCHANGED <<request, crashes>>
  /\ where' \in DOMAIN tree
  /\ tree' = tree

Arrive ==
  /\ phase = "walking" /\ phase' = "working"
  /\ UNCHANGED <<request, crashes, where, tree>>

\* tool t does its work, so that the tree becomes new.
Perform(t, new) ==
  /\ phase = "working" /\ phase' = "done"
  /\ request.tool = t
  /\ IsDir(where)
  /\ tree' = new
  /\ UNCHANGED <<request, crashes, where>>

\* The tree with a new entry, or without an old one.
With(node)    == [p \in DOMAIN tree \cup {Target} |-> IF p = Target THEN node ELSE tree[p]]
Without(path) == [p \in DOMAIN tree \ {path} |-> tree[p]]

Mkdir  == Target \notin DOMAIN tree /\ Perform("mkdir", With(Dir))

Copy   == Target \notin DOMAIN tree /\ Perform("cp", With(File(HostFile(request.size))))

Unlink == Target \in DOMAIN tree /\ IsLeaf(Target) /\ Perform("rm", Without(Target))

\* A path that does not exist is refused, and so is every path that runs through
\* "." or ".." of a directory whose mkdir was killed.
NoSuchPath == crashes > 0 \/ \E n \in Names : Append(where, n) \notin DOMAIN tree

\* mkdir and cp may lack room; rm has no excuse but its target.
Refuse ==
  /\ \/ phase = "walking" /\ NoSuchPath
     \/ phase = "working" /\ request.tool \in {"mkdir", "cp"}
     \/ phase = "working" /\ request.tool = "rm" /\ ~(Target \in DOMAIN tree /\ IsLeaf(Target))
  /\ phase' = "refused"
  /\ UNCHANGED <<request, crashes, where, tree>>

Idle == phase' = "idle" /\ request' = NoRequest /\ where' = Root

End ==
  /\ phase \in {"done", "refused"} /\ Idle
  /\ UNCHANGED <<crashes, tree>>

\* The tool is killed: what it created may be lost, or be there without its data.
Crash ==
  /\ phase # "idle" /\ crashes < MaxCrashes /\ crashes' = crashes + 1 /\ Idle
  /\ \/ tree' = tree
     \/ phase = "done" /\ request.tool \in {"mkdir", "cp"} /\ tree' = Without(Target)
     \/ phase = "done" /\ request.tool = "cp" /\ tree' = With(File(<<>>))

TreeNext == Begin \/ Walk \/ Arrive \/ Mkdir \/ Copy \/ Unlink \/ Refuse \/ End \/ Crash

TreeSpec == TreeInit /\ [][TreeNext]_treeVars
=============================================================================
