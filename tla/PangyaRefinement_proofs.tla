------------------------ MODULE PangyaRefinement_proofs ------------------------
(***************************************************************************)
(* Proof that mkdir, cp and rm implement the file tree of PangyaTree, as   *)
(* long as no read or write fails and at most one tool is killed.  The     *)
(* argument, in the order of this module:                                  *)
(*                                                                         *)
(*  - a set of paths that leads from the root to each of its inodes once   *)
(*    is determined by what the inodes list, and so is the tree (Leads,    *)
(*    Shape);                                                              *)
(*  - what users see of the disk is such a tree in every state, given the  *)
(*    invariant LiveInv of PangyaLive: it has the live inodes and, while   *)
(*    put_inode is about to write a new block of the parent, the new inode *)
(*    besides them (Told);                                                 *)
(*  - each action of the tools then makes a step of the tree, or none      *)
(*    (Simulates).                                                         *)
(***************************************************************************)
EXTENDS PangyaRefinement, PangyaContents_proofs, SequenceTheorems

-----------------------------------------------------------------------------
(* Paths, and where they lead.                                             *)

\* The names in a path, and the path of the root with its inode.
Tokens == Names \cup Dots \cup {""}
NoPath == <<<<>>, ROOT_INODE>>

\* The path x, one name further, along the entry e.
Further(x, e) == <<Append(x[1], e.name), e.ino>>

\* The inodes R, with the entries lists[n] in inode n, make up a tree.
Arbor(R, lists) ==
  /\ ROOT_INODE \in R /\ R \subseteq Inodes
  /\ \A n \in R : \A e \in lists[n] : e.ino \in R \ {ROOT_INODE} /\ e.name \in Tokens
  /\ \A m, n \in R : \A e \in lists[m] : \A f \in lists[n] : e.ino = f.ino => m = n /\ e = f
  /\ \A n \in R : \A e, f \in lists[n] : e.name = f.name => e = f

\* N is the set of all paths, and of what they lead to.
Leads(N, lists, R) ==
  /\ NoPath \in N
  /\ \A x \in N : x[1] \in Seq(Tokens) /\ x[2] \in R /\ x = <<x[1], x[2]>>
  /\ \A x \in N : \A e \in lists[x[2]] : e.name \in Tokens /\ Further(x, e) \in N
  /\ \A x \in N : x = NoPath \/ \E y \in N : \E e \in lists[y[2]] : e.name \in Tokens /\ x = Further(y, e)
  /\ \A x, y \in N : x[1] = y[1] \/ x[2] = y[2] => x = y

\* What the longer path is.
LEMMA PathFurther ==
  ASSUME NEW x, NEW e, x[1] \in Seq(Tokens), e.name \in Tokens
  PROVE  /\ Further(x, e)[1] = Append(x[1], e.name) /\ Further(x, e)[2] = e.ino
         /\ Further(x, e)[1] \in Seq(Tokens) /\ Len(Further(x, e)[1]) = Len(x[1]) + 1
         /\ Len(x[1]) \in Nat /\ Further(x, e)[1] # <<>>
  BY DEF Further

\* Only the same name makes two paths the same longer one.
LEMMA SameFurther ==
  ASSUME NEW x, NEW y, NEW a, NEW b, x \in Seq(Tokens), y \in Seq(Tokens), a \in Tokens, b \in Tokens,
         Append(x, a) = Append(y, b)
  PROVE  x = y /\ a = b
<1>1. Len(Append(x, a)) = Len(x) + 1 /\ Len(Append(y, b)) = Len(y) + 1
  OBVIOUS
<1>2. Len(x) = Len(y) /\ Len(x) \in Nat
  BY <1>1
<1>3. Append(x, a)[Len(x) + 1] = a /\ Append(y, b)[Len(y) + 1] = b
  OBVIOUS
<1>4. \A i \in 1 .. Len(x) : x[i] = Append(x, a)[i] /\ y[i] = Append(y, b)[i]
  BY <1>2
<1>5. x = y
  BY <1>2, <1>4, SeqEqual
<1> QED
  BY <1>2, <1>3, <1>5

\* Whatever holds of the empty path, and of a path one name longer, holds of all.
LEMMA PathInduction ==
  ASSUME NEW N, NEW lists, NEW R, Leads(N, lists, R), NEW S, NoPath \in S,
         \A x \in N \cap S : \A e \in lists[x[2]] : Further(x, e) \in S
  PROVE  N \subseteq S
<1> DEFINE Short == {i \in Nat : \A x \in N : Len(x[1]) <= i => x \in S}
<1>1. \A x \in N : Len(x[1]) \in Nat /\ x[1] \in Seq(Tokens)
  BY DEF Leads
<1>2. 0 \in Short
  <2> SUFFICES ASSUME NEW x \in N, Len(x[1]) <= 0 PROVE x \in S
    OBVIOUS
  <2>1. CASE x = NoPath
    BY <2>1
  <2>2. ASSUME NEW y \in N, NEW e \in lists[y[2]], e.name \in Tokens, x = Further(y, e) PROVE FALSE
    BY <1>1, <2>2, PathFurther
  <2> QED
    BY <2>1, <2>2 DEF Leads
<1>3. ASSUME NEW i \in Nat, i \in Short PROVE i + 1 \in Short
  <2> SUFFICES ASSUME NEW x \in N, Len(x[1]) <= i + 1 PROVE x \in S
    OBVIOUS
  <2>1. CASE x = NoPath
    BY <2>1
  <2>2. ASSUME NEW y \in N, NEW e \in lists[y[2]], e.name \in Tokens, x = Further(y, e) PROVE x \in S
    <3>1. Len(y[1]) <= i
      BY <1>1, <2>2, PathFurther
    <3> QED
      BY <1>3, <2>2, <3>1
  <2> QED
    BY <2>1, <2>2 DEF Leads
<1>4. Nat \subseteq Short
  <2> HIDE DEF Short
  <2> QED
    BY <1>2, <1>3, NatSetInduction
<1> QED
  BY <1>1, <1>4

\* So there is only one such set.
LEMMA LeadsOnce ==
  ASSUME NEW N, NEW lists, NEW R, Leads(N, lists, R), NEW M, NEW Q, Leads(M, lists, Q)
  PROVE  N = M
<1>1. N \subseteq M
  BY PathInduction DEF Leads
<1>2. M \subseteq N
  BY PathInduction DEF Leads
<1> QED
  BY <1>1, <1>2

-----------------------------------------------------------------------------
(* Depth by depth.                                                         *)

\* The paths of i names, for i up to n.
Depths(lists, n, g) ==
  g = [i \in 0 .. n |-> IF i = 0 THEN {NoPath} ELSE Deeper(lists, g[i - 1])]

\* There are paths of every length up to n.
LEMMA DepthsExist ==
  ASSUME NEW lists, NEW n \in Nat
  PROVE  \E g : Depths(lists, n, g)
<1> DEFINE Done == {m \in Nat : \E g : Depths(lists, m, g)}
<1>1. 0 \in Done
  <2>1. Depths(lists, 0, [i \in 0 .. 0 |-> {NoPath}])
    BY DEF Depths
  <2> QED
    BY <2>1
<1>2. ASSUME NEW m \in Nat, m \in Done PROVE m + 1 \in Done
  <2>1. PICK g : Depths(lists, m, g)
    BY <1>2
  <2> DEFINE h == [i \in 0 .. m + 1 |-> IF i = m + 1 THEN Deeper(lists, g[m]) ELSE g[i]]
  <2>2. Depths(lists, m + 1, h)
    <3> SUFFICES ASSUME NEW i \in 0 .. m + 1
                 PROVE  h[i] = IF i = 0 THEN {NoPath} ELSE Deeper(lists, h[i - 1])
      BY DEF Depths
    <3>1. CASE i = m + 1
      <4>1. i # 0 /\ i - 1 = m /\ m \in 0 .. m + 1 /\ m # m + 1
        BY <3>1
      <4> QED
        BY <3>1, <4>1
    <3>2. CASE i # m + 1
      <4>1. i \in 0 .. m /\ (i # 0 => i - 1 \in 0 .. m + 1 /\ i - 1 # m + 1)
        BY <3>2
      <4> QED
        BY <2>1, <4>1, <3>2 DEF Depths
    <3> QED
      BY <3>1, <3>2
  <2> HIDE DEF h
  <2> QED
    BY <2>2
<1>3. Nat \subseteq Done
  <2> HIDE DEF Done
  <2> QED
    BY <1>1, <1>2, NatSetInduction
<1> QED
  BY <1>3

\* The depths LeadingTo is made up of, and one more.
LEMMA DepthsOf ==
  ASSUME NEW lists
  PROVE  \E V : /\ LeadingTo(lists) = UNION {V[i] : i \in 0 .. NInodes - 2}
                /\ V[0] = {NoPath}
                /\ \A i \in 0 .. NInodes - 2 : V[i + 1] = Deeper(lists, V[i])
<1> DEFINE n == NInodes - 2
           W == CHOOSE g : g = [i \in 0 .. n |-> IF i = 0 THEN {<<<<>>, ROOT_INODE>>}
                                                ELSE Deeper(lists, g[i - 1])]
           V == [i \in 0 .. n + 1 |-> IF i = n + 1 THEN Deeper(lists, W[n]) ELSE W[i]]
<1>1. n \in Nat
  BY GeometryAssumption
<1>2. LeadingTo(lists) = UNION {W[i] : i \in 0 .. n}
  BY DEF LeadingTo
<1>3. Depths(lists, n, W)
  <2>1. PICK g : g = [i \in 0 .. n |-> IF i = 0 THEN {<<<<>>, ROOT_INODE>>} ELSE Deeper(lists, g[i - 1])]
    BY <1>1, DepthsExist DEF Depths, NoPath
  <2>2. W = [i \in 0 .. n |-> IF i = 0 THEN {<<<<>>, ROOT_INODE>>} ELSE Deeper(lists, W[i - 1])]
    BY <2>1
  <2> QED
    BY <2>2 DEF Depths, NoPath
<1> HIDE DEF W
<1>4. \A i \in 0 .. n : V[i] = W[i]
  BY <1>1
<1>5. V[0] = {NoPath}
  <2>1. 0 \in 0 .. n
    BY <1>1
  <2>2. W[0] = {NoPath}
    BY <1>3, <2>1 DEF Depths
  <2> QED
    BY <1>4, <2>1, <2>2
<1>6. ASSUME NEW i \in 0 .. n PROVE V[i + 1] = Deeper(lists, V[i])
  <2>1. V[i] = W[i]
    BY <1>4
  <2>2. CASE i = n
    <3>1. n + 1 \in 0 .. n + 1
      BY <1>1
    <3>2. V[n + 1] = Deeper(lists, W[n])
      BY <3>1
    <3> QED
      BY <2>1, <2>2, <3>2
  <2>3. CASE i # n
    <3>1. i + 1 \in 0 .. n /\ i + 1 # 0 /\ (i + 1) - 1 = i
      BY <1>1, <2>3
    <3>2. W[i + 1] = Deeper(lists, W[i])
      BY <1>3, <3>1 DEF Depths
    <3> QED
      BY <1>4, <2>1, <3>1, <3>2
  <2> QED
    BY <2>2, <2>3
<1>7. LeadingTo(lists) = UNION {V[i] : i \in 0 .. n}
  <2>1. {V[i] : i \in 0 .. n} = {W[i] : i \in 0 .. n}
    BY <1>4
  <2> QED
    BY <1>2, <2>1
<1> HIDE DEF V
<1> QED
  BY <1>5, <1>6, <1>7

\* V[i] holds the paths of i names, for i up to n.
Deepens(V, lists, n) == V[0] = {NoPath} /\ \A i \in 0 .. n - 1 : V[i + 1] = Deeper(lists, V[i])

\* A depth of the tree: its paths have i names, lead to inodes of the tree, and are
\* paths of the depth before and one name more.
LEMMA DepthTyped ==
  ASSUME NEW R, NEW lists, Arbor(R, lists), NEW V, NEW n \in Nat, Deepens(V, lists, n)
  PROVE  \A i \in 0 .. n : \A x \in V[i] :
           /\ x = <<x[1], x[2]>> /\ x[1] \in Seq(Tokens) /\ Len(x[1]) = i /\ x[2] \in R
           /\ i = 0 => x = NoPath
           /\ i # 0 => x[2] # ROOT_INODE /\ \E y \in V[i - 1] : \E e \in lists[y[2]] :
                                                e.name \in Tokens /\ x = Further(y, e)
<1> DEFINE Typed(i) == \A x \in V[i] :
             /\ x = <<x[1], x[2]>> /\ x[1] \in Seq(Tokens) /\ Len(x[1]) = i /\ x[2] \in R
             /\ i = 0 => x = NoPath
             /\ i # 0 => x[2] # ROOT_INODE /\ \E y \in V[i - 1] : \E e \in lists[y[2]] :
                                                  e.name \in Tokens /\ x = Further(y, e)
           Good == {i \in 0 .. n : Typed(i)}
<1>1. 0 \in Good
  <2>1. <<>> \in Seq(Tokens) /\ Len(<<>>) = 0
    BY EmptySeq
  <2>2. NoPath[1] = <<>> /\ NoPath[2] = ROOT_INODE
    BY DEF NoPath
  <2>3. Typed(0)
    BY <2>1, <2>2 DEF Arbor, NoPath, Deepens
  <2> HIDE DEF Typed
  <2> QED
    BY <2>3
<1>2. ASSUME NEW i \in 0 .. n - 1, i \in Good PROVE i + 1 \in Good
  <2>1. i + 1 \in 0 .. n /\ i + 1 # 0 /\ (i + 1) - 1 = i
    OBVIOUS
  <2>2. ASSUME NEW x \in V[i + 1]
        PROVE  /\ x = <<x[1], x[2]>> /\ x[1] \in Seq(Tokens) /\ Len(x[1]) = i + 1 /\ x[2] \in R
               /\ x[2] # ROOT_INODE
               /\ \E y \in V[i] : \E e \in lists[y[2]] : e.name \in Tokens /\ x = Further(y, e)
    <3>1. PICK y \in V[i] : \E e \in lists[y[2]] : x = Further(y, e)
      BY <2>2 DEF Deepens, Deeper, Further
    <3>2. PICK e \in lists[y[2]] : x = Further(y, e)
      BY <3>1
    <3>3. y[1] \in Seq(Tokens) /\ Len(y[1]) = i /\ y[2] \in R
      BY <1>2
    <3>4. e.ino \in R \ {ROOT_INODE} /\ e.name \in Tokens
      BY <3>3 DEF Arbor
    <3>5. /\ x[1] \in Seq(Tokens) /\ Len(x[1]) = i + 1 /\ x[2] = e.ino
      BY <3>2, <3>3, <3>4, PathFurther
    <3>6. x = <<x[1], x[2]>>
      BY <3>2 DEF Further
    <3> QED
      BY <3>2, <3>4, <3>5, <3>6
  <2>3. Typed(i + 1)
    BY <2>1, <2>2
  <2> HIDE DEF Typed
  <2> QED
    BY <2>1, <2>3
<1>3. 0 .. n \subseteq Good
  <2> HIDE DEF Good
  <2> QED
    BY <1>1, <1>2, IntervalInduction
<1> QED
  BY <1>3

\* Two paths that are the same, or lead to the same inode, are the same.
LEMMA DepthOnce ==
  ASSUME NEW R, NEW lists, Arbor(R, lists), NEW V, NEW n \in Nat, Deepens(V, lists, n)
  PROVE  \A i, j \in 0 .. n : \A x \in V[i] : \A y \in V[j] : x[1] = y[1] \/ x[2] = y[2] => x = y
<1> DEFINE Once(i) == \A j \in 0 .. n : \A x \in V[i] : \A y \in V[j] : x[1] = y[1] \/ x[2] = y[2] => x = y
           Good == {i \in 0 .. n : Once(i)}
<1>1. \A i \in 0 .. n : \A x \in V[i] :
        /\ x = <<x[1], x[2]>> /\ x[1] \in Seq(Tokens) /\ Len(x[1]) = i /\ x[2] \in R
        /\ i = 0 => x = NoPath
        /\ i # 0 => x[2] # ROOT_INODE /\ \E y \in V[i - 1] : \E e \in lists[y[2]] :
                                             e.name \in Tokens /\ x = Further(y, e)
  BY DepthTyped
<1>2. NoPath[1] = <<>> /\ NoPath[2] = ROOT_INODE
  BY DEF NoPath
<1>3. 0 \in Good
  <2>1. ASSUME NEW j \in 0 .. n, NEW x \in V[0], NEW y \in V[j], x[1] = y[1] \/ x[2] = y[2]
        PROVE  x = y
    <3>1. x = NoPath /\ Len(x[1]) = 0
      BY <1>1
    <3>2. j = 0
      BY <1>1, <1>2, <2>1, <3>1
    <3> QED
      BY <1>1, <3>1, <3>2
  <2> QED
    BY <2>1
<1>4. ASSUME NEW i \in 0 .. n - 1, i \in Good PROVE i + 1 \in Good
  <2>1. i + 1 \in 0 .. n /\ i + 1 # 0 /\ (i + 1) - 1 = i /\ i \in 0 .. n
    OBVIOUS
  <2>2. ASSUME NEW j \in 0 .. n, NEW x \in V[i + 1], NEW y \in V[j], x[1] = y[1] \/ x[2] = y[2]
        PROVE  x = y
    <3>1. /\ x[2] # ROOT_INODE /\ Len(x[1]) = i + 1
          /\ \E z \in V[i] : \E e \in lists[z[2]] : e.name \in Tokens /\ x = Further(z, e)
      BY <1>1, <2>1
    <3>2. PICK x0 \in V[i] : \E e \in lists[x0[2]] : e.name \in Tokens /\ x = Further(x0, e)
      BY <3>1
    <3>3. PICK e \in lists[x0[2]] : e.name \in Tokens /\ x = Further(x0, e)
      BY <3>2
    <3>4. j # 0
      BY <1>1, <1>2, <2>2, <3>1
    <3>5. PICK y0 \in V[j - 1] : \E f \in lists[y0[2]] : f.name \in Tokens /\ y = Further(y0, f)
      BY <1>1, <3>4
    <3>6. PICK f \in lists[y0[2]] : f.name \in Tokens /\ y = Further(y0, f)
      BY <3>5
    <3>7. j - 1 \in 0 .. n
      BY <3>4
    <3>8. /\ x0[1] \in Seq(Tokens) /\ x0[2] \in R /\ y0[1] \in Seq(Tokens) /\ y0[2] \in R
      BY <1>1, <2>1, <3>7
    <3>9. /\ x[1] = Append(x0[1], e.name) /\ x[2] = e.ino
          /\ y[1] = Append(y0[1], f.name) /\ y[2] = f.ino
      BY <3>3, <3>6, <3>8, PathFurther
    <3>10. x0[1] = y0[1] \/ x0[2] = y0[2] => x0 = y0
      <4>1. \A m \in 0 .. n : \A u \in V[i] : \A v \in V[m] : u[1] = v[1] \/ u[2] = v[2] => u = v
        BY <1>4
      <4>2. x0 \in V[i] /\ y0 \in V[j - 1]
        BY <3>2, <3>5
      <4> HIDE DEF Good
      <4> QED
        BY <3>7, <4>1, <4>2
    <3>11. CASE x[2] = y[2]
      <4>1. e.ino = f.ino
        BY <3>9, <3>11
      <4>2. e \in lists[x0[2]] /\ f \in lists[y0[2]]
        BY <3>3, <3>6
      <4>3. \A m, q \in R : \A g \in lists[m] : \A h \in lists[q] : g.ino = h.ino => m = q /\ g = h
        BY DEF Arbor
      <4>4. x0[2] = y0[2] /\ e = f
        BY <3>8, <4>1, <4>2, <4>3
      <4>5. x0 = y0
        BY <3>10, <4>4
      <4> QED
        BY <3>3, <3>6, <4>4, <4>5
    <3>12. CASE x[1] = y[1]
      <4>1. Append(x0[1], e.name) = Append(y0[1], f.name)
        BY <3>9, <3>12
      <4>2. x0[1] \in Seq(Tokens) /\ y0[1] \in Seq(Tokens) /\ e.name \in Tokens /\ f.name \in Tokens
        BY <3>3, <3>6, <3>8
      <4>3. x0[1] = y0[1] /\ e.name = f.name
        BY <4>1, <4>2, SameFurther, Zenon
      <4>4. x0 = y0
        BY <3>10, <4>3
      <4>5. e = f
        BY <3>3, <3>6, <3>8, <4>3, <4>4 DEF Arbor
      <4> QED
        BY <3>3, <3>6, <4>4, <4>5
    <3> QED
      BY <2>2, <3>11, <3>12
  <2> QED
    BY <2>1, <2>2
<1>5. 0 .. n \subseteq Good
  <2> HIDE DEF Good
  <2> QED
    BY <1>3, <1>4, IntervalInduction
<1> QED
  BY <1>5

\* A path of i names passes i + 1 inodes.
LEMMA DepthCount ==
  ASSUME NEW R, NEW lists, Arbor(R, lists), NEW V, NEW n \in Nat, Deepens(V, lists, n)
  PROVE  \A i \in 0 .. n : V[i] # {} => i + 1 <= NInodes - 1
<1> DEFINE Passed(i) == {x[2] : x \in UNION {V[j] : j \in 0 .. i}}
           Counted(i) == V[i] # {} => \E S \in SUBSET Passed(i) : IsFiniteSet(S) /\ Cardinality(S) = i + 1
           Good == {i \in 0 .. n : Counted(i)}
<1>1. \A i \in 0 .. n : \A x \in V[i] :
        /\ x = <<x[1], x[2]>> /\ x[1] \in Seq(Tokens) /\ Len(x[1]) = i /\ x[2] \in R
        /\ i = 0 => x = NoPath
        /\ i # 0 => x[2] # ROOT_INODE /\ \E y \in V[i - 1] : \E e \in lists[y[2]] :
                                             e.name \in Tokens /\ x = Further(y, e)
  BY DepthTyped
<1>2. \A i, j \in 0 .. n : \A x \in V[i] : \A y \in V[j] : x[1] = y[1] \/ x[2] = y[2] => x = y
  BY DepthOnce
<1>3. 0 \in Good
  <2>1. NoPath[2] = ROOT_INODE /\ 0 \in 0 .. 0 /\ 0 \in 0 .. n
    BY DEF NoPath
  <2>2. ROOT_INODE \in Passed(0)
    BY <2>1 DEF Deepens
  <2>3. IsFiniteSet({ROOT_INODE}) /\ Cardinality({ROOT_INODE}) = 1
    BY FS_Singleton
  <2>4. IsFiniteSet({ROOT_INODE}) /\ Cardinality({ROOT_INODE}) = 0 + 1
    BY <2>3
  <2> HIDE DEF Passed
  <2>5. Counted(0)
    BY <2>2, <2>4
  <2> HIDE DEF Counted
  <2> QED
    BY <2>1, <2>5
<1>4. ASSUME NEW i \in 0 .. n - 1, i \in Good PROVE i + 1 \in Good
  <2>1. i + 1 \in 0 .. n /\ i + 1 # 0 /\ (i + 1) - 1 = i /\ i \in 0 .. n
    OBVIOUS
  <2>2. ASSUME NEW x \in V[i + 1]
        PROVE  \E S \in SUBSET Passed(i + 1) : IsFiniteSet(S) /\ Cardinality(S) = (i + 1) + 1
    <3>1. V[i] # {}
      BY <1>1, <2>1
    <3>2. PICK S \in SUBSET Passed(i) : IsFiniteSet(S) /\ Cardinality(S) = i + 1
      BY <1>4, <3>1
    <3>3. x[2] \notin Passed(i)
      <4>1. SUFFICES ASSUME NEW j \in 0 .. i, NEW y \in V[j], y[2] = x[2] PROVE FALSE
        OBVIOUS
      <4>2. j \in 0 .. n
        OBVIOUS
      <4>3. x = y
        BY <1>2, <2>1, <4>1, <4>2
      <4> QED
        BY <1>1, <2>1, <4>2, <4>3
    <3>4. S \cup {x[2]} \in SUBSET Passed(i + 1)
      <4>1. \A y \in Passed(i) : y \in Passed(i + 1)
        OBVIOUS
      <4>2. i + 1 \in 0 .. i + 1
        OBVIOUS
      <4>3. x[2] \in Passed(i + 1)
        BY <4>2
      <4> QED
        BY <4>1, <4>3
    <3> HIDE DEF Passed
    <3>5. x[2] \notin S
      BY <3>3
    <3>6. IsFiniteSet(S \cup {x[2]}) /\ Cardinality(S \cup {x[2]}) = (i + 1) + 1
      BY <3>2, <3>5, FS_AddElement
    <3> QED
      BY <3>4, <3>6
  <2> HIDE DEF Passed
  <2>3. Counted(i + 1)
    BY <2>2
  <2> HIDE DEF Counted
  <2> QED
    BY <2>1, <2>3
<1>5. 0 .. n \subseteq Good
  <2> HIDE DEF Good
  <2> QED
    BY <1>3, <1>4, IntervalInduction
<1>6. ASSUME NEW i \in 0 .. n, V[i] # {} PROVE i + 1 <= NInodes - 1
  <2>1. PICK S \in SUBSET Passed(i) : IsFiniteSet(S) /\ Cardinality(S) = i + 1
    BY <1>5, <1>6
  <2>2. S \in SUBSET Inodes
    <3>1. \A j \in 0 .. i : \A x \in V[j] : x[2] \in R
      BY <1>1
    <3>2. R \subseteq Inodes
      BY DEF Arbor
    <3> QED
      BY <2>1, <3>1, <3>2
  <2>3. IsFiniteSet(Inodes) /\ Cardinality(Inodes) = NInodes - 1
    BY GeometryAssumption, FS_Interval DEF Inodes
  <2> QED
    BY <2>1, <2>2, <2>3, FS_Subset
<1> QED
  BY <1>6

\* In a tree, LeadingTo finds all paths.
LEMMA LeadingLeads ==
  ASSUME NEW R, NEW lists, Arbor(R, lists)
  PROVE  Leads(LeadingTo(lists), lists, R)
<1> DEFINE n == NInodes - 2
<1>1. n \in Nat /\ n + 1 = NInodes - 1
  BY GeometryAssumption
<1>2. PICK V : /\ LeadingTo(lists) = UNION {V[i] : i \in 0 .. n}
               /\ V[0] = {NoPath}
               /\ \A i \in 0 .. n : V[i + 1] = Deeper(lists, V[i])
  BY DepthsOf
<1> DEFINE N == LeadingTo(lists)
<1>3. \A i \in 0 .. n : \A x \in V[i] :
        /\ x = <<x[1], x[2]>> /\ x[1] \in Seq(Tokens) /\ Len(x[1]) = i /\ x[2] \in R
        /\ i = 0 => x = NoPath
        /\ i # 0 => x[2] # ROOT_INODE /\ \E y \in V[i - 1] : \E e \in lists[y[2]] :
                                             e.name \in Tokens /\ x = Further(y, e)
  <2>1. Deepens(V, lists, n)
    BY <1>1, <1>2 DEF Deepens
  <2> HIDE DEF n
  <2> QED
    BY <1>1, <2>1, DepthTyped
<1>4. \A i, j \in 0 .. n : \A x \in V[i] : \A y \in V[j] : x[1] = y[1] \/ x[2] = y[2] => x = y
  <2>1. Deepens(V, lists, n)
    BY <1>1, <1>2 DEF Deepens
  <2> HIDE DEF n
  <2> QED
    BY <1>1, <2>1, DepthOnce
<1>5. V[n + 1] = {}
  <2>1. Deepens(V, lists, n + 1)
    BY <1>1, <1>2 DEF Deepens
  <2>2. n + 1 \in Nat /\ n + 1 \in 0 .. n + 1 /\ ~ ((n + 1) + 1 <= NInodes - 1)
    BY <1>1
  <2> HIDE DEF n
  <2>3. \A i \in 0 .. n + 1 : V[i] # {} => i + 1 <= NInodes - 1
    BY <2>1, <2>2, DepthCount
  <2> QED
    BY <2>2, <2>3
<1>6. \A x \in N : \E i \in 0 .. n : x \in V[i]
  BY <1>2
<1>7. \A i \in 0 .. n : \A x \in V[i] : x \in N
  BY <1>2
<1> HIDE DEF N, n
<1>8. NoPath \in N
  BY <1>1, <1>2, <1>7
<1>9. \A x \in N : x[1] \in Seq(Tokens) /\ x[2] \in R /\ x = <<x[1], x[2]>>
  BY <1>3, <1>6
<1>10. ASSUME NEW x \in N, NEW e \in lists[x[2]] PROVE e.name \in Tokens /\ Further(x, e) \in N
  <2>1. e.name \in Tokens
    BY <1>9 DEF Arbor
  <2>2. PICK i \in 0 .. n : x \in V[i]
    BY <1>6
  <2>3. Further(x, e) \in V[i + 1]
    BY <1>2, <2>2, <1>10 DEF Deeper, Further
  <2>4. i # n
    BY <1>5, <2>3
  <2>5. i + 1 \in 0 .. n
    BY <1>1, <2>4
  <2> QED
    BY <1>7, <2>3, <2>5, <2>1
<1>11. ASSUME NEW x \in N, x # NoPath
       PROVE  \E y \in N : \E e \in lists[y[2]] : e.name \in Tokens /\ x = Further(y, e)
  <2>1. PICK i \in 0 .. n : x \in V[i]
    BY <1>6
  <2>2. i # 0
    BY <1>3, <1>11, <2>1
  <2>3. i - 1 \in 0 .. n
    BY <1>1, <2>2
  <2> QED
    BY <1>3, <1>7, <2>1, <2>2, <2>3
<1>12. \A x, y \in N : x[1] = y[1] \/ x[2] = y[2] => x = y
  BY <1>4, <1>6
<1> QED
  BY <1>8, <1>9, <1>10, <1>11, <1>12 DEF Leads, N

-----------------------------------------------------------------------------
(* What a step does to the paths.                                          *)

\* What the paths N lead to, when inode n looks as looks[n] says.
Shape(N, looks) == [path \in {x[1] : x \in N} |-> looks[InodeAt(N, path)]]

\* InodeAt and PathTo find what leads where.
LEMMA PathFound ==
  ASSUME NEW N, NEW lists, NEW R, Leads(N, lists, R), NEW x \in N
  PROVE  InodeAt(N, x[1]) = x[2] /\ PathTo(N, x[2]) = x[1]
<1>1. \A y \in N : y[1] = x[1] \/ y[2] = x[2] => y = x
  BY DEF Leads
<1>2. (CHOOSE y \in N : y[1] = x[1]) = x
  BY <1>1
<1>3. (CHOOSE y \in N : y[2] = x[2]) = x
  BY <1>1
<1> QED
  BY <1>2, <1>3 DEF InodeAt, PathTo

\* A shape has an entry for each path.
Depicts(sh, N, looks) ==
  /\ \A x \in N : x[1] \in DOMAIN sh /\ sh[x[1]] = looks[x[2]]
  /\ DOMAIN sh = {x[1] : x \in N}
  /\ sh = [path \in DOMAIN sh |-> sh[path]]

\* So has the shape of a set of paths.
LEMMA ShapeAt ==
  ASSUME NEW N, NEW lists, NEW R, Leads(N, lists, R), NEW looks
  PROVE  Depicts(Shape(N, looks), N, looks)
<1>1. ASSUME NEW x \in N
      PROVE  x[1] \in DOMAIN Shape(N, looks) /\ Shape(N, looks)[x[1]] = looks[x[2]]
  <2>1. InodeAt(N, x[1]) = x[2]
    BY PathFound
  <2> QED
    BY <2>1 DEF Shape
<1> QED
  BY <1>1 DEF Shape, Depicts

\* A path and its last name.
LEMMA PathParent ==
  ASSUME NEW N, NEW lists, NEW R, Leads(N, lists, R), NEW x \in N, NEW name \in Tokens
  PROVE  /\ \A e \in lists[x[2]] : e.name = name => Append(x[1], name) \in {y[1] : y \in N}
         /\ Append(x[1], name) \in {y[1] : y \in N} => \E e \in lists[x[2]] : e.name = name
         /\ \A y \in N : Append(x[1], name) = y[1] =>
              \E e \in lists[x[2]] : e.name = name /\ y = Further(x, e)
<1>1. \A y \in N : y[1] \in Seq(Tokens)
  BY DEF Leads
<1>2. ASSUME NEW e \in lists[x[2]], e.name = name
      PROVE  Append(x[1], name) \in {y[1] : y \in N}
  <2>1. Further(x, e) \in N
    BY DEF Leads
  <2>2. Further(x, e)[1] = Append(x[1], name)
    BY <1>1, <1>2, PathFurther
  <2> QED
    BY <2>1, <2>2
<1>3. ASSUME NEW y \in N, Append(x[1], name) = y[1]
      PROVE  \E e \in lists[x[2]] : e.name = name /\ y = Further(x, e)
  <2>1. y # NoPath
    <3>1. Len(y[1]) = Len(x[1]) + 1 /\ Len(x[1]) \in Nat
      BY <1>1, <1>3
    <3>2. NoPath[1] = <<>>
      BY DEF NoPath
    <3> QED
      BY <3>1, <3>2
  <2>2. PICK z \in N : \E e \in lists[z[2]] : e.name \in Tokens /\ y = Further(z, e)
    BY <2>1 DEF Leads
  <2>3. PICK e \in lists[z[2]] : e.name \in Tokens /\ y = Further(z, e)
    BY <2>2
  <2>4. y[1] = Append(z[1], e.name)
    BY <1>1, <2>3, PathFurther
  <2>5. Append(x[1], name) = Append(z[1], e.name)
    BY <1>3, <2>4
  <2>6. x[1] \in Seq(Tokens) /\ z[1] \in Seq(Tokens) /\ e.name \in Tokens
    BY <1>1, <2>2, <2>3
  <2>7. x[1] = z[1] /\ name = e.name
    BY <2>5, <2>6, SameFurther, Zenon
  <2>8. x = z
    BY <2>7 DEF Leads
  <2> QED
    BY <2>3, <2>7, <2>8
<1> QED
  BY <1>2, <1>3

\* The inodes on the paths keep their entries.
LEMMA LeadsKept ==
  ASSUME NEW N, NEW lists, NEW R, Leads(N, lists, R), NEW lists2,
         \A x \in N : lists2[x[2]] = lists[x[2]]
  PROVE  Leads(N, lists2, R)
  BY DEF Leads

\* Directory x[2] has a new entry, for an inode m without entries.
LEMMA LeadsMore ==
  ASSUME NEW N, NEW lists, NEW R, Leads(N, lists, R), NEW lists2, NEW x \in N, NEW e,
         e.ino \notin R, e.name \in Tokens, \A f \in lists[x[2]] : f.name # e.name,
         lists2[x[2]] = lists[x[2]] \cup {e}, lists2[e.ino] = {},
         \A y \in N : y # x => lists2[y[2]] = lists[y[2]]
  PROVE  Leads(N \cup {Further(x, e)}, lists2, R \cup {e.ino})
<1> DEFINE z == Further(x, e)
<1>1. \A y \in N : y[1] \in Seq(Tokens) /\ y[2] \in R /\ y = <<y[1], y[2]>>
  BY DEF Leads
<1>2. z[1] = Append(x[1], e.name) /\ z[2] = e.ino /\ z[1] \in Seq(Tokens) /\ z = <<z[1], z[2]>>
  BY <1>1, PathFurther DEF Further
<1>3. \A y \in N : y[1] # z[1] /\ y[2] # z[2]
  <2>1. ASSUME NEW y \in N, y[1] = z[1] PROVE FALSE
    BY <1>2, <2>1, PathParent
  <2> QED
    BY <1>1, <1>2, <2>1
<1>4. e.name \in Tokens
  OBVIOUS
<1> HIDE DEF z
<1>5. NoPath \in N \cup {z}
  BY DEF Leads
<1>6. \A y \in N \cup {z} : y[1] \in Seq(Tokens) /\ y[2] \in R \cup {e.ino} /\ y = <<y[1], y[2]>>
  BY <1>1, <1>2
<1>7. ASSUME NEW y \in N \cup {z}, NEW f \in lists2[y[2]]
      PROVE  f.name \in Tokens /\ Further(y, f) \in N \cup {z}
  <2>1. CASE y = z
    BY <1>2, <1>7, <2>1
  <2>2. CASE y = x /\ f = e
    BY <2>2, <1>4 DEF z
  <2>3. CASE y \in N /\ ~(y = x /\ f = e)
    <3>1. f \in lists[y[2]]
      BY <1>7, <2>3
    <3> QED
      BY <2>3, <3>1 DEF Leads
  <2> QED
    BY <2>1, <2>2, <2>3
<1>8. ASSUME NEW y \in N \cup {z}, y # NoPath
      PROVE  \E w \in N \cup {z} : \E f \in lists2[w[2]] : f.name \in Tokens /\ y = Further(w, f)
  <2>1. CASE y = z
    BY <2>1 DEF z
  <2>2. CASE y \in N
    <3>1. PICK w \in N : \E f \in lists[w[2]] : f.name \in Tokens /\ y = Further(w, f)
      BY <1>8, <2>2 DEF Leads
    <3>2. PICK f \in lists[w[2]] : f.name \in Tokens /\ y = Further(w, f)
      BY <3>1
    <3>3. f \in lists2[w[2]]
      BY <3>1, <3>2
    <3> QED
      BY <3>1, <3>2, <3>3
  <2> QED
    BY <2>1, <2>2
<1>9. \A y, w \in N \cup {z} : y[1] = w[1] \/ y[2] = w[2] => y = w
  BY <1>3 DEF Leads
<1> QED
  BY <1>5, <1>6, <1>7, <1>8, <1>9 DEF Leads, z

\* Directory x[2] loses entry e, for an inode without entries.
LEMMA LeadsLess ==
  ASSUME NEW N, NEW lists, NEW R, Leads(N, lists, R), NEW lists2, NEW x \in N, NEW e \in lists[x[2]],
         e.name \in Tokens, \A f \in lists[x[2]] : f.name = e.name => f = e,
         lists[e.ino] = {}, lists2[x[2]] = lists[x[2]] \ {e},
         \A y \in N : y # x /\ y # Further(x, e) => lists2[y[2]] = lists[y[2]]
  PROVE  Leads(N \ {Further(x, e)}, lists2, R)
<1> DEFINE z == Further(x, e)
<1>1. \A y \in N : y[1] \in Seq(Tokens) /\ y[2] \in R /\ y = <<y[1], y[2]>>
  BY DEF Leads
<1>2. z \in N /\ z[2] = e.ino /\ z[1] = Append(x[1], e.name) /\ z # NoPath /\ z # x
  <2>1. z[1] = Append(x[1], e.name) /\ z[1] # <<>> /\ Len(z[1]) = Len(x[1]) + 1 /\ Len(x[1]) \in Nat
        /\ z[2] = e.ino
    BY <1>1, PathFurther
  <2>2. NoPath[1] = <<>>
    BY DEF NoPath
  <2>3. z \in N
    BY DEF Leads
  <2> HIDE DEF z
  <2> QED
    BY <2>1, <2>2, <2>3
<1>3. \A y \in N : x[1] = y[1] => x = y
  BY DEF Leads
<1>4. ASSUME NEW y \in N, NEW f \in lists[y[2]], Further(y, f) = z, f.name \in Tokens
      PROVE  y = x /\ f = e
  <2>1. z[1] = Append(y[1], f.name) /\ z[2] = f.ino
    BY <1>1, <1>4, PathFurther
  <2>2. x[1] \in Seq(Tokens) /\ y[1] \in Seq(Tokens) /\ Append(x[1], e.name) = Append(y[1], f.name)
    BY <1>1, <1>2, <2>1
  <2>3. e.name \in Tokens /\ f.name \in Tokens
    BY <1>4
  <2>4. PICK s, t, a, b : s = x[1] /\ t = y[1] /\ a = e.name /\ b = f.name
    OBVIOUS
  <2>5. s = t /\ a = b
    BY <2>2, <2>3, <2>4, SameFurther
  <2>6. x[1] = y[1] /\ e.name = f.name
    BY <2>4, <2>5
  <2>7. x = y
    BY <1>3, <2>6
  <2> QED
    BY <2>6, <2>7
<1>5. \A y \in N : y # z => y[2] # z[2] /\ y[1] # z[1]
  BY <1>2 DEF Leads
<1>6. \A y \in N : y # x /\ y # z => lists2[y[2]] = lists[y[2]]
  OBVIOUS
<1>7. x \in N /\ lists2[x[2]] = lists[x[2]] \ {e} /\ lists[z[2]] = {}
  BY <1>2
<1> HIDE DEF z
<1>8. NoPath \in N \ {z}
  BY <1>2 DEF Leads
<1>9. \A y \in N \ {z} : \A f \in lists2[y[2]] : f \in lists[y[2]]
  BY <1>6, <1>7
<1>10. ASSUME NEW y \in N \ {z}, NEW f \in lists2[y[2]]
       PROVE  f.name \in Tokens /\ Further(y, f) \in N \ {z}
  <2>1. f \in lists[y[2]] /\ f.name \in Tokens /\ Further(y, f) \in N
    BY <1>9 DEF Leads
  <2>2. Further(y, f) # z
    <3>1. ASSUME Further(y, f) = z PROVE FALSE
      <4>1. y = x /\ f = e
        BY <1>4, <2>1, <3>1
      <4> QED
        BY <1>10, <1>7, <4>1
    <3> QED
      BY <3>1
  <2> QED
    BY <2>1, <2>2
<1>11. ASSUME NEW y \in N \ {z}, y # NoPath
       PROVE  \E w \in N \ {z} : \E f \in lists2[w[2]] : f.name \in Tokens /\ y = Further(w, f)
  <2>1. PICK w \in N : \E f \in lists[w[2]] : f.name \in Tokens /\ y = Further(w, f)
    BY <1>11 DEF Leads
  <2>2. PICK f \in lists[w[2]] : f.name \in Tokens /\ y = Further(w, f)
    BY <2>1
  <2>3. w # z
    BY <1>7, <2>2
  <2>4. f \in lists2[w[2]]
    <3>1. CASE w = x
      <4>1. f # e
        BY <1>11, <2>2, <3>1 DEF z
      <4> QED
        BY <1>7, <2>2, <3>1, <4>1
    <3>2. CASE w # x
      BY <1>6, <2>1, <2>2, <2>3, <3>2
    <3> QED
      BY <3>1, <3>2
  <2> QED
    BY <2>1, <2>2, <2>3, <2>4
<1>12. \A y, w \in N \ {z} : y[1] = w[1] \/ y[2] = w[2] => y = w
  BY DEF Leads
<1> QED
  BY <1>1, <1>8, <1>10, <1>11, <1>12 DEF Leads, z

\* An inode without entries ends every path to it.
LEMMA PathEnds ==
  ASSUME NEW N, NEW lists, NEW R, Leads(N, lists, R), NEW x \in N, lists[x[2]] = {}
  PROVE  \A y \in N : ~Tree!IsStrictPrefix(x[1], y[1])
<1> DEFINE S == {y \in N : ~Tree!IsStrictPrefix(x[1], y[1])}
<1>1. \A y \in N : y[1] \in Seq(Tokens) /\ Len(y[1]) \in Nat
  BY DEF Leads
<1>2. NoPath \in S
  <2>1. NoPath[1] = <<>> /\ NoPath \in N /\ Len(<<>>) = 0
    BY DEF NoPath, Leads
  <2>2. Len(x[1]) <= 0 => x[1] = <<>>
    BY <1>1
  <2> QED
    BY <2>1, <2>2 DEF Tree!IsStrictPrefix, Tree!IsPrefix
<1>3. ASSUME NEW y \in N \cap S, NEW e \in lists[y[2]] PROVE Further(y, e) \in S
  <2>1. Further(y, e) \in N /\ e.name \in Tokens /\ Further(y, e)[1] = Append(y[1], e.name)
    BY <1>1, PathFurther DEF Leads
  <2>2. ASSUME Tree!IsStrictPrefix(x[1], Append(y[1], e.name)) PROVE FALSE
    <3>1. PICK s, t : s = x[1] /\ t = y[1]
      OBVIOUS
    <3>2. s \in Seq(Tokens) /\ t \in Seq(Tokens) /\ Len(s) \in Nat /\ Len(t) \in Nat
      BY <1>1, <3>1
    <3>3. /\ Len(s) <= Len(Append(t, e.name)) /\ s # Append(t, e.name)
          /\ SubSeq(s, 1, Len(s)) = SubSeq(Append(t, e.name), 1, Len(s))
      BY <2>2, <3>1 DEF Tree!IsStrictPrefix, Tree!IsPrefix
    <3>4. /\ Len(Append(t, e.name)) = Len(t) + 1 /\ Append(t, e.name) \in Seq(Tokens)
          /\ \A i \in 1 .. Len(t) : Append(t, e.name)[i] = t[i]
      BY <2>1, <3>2
    <3>5. Len(s) # Len(t) + 1
      <4>1. ASSUME Len(s) = Len(t) + 1 PROVE s = Append(t, e.name)
        <5>1. SubSeq(s, 1, Len(s)) = s
          BY <3>2, SubSeqFull
        <5>2. SubSeq(Append(t, e.name), 1, Len(s)) = Append(t, e.name)
          BY <3>4, <4>1, SubSeqFull
        <5> QED
          BY <3>3, <5>1, <5>2
      <4> QED
        BY <3>3, <4>1
    <3>6. Len(s) <= Len(t)
      BY <3>2, <3>3, <3>4, <3>5
    <3>7. SubSeq(Append(t, e.name), 1, Len(s)) = SubSeq(t, 1, Len(s))
      BY <3>2, <3>4, <3>6
    <3>8. s = t
      <4>1. Tree!IsPrefix(s, t)
        BY <3>3, <3>6, <3>7 DEF Tree!IsPrefix
      <4> QED
        BY <3>1, <4>1 DEF Tree!IsStrictPrefix
    <3>9. x = y
      BY <3>1, <3>8 DEF Leads
    <3> QED
      BY <3>9
  <2> QED
    BY <2>1, <2>2
<1>4. N \subseteq S
  <2> HIDE DEF S
  <2> QED
    BY <1>2, <1>3, PathInduction
<1> QED
  BY <1>4

\* And an inode with an entry does not.
LEMMA PathGoesOn ==
  ASSUME NEW N, NEW lists, NEW R, Leads(N, lists, R), NEW x \in N, NEW e \in lists[x[2]]
  PROVE  \E y \in N : Tree!IsStrictPrefix(x[1], y[1])
<1>1. Further(x, e) \in N /\ e.name \in Tokens /\ x[1] \in Seq(Tokens)
      /\ Further(x, e)[1] = Append(x[1], e.name)
  BY PathFurther DEF Leads
<1>2. PICK s : s = x[1]
  OBVIOUS
<1>3. s \in Seq(Tokens) /\ Len(s) \in Nat
  BY <1>1, <1>2
<1>4. Len(Append(s, e.name)) = Len(s) + 1 /\ Append(s, e.name) \in Seq(Tokens)
  BY <1>1, <1>3
<1>5. SubSeq(s, 1, Len(s)) = SubSeq(Append(s, e.name), 1, Len(s))
  BY <1>1, <1>3, <1>4
<1>6. Tree!IsStrictPrefix(s, Append(s, e.name))
  BY <1>3, <1>4, <1>5 DEF Tree!IsStrictPrefix, Tree!IsPrefix
<1> QED
  BY <1>1, <1>2, <1>6

\* The shape with v at path p, and without path p.
Grafted(shape, p, v) == [q \in DOMAIN shape \cup {p} |-> IF q = p THEN v ELSE shape[q]]
Pruned(shape, p)     == [q \in DOMAIN shape \ {p} |-> shape[q]]

\* The tree stays, gains or changes one inode, or loses one.
LEMMA ShapeSame ==
  ASSUME NEW N, NEW lists, NEW R, Leads(N, lists, R), NEW looks, NEW looks2,
         \A x \in N : looks2[x[2]] = looks[x[2]]
  PROVE  Shape(N, looks2) = Shape(N, looks)
<1>1. \A x \in N : InodeAt(N, x[1]) = x[2]
  BY PathFound
<1>2. \A path \in {x[1] : x \in N} : looks2[InodeAt(N, path)] = looks[InodeAt(N, path)]
  BY <1>1
<1> QED
  BY <1>2 DEF Shape

\* A path more, or a path whose inode looks different.
LEMMA ShapeWith ==
  ASSUME NEW N, NEW lists, NEW R, Leads(N, lists, R), NEW looks,
         NEW z, NEW lists2, NEW Q, Leads(N \cup {z}, lists2, Q), NEW looks2,
         \A x \in N : x # z => looks2[x[2]] = looks[x[2]]
  PROVE  Shape(N \cup {z}, looks2) = Grafted(Shape(N, looks), z[1], looks2[z[2]])
<1> DEFINE M == N \cup {z}
           new == [p \in DOMAIN Shape(N, looks) \cup {z[1]} |->
                     IF p = z[1] THEN looks2[z[2]] ELSE Shape(N, looks)[p]]
<1>1. Leads(M, lists2, Q) /\ M = N \cup {z}
  OBVIOUS
<1> HIDE DEF M
<1>2. /\ \A x \in M : x[1] \in DOMAIN Shape(M, looks2) /\ Shape(M, looks2)[x[1]] = looks2[x[2]]
      /\ DOMAIN Shape(M, looks2) = {x[1] : x \in M}
      /\ Shape(M, looks2) = [path \in DOMAIN Shape(M, looks2) |-> Shape(M, looks2)[path]]
  <2>1. Depicts(Shape(M, looks2), M, looks2)
    BY <1>1, ShapeAt
  <2> QED
    BY <2>1 DEF Depicts
<1>3. /\ \A x \in N : x[1] \in DOMAIN Shape(N, looks) /\ Shape(N, looks)[x[1]] = looks[x[2]]
      /\ DOMAIN Shape(N, looks) = {x[1] : x \in N}
  <2>1. Depicts(Shape(N, looks), N, looks)
    BY ShapeAt
  <2> QED
    BY <2>1 DEF Depicts
<1>4. {x[1] : x \in M} = DOMAIN Shape(N, looks) \cup {z[1]}
  BY <1>1, <1>3
<1>5. \A x \in M : x[1] = z[1] => x = z
  BY <1>1 DEF Leads
<1>6. ASSUME NEW x \in M
      PROVE  Shape(M, looks2)[x[1]] = new[x[1]]
  <2>1. x[1] \in DOMAIN Shape(N, looks) \cup {z[1]}
    BY <1>4
  <2>2. CASE x = z
    BY <1>2, <2>1, <2>2
  <2>3. CASE x # z
    <3>1. x \in N /\ x[1] # z[1]
      BY <1>1, <1>5, <2>3
    <3>2. Shape(M, looks2)[x[1]] = looks[x[2]]
      BY <1>2, <2>3, <3>1
    <3> QED
      BY <1>3, <2>1, <3>1, <3>2
  <2> QED
    BY <2>2, <2>3
<1>7. DOMAIN Shape(M, looks2) = DOMAIN Shape(N, looks) \cup {z[1]}
  BY <1>2, <1>4
<1>8. \A p \in DOMAIN Shape(N, looks) \cup {z[1]} : Shape(M, looks2)[p] = new[p]
  BY <1>4, <1>6
<1>9. Shape(M, looks2) = [p \in DOMAIN Shape(N, looks) \cup {z[1]} |-> Shape(M, looks2)[p]]
  BY <1>2, <1>7
<1> QED
  BY <1>1, <1>8, <1>9 DEF Grafted

\* A path less.
LEMMA ShapeWithout ==
  ASSUME NEW N, NEW lists, NEW R, Leads(N, lists, R), NEW looks, NEW z \in N,
         NEW lists2, NEW Q, Leads(N \ {z}, lists2, Q), NEW looks2,
         \A x \in N : x # z => looks2[x[2]] = looks[x[2]]
  PROVE  Shape(N \ {z}, looks2) = Pruned(Shape(N, looks), z[1])
<1> DEFINE M == N \ {z}
<1>1. Leads(M, lists2, Q) /\ M = N \ {z}
  OBVIOUS
<1> HIDE DEF M
<1>2. /\ \A x \in M : x[1] \in DOMAIN Shape(M, looks2) /\ Shape(M, looks2)[x[1]] = looks2[x[2]]
      /\ DOMAIN Shape(M, looks2) = {x[1] : x \in M}
      /\ Shape(M, looks2) = [path \in DOMAIN Shape(M, looks2) |-> Shape(M, looks2)[path]]
  <2>1. Depicts(Shape(M, looks2), M, looks2)
    BY <1>1, ShapeAt
  <2> QED
    BY <2>1 DEF Depicts
<1>3. /\ \A x \in N : x[1] \in DOMAIN Shape(N, looks) /\ Shape(N, looks)[x[1]] = looks[x[2]]
      /\ DOMAIN Shape(N, looks) = {x[1] : x \in N}
  <2>1. Depicts(Shape(N, looks), N, looks)
    BY ShapeAt
  <2> QED
    BY <2>1 DEF Depicts
<1>4. \A x \in N : x[1] = z[1] => x = z
  BY DEF Leads
<1>5. {x[1] : x \in M} = DOMAIN Shape(N, looks) \ {z[1]}
  BY <1>1, <1>3, <1>4
<1>6. \A x \in M : Shape(M, looks2)[x[1]] = Shape(N, looks)[x[1]]
  BY <1>1, <1>2, <1>3
<1>7. \A p \in DOMAIN Shape(N, looks) \ {z[1]} : Shape(M, looks2)[p] = Shape(N, looks)[p]
  BY <1>5, <1>6
<1>8. Shape(M, looks2) = [p \in DOMAIN Shape(N, looks) \ {z[1]} |-> Shape(M, looks2)[p]]
  BY <1>2, <1>5
<1> QED
  BY <1>1, <1>7, <1>8 DEF Pruned

-----------------------------------------------------------------------------
(* What the disk and the inodes in core make of the tree.                  *)

\* What stat and read show of every inode, once put_inode is done.
Looks == [n \in Inodes |-> InTree(AsPut(n))]

\* The entries that table t has for inode n.
TableEntries(t, dirs, n) == IF n \in dirs THEN {t[n][q] : q \in Kids(t, n)} ELSE {}

\* The tree of PangyaRefinement is the shape of its paths.
LEMMA TreeShape ==
  ASSUME NEW R, Leads(Named, Lists, R), R \subseteq Inodes
  PROVE  TreeOnDisk = Shape(Named, Looks)
<1>1. ASSUME NEW x \in Named PROVE InodeAt(Named, x[1]) = x[2] /\ x[2] \in Inodes
  <2>1. PICK N : N = Named
    OBVIOUS
  <2>2. Leads(N, Lists, R) /\ x \in N
    BY <2>1
  <2>3. InodeAt(N, x[1]) = x[2]
    BY <2>2, PathFound, Zenon
  <2> QED
    BY <2>1, <2>2, <2>3 DEF Leads
<1>2. \A path \in {x[1] : x \in Named} : InTree(AsPut(InodeAt(Named, path))) = Looks[InodeAt(Named, path)]
  BY <1>1 DEF Looks
<1> QED
  BY <1>2 DEF TreeOnDisk, Shape

\* What an inode lists when it maps the blocks that the disk says.
LEMMA EntriesAs ==
  ASSUME DiskTypeOK, NEW n \in Inodes, NEW d, d.addr = dinode[n].addr, d.mode = dinode[n].mode
  PROVE  EntriesIn(d) = TableEntries(Table, Dirs, n)
<1>1. CASE d.mode = "dir"
  <2>1. n \in Dirs
    BY <1>1 DEF Dirs
  <2>2. \A p \in Mapped(d) : p \in Positions /\ Table[n][p] = EntryAt(d, p)
    BY EntryTypesInTable DEF Mapped, EntryAt
  <2>3. \A q \in Kids(Table, n) : q \in Mapped(d)
    <3>1. NoEntry.ino = 0
      BY DEF NoEntry
    <3> QED
      BY <3>1, EntryTypesInTable DEF Kids, Mapped
  <2>4. EntriesIn(d) = {e \in {EntryAt(d, p) : p \in Mapped(d)} : e.ino # 0 /\ e.name \notin Dots}
    BY <1>1 DEF EntriesIn
  <2>5. TableEntries(Table, Dirs, n) = {Table[n][q] : q \in Kids(Table, n)}
    BY <2>1 DEF TableEntries
  <2>6. \A e : e \in EntriesIn(d) => e \in TableEntries(Table, Dirs, n)
    BY <2>2, <2>4, <2>5 DEF Kids
  <2>7. \A e : e \in TableEntries(Table, Dirs, n) => e \in EntriesIn(d)
    BY <2>2, <2>3, <2>4, <2>5 DEF Kids
  <2> QED
    BY <2>6, <2>7
<1>2. CASE d.mode # "dir"
  BY <1>2 DEF EntriesIn, TableEntries, Dirs
<1> QED
  BY <1>1, <1>2

\* A newborn inode lists nothing.
LEMMA EntriesNone ==
  ASSUME NEW S, NEW n, NEW c, NEW up, Newborn(S, dirents, n, c, up)
  PROVE  EntriesIn(c) = {}
<1>1. CASE c.mode = "dir"
  <2>1. OnlyDots(Row(dirents, c), n, up)
    BY <1>1 DEF Newborn
  <2>2. ASSUME NEW p \in Mapped(c), EntryAt(c, p).ino # 0 PROVE EntryAt(c, p).name \in Dots
    <3>1. p \in Positions /\ Row(dirents, c)[p] = EntryAt(c, p)
      BY DEF Mapped, Row, View, EntryAt
    <3> QED
      BY <2>1, <2>2, <3>1 DEF OnlyDots, Dots
  <2> QED
    BY <1>1, <2>2 DEF EntriesIn
<1>2. CASE c.mode # "dir"
  BY <1>2 DEF EntriesIn
<1> QED
  BY <1>1, <1>2

\* The live inodes are a tree.
LEMMA ArborTable ==
  ASSUME DiskTypeOK, NEW L, LiveDisk(L), NEW lists, \A n \in L : lists[n] = TableEntries(Table, Dirs, n)
  PROVE  Arbor(L, lists)
<1>1. /\ ROOT_INODE \in L /\ L \subseteq Inodes
      /\ KidsStay(L, Table, Dirs) /\ KidsOnce(L, Table, Dirs) /\ NamesOnce(L, Table, Dirs)
  BY DEF LiveDisk, InodesOf, TreeOf
<1>2. ASSUME NEW n \in L, NEW e \in lists[n]
      PROVE  n \in Dirs /\ \E q \in Kids(Table, n) : e = Table[n][q] /\ q \in Positions /\ e.ino # 0
  <2>1. e \in TableEntries(Table, Dirs, n)
    OBVIOUS
  <2>2. n \in Dirs /\ TableEntries(Table, Dirs, n) = {Table[n][q] : q \in Kids(Table, n)}
    BY <2>1 DEF TableEntries
  <2>3. PICK q \in Kids(Table, n) : e = Table[n][q]
    BY <2>1, <2>2
  <2>4. q \in Positions /\ Table[n][q].ino # 0
    BY DEF Kids
  <2> QED
    BY <2>2, <2>3, <2>4
<1>3. ASSUME NEW n \in L, NEW e \in lists[n]
      PROVE  e.ino \in L \ {ROOT_INODE} /\ e.name \in Tokens
  <2>1. PICK q \in Kids(Table, n) : e = Table[n][q] /\ q \in Positions
    BY <1>2
  <2>2. e.ino \in L \ {ROOT_INODE}
    BY <1>1, <1>2, <2>1 DEF KidsStay
  <2>3. Table[n][q] \in dirent
    BY <1>1, <2>1, EntryTypesInTable
  <2> QED
    BY <2>1, <2>2, <2>3 DEF dirent, Tokens
<1>4. ASSUME NEW m \in L, NEW n \in L, NEW e \in lists[m], NEW f \in lists[n], e.ino = f.ino
      PROVE  m = n /\ e = f
  <2>1. PICK q \in Kids(Table, m) : e = Table[m][q]
    BY <1>2
  <2>2. PICK r \in Kids(Table, n) : f = Table[n][r]
    BY <1>2
  <2>3. m \in L \cap Dirs /\ n \in L \cap Dirs
    BY <1>2
  <2>4. m = n /\ q = r
    BY <1>1, <1>4, <2>1, <2>2, <2>3 DEF KidsOnce
  <2> QED
    BY <2>1, <2>2, <2>4
<1>5. ASSUME NEW n \in L, NEW e \in lists[n], NEW f \in lists[n], e.name = f.name
      PROVE  e = f
  <2>1. PICK q \in Kids(Table, n) : e = Table[n][q] /\ q \in Positions /\ e.ino # 0
    BY <1>2
  <2>2. PICK r \in Kids(Table, n) : f = Table[n][r] /\ r \in Positions /\ f.ino # 0
    BY <1>2
  <2>3. q = r
    BY <1>1, <1>2, <1>5, <2>1, <2>2 DEF NamesOnce
  <2> QED
    BY <2>1, <2>2, <2>3
<1> QED
  BY <1>1, <1>3, <1>4, <1>5 DEF Arbor

\* And stay one with an inode more.
LEMMA ArborMore ==
  ASSUME NEW R, NEW lists, Arbor(R, lists), NEW lists2, NEW d \in R, NEW e,
         e.ino \in Inodes \ R, e.name \in Tokens, \A f \in lists[d] : f.name # e.name,
         lists2[d] = lists[d] \cup {e}, lists2[e.ino] = {}, \A n \in R \ {d} : lists2[n] = lists[n]
  PROVE  Arbor(R \cup {e.ino}, lists2)
<1>1. \A n \in R \cup {e.ino} : \A f \in lists2[n] : n \in R /\ (f \in lists[n] \/ (n = d /\ f = e))
  OBVIOUS
<1>2. ROOT_INODE \in R /\ R \cup {e.ino} \subseteq Inodes /\ e.ino # ROOT_INODE
  BY DEF Arbor
<1>3. \A n \in R \cup {e.ino} : \A f \in lists2[n] :
        f.ino \in (R \cup {e.ino}) \ {ROOT_INODE} /\ f.name \in Tokens
  BY <1>1, <1>2 DEF Arbor
<1>4. ASSUME NEW m \in R \cup {e.ino}, NEW n \in R \cup {e.ino}, NEW f \in lists2[m], NEW g \in lists2[n],
             f.ino = g.ino
      PROVE  m = n /\ f = g
  <2>1. m \in R /\ n \in R /\ (f \in lists[m] \/ (m = d /\ f = e)) /\ (g \in lists[n] \/ (n = d /\ g = e))
    BY <1>1
  <2>2. (f \in lists[m] => f.ino \in R) /\ (g \in lists[n] => g.ino \in R)
    BY <2>1 DEF Arbor
  <2>3. CASE f \in lists[m] /\ g \in lists[n]
    <3>1. \A h \in lists[n] : f.ino = h.ino => m = n /\ f = h
      BY <2>1, <2>3 DEF Arbor
    <3> QED
      BY <1>4, <2>3, <3>1
  <2>4. CASE f \notin lists[m] \/ g \notin lists[n]
    BY <1>4, <2>1, <2>2, <2>4
  <2> QED
    BY <2>3, <2>4
<1>5. ASSUME NEW n \in R \cup {e.ino}, NEW f \in lists2[n], NEW g \in lists2[n], f.name = g.name
      PROVE  f = g
  BY <1>1, <1>5 DEF Arbor
<1> QED
  BY <1>2, <1>3, <1>4, <1>5 DEF Arbor

-----------------------------------------------------------------------------
(* What the running tool holds for its target.                             *)

\* cp holds the chunks it has copied so far, and then all of the host file.
Copying ==
  /\ Copied
  /\ pc \in Adding /\ tool = "cp" => target.size = fsz /\ Chunks(target, fsz)

\* In cp's loop.
LEMMA CopyingFill ==
  ASSUME NEW L, Before(L), Copying,
         alloc_block \/ ZeroFresh \/ WriteDotEntries \/ CopyChunk \/ FileCopied
  PROVE  Copying'
<1>1. /\ LiveDisk(L) /\ L \subseteq Inodes /\ DiskTypeOK /\ core \in [Inodes2 -> inode]
      /\ LiveTool(L) /\ ProcTypeOK /\ InFlight /\ badblock(0)
      /\ target \in inode /\ parent \in inode
  BY BeforeParts, BlockRange DEF target, parent, Inodes2
<1>2. /\ pc \in Filling /\ pc' \in {"block", "bzero", "content", "entry"}
      /\ pc \in Holding => FreshBlock(L)
      /\ TargetStarted(L) /\ tool \in Creators
  <2>1. /\ pc \in {"block", "bzero", "content"} /\ pc' \in {"block", "bzero", "content", "entry"}
    BY DEF alloc_block, ZeroFresh, WriteDotEntries, CopyChunk, FileCopied
  <2> QED
    BY <1>1, <2>1 DEF LiveTool, Filling, Started, Creating, CreatesIn
<1>3. pc \in {"bzero", "content"} =>
        fresh # 0 /\ fresh \in Blocks /\ fresh \notin Taken(L) /\ \A l \in Logical : target.addr[l] # fresh
  BY <1>1, <1>2 DEF FreshBlock, Spare, DiskTypeOK, Holding
<1>4. Copied
  BY DEF Copying
<1>5. CASE alloc_block
  <2>1. /\ pc = "block" /\ pc' = "bzero" /\ SetBlockBit(fresh') /\ UNCHANGED <<args, core, k>>
    BY <1>5 DEF alloc_block
  <2>2. parent' = parent /\ target' = target /\ chunk' = chunk
    BY <1>1, <2>1, CoreFields DEF SetBlockBit
  <2> QED
    BY <1>4, <2>1, <2>2 DEF Copying, Copied, Chunks, Filling, Adding, args
<1>6. CASE ZeroFresh
  <2>1. /\ pc = "bzero" /\ pc' = "content" /\ zero_block(fresh) /\ UNCHANGED <<args, core, k>>
    BY <1>6 DEF ZeroFresh
  <2>2. parent' = parent /\ target' = target
    BY <1>1, <2>1, CoreFields
  <2>3. \A l \in Logical : target.addr[l] \in Blocks
    BY <1>1 DEF inode
  <2>4. \A l \in Logical : chunk'[target.addr[l]] = chunk[target.addr[l]]
    BY <1>1, <1>3, <2>1, <2>3 DEF zero_block, DiskTypeOK
  <2> QED
    BY <1>4, <2>1, <2>2, <2>4 DEF Copying, Copied, Chunks, Filling, Adding, args
<1>7. CASE WriteDotEntries
  <2>1. pc' = "entry" /\ tool' = "mkdir"
    BY <1>7 DEF WriteDotEntries, args
  <2> QED
    BY <2>1 DEF Copying, Copied, Filling
<1>8. CASE CopyChunk
  <2>1. /\ pc = "content" /\ pc' = "block" /\ tool = "cp" /\ WriteChunk(fresh, k)
        /\ core' = [core EXCEPT !["target"] = [target EXCEPT !.addr[k] = fresh]]
        /\ k' = k + 1 /\ UNCHANGED args
    BY <1>8 DEF CopyChunk, target
  <2>2. parent' = parent /\ target' = [target EXCEPT !.addr[k] = fresh]
    BY <1>1, <2>1, CoreFields
  <2>3. k < fsz /\ fsz <= NDIRECT /\ k \in Nat /\ k \in Logical /\ fsz \in Nat
    <3>1. k \in 0 .. NDIRECT /\ fsz \in 0 .. NDIRECT /\ k < fsz
      BY <1>1, <2>1 DEF ProcTypeOK, InFlight
    <3> QED
      BY <3>1, GeometryAssumption DEF Logical
  <2>4. \A l \in Logical : target'.addr[l] = IF l = k THEN fresh ELSE target.addr[l]
    BY <1>1, <2>2, <2>3 DEF inode
  <2>5. Chunks(target, k)
    BY <1>2, <1>4, <2>1 DEF Copied
  <2>6. chunk' = [chunk EXCEPT ![fresh] = k + 1]
    BY <2>1 DEF WriteChunk
  <2>7. Chunks(target, k)'
    <3> SUFFICES ASSUME NEW l \in Logical
                 PROVE  IF l < k + 1 THEN target'.addr[l] # 0 /\ chunk'[target'.addr[l]] = l + 1
                        ELSE target'.addr[l] = 0
      BY <2>1 DEF Chunks
    <3>1. l \in Int /\ (IF l < k THEN target.addr[l] # 0 /\ chunk[target.addr[l]] = l + 1
                        ELSE target.addr[l] = 0)
      BY <2>5 DEF Chunks, Logical
    <3>2. CASE l = k
      BY <1>1, <1>3, <2>1, <2>3, <2>4, <2>6, <3>2 DEF DiskTypeOK
    <3>3. CASE l # k
      <4>1. target'.addr[l] = target.addr[l] /\ target.addr[l] # fresh /\ target.addr[l] \in Blocks
        BY <1>1, <1>3, <2>1, <2>4, <3>3 DEF inode
      <4>2. chunk'[target.addr[l]] = chunk[target.addr[l]]
        BY <1>1, <2>6, <4>1 DEF DiskTypeOK
      <4> QED
        BY <2>3, <3>1, <3>3, <4>1, <4>2
    <3> QED
      BY <3>2, <3>3
  <2>8. k' <= fsz'
    BY <2>1, <2>3 DEF args
  <2> QED
    BY <2>1, <2>7, <2>8 DEF Copying, Copied, Adding
<1>9. CASE FileCopied
  <2>1. /\ pc = "block" /\ pc' = "entry" /\ UNCHANGED diskVars /\ ~NeedsBlock /\ UNCHANGED args
        /\ core' = [core EXCEPT !["target"] = [target EXCEPT !.size = fsz, !.nlink = 1]]
    BY <1>9 DEF FileCopied, target
  <2>2. tool = "cp" /\ ~(k < fsz)
    BY <1>2, <2>1 DEF NeedsBlock, Creators
  <2>3. k <= fsz /\ Chunks(target, k)
    BY <1>2, <1>4, <2>2 DEF Copied
  <2>4. k = fsz
    <3>1. k \in 0 .. NDIRECT /\ fsz \in 0 .. NDIRECT
      BY <1>1 DEF ProcTypeOK
    <3>2. k \in Int /\ fsz \in Int
      BY <3>1, GeometryAssumption
    <3> QED
      BY <2>2, <2>3, <3>2
  <2>5. target' = [target EXCEPT !.size = fsz, !.nlink = 1]
    BY <1>1, <2>1, CoreFields
  <2>6. target'.size = fsz /\ target'.addr = target.addr
    BY <1>1, <2>5 DEF inode
  <2>7. chunk' = chunk /\ fsz' = fsz
    BY <2>1 DEF diskVars, args
  <2>8. target'.size = fsz' /\ Chunks(target, fsz)'
    BY <2>3, <2>4, <2>6, <2>7 DEF Chunks
  <2> QED
    BY <2>1, <2>8 DEF Copying, Copied, Filling
<1> QED
  BY <1>5, <1>6, <1>7, <1>8, <1>9

\* Once copied, the chunks stay: add_entry writes other blocks.
LEMMA CopyingAdd ==
  ASSUME NEW L, Before(L), Copying, AddEntryAllocates \/ AddEntryZeroes
  PROVE  Copying'
<1>1. /\ LiveDisk(L) /\ L \subseteq Inodes /\ DiskTypeOK /\ core \in [Inodes2 -> inode]
      /\ LiveTool(L)
  BY BeforeParts
<1>2. /\ pc \in {"entry", "ezero"} /\ pc' \in {"ezero", "ewrite"} /\ UNCHANGED args
      /\ \/ core' = core /\ \E b \in FreeBlocks : SetBlockBit(b)
         \/ /\ pc = "ezero" /\ zero_block(fresh)
            /\ core' = [core EXCEPT !["parent"] = [parent EXCEPT !.addr[k] = fresh]]
  BY DEF AddEntryAllocates, AddEntryZeroes, parent
<1>3. Private(Spare(L), target) /\ pc \in Adding
  <2>1. pc \in Adding
    BY <1>2 DEF Adding
  <2> QED
    BY <1>2, <2>1, AddingTool
<1>4. target' = target
  BY <1>1, <1>2, CoreFields
<1>5. pc = "ezero" => fresh \notin Taken(L) /\ \A l \in Logical : target.addr[l] # fresh
  <2>1. pc = "ezero" => FreshBlock(L)
    BY <1>1 DEF LiveTool, Holding
  <2> QED
    BY <2>1 DEF FreshBlock, Spare
<1>6. \A l \in Logical : target.addr[l] # 0 => chunk'[target.addr[l]] = chunk[target.addr[l]]
  <2>1. CASE \E b \in FreeBlocks : SetBlockBit(b)
    BY <2>1 DEF SetBlockBit
  <2>2. CASE pc = "ezero" /\ zero_block(fresh)
    BY <1>1, <1>3, <1>5, <2>2, TargetAway
  <2> QED
    BY <1>2, <2>1, <2>2
<1> QED
  BY <1>2, <1>3, <1>4, <1>6 DEF Copying, Copied, Chunks, Filling, args

\* What pc is before and after the steps of Next.
LEMMA CopyingStep ==
  ASSUME OneKill, NEW L, Before(L), Copying, [Next]_vars
  PROVE  Copying'
<1>1. /\ LiveDisk(L) /\ LiveTool(L) /\ ProcTypeOK /\ core \in [Inodes2 -> inode]
  BY BeforeParts
<1>2. Copied
  BY DEF Copying
<1>3. ASSUME Exit PROVE Copying'
  BY <1>3 DEF Exit, Copying, Copied, Filling, Adding
<1>4. ASSUME pc' = "put" PROVE Copying'
  BY <1>4 DEF Copying, Copied, Filling, Adding
<1>5. CASE Start \/ WalkDown \/ WalkEnds \/ CreateLookup \/ alloc_inode
  <2>1. /\ pc \in {"idle", "walk", "lookup", "ibit"} /\ k' = k
        /\ pc' \in {"walk", "lookup", "ibit", "iwrite"}
    BY <1>5 DEF Start, Invoke, WalkDown, WalkEnds, CreateLookup, alloc_inode
  <2> QED
    BY <1>2, <2>1 DEF Copying, Copied, Filling, Adding
<1>6. CASE \/ WalkFails \/ CreateLookupFails \/ NoFreeInode \/ NoFreeBlock \/ HostFails
           \/ AddEntryFails \/ RmLookupFails \/ RmNotEmpty \/ AddEntryInSlot
           \/ AddEntryInNewBlock \/ detach_entry \/ ZeroFreed
  <2>1. pc' = "put"
    BY <1>6 DEF WalkFails, CreateLookupFails, NoFreeInode, NoFreeBlock, HostFails, ZeroFreed,
       AddEntryFails, RmLookupFails, RmNotEmpty, AddEntryInSlot, AddEntryInNewBlock, detach_entry,
       error_handler
  <2> QED
    BY <1>4, <2>1
<1>7. CASE InitInode
  <2>1. /\ pc = "iwrite" /\ pc' = "block" /\ k' = k /\ UNCHANGED args
        /\ core' = [core EXCEPT !["target"] = InCore(fresh, NewInode)]
    BY <1>7 DEF InitInode
  <2>2. target' = InCore(fresh, NewInode) /\ k = 0
    BY <1>1, <1>2, <2>1, CoreFields DEF Copied
  <2>3. target'.addr = Unmapped
    BY <2>2 DEF InCore, NewInode, BlankInode
  <2>4. Chunks(target, k)'
    BY <2>1, <2>2, <2>3 DEF Chunks, Unmapped, Logical
  <2>5. k' <= fsz'
    <3>1. fsz \in 0 .. NDIRECT
      BY <1>1 DEF ProcTypeOK
    <3>2. fsz \in Int /\ 0 <= fsz
      BY <3>1, GeometryAssumption
    <3> QED
      BY <2>1, <2>2, <3>2 DEF args
  <2> QED
    BY <2>1, <2>4, <2>5 DEF Copying, Copied, Adding
<1>8. CASE RmFile \/ RmEmptyDir
  <2>1. pc' = "detach"
    BY <1>8 DEF RmFile, RmEmptyDir, RmDirectory
  <2> QED
    BY <2>1 DEF Copying, Copied, Filling, Adding
<1>9. CASE put_inode
  <2>1. pc' \in {"put", "pzero", "ifree"} \/ Exit
    BY <1>9 DEF put_inode, PutClean, update_inode, free_block, ZeroFreed, BlankOut, free_inode, PutDone
  <2>2. pc' \in {"put", "pzero", "ifree"} => Copying'
    BY DEF Copying, Copied, Filling, Adding
  <2> QED
    BY <1>3, <2>1, <2>2
<1>10. CASE UNCHANGED vars
  BY <1>10 DEF vars, Copying, Copied, Chunks, Filling, Adding, target
<1>11. CASE Fault
  BY <1>1, <1>3, <1>11, NoFailedIo DEF Kill
<1> QED
  BY <1>5, <1>6, <1>7, <1>8, <1>9, <1>10, <1>11, CopyingFill, CopyingAdd
  DEF Next, Step, Create, Remove

\* The inode that alloc_inode wrote has no size on the disk yet.
NewIsBlank == pc \in Started => dinode[target.num].size = 0

\* An entry that names the new inode, before put_inode writes that, is the running tool's.
OwnEntry ==
  pc = "put" /\ who = "target" /\ target.dirty = DIRTY /\ parent.num \in Dirs =>
    \A q \in Kids(Table, parent.num) : Table[parent.num][q].ino = target.num =>
      /\ Table[parent.num][q].name = base /\ dinode[target.num].size = 0
      /\ tool = IF target.mode = "dir" THEN "mkdir" ELSE "cp"

\* Only a tool that creates gives its parent a block, and only a directory is written.
ParentOld ==
  /\ pc \in Putting /\ tool \notin Creators => parent.addr = dinode[parent.num].addr
  /\ pc \in Putting /\ parent.dirty = DIRTY => parent.num \in Dirs

\* No entry names an inode that is not live.
LEMMA NotNamed ==
  ASSUME NEW K, LiveInv(K)', target'.num \notin K
  PROVE  OwnEntry'
<1> SUFFICES ASSUME pc' = "put", parent'.num \in Dirs',
                    NEW q \in Kids(Table', parent'.num), Table'[parent'.num][q].ino = target'.num
             PROVE  FALSE
  BY DEF OwnEntry
<1>1. parent'.num \in K /\ KidsStay(K, Table', Dirs')
  BY DEF LiveInv, LiveTool, ParentDone, Putting, LiveDisk, TreeOf
<1>2. Table'[parent'.num][q].ino \in K \ {ROOT_INODE}
  BY <1>1 DEF KidsStay
<1> QED
  BY <1>2

\* put_inode of the target leaves the parent alone, in core and on the disk.
LEMMA PutKeepsParent ==
  ASSUME NEW L, Before(L), put_inode, pc' \in Putting
  PROVE  /\ pc \in Putting /\ who = "target" /\ parent' = parent /\ parent.num \in L
         /\ dinode'[parent.num] = dinode[parent.num] /\ UNCHANGED <<args, status, kills>>
<1>1. /\ core \in [Inodes2 -> inode] /\ LiveDisk(L) /\ L \subseteq Inodes /\ DiskTypeOK
      /\ TreeOf(L, Table, Dirs)
  BY BeforeParts DEF LiveDisk
<1>2. pc' # "idle"
  BY DEF Putting
<1>3. ASSUME PutDone PROVE who = "target" /\ parent' = parent /\ UNCHANGED <<args, status>>
  <2>1. who = "target" /\ core' = [core EXCEPT !["target"] = NULL] /\ UNCHANGED <<args, status>>
    BY <1>2, <1>3 DEF PutDone, Exit
  <2> QED
    BY <1>1, <2>1, CoreFields
<1>4. CASE PutClean
  <2>1. pc = "put" /\ PutDone /\ UNCHANGED <<diskVars, faults>>
    BY <1>4 DEF PutClean
  <2>2. pc \in Putting
    BY <2>1 DEF Putting
  <2> QED
    BY <1>3, <2>1, <2>2, PuttingTool DEF diskVars, faults
<1>5. CASE update_inode
  <2>1. pc = "put" /\ PutDone /\ held.num # 0 /\ UNCHANGED faults /\ pc \in Putting
    BY <1>5 DEF update_inode, Putting
  <2>2. who = "target" /\ parent' = parent /\ UNCHANGED <<args, status>>
    BY <1>3, <2>1
  <2>3. parent.num \in L
    BY <2>1, PuttingTool
  <2>4. CASE target.num \notin L
    BY <1>5, <2>1, <2>2, <2>3, <2>4, LivePutUnnamed DEF Unharmed, faults
  <2>5. CASE target.num \in L
    <3>1. PICK n \in Inodes, P \in Inodes, p \in Positions :
            n = target.num /\ P = parent.num /\ Fills(L, Table, Dirs, Table', Dirs', n, P, p)
      BY <1>5, <2>2, <2>5, LivePutNamed
    <3>2. P # n
      BY <1>1, <3>1, TreeFill DEF Filled
    <3>3. dinode' = [dinode EXCEPT ![target.num] = OnDisk(held)]
      <4>1. held = target
        BY <2>2 DEF held, target
      <4> QED
        BY <1>5, <4>1 DEF update_inode, write_disk_inode
    <3>4. dinode'[parent.num] = dinode[parent.num]
      BY <1>1, <3>1, <3>2, <3>3 DEF DiskTypeOK
    <3> QED
      BY <2>1, <2>2, <2>3, <3>4 DEF faults
  <2> QED
    BY <2>4, <2>5
<1>6. CASE free_block \/ ZeroFreed \/ BlankOut \/ free_inode
  <2>1. /\ pc \in Putting /\ UNCHANGED faults /\ who = "target" /\ target.num \notin L
        /\ parent.num \in L /\ held = target
    BY <1>6, ReleasingTool
  <2>2. dinode'[parent.num] = dinode[parent.num]
    <3>1. dinode' = dinode \/ dinode' = [dinode EXCEPT ![target.num] = Released]
      BY <1>6, <2>1 DEF free_block, ZeroFreed, BlankOut, free_inode, zero_block, ClearBlockBit,
         ClearInodeBit, write_disk_inode, diskVars
    <3>2. dinode \in [Inodes -> disk_inode]
      BY <1>1 DEF DiskTypeOK
    <3>3. parent.num \in Inodes
      BY <1>1, <2>1
    <3> QED
      BY <2>1, <3>1, <3>2, <3>3
  <2>3. parent' = parent /\ UNCHANGED <<args, status>>
    <3>1. CASE free_block
      <4>1. PICK l \in Logical : Unmaps(l)
        BY <3>1 DEF free_block
      <4>2. core' = [core EXCEPT ![who] = [core[who] EXCEPT !.addr[l] = 0]] /\ UNCHANGED <<args, status>>
        BY <4>1 DEF Unmaps
      <4>3. core' = [core EXCEPT !["target"] = [core[who] EXCEPT !.addr[l] = 0]]
        BY <2>1, <4>2
      <4> QED
        BY <1>1, <4>2, <4>3, CoreFields
    <3>2. CASE ZeroFreed \/ BlankOut
      BY <1>1, <3>2, CoreFields DEF ZeroFreed, BlankOut
    <3>3. CASE free_inode
      BY <1>3, <3>3 DEF free_inode
    <3> QED
      BY <1>6, <3>1, <3>2, <3>3
  <2> QED
    BY <2>1, <2>2, <2>3 DEF faults
<1> QED
  BY <1>4, <1>5, <1>6 DEF put_inode

\* alloc_inode writes an empty inode, and put_inode the next thing.
LEMMA BlankStep ==
  ASSUME OneKill, NEW L, Before(L), NewIsBlank, [Next]_vars
  PROVE  NewIsBlank'
<1>1. /\ LiveDisk(L) /\ LiveTool(L) /\ ProcTypeOK /\ core \in [Inodes2 -> inode] /\ DiskTypeOK /\ InFlight
  BY BeforeParts
<1> SUFFICES ASSUME pc' \in Started PROVE dinode'[target'.num].size = 0
  BY DEF NewIsBlank
<1>2. /\ pc' # "idle" /\ pc' # "put" /\ pc' # "pzero" /\ pc' # "ifree" /\ pc' # "walk"
      /\ pc' # "lookup" /\ pc' # "ibit" /\ pc' # "iwrite" /\ pc' # "detach"
  BY DEF Started
<1>3. CASE InitInode
  <2>1. /\ pc = "iwrite" /\ write_disk_inode(fresh, NewInode)
        /\ core' = [core EXCEPT !["target"] = InCore(fresh, NewInode)]
    BY <1>3 DEF InitInode
  <2>2. target'.num = fresh /\ fresh \in Inodes /\ NewInode.size = 0
    <3>1. target' = InCore(fresh, NewInode)
      BY <1>1, <2>1, CoreFields
    <3>2. InCore(fresh, NewInode).num = fresh
      BY DEF InCore
    <3>3. NewInode.size = 0
      BY DEF NewInode, BlankInode
    <3> QED
      BY <1>1, <2>1, <3>1, <3>2, <3>3 DEF InFlight
  <2> QED
    BY <1>1, <2>1, <2>2 DEF write_disk_inode, DiskTypeOK
<1>4. CASE alloc_block \/ ZeroFresh \/ AddEntryAllocates
  <2>1. pc \in Started /\ core' = core /\ dinode' = dinode
    BY <1>4 DEF alloc_block, ZeroFresh, AddEntryAllocates, Started, SetBlockBit, zero_block
  <2> QED
    BY <1>1, <2>1, CoreFields DEF NewIsBlank
<1>5. CASE WriteDotEntries \/ CopyChunk \/ FileCopied
  <2>1. pc \in Started /\ dinode' = dinode
    BY <1>5 DEF WriteDotEntries, CopyChunk, FileCopied, Started, WriteDots, WriteChunk, diskVars
  <2>2. \/ core' = [core EXCEPT !["target"] = [target EXCEPT !.size = 2, !.nlink = 2, !.addr[0] = fresh]]
        \/ core' = [core EXCEPT !["target"] = [target EXCEPT !.addr[k] = fresh]]
        \/ core' = [core EXCEPT !["target"] = [target EXCEPT !.size = fsz, !.nlink = 1]]
    BY <1>5 DEF WriteDotEntries, CopyChunk, FileCopied, target
  <2>3. \/ target' = [target EXCEPT !.size = 2, !.nlink = 2, !.addr[0] = fresh]
        \/ target' = [target EXCEPT !.addr[k] = fresh]
        \/ target' = [target EXCEPT !.size = fsz, !.nlink = 1]
    BY <1>1, <2>2, CoreFields
  <2>4. target \in inode
    BY <1>1 DEF target, Inodes2
  <2>5. target'.num = target.num
    BY <2>3, <2>4 DEF inode
  <2> QED
    BY <2>1, <2>5 DEF NewIsBlank
<1>6. CASE AddEntryZeroes
  <2>1. /\ pc \in Started /\ dinode' = dinode
        /\ core' = [core EXCEPT !["parent"] = [parent EXCEPT !.addr[k] = fresh]]
    BY <1>6 DEF AddEntryZeroes, zero_block, Started, parent
  <2>2. target' = target
    BY <1>1, <2>1, CoreFields
  <2> QED
    BY <2>1, <2>2 DEF NewIsBlank
<1>7. CASE UNCHANGED vars
  BY <1>7 DEF vars, NewIsBlank, target
<1>8. ~Fault
  BY <1>1, <1>2, NoFailedIo DEF Kill, Exit
<1>9. /\ ~Start /\ ~WalkDown /\ ~WalkFails /\ ~WalkEnds /\ ~CreateLookup /\ ~CreateLookupFails
      /\ ~alloc_inode /\ ~NoFreeInode /\ ~NoFreeBlock /\ ~HostFails /\ ~AddEntryInSlot
      /\ ~AddEntryInNewBlock /\ ~AddEntryFails
  BY <1>2 DEF Start, Invoke, WalkDown, WalkFails, WalkEnds, CreateLookup, CreateLookupFails,
     alloc_inode, NoFreeInode, NoFreeBlock, HostFails, AddEntryInSlot, AddEntryInNewBlock,
     AddEntryFails, error_handler
<1>10. ~Remove
  BY <1>2 DEF Remove, RmLookupFails, RmFile, RmEmptyDir, RmDirectory, RmNotEmpty, detach_entry,
     error_handler
<1>11. ~put_inode
  BY <1>1, <1>2 DEF put_inode, PutClean, update_inode, free_block, ZeroFreed, BlankOut, free_inode,
     PutDone, Exit
<1> QED
  BY <1>3, <1>4, <1>5, <1>6, <1>7, <1>8, <1>9, <1>10, <1>11 DEF Next, Step, Create

\* Only add_entry makes an entry that names the target.
LEMMA OwnStep ==
  ASSUME OneKill, NEW L, Before(L), DirtyLast', NewIsBlank, OwnEntry, [Next]_vars
  PROVE  OwnEntry'
<1>1. /\ LiveDisk(L) /\ LiveTool(L) /\ ProcTypeOK /\ core \in [Inodes2 -> inode] /\ DiskTypeOK
      /\ TreeOf(L, Table, Dirs)
  BY BeforeParts DEF LiveDisk
<1>2. CASE \/ WalkFails \/ CreateLookupFails \/ NoFreeInode \/ NoFreeBlock \/ HostFails
           \/ AddEntryFails \/ RmLookupFails \/ RmNotEmpty
  <2>1. status' = EXIT_FAILURE
    BY <1>2 DEF WalkFails, CreateLookupFails, NoFreeInode, NoFreeBlock, HostFails, AddEntryFails,
       RmLookupFails, RmNotEmpty, error_handler
  <2>2. target'.dirty = CLEAN
    BY <2>1 DEF DirtyLast
  <2> QED
    BY <2>2, CleanIsNotDirty DEF OwnEntry
<1>3. CASE AddEntryInSlot
  <2>1. PICK n \in Inodes, P \in Inodes, p \in Positions :
          /\ n = target.num /\ P = parent.num /\ LiveInv(L \cup {n})'
          /\ Adds(L, Table, Dirs, Table', Dirs', n, P, p, base)
    BY <1>3, LiveAddSlot DEF OneKill
  <2>2. /\ pc = "entry" /\ UNCHANGED args /\ dinode' = dinode /\ \E size : core' = Linked(size)
    BY <1>3 DEF AddEntryInSlot, WriteDirent
  <2>3. target'.num = target.num /\ target'.mode = target.mode /\ parent'.num = parent.num
    BY <1>1, <2>2, LinkedFields
  <2>4. tool = (IF target.mode = "dir" THEN "mkdir" ELSE "cp") /\ dinode[target.num].size = 0
    <3>1. pc \in Started /\ pc \in Creating
      BY <2>2 DEF Started, Creating
    <3>2. tool \in Creators /\ target.mode = (IF tool = "mkdir" THEN "dir" ELSE "reg")
      BY <1>1, <3>1 DEF LiveTool, TargetStarted, CreatesIn
    <3> QED
      BY <3>1, <3>2 DEF NewIsBlank, Creators
  <2>5. ASSUME NEW q \in Kids(Table', P), Table'[P][q].ino = n
        PROVE  Table'[P][q].name = base
    <3>1. CASE q = p
      BY <2>1, <3>1 DEF Adds
    <3>2. CASE q # p
      <4>1. Table'[P][q] = Table[P][q] /\ q \in Positions /\ P \in L \cap Dirs /\ n \notin L
        BY <2>1, <2>5, <3>2 DEF Adds, Kids
      <4>2. q \in Kids(Table, P)
        BY <2>5, <4>1 DEF Kids
      <4> QED
        BY <1>1, <2>5, <4>1, <4>2 DEF TreeOf, KidsStay
    <3> QED
      BY <3>1, <3>2
  <2> QED
    BY <2>1, <2>2, <2>3, <2>4, <2>5 DEF OwnEntry, args
<1>4. CASE AddEntryInNewBlock
  <2>1. LiveInv(L)'
    BY <1>4, LiveAddLast DEF OneKill
  <2>2. pc = "ewrite" /\ \E size : core' = Linked(size)
    BY <1>4 DEF AddEntryInNewBlock
  <2>3. target.num \notin L
    BY <1>1, <2>2 DEF LiveTool, Started, TargetStarted
  <2>4. target'.num = target.num
    BY <1>1, <2>2, LinkedFields
  <2> QED
    BY <2>1, <2>3, <2>4, NotNamed
<1>5. CASE detach_entry
  <2>1. PICK n : n = target.num /\ LiveInv(L \ {n})'
    BY <1>5, LiveDetach
  <2>2. target'.num = target.num
    <3>1. /\ core' = [core EXCEPT !["target"] = [core["target"] EXCEPT !.dirty = DIRTY],
                                  !["parent"] = [core["parent"] EXCEPT !.dirty = DIRTY]]
          /\ core["target"] \in inode
      BY <1>1, <1>5 DEF detach_entry, Inodes2
    <3>2. core'["target"] = [core["target"] EXCEPT !.dirty = DIRTY]
      BY <1>1, <3>1 DEF Inodes2
    <3>3. core'["target"].num = core["target"].num
      BY <3>1, <3>2 DEF inode
    <3> QED
      BY <3>3 DEF target
  <2> QED
    BY <2>1, <2>2, NotNamed
<1>6. CASE PutClean \/ update_inode \/ free_inode
  <2>1. PutDone
    BY <1>6 DEF PutClean, update_inode, free_inode
  <2>2. pc' = "idle" \/ who' = "parent"
    BY <2>1 DEF PutDone, Exit
  <2> QED
    BY <2>2 DEF OwnEntry
<1>7. CASE free_block \/ ZeroFreed \/ BlankOut
  <2>1. LiveInv(L)' /\ target.num \notin L /\ held = target /\ who = "target"
    BY <1>7, LiveRelease, ReleasingTool
  <2>2. target'.num = target.num
    <3>1. CASE free_block
      <4>1. PICK l : core' = [core EXCEPT ![who] = [core[who] EXCEPT !.addr[l] = 0]]
        BY <3>1 DEF free_block, Unmaps
      <4>2. core' = [core EXCEPT !["target"] = [target EXCEPT !.addr[l] = 0]]
        BY <2>1, <4>1 DEF target
      <4>3. target' = [target EXCEPT !.addr[l] = 0] /\ target \in inode
        BY <1>1, <4>2, CoreFields DEF target, Inodes2
      <4> QED
        BY <4>3 DEF inode
    <3>2. CASE ZeroFreed \/ BlankOut
      BY <3>2 DEF ZeroFreed, BlankOut, target
    <3> QED
      BY <1>7, <3>1, <3>2
  <2> QED
    BY <2>1, <2>2, NotNamed
<1>8. CASE UNCHANGED vars
  BY <1>8 DEF vars, OwnEntry, Kids, Table, Row, View, Dirs, target, parent
<1>9. ASSUME pc' # "put"
      PROVE  OwnEntry'
  BY <1>9 DEF OwnEntry
<1>10. CASE Start \/ WalkDown \/ WalkEnds \/ Fault
  <2>1. pc' # "put"
    BY <1>1, <1>10, NoFailedIo DEF Start, Invoke, WalkDown, WalkEnds, Kill, Exit
  <2> QED
    BY <1>9, <2>1
<1>11. CASE \/ CreateLookup \/ alloc_inode \/ InitInode \/ alloc_block \/ ZeroFresh
            \/ WriteDotEntries \/ CopyChunk \/ FileCopied \/ AddEntryAllocates \/ AddEntryZeroes
            \/ RmFile \/ RmEmptyDir
  <2>1. pc' # "put"
    BY <1>11 DEF CreateLookup, alloc_inode, InitInode, alloc_block, ZeroFresh, WriteDotEntries,
       CopyChunk, FileCopied, AddEntryAllocates, AddEntryZeroes, RmFile, RmEmptyDir, RmDirectory
  <2> QED
    BY <1>9, <2>1
<1> QED
  BY <1>2, <1>3, <1>4, <1>5, <1>6, <1>7, <1>8, <1>10, <1>11
  DEF Next, Step, Create, Remove, put_inode

\* What add_entry and detach_entry leave in core of the parent.
LEMMA OldStep ==
  ASSUME OneKill, NEW L, Before(L), DirtyLast', ParentOld, [Next]_vars
  PROVE  ParentOld'
<1>1. /\ LiveDisk(L) /\ LiveTool(L) /\ ProcTypeOK /\ core \in [Inodes2 -> inode] /\ DiskTypeOK
      /\ parent \in inode
  BY BeforeParts DEF parent, Inodes2
<1>2. CASE \/ WalkFails \/ CreateLookupFails \/ NoFreeInode \/ NoFreeBlock \/ HostFails
           \/ AddEntryFails \/ RmLookupFails
  <2>1. /\ status' = EXIT_FAILURE /\ error_handler(core) /\ UNCHANGED diskVars
        /\ pc \in {"walk", "lookup"} \/ tool \in Creators
    <3>1. /\ error_handler(core) /\ UNCHANGED diskVars
          /\ pc \in {"walk", "lookup", "ibit", "block", "entry"}
      BY <1>2 DEF WalkFails, CreateLookupFails, NoFreeInode, NoFreeBlock, HostFails, AddEntryFails,
         RmLookupFails
    <3>2. pc \in {"ibit", "block", "entry"} => tool \in Creators
      BY <1>1 DEF LiveTool, Creating, CreatesIn
    <3> QED
      BY <3>1, <3>2 DEF error_handler
  <2>2. parent'.dirty = CLEAN
    BY <2>1 DEF DirtyLast
  <2>3. parent' = parent /\ tool' = tool /\ dinode' = dinode
    BY <1>1, <2>1, HandlerFields DEF args, diskVars
  <2>4. tool \notin Creators => parent.addr = dinode[parent.num].addr
    BY <2>1, WalkingTool
  <2> QED
    BY <2>2, <2>3, <2>4, CleanIsNotDirty DEF ParentOld
<1>3. CASE RmNotEmpty
  <2>1. PICK n : Target(n) /\ error_handler([core EXCEPT !["target"] = get_inode(n)]) /\ UNCHANGED diskVars
    BY <1>3 DEF RmNotEmpty
  <2>2. pc = "lookup" /\ tool \notin Creators /\ status' = EXIT_FAILURE
        /\ core' = [core EXCEPT !["target"] = get_inode(n)]
    BY <2>1 DEF Target, error_handler, Creators
  <2>3. parent' = parent /\ dinode' = dinode
    BY <1>1, <2>1, <2>2, CoreFields DEF diskVars
  <2>4. parent.addr = dinode[parent.num].addr
    BY <2>2, WalkingTool
  <2>5. parent'.dirty = CLEAN
    BY <2>2 DEF DirtyLast
  <2> QED
    BY <2>3, <2>4, <2>5, CleanIsNotDirty DEF ParentOld
<1>4. CASE AddEntryInSlot \/ AddEntryInNewBlock
  <2>1. /\ pc \in Creating /\ UNCHANGED args /\ dinode' = dinode /\ \E size : core' = Linked(size)
    BY <1>4 DEF AddEntryInSlot, AddEntryInNewBlock, WriteDirent, Creating
  <2>2. tool \in Creators /\ parent.num \in Dirs
    BY <1>1, <2>1 DEF LiveTool, CreatesIn
  <2>3. parent'.num = parent.num /\ tool' = tool
    BY <1>1, <2>1, LinkedFields DEF args
  <2> QED
    BY <2>1, <2>2, <2>3 DEF ParentOld, Dirs
<1>5. CASE detach_entry
  <2>1. /\ pc = "detach" /\ dinode' = dinode /\ UNCHANGED args
        /\ core' = [core EXCEPT !["target"].dirty = DIRTY, !["parent"].dirty = DIRTY]
    BY <1>5 DEF detach_entry, WriteDirent
  <2>2. core'["parent"] = [core["parent"] EXCEPT !.dirty = DIRTY]
    BY <1>1, <2>1 DEF Inodes2
  <2>3. parent'.num = parent.num /\ parent'.addr = parent.addr
    BY <1>1, <2>2 DEF parent, inode
  <2>4. parent.num \in Dirs /\ parent = [get_inode(parent.num) EXCEPT !.nlink = parent.nlink]
    BY <1>1, <2>1 DEF LiveTool, Detaching
  <2>5. parent.addr = dinode[parent.num].addr
    <3>1. [get_inode(parent.num) EXCEPT !.nlink = parent.nlink].addr = dinode[parent.num].addr
      BY DEF get_inode, InCore
    <3> QED
      BY <2>4, <3>1
  <2> QED
    BY <2>1, <2>3, <2>4, <2>5 DEF ParentOld, Dirs
<1>6. CASE put_inode
  <2> SUFFICES ASSUME pc' \in Putting PROVE ParentOld'
    BY DEF ParentOld
  <2>1. /\ pc \in Putting /\ parent' = parent /\ dinode'[parent.num] = dinode[parent.num]
        /\ tool' = tool
    BY <1>6, PutKeepsParent DEF args
  <2> QED
    BY <1>1, <2>1 DEF ParentOld, Dirs
<1>7. CASE UNCHANGED vars
  BY <1>7 DEF vars, ParentOld, Dirs, parent
<1>8. ASSUME pc' \notin Putting
      PROVE  ParentOld'
  BY <1>8 DEF ParentOld
<1>9. CASE Start \/ WalkDown \/ WalkEnds \/ Fault
  <2>1. pc' \in {"walk", "lookup", "idle"}
    BY <1>1, <1>9, NoFailedIo DEF Start, Invoke, WalkDown, WalkEnds, Kill, Exit
  <2> QED
    BY <1>8, <2>1 DEF Putting
<1>10. CASE \/ CreateLookup \/ alloc_inode \/ InitInode \/ alloc_block \/ ZeroFresh
            \/ WriteDotEntries \/ CopyChunk \/ FileCopied \/ AddEntryAllocates \/ AddEntryZeroes
            \/ RmFile \/ RmEmptyDir
  <2>1. pc' \in {"ibit", "iwrite", "block", "bzero", "content", "entry", "ezero", "ewrite", "detach"}
    BY <1>10 DEF CreateLookup, alloc_inode, InitInode, alloc_block, ZeroFresh, WriteDotEntries,
       CopyChunk, FileCopied, AddEntryAllocates, AddEntryZeroes, RmFile, RmEmptyDir, RmDirectory
  <2> QED
    BY <1>8, <2>1 DEF Putting
<1> QED
  BY <1>2, <1>3, <1>4, <1>5, <1>6, <1>7, <1>9, <1>10 DEF Next, Step, Create, Remove

-----------------------------------------------------------------------------
(* What is known of a state, besides LiveInv.                              *)

Announced == Copying /\ NewIsBlank /\ OwnEntry /\ ParentOld

\* Every step keeps it.
LEMMA AnnouncedStep ==
  ASSUME OneKill, Ready, DirtyLast', Announced, [Next]_vars
  PROVE  Announced'
<1>1. PICK L \in SUBSET Inodes : LiveInv(L)
  BY DEF Ready, LiveTree
<1>2. Before(L)
  BY <1>1 DEF Ready, Before
<1> QED
  BY <1>2, CopyingStep, BlankStep, OwnStep, OldStep DEF Announced

\* And it holds before the first tool.
LEMMA AnnouncedStart == Init => Announced
<1> SUFFICES ASSUME Init PROVE Announced
  OBVIOUS
<1>1. pc = "idle" /\ k = 0
  BY DEF Init
<1> QED
  BY <1>1 DEF Announced, Copying, Copied, Filling, Adding, NewIsBlank, Started, OwnEntry, ParentOld, Putting

-----------------------------------------------------------------------------
(* The tree that users see, while a tool runs.                             *)

\* The entry that the running tool adds is on the disk already, or there is none; or
\* put_inode will bring it, for inode m.
Steady(L) == pc \in Putting => Settled(L)

Coming(L, m) ==
  /\ pc \in Putting /\ m \in Inodes \ L
  /\ \/ who = "target" /\ m = target.num /\ target.dirty = DIRTY /\ Grown(L, m, target)
     \/ who = "parent" /\ Grown(L, m, dinode[m])

\* Inode n with the target in core laid over it.
InView(n) == IF target.num = n /\ target.dirty = DIRTY THEN OnDisk(target) ELSE dinode[n]

\* What is listed in the live inode n once inode m comes.
ListedWith(m, n) ==
  IF n = parent.num THEN TableEntries(Table, Dirs, n) \cup {[ino |-> m, name |-> base]}
                    ELSE TableEntries(Table, Dirs, n)

\* The paths, and the live inodes L on them.
Told(L) ==
  /\ L \subseteq Inodes
  /\ Steady(L) \/ \E m \in Inodes : Coming(L, m)
  /\ Steady(L) => /\ Leads(Named, Lists, L)
                  /\ \A n \in L : Lists[n] = TableEntries(Table, Dirs, n)
  /\ \A m \in Inodes : Coming(L, m) =>
       /\ Leads(Named, Lists, L \cup {m}) /\ Lists[m] = {}
       /\ \A n \in L : Lists[n] = ListedWith(m, n)
       /\ parent.num \in L /\ parent.dirty = DIRTY /\ NameFree
       /\ parent.addr # dinode[parent.num].addr
  /\ \A n \in Inodes : Looks[n] = InTree(InView(n))
  /\ TreeOnDisk = Shape(Named, Looks)

\* The two inodes in core are not the same when both are DIRTY.
LEMMA Apart ==
  ASSUME NEW L, Before(L), DirtyLast, target.dirty = DIRTY
  PROVE  /\ pc \in Putting /\ who = "target" /\ target.num # parent.num
         /\ target.num \in L => ToFill(L)
<1>1. /\ DiskTypeOK /\ core \in [Inodes2 -> inode] /\ NULL.dirty = CLEAN /\ NULL.num = 0
      /\ L \subseteq Inodes /\ NoEntry.ino = 0 /\ 0 \notin L
  BY BeforeParts DEF NULL, NoEntry
<1>2. pc \in Putting
  BY CleanIsNotDirty DEF DirtyLast
<1>3. who = "target"
  <2>1. who = "parent" => target = NULL
    BY <1>2, PuttingTool
  <2> QED
    BY <1>1, <1>2, <2>1, PuttingTool, CleanIsNotDirty
<1>4. TargetDone(L) /\ parent.num \in L \ {0}
  BY <1>2, <1>3, PuttingTool
<1>5. target.num \in L => ToFill(L)
  BY <1>1, <1>4, CleanIsNotDirty DEF TargetDone, ToRelease
<1>6. ASSUME ToFill(L) PROVE target.num # parent.num
  <2>1. /\ target.num \in Inodes /\ dinode[target.num].addr = Unmapped
        /\ Kids(Table, parent.num) # {}
    BY <1>6 DEF ToFill, TargetOnDisk
  <2>2. \A q \in Positions : Table[target.num][q] = NoEntry
    BY <1>1, <2>1, EntryTypesInTable DEF Unmapped, Positions
  <2> QED
    BY <1>1, <2>1, <2>2 DEF Kids
<1> QED
  BY <1>2, <1>3, <1>4, <1>5, <1>6

\* Who has the last word on inode n.
LEMMA AsPutIs ==
  ASSUME NEW L, Before(L), DirtyLast, NEW n
  PROVE  /\ target.num = n /\ target.dirty = DIRTY => AsPut(n) = OnDisk(target)
         /\ ~(target.num = n /\ target.dirty = DIRTY) =>
              IF parent.num = n /\ parent.dirty = DIRTY THEN AsPut(n) = OnDisk(parent)
                                                        ELSE AsPut(n) = dinode[n]
<1>1. target.dirty = DIRTY => target.num # parent.num
  BY Apart
<1>2. Dirty(n) = (IF target.num = n /\ target.dirty = DIRTY THEN {"target"} ELSE {})
                   \cup (IF parent.num = n /\ parent.dirty = DIRTY THEN {"parent"} ELSE {})
  BY DEF Dirty, target, parent
<1>3. ASSUME NEW w, Dirty(n) = {w} PROVE AsPut(n) = OnDisk(core[w])
  <2>1. (CHOOSE v \in Dirty(n) : TRUE) = w /\ Dirty(n) # {}
    BY <1>3
  <2> QED
    BY <2>1 DEF AsPut
<1>4. CASE target.num = n /\ target.dirty = DIRTY
  <2>1. Dirty(n) = {"target"}
    BY <1>1, <1>2, <1>4
  <2>2. AsPut(n) = OnDisk(core["target"])
    BY <1>3, <2>1
  <2>3. AsPut(n) = OnDisk(target)
    BY <2>2 DEF target
  <2> QED
    BY <1>4, <2>3
<1>5. CASE ~(target.num = n /\ target.dirty = DIRTY) /\ parent.num = n /\ parent.dirty = DIRTY
  <2>1. Dirty(n) = {"parent"}
    BY <1>2, <1>5
  <2>2. AsPut(n) = OnDisk(core["parent"])
    BY <1>3, <2>1
  <2>3. AsPut(n) = OnDisk(parent)
    BY <2>2 DEF parent
  <2> QED
    BY <1>5, <2>3
<1>6. CASE ~(target.num = n /\ target.dirty = DIRTY) /\ ~(parent.num = n /\ parent.dirty = DIRTY)
  <2>1. Dirty(n) = {}
    BY <1>2, <1>6
  <2> QED
    BY <1>6, <2>1 DEF AsPut
<1> QED
  BY <1>4, <1>5, <1>6

\* The parent, in core and on the disk, while the entry is on the disk or there is none.
LEMMA SteadyParent ==
  ASSUME NEW L, Before(L), DirtyLast, ParentOld, Steady(L), parent.dirty = DIRTY
  PROVE  /\ pc \in Putting /\ parent.num \in L \cap Dirs
         /\ parent.addr = dinode[parent.num].addr /\ parent.mode = dinode[parent.num].mode
<1>1. pc \in Putting
  BY CleanIsNotDirty DEF DirtyLast
<1> QED
  BY <1>1, PuttingTool DEF Steady, Settled, ParentOld

\* The entries of the live inodes, when nothing comes with the parent.
LEMMA SteadyLists ==
  ASSUME NEW L, Before(L), DirtyLast, ParentOld, Steady(L), NEW n \in L
  PROVE  Lists[n] = TableEntries(Table, Dirs, n)
<1>1. /\ DiskTypeOK /\ L \subseteq Inodes /\ n \in Inodes /\ NoEntry.ino = 0
  BY BeforeParts DEF NoEntry
<1>2. Lists[n] = EntriesIn(AsPut(n))
  BY <1>1 DEF Lists
<1>3. CASE target.num = n /\ target.dirty = DIRTY
  <2>1. ToFill(L) /\ AsPut(n) = OnDisk(target)
    BY <1>3, Apart, AsPutIs
  <2>2. Newborn(Spare(L), dirents, n, OnDisk(target), parent.num)
    <3>1. /\ OnDisk(target).mode = target.mode /\ OnDisk(target).nlink = target.nlink
          /\ OnDisk(target).addr = target.addr
      BY DEF OnDisk
    <3>2. Newborn(Spare(L), dirents, n, target, parent.num)
      BY <1>3, <2>1 DEF ToFill
    <3> HIDE DEF OnDisk
    <3> QED
      BY <3>1, <3>2, NewbornFields
  <2>3. EntriesIn(OnDisk(target)) = {}
    BY <2>2, EntriesNone
  <2>4. dinode[n].addr = Unmapped
    BY <1>3, <2>1 DEF ToFill, TargetOnDisk
  <2>5. \A q \in Positions : Table[n][q] = NoEntry
    BY <1>1, <2>4, EntryTypesInTable DEF Unmapped, Positions
  <2>6. TableEntries(Table, Dirs, n) = {}
    BY <1>1, <2>5 DEF TableEntries, Kids
  <2> QED
    BY <1>2, <2>1, <2>3, <2>6
<1>4. CASE ~(target.num = n /\ target.dirty = DIRTY) /\ parent.num = n /\ parent.dirty = DIRTY
  <2>1. AsPut(n) = OnDisk(parent)
    BY <1>4, AsPutIs
  <2>2. OnDisk(parent).addr = dinode[n].addr /\ OnDisk(parent).mode = dinode[n].mode
    <3>1. parent.addr = dinode[n].addr /\ parent.mode = dinode[n].mode
      BY <1>4, SteadyParent
    <3> QED
      BY <3>1 DEF OnDisk
  <2>3. EntriesIn(OnDisk(parent)) = TableEntries(Table, Dirs, n)
    BY <1>1, <2>2, EntriesAs
  <2> QED
    BY <1>2, <2>1, <2>3
<1>5. CASE ~(target.num = n /\ target.dirty = DIRTY) /\ ~(parent.num = n /\ parent.dirty = DIRTY)
  <2>1. AsPut(n) = dinode[n]
    BY <1>5, AsPutIs
  <2> QED
    BY <1>1, <1>2, <2>1, EntriesAs
<1> QED
  BY <1>3, <1>4, <1>5

\* The parent that brings the entry of inode m: a block more, with that entry only.
LEMMA ComingParent ==
  ASSUME NEW L, Before(L), DirtyLast, NEW m \in Inodes, Coming(L, m), NEW d,
         d.addr = parent.addr, d.mode = parent.mode
  PROVE  /\ parent.num \in L \cap Dirs /\ parent.mode = "dir" /\ NameFree /\ m \notin L
         /\ parent.dirty = DIRTY /\ parent.addr # dinode[parent.num].addr
         /\ EntriesIn(d) = ListedWith(m, parent.num)
<1>1. /\ DiskTypeOK /\ L \subseteq Inodes /\ NoEntry.ino = 0 /\ badblock(0) /\ LiveDisk(L)
      /\ 0 \in Slots
  BY BeforeParts, BlockRange, GeometryAssumption DEF NoEntry, Slots
<1>2. \E c : Grown(L, m, c)
  BY DEF Coming
<1>3. parent.num \in L /\ parent.num \in Inodes /\ base \in Names /\ m \notin L /\ m # 0
  <2>1. pc \in Putting
    BY DEF Coming
  <2>2. m \in Inodes => m # 0
    BY DEF Inodes
  <2> QED
    BY <2>1, <2>2, PuttingTool DEF Coming
<1> DEFINE P == parent.num
           a == dinode[P].addr
           e == [ino |-> m, name |-> base]
<1>4. /\ P \in Dirs /\ parent.mode = "dir" /\ NameFree /\ parent.dirty = DIRTY
      /\ \E l \in Logical, b \in Spare(L) :
           /\ FirstHole(a, l) /\ parent.addr = [a EXCEPT ![l] = b]
           /\ dirents[b] = [ZeroBlock EXCEPT ![0] = e]
  BY <1>2 DEF Grown
<1>5. PICK l \in Logical, b \in Spare(L) :
           /\ FirstHole(a, l) /\ parent.addr = [a EXCEPT ![l] = b]
           /\ dirents[b] = [ZeroBlock EXCEPT ![0] = e]
  BY <1>4
<1>6. /\ b # 0 /\ a[l] = 0 /\ a \in [Logical -> Blocks]
  <2>1. dinode[P] \in disk_inode
    BY <1>1, <1>3 DEF DiskTypeOK
  <2>2. ~(l < l)
    BY <1>5 DEF Logical
  <2> QED
    BY <1>1, <1>5, <2>1, <2>2 DEF Spare, FirstHole, disk_inode
<1>7. e.ino # 0 /\ e.name \notin Dots
  BY <1>3, NamesAssumption DEF Dots
<1>8. \A s \in Slots : dirents[b][s] = IF s = 0 THEN e ELSE NoEntry
  BY <1>5 DEF ZeroBlock
<1>9. \A q \in Logical : d.addr[q] = IF q = l THEN b ELSE a[q]
  BY <1>5, <1>6
<1>10. parent.addr # dinode[parent.num].addr
  <2>1. parent.addr[l] = b
    BY <1>5, <1>6
  <2> QED
    BY <1>6, <2>1
<1> HIDE DEF a, e, P
<1>11. \A p \in Mapped(d) : /\ p \in Positions /\ p[1] \in Logical /\ p[2] \in Slots
                            /\ p[1] = l => EntryAt(d, p) = IF p[2] = 0 THEN e ELSE NoEntry
                            /\ p[1] # l => EntryAt(d, p) = Table[P][p]
  <2> SUFFICES ASSUME NEW p \in Mapped(d)
               PROVE  /\ p \in Positions /\ p[1] \in Logical /\ p[2] \in Slots
                      /\ p[1] = l => EntryAt(d, p) = IF p[2] = 0 THEN e ELSE NoEntry
                      /\ p[1] # l => EntryAt(d, p) = Table[P][p]
    OBVIOUS
  <2>1. p \in Positions /\ p[1] \in Logical /\ p[2] \in Slots /\ d.addr[p[1]] # 0
    BY DEF Mapped, Positions
  <2>2. CASE p[1] = l
    BY <1>8, <1>9, <2>1, <2>2 DEF EntryAt
  <2>3. CASE p[1] # l
    <3>1. d.addr[p[1]] = a[p[1]]
      BY <1>9, <2>1, <2>3
    <3>2. EntryAt(d, p) = EntryAt(dinode[P], p) /\ dinode[P].addr[p[1]] # 0
      BY <2>1, <3>1 DEF EntryAt, a
    <3> QED
      BY <1>1, <1>3, <2>1, <2>3, <3>2, EntryTypesInTable DEF P
  <2> QED
    BY <2>1, <2>2, <2>3
<1>12. \A q \in Kids(Table, P) : q \in Mapped(d) /\ q[1] # l
  <2> SUFFICES ASSUME NEW q \in Kids(Table, P)
               PROVE  q \in Mapped(d) /\ q[1] # l
    OBVIOUS
  <2>1. q \in Positions /\ q[1] \in Logical /\ Table[P][q].ino # 0
    BY DEF Kids, Positions
  <2>2. a[q[1]] # 0
    BY <1>1, <1>3, <2>1, EntryTypesInTable DEF P, a
  <2>3. q[1] # l
    BY <1>6, <2>2
  <2>4. d.addr[q[1]] = a[q[1]]
    BY <1>9, <2>1, <2>3
  <2> QED
    BY <2>1, <2>2, <2>3, <2>4 DEF Mapped
<1>13. <<l, 0>> \in Mapped(d)
  <2>1. <<l, 0>> \in Positions
    BY <1>1, <1>5 DEF Positions
  <2> QED
    BY <1>5, <1>6, <1>9, <2>1 DEF Mapped
<1>14. EntriesIn(d) = {x \in {EntryAt(d, p) : p \in Mapped(d)} : x.ino # 0 /\ x.name \notin Dots}
  BY <1>4 DEF EntriesIn
<1>15. TableEntries(Table, Dirs, P) = {Table[P][q] : q \in Kids(Table, P)}
  BY <1>4 DEF TableEntries, P
<1>16. ListedWith(m, P) = TableEntries(Table, Dirs, P) \cup {e}
  BY DEF ListedWith, e, P
<1>17. ASSUME NEW x \in EntriesIn(d) PROVE x \in ListedWith(m, P)
  <2>1. PICK p \in Mapped(d) : x = EntryAt(d, p) /\ x.ino # 0 /\ x.name \notin Dots
    BY <1>14, <1>17
  <2>2. CASE p[1] = l
    BY <1>1, <1>11, <1>16, <2>1, <2>2
  <2>3. CASE p[1] # l
    <3>1. x = Table[P][p] /\ p \in Kids(Table, P)
      BY <1>11, <2>1, <2>3 DEF Kids
    <3> QED
      BY <1>15, <1>16, <3>1
  <2> QED
    BY <2>2, <2>3
<1>18. ASSUME NEW x \in ListedWith(m, P) PROVE x \in EntriesIn(d)
  <2>1. CASE x = e
    <3>1. EntryAt(d, <<l, 0>>) = e
      BY <1>11, <1>13
    <3> QED
      BY <1>7, <1>13, <1>14, <2>1, <3>1
  <2>2. CASE x # e
    <3>1. PICK q \in Kids(Table, P) : x = Table[P][q]
      BY <1>15, <1>16, <1>18, <2>2
    <3>2. q \in Mapped(d) /\ q[1] # l
      BY <1>12, <3>1
    <3>3. x = EntryAt(d, q) /\ x.ino # 0 /\ x.name \notin Dots
      BY <1>11, <3>1, <3>2 DEF Kids
    <3> QED
      BY <1>14, <3>2, <3>3
  <2> QED
    BY <2>1, <2>2
<1>19. EntriesIn(d) = ListedWith(m, P)
  BY <1>17, <1>18
<1> QED
  BY <1>3, <1>4, <1>19, <1>10 DEF P

\* And all live inodes with it.
LEMMA ComingLists ==
  ASSUME NEW L, Before(L), DirtyLast, NEW m \in Inodes, Coming(L, m)
  PROVE  /\ Lists[m] = {}
         /\ \A n \in L : Lists[n] = ListedWith(m, n)
<1>1. /\ DiskTypeOK /\ L \subseteq Inodes /\ NULL.num = 0 /\ NULL.dirty = CLEAN
      /\ m \notin L /\ m # 0
  BY BeforeParts DEF NULL, Coming, Inodes
<1>2. /\ pc \in Putting /\ parent.num \in L /\ parent.dirty = DIRTY
      /\ who = "parent" => target.dirty = CLEAN
      /\ who = "target" => m = target.num
      /\ \E c : Grown(L, m, c)
  <2>1. pc \in Putting /\ who \in {"target", "parent"} /\ \E c : Grown(L, m, c)
    BY DEF Coming
  <2>2. parent.num \in L /\ (who = "parent" => target = NULL)
    BY <2>1, PuttingTool
  <2>3. parent.dirty = DIRTY
    BY <2>1 DEF Grown
  <2>4. who = "target" => m = target.num
    BY DEF Coming
  <2> QED
    BY <1>1, <2>1, <2>2, <2>3, <2>4
<1>3. who \in {"target", "parent"} /\ CLEAN # DIRTY
  BY <1>2, PuttingTool, CleanIsNotDirty
<1>4. \A n \in L : ~(target.num = n /\ target.dirty = DIRTY)
  BY <1>1, <1>2, <1>3
<1>5. Lists[m] = {}
  <2>1. Lists[m] = EntriesIn(AsPut(m))
    BY DEF Lists
  <2>2. CASE who = "target"
    <3>1. m = target.num /\ target.dirty = DIRTY /\ Newborn(Spare(L), dirents, m, target, parent.num)
      BY <2>2 DEF Coming, Grown
    <3>2. AsPut(m) = OnDisk(target)
      BY <3>1, AsPutIs
    <3>3. /\ OnDisk(target).mode = target.mode /\ OnDisk(target).nlink = target.nlink
          /\ OnDisk(target).addr = target.addr
      BY DEF OnDisk
    <3>4. Newborn(Spare(L), dirents, m, OnDisk(target), parent.num)
      BY <3>1, <3>3, NewbornFields
    <3> QED
      BY <2>1, <3>2, <3>4, EntriesNone
  <2>3. CASE who = "parent"
    <3>1. Newborn(Spare(L), dirents, m, dinode[m], parent.num)
      BY <2>3 DEF Coming, Grown
    <3>2. AsPut(m) = dinode[m]
      BY <1>1, <1>2, <1>3, <2>3, AsPutIs
    <3> QED
      BY <2>1, <3>1, <3>2, EntriesNone
  <2> QED
    BY <1>3, <2>2, <2>3
<1>6. ASSUME NEW n \in L PROVE Lists[n] = ListedWith(m, n)
  <2>1. Lists[n] = EntriesIn(AsPut(n)) /\ n \in Inodes
    BY <1>1 DEF Lists
  <2>2. CASE n = parent.num
    <3>1. AsPut(n) = OnDisk(parent)
      BY <1>2, <1>4, <2>2, AsPutIs
    <3>2. OnDisk(parent).addr = parent.addr /\ OnDisk(parent).mode = parent.mode
      BY DEF OnDisk
    <3>3. EntriesIn(OnDisk(parent)) = ListedWith(m, parent.num)
      BY <3>2, ComingParent
    <3> QED
      BY <2>1, <2>2, <3>1, <3>3
  <2>3. CASE n # parent.num
    <3>1. AsPut(n) = dinode[n]
      BY <1>4, <2>3, AsPutIs
    <3> QED
      BY <1>1, <2>1, <2>3, <3>1, EntriesAs DEF ListedWith
  <2> QED
    BY <2>2, <2>3
<1> QED
  BY <1>5, <1>6

\* What stat and read show of an inode does not depend on the parent in core.
LEMMA ViewLooks ==
  ASSUME NEW L, Before(L), DirtyLast, ParentOld, Steady(L) \/ \E m \in Inodes : Coming(L, m),
         NEW n \in Inodes
  PROVE  Looks[n] = InTree(InView(n))
<1>1. Looks[n] = InTree(AsPut(n))
  BY DEF Looks
<1>2. CASE target.num = n /\ target.dirty = DIRTY
  BY <1>1, <1>2, AsPutIs DEF InView
<1>3. CASE ~(target.num = n /\ target.dirty = DIRTY) /\ ~(parent.num = n /\ parent.dirty = DIRTY)
  BY <1>1, <1>3, AsPutIs DEF InView
<1>4. CASE ~(target.num = n /\ target.dirty = DIRTY) /\ parent.num = n /\ parent.dirty = DIRTY
  <2>1. AsPut(n) = OnDisk(parent) /\ InView(n) = dinode[n]
    BY <1>4, AsPutIs DEF InView
  <2>2. parent.mode = "dir" /\ dinode[n].mode = "dir"
    <3>1. CASE Steady(L)
      BY <1>4, <3>1, SteadyParent DEF Dirs
    <3>2. CASE \E m \in Inodes : Coming(L, m)
      BY <1>4, <3>2 DEF Coming, Grown, Dirs
    <3> QED
      BY <3>1, <3>2
  <2>3. OnDisk(parent).mode = "dir"
    BY <2>2 DEF OnDisk
  <2> QED
    BY <1>1, <2>1, <2>2, <2>3 DEF InTree
<1> QED
  BY <1>2, <1>3, <1>4

\* Told is what Ready and Announced say of the tree.
LEMMA ToldLive ==
  ASSUME Ready, Announced, NEW L, L \subseteq Inodes, LiveInv(L)
  PROVE  Told(L)
<1>1. Before(L) /\ DirtyLast /\ ParentOld
  BY DEF Ready, Before, Announced
<1>2. /\ DiskTypeOK /\ LiveDisk(L) /\ LiveTool(L) /\ ROOT_INODE \in L
  BY <1>1, BeforeParts DEF LiveDisk, InodesOf
<1>3. Steady(L) \/ \E m \in Inodes : Coming(L, m)
  <2> SUFFICES ASSUME pc \in Putting, ~Settled(L) PROVE \E m \in Inodes : Coming(L, m)
    BY DEF Steady
  <2>1. ParentDone(L)
    BY <1>2 DEF LiveTool
  <2>2. CASE /\ who = "target" /\ target.dirty = DIRTY
             /\ target.num \in Inodes \ L /\ Grown(L, target.num, target)
    BY <2>2 DEF Coming
  <2>3. CASE who = "parent" /\ \E n \in Inodes \ L : Grown(L, n, dinode[n])
    BY <2>3 DEF Coming
  <2> QED
    BY <2>1, <2>2, <2>3 DEF ParentDone
<1>4. ASSUME Steady(L)
      PROVE  /\ Leads(Named, Lists, L)
             /\ \A n \in L : Lists[n] = TableEntries(Table, Dirs, n)
  <2>1. \A n \in L : Lists[n] = TableEntries(Table, Dirs, n)
    BY <1>1, <1>4, SteadyLists
  <2>2. Arbor(L, Lists)
    BY <1>2, <2>1, ArborTable
  <2> QED
    BY <2>1, <2>2, LeadingLeads DEF Named
<1>5. ASSUME NEW m \in Inodes, Coming(L, m)
      PROVE  /\ Leads(Named, Lists, L \cup {m}) /\ Lists[m] = {}
             /\ \A n \in L : Lists[n] = ListedWith(m, n)
             /\ parent.num \in L /\ parent.dirty = DIRTY /\ NameFree
             /\ parent.addr # dinode[parent.num].addr
  <2>1. /\ Lists[m] = {}
        /\ \A n \in L : Lists[n] = ListedWith(m, n)
    BY <1>1, <1>5, ComingLists
  <2>2. PICK old : old = [n \in Inodes |-> TableEntries(Table, Dirs, n)]
    OBVIOUS
  <2>3. \A n \in L : old[n] = TableEntries(Table, Dirs, n)
    BY <2>2
  <2>4. Arbor(L, old)
    BY <1>2, <2>3, ArborTable
  <2>5. /\ parent.num \in L \cap Dirs /\ NameFree /\ m \notin L /\ base \in Names
        /\ parent.dirty = DIRTY /\ parent.addr # dinode[parent.num].addr
    <3>1. pc \in Putting
      BY <1>5 DEF Coming
    <3>2. base \in Names
      BY <1>1, <3>1, PuttingTool
    <3> QED
      BY <1>1, <1>5, <3>2, ComingParent
  <2>6. PICK e : e = [ino |-> m, name |-> base]
    OBVIOUS
  <2>7. e.ino \in Inodes \ L /\ e.ino = m /\ e.name \in Tokens /\ e.name = base
    BY <2>5, <2>6 DEF Tokens
  <2>8. \A f \in old[parent.num] : f.name # e.name
    <3>1. old[parent.num] = {Table[parent.num][q] : q \in Kids(Table, parent.num)}
      BY <2>3, <2>5 DEF TableEntries
    <3>2. \A q \in Kids(Table, parent.num) : Table[parent.num][q].name # base
      BY <2>5 DEF NameFree, Kids
    <3> QED
      BY <2>7, <3>1, <3>2
  <2>9. /\ Lists[parent.num] = old[parent.num] \cup {e}
        /\ \A n \in L \ {parent.num} : Lists[n] = old[n]
    <3>1. Lists[parent.num] = TableEntries(Table, Dirs, parent.num) \cup {e}
      BY <2>1, <2>5, <2>6 DEF ListedWith
    <3>2. ASSUME NEW n \in L \ {parent.num} PROVE Lists[n] = TableEntries(Table, Dirs, n)
      BY <2>1 DEF ListedWith
    <3> QED
      BY <2>3, <2>5, <3>1, <3>2
  <2>10. Arbor(L \cup {m}, Lists)
    BY <2>1, <2>4, <2>5, <2>7, <2>8, <2>9, ArborMore
  <2> QED
    BY <2>1, <2>5, <2>10, LeadingLeads DEF Named
<1>6. \A n \in Inodes : Looks[n] = InTree(InView(n))
  BY <1>1, <1>3, ViewLooks
<1>7. TreeOnDisk = Shape(Named, Looks)
  <2>1. CASE Steady(L)
    BY <1>4, <2>1, TreeShape
  <2>2. CASE ~Steady(L)
    <3>1. PICK m \in Inodes : Coming(L, m)
      BY <1>3, <2>2
    <3>2. Leads(Named, Lists, L \cup {m}) /\ L \cup {m} \subseteq Inodes
      BY <1>5, <3>1
    <3> QED
      BY <3>2, TreeShape
  <2> QED
    BY <2>1, <2>2
<1> QED
  BY <1>3, <1>4, <1>5, <1>6, <1>7 DEF Told

-----------------------------------------------------------------------------
(* A step, in terms of what the inodes list and how they look.             *)

\* Nothing changes for the inodes of the tree.
LEMMA TreeStays ==
  ASSUME NEW N, NEW lists, NEW looks, NEW L, Leads(N, lists, L),
         NEW N2, NEW lists2, NEW looks2, NEW Q, Leads(N2, lists2, Q),
         \A n \in L : lists2[n] = lists[n] /\ looks2[n] = looks[n]
  PROVE  N2 = N /\ Shape(N2, looks2) = Shape(N, looks)
<1>1. \A x \in N : lists2[x[2]] = lists[x[2]] /\ looks2[x[2]] = looks[x[2]]
  BY DEF Leads
<1>2. Leads(N, lists2, L)
  BY <1>1, LeadsKept
<1>3. N2 = N
  BY <1>2, LeadsOnce
<1>4. Shape(N, looks2) = Shape(N, looks)
  BY <1>1, ShapeSame
<1> QED
  BY <1>3, <1>4

\* The directory x[2] has a new entry e, and nothing else changes.
LEMMA TreeGets ==
  ASSUME NEW N, NEW lists, NEW looks, NEW L, Leads(N, lists, L),
         NEW N2, NEW lists2, NEW looks2, NEW e, e.ino \notin L, Leads(N2, lists2, L \cup {e.ino}),
         NEW x \in N, e.name \in Tokens, \A f \in lists[x[2]] : f.name # e.name,
         lists2[x[2]] = lists[x[2]] \cup {e}, lists2[e.ino] = {},
         \A n \in L : looks2[n] = looks[n] /\ (n # x[2] => lists2[n] = lists[n])
  PROVE  /\ N \subseteq N2
         /\ Append(x[1], e.name) \notin DOMAIN Shape(N, looks)
         /\ Shape(N2, looks2) = Grafted(Shape(N, looks), Append(x[1], e.name), looks2[e.ino])
<1>1. PICK z : z = Further(x, e)
  OBVIOUS
<1>2. z[1] = Append(x[1], e.name) /\ z[2] = e.ino
  BY <1>1 DEF Further
<1>3. x[2] \in L /\ \A y \in N : y # x => y[2] \in L /\ y[2] # x[2]
  BY DEF Leads
<1>4. \A y \in N : y # x => lists2[y[2]] = lists[y[2]]
  BY <1>3
<1>5. Leads(N \cup {Further(x, e)}, lists2, L \cup {e.ino})
  BY <1>4, LeadsMore
<1>6. Leads(N \cup {z}, lists2, L \cup {e.ino})
  BY <1>1, <1>5
<1>7. N2 = N \cup {z}
  BY <1>6, LeadsOnce
<1>8. \A y \in N : y # z => looks2[y[2]] = looks[y[2]]
  BY DEF Leads
<1>9. Shape(N \cup {z}, looks2) = Grafted(Shape(N, looks), z[1], looks2[z[2]])
  BY <1>6, <1>8, ShapeWith
<1>10. Append(x[1], e.name) \notin DOMAIN Shape(N, looks)
  <2>1. Append(x[1], e.name) \notin {y[1] : y \in N}
    BY PathParent
  <2> QED
    BY <2>1 DEF Shape
<1> QED
  BY <1>2, <1>7, <1>9, <1>10

\* The directory x[2] loses its entry e, for an inode without entries.
LEMMA TreeLoses ==
  ASSUME NEW N, NEW lists, NEW looks, NEW Q, Leads(N, lists, Q),
         NEW N2, NEW lists2, NEW looks2, NEW K, Leads(N2, lists2, K),
         NEW x \in N, NEW e \in lists[x[2]], e.name \in Tokens,
         \A f \in lists[x[2]] : f.name = e.name => f = e,
         lists[e.ino] = {}, x[2] # e.ino, lists2[x[2]] = lists[x[2]] \ {e},
         \A n \in Q \ {e.ino} : looks2[n] = looks[n] /\ (n # x[2] => lists2[n] = lists[n])
  PROVE  /\ x \in N2
         /\ Append(x[1], e.name) \in DOMAIN Shape(N, looks)
         /\ \A p \in DOMAIN Shape(N, looks) : ~Tree!IsStrictPrefix(Append(x[1], e.name), p)
         /\ Shape(N2, looks2) = Pruned(Shape(N, looks), Append(x[1], e.name))
<1>1. PICK z : z = Further(x, e)
  OBVIOUS
<1>2. z[1] = Append(x[1], e.name) /\ z[2] = e.ino /\ z \in N /\ z # x
  BY <1>1 DEF Further, Leads
<1>3. \A y \in N : y # z => y[2] \in Q \ {e.ino} /\ (y # x => y[2] # x[2])
  BY <1>2 DEF Leads
<1>4. /\ lists2[x[2]] = lists[x[2]] \ {e}
      /\ \A y \in N : y # x /\ y # z => lists2[y[2]] = lists[y[2]]
      /\ \A y \in N : y # z => looks2[y[2]] = looks[y[2]]
  BY <1>2, <1>3
<1>5. \A y \in N : y # x /\ y # Further(x, e) => lists2[y[2]] = lists[y[2]]
  BY <1>1, <1>4
<1>6. Leads(N \ {Further(x, e)}, lists2, Q)
  BY <1>4, <1>5, LeadsLess
<1>7. Leads(N \ {z}, lists2, Q)
  BY <1>1, <1>6
<1>8. N2 = N \ {z}
  BY <1>7, LeadsOnce
<1>9. Shape(N \ {z}, looks2) = Pruned(Shape(N, looks), z[1])
  <2>1. \A y \in N : y # z => looks2[y[2]] = looks[y[2]]
    BY <1>4
  <2>2. z \in N /\ Leads(N, lists, Q)
    BY <1>2
  <2> QED
    BY <1>7, <2>1, <2>2, ShapeWithout
<1>10. DOMAIN Shape(N, looks) = {y[1] : y \in N}
  BY DEF Shape
<1>11. \A y \in N : ~Tree!IsStrictPrefix(z[1], y[1])
  BY <1>2, PathEnds
<1> QED
  BY <1>2, <1>8, <1>9, <1>10, <1>11

\* What the entry e of directory x[2] leads to looks different, and nothing else changes.
LEMMA TreeAlters ==
  ASSUME NEW N, NEW lists, NEW looks, NEW L, Leads(N, lists, L),
         NEW N2, NEW lists2, NEW looks2, NEW Q, Leads(N2, lists2, Q),
         NEW x \in N, NEW e \in lists[x[2]],
         \A n \in L : lists2[n] = lists[n] /\ (n # e.ino => looks2[n] = looks[n])
  PROVE  /\ N2 = N
         /\ Shape(N2, looks2) = Grafted(Shape(N, looks), Append(x[1], e.name), looks2[e.ino])
<1>1. \A y \in N : lists2[y[2]] = lists[y[2]]
  BY DEF Leads
<1>2. Leads(N, lists2, L)
  BY <1>1, LeadsKept
<1>3. N2 = N
  BY <1>2, LeadsOnce
<1>4. PICK z : z = Further(x, e)
  OBVIOUS
<1>5. z[1] = Append(x[1], e.name) /\ z[2] = e.ino /\ z \in N
  BY <1>4 DEF Further, Leads
<1>6. N \cup {z} = N
  BY <1>5
<1>7. \A y \in N : y # z => looks2[y[2]] = looks[y[2]]
  BY <1>5 DEF Leads
<1>8. Leads(N \cup {z}, lists2, L)
  BY <1>2, <1>6
<1>9. Shape(N \cup {z}, looks2) = Grafted(Shape(N, looks), z[1], looks2[z[2]])
  BY <1>7, <1>8, ShapeWith
<1> QED
  BY <1>3, <1>5, <1>6, <1>9

-----------------------------------------------------------------------------
(* What the entries of a table make of that.                               *)

\* One entry more.
LEMMA EntriesMore ==
  ASSUME NEW L, NEW t, NEW dirs, NEW t2, NEW dirs2, NEW n, NEW p, NEW q0, NEW name,
         Adds(L, t, dirs, t2, dirs2, n, p, q0, name)
  PROVE  /\ \A d \in L : d # p => TableEntries(t2, dirs2, d) = TableEntries(t, dirs, d)
         /\ TableEntries(t2, dirs2, p) = TableEntries(t, dirs, p) \cup {[ino |-> n, name |-> name]}
         /\ TableEntries(t2, dirs2, n) = {}
         /\ \A f \in TableEntries(t, dirs, p) : f.name # name
<1>1. /\ n # 0 /\ p \in L \cap dirs /\ q0 \in Positions /\ name \notin Dots
      /\ \A m \in L : m \in dirs <=> m \in dirs2
      /\ \A m \in L \cap dirs : \A q \in Positions : m # p \/ q # q0 => t2[m][q] = t[m][q]
      /\ t[p][q0].ino = 0 /\ t2[p][q0] = [ino |-> n, name |-> name]
      /\ \A q \in Positions : t[p][q].ino # 0 => t[p][q].name # name
      /\ n \in dirs2 => OnlyDots(t2[n], n, p)
  BY DEF Adds
<1>2. ASSUME NEW d \in L, d # p PROVE TableEntries(t2, dirs2, d) = TableEntries(t, dirs, d)
  <2>1. CASE d \in dirs
    <3>1. Kids(t2, d) = Kids(t, d) /\ \A q \in Kids(t, d) : t2[d][q] = t[d][q]
      BY <1>1, <1>2, <2>1 DEF Kids
    <3> QED
      BY <1>1, <2>1, <3>1 DEF TableEntries
  <2>2. CASE d \notin dirs
    BY <1>1, <2>2 DEF TableEntries
  <2> QED
    BY <2>1, <2>2
<1>3. TableEntries(t2, dirs2, p) = TableEntries(t, dirs, p) \cup {[ino |-> n, name |-> name]}
  <2>1. q0 \in Kids(t2, p)
    BY <1>1 DEF Kids
  <2>2. \A q \in Positions : q # q0 => t2[p][q] = t[p][q]
    BY <1>1
  <2>3. Kids(t2, p) = Kids(t, p) \cup {q0} /\ q0 \notin Kids(t, p)
    BY <1>1, <2>1, <2>2 DEF Kids
  <2>4. \A q \in Kids(t, p) : t2[p][q] = t[p][q]
    BY <2>2, <2>3 DEF Kids
  <2>5. {t2[p][q] : q \in Kids(t2, p)} = {t[p][q] : q \in Kids(t, p)} \cup {t2[p][q0]}
    BY <2>3, <2>4
  <2>6. p \in dirs /\ p \in dirs2
    BY <1>1
  <2>7. TableEntries(t2, dirs2, p) = TableEntries(t, dirs, p) \cup {t2[p][q0]}
    BY <2>5, <2>6 DEF TableEntries
  <2> QED
    BY <1>1, <2>7
<1>4. TableEntries(t2, dirs2, n) = {}
  <2>1. n \in dirs2 => Kids(t2, n) = {}
    BY <1>1, OnlyDotsKids
  <2> QED
    BY <2>1 DEF TableEntries
<1>5. \A f \in TableEntries(t, dirs, p) : f.name # name
  BY <1>1 DEF TableEntries, Kids
<1> QED
  BY <1>2, <1>3, <1>4, <1>5

\* One entry less.
LEMMA EntriesLess ==
  ASSUME NEW L, NEW t, NEW dirs, NEW t2, NEW dirs2, NEW n, NEW p, NEW q0,
         TreeOf(L, t, dirs), Removes(L, t, dirs, t2, dirs2, n, p, q0)
  PROVE  /\ \A d \in L : d # p => TableEntries(t2, dirs2, d) = TableEntries(t, dirs, d)
         /\ TableEntries(t2, dirs2, p) = TableEntries(t, dirs, p) \ {t[p][q0]}
         /\ TableEntries(t, dirs, n) = {}
         /\ t[p][q0] \in TableEntries(t, dirs, p)
         /\ \A f \in TableEntries(t, dirs, p) : f.name = t[p][q0].name => f = t[p][q0]
<1>1. /\ n \in L \ {ROOT_INODE} /\ p \in L \cap dirs
      /\ q0 \in Kids(t, p) /\ t[p][q0].ino = n /\ (n \in dirs => Kids(t, n) = {})
      /\ \A m \in L : m \in dirs <=> m \in dirs2
      /\ \A m \in L \cap dirs : \A q \in Positions : m # p \/ q # q0 => t2[m][q] = t[m][q]
      /\ t2[p][q0].ino = 0
  BY DEF Removes
<1>2. ASSUME NEW d \in L, d # p PROVE TableEntries(t2, dirs2, d) = TableEntries(t, dirs, d)
  <2>1. CASE d \in dirs
    <3>1. Kids(t2, d) = Kids(t, d) /\ \A q \in Kids(t, d) : t2[d][q] = t[d][q]
      BY <1>1, <1>2, <2>1 DEF Kids
    <3> QED
      BY <1>1, <2>1, <3>1 DEF TableEntries
  <2>2. CASE d \notin dirs
    BY <1>1, <2>2 DEF TableEntries
  <2> QED
    BY <2>1, <2>2
<1>3. \A q \in Kids(t, p) : t[p][q].name = t[p][q0].name => q = q0
  <2>1. NamesOnce(L, t, dirs)
    BY DEF TreeOf
  <2> QED
    BY <1>1, <2>1 DEF NamesOnce, Kids
<1>4. TableEntries(t, dirs, p) = {t[p][q] : q \in Kids(t, p)}
  BY <1>1 DEF TableEntries
<1>5. TableEntries(t2, dirs2, p) = TableEntries(t, dirs, p) \ {t[p][q0]}
  <2>1. \A q \in Positions : q # q0 => t2[p][q] = t[p][q]
    BY <1>1
  <2>2. Kids(t2, p) = Kids(t, p) \ {q0} /\ \A q \in Kids(t2, p) : t2[p][q] = t[p][q]
    BY <1>1, <2>1 DEF Kids
  <2>3. TableEntries(t2, dirs2, p) = {t2[p][q] : q \in Kids(t2, p)}
    BY <1>1 DEF TableEntries
  <2>4. {t2[p][q] : q \in Kids(t2, p)} = {t[p][q] : q \in Kids(t, p) \ {q0}}
    BY <2>2
  <2>5. {t[p][q] : q \in Kids(t, p) \ {q0}} = {t[p][q] : q \in Kids(t, p)} \ {t[p][q0]}
    BY <1>3
  <2> QED
    BY <1>4, <2>3, <2>4, <2>5
<1>6. TableEntries(t, dirs, n) = {}
  BY <1>1 DEF TableEntries
<1> QED
  BY <1>1, <1>2, <1>3, <1>4, <1>5, <1>6

\* A new directory shows its dots, and no entry with them.
LEMMA EntriesFilled ==
  ASSUME NEW L, NEW t, NEW dirs, NEW t2, NEW dirs2, NEW n, NEW p, NEW q0,
         Fills(L, t, dirs, t2, dirs2, n, p, q0)
  PROVE  \A d \in L : TableEntries(t2, dirs2, d) = TableEntries(t, dirs, d)
<1>1. /\ n \in L /\ \A q \in Positions : t[n][q].ino = 0
      /\ \A m \in L : m \in dirs <=> m \in dirs2
      /\ \A m \in L \cap dirs : \A q \in Positions : m # n => t2[m][q] = t[m][q]
      /\ n \in dirs => OnlyDots(t2[n], n, p)
  BY DEF Fills
<1> SUFFICES ASSUME NEW d \in L PROVE TableEntries(t2, dirs2, d) = TableEntries(t, dirs, d)
  OBVIOUS
<1>2. CASE d \notin dirs
  BY <1>1, <1>2 DEF TableEntries
<1>3. CASE d \in dirs /\ d # n
  <2>1. Kids(t2, d) = Kids(t, d) /\ \A q \in Kids(t, d) : t2[d][q] = t[d][q]
    BY <1>1, <1>3 DEF Kids
  <2> QED
    BY <1>1, <1>3, <2>1 DEF TableEntries
<1>4. CASE d \in dirs /\ d = n
  <2>1. Kids(t2, n) = {}
    BY <1>1, <1>4, OnlyDotsKids
  <2>2. Kids(t, n) = {}
    BY <1>1 DEF Kids
  <2> QED
    BY <1>1, <1>4, <2>1, <2>2 DEF TableEntries
<1> QED
  BY <1>2, <1>3, <1>4

\* Table entries stay where the table does.
LEMMA EntriesSame ==
  ASSUME NEW L, NEW t, NEW dirs, NEW t2, NEW dirs2,
         \A n \in L : n \in dirs2 <=> n \in dirs,
         \A n \in L, q \in Positions : t2[n][q] = t[n][q]
  PROVE  \A n \in L : TableEntries(t2, dirs2, n) = TableEntries(t, dirs, n)
<1> SUFFICES ASSUME NEW n \in L PROVE TableEntries(t2, dirs2, n) = TableEntries(t, dirs, n)
  OBVIOUS
<1>1. Kids(t2, n) = Kids(t, n) /\ \A q \in Kids(t, n) : t2[n][q] = t[n][q]
  BY DEF Kids
<1> QED
  BY <1>1 DEF TableEntries

-----------------------------------------------------------------------------
(* The steps that leave the tree as it is.                                 *)

\* Everything that is known of a state.
Known ==
  /\ Ready /\ Announced /\ Dotted /\ ShapesDisk
  /\ \A L \in SUBSET Inodes : LiveInv(L) => Told(L)

\* What a read of a live file shows stays, as its blocks do.
LEMMA DataKept ==
  ASSUME DiskTypeOK, ShapesDisk, NEW L, L \subseteq Inodes, Untouched(L), NEW n \in L
  PROVE  dinode'[n] = dinode[n] /\ InTree(dinode[n])' = InTree(dinode[n])
<1>1. dinode'[n] = dinode[n]
  BY DEF Untouched, Unharmed
<1>2. PICK d : d = dinode[n]
  OBVIOUS
<1>3. d \in disk_inode /\ Shaped(d) /\ dinode'[n] = d
  BY <1>1, <1>2 DEF DiskTypeOK, ShapesDisk
<1>4. PICK m \in 0 .. NDIRECT : HasBlocks(d, m) /\ SizeEndsIn(d, m)
  BY <1>3 DEF Shaped
<1>5. InTree(d)' = InTree(d)
  <2>1. CASE d.mode = "dir"
    BY <2>1 DEF InTree
  <2>2. CASE d.mode # "dir"
    <3>1. d.size <= NDIRECT /\ d.size \in Nat
      <4>1. d.mode = "reg" => d.size = m
        BY <1>4 DEF SizeEndsIn
      <4>2. d.mode = "none" => d.size = 0
        BY <1>4 DEF SizeEndsIn
      <4>3. d.mode \in {"none", "reg", "dir"} /\ d.size \in Nat
        BY <1>3 DEF disk_inode
      <4> QED
        BY <1>4, <2>2, <4>1, <4>2, <4>3, GeometryAssumption
    <3>2. \A j \in 1 .. d.size : j - 1 \in Logical
      BY <3>1, GeometryAssumption DEF Logical
    <3>3. \A l \in Logical : d.addr[l] # 0 => chunk'[d.addr[l]] = chunk[d.addr[l]]
      BY <1>2 DEF Untouched, Taken
    <3>4. \A j \in 1 .. d.size : (IF d.addr[j - 1] = 0 THEN 0 ELSE chunk'[d.addr[j - 1]])
                               = (IF d.addr[j - 1] = 0 THEN 0 ELSE chunk[d.addr[j - 1]])
      BY <3>2, <3>3
    <3> QED
      BY <2>2, <3>4 DEF InTree
  <2> QED
    BY <2>1, <2>2
<1> QED
  BY <1>1, <1>2, <1>3, <1>5 DEF InTree

\* Nothing that put_inode would write is in core.
Cleared == parent.dirty = CLEAN /\ target.dirty = CLEAN

\* Then the disk says it all.
LEMMA ClearedTree ==
  ASSUME NEW L, Told(L), Cleared
  PROVE  /\ Steady(L) /\ Leads(Named, Lists, L) /\ TreeOnDisk = Shape(Named, Looks)
         /\ \A n \in L : Lists[n] = TableEntries(Table, Dirs, n)
         /\ \A n \in Inodes : Looks[n] = InTree(dinode[n])
<1>1. \A m \in Inodes : ~Coming(L, m)
  BY CleanIsNotDirty DEF Told, Cleared
<1>2. \A n : InView(n) = dinode[n]
  BY CleanIsNotDirty DEF InView, Cleared
<1> QED
  BY <1>1, <1>2 DEF Told

\* The tree is the same one.
SameTree == Named' = Named /\ TreeOnDisk' = TreeOnDisk

\* Writes before put_inode, and between two tools.
LEMMA QuietTree ==
  ASSUME Known, Known', NEW L \in SUBSET Inodes, LiveInv(L), LiveInv(L)', Untouched(L), Cleared, Cleared'
  PROVE  SameTree
<1>1. Told(L) /\ Told(L)' /\ DiskTypeOK /\ ShapesDisk
  BY DEF Known, Ready, Inv, TypeOK
<1>2. /\ Leads(Named, Lists, L) /\ TreeOnDisk = Shape(Named, Looks)
      /\ \A n \in L : Lists[n] = TableEntries(Table, Dirs, n)
      /\ \A n \in Inodes : Looks[n] = InTree(dinode[n])
  BY <1>1, ClearedTree
<1>3. /\ Leads(Named', Lists', L) /\ TreeOnDisk' = Shape(Named', Looks')
      /\ \A n \in L : Lists'[n] = TableEntries(Table', Dirs', n)
      /\ \A n \in Inodes : Looks'[n] = InTree(dinode[n])'
  <2>1. \A m \in Inodes : ~Coming(L, m)'
    BY <1>1, CleanIsNotDirty DEF Told, Cleared
  <2>2. \A n \in Inodes : InView(n)' = dinode'[n]
    BY CleanIsNotDirty DEF InView, Cleared
  <2>3. \A n \in Inodes : Looks'[n] = InTree(InView(n))'
    BY <1>1 DEF Told
  <2>4. \A n \in Inodes : Looks'[n] = InTree(dinode[n])'
    BY <2>2, <2>3 DEF InTree
  <2> QED
    BY <1>1, <2>1, <2>4 DEF Told
<1>4. ASSUME NEW n \in L PROVE Lists'[n] = Lists[n] /\ Looks'[n] = Looks[n]
  <2>1. Unharmed(L)
    BY DEF Untouched
  <2>2. /\ \A m \in L, q \in Positions : Table'[m][q] = Table[m][q]
        /\ \A m \in L : m \in Dirs' <=> m \in Dirs
    BY <2>1, UnharmedView
  <2>3. TableEntries(Table', Dirs', n) = TableEntries(Table, Dirs, n)
    BY <2>2, EntriesSame
  <2>4. InTree(dinode[n])' = InTree(dinode[n])
    BY <1>1, DataKept
  <2> QED
    BY <1>2, <1>3, <2>3, <2>4
<1>5. \A n \in L : Lists'[n] = Lists[n] /\ Looks'[n] = Looks[n]
  BY <1>4
<1> QED
  BY <1>2, <1>3, <1>5, TreeStays DEF SameTree

-----------------------------------------------------------------------------
(* put_inode leaves the tree as it is: what it writes was in view already. *)

\* What the live inodes list and show says it all.
LEMMA StandsStill ==
  ASSUME Known, Known', NEW Q, Q \subseteq Inodes, NEW K, Leads(Named, Lists, Q), Leads(Named', Lists', K),
         \A n \in Q : Lists'[n] = Lists[n], \A n \in Q : InTree(InView(n))' = InTree(InView(n))
  PROVE  SameTree
<1>1. PICK L \in SUBSET Inodes : LiveInv(L)
  BY DEF Known, Ready, LiveTree
<1>2. PICK M \in SUBSET Inodes : LiveInv(M)'
  BY DEF Known, Ready, LiveTree
<1>3. /\ \A n \in Inodes : Looks[n] = InTree(InView(n))
      /\ TreeOnDisk = Shape(Named, Looks)
  BY <1>1 DEF Known, Told
<1>4. /\ \A n \in Inodes : Looks'[n] = InTree(InView(n))'
      /\ TreeOnDisk' = Shape(Named', Looks')
  BY <1>2 DEF Known, Told
<1>5. \A n \in Q : Lists'[n] = Lists[n] /\ Looks'[n] = Looks[n]
  BY <1>3, <1>4
<1> QED
  BY <1>3, <1>4, <1>5, TreeStays DEF SameTree

\* The parent's blocks do not change, so that no entry comes with them.
LEMMA SteadyStays ==
  ASSUME Known', NEW L \in SUBSET Inodes, LiveInv(L)', Steady(L), pc \in Putting, parent' = parent,
         dinode'[parent.num] = dinode[parent.num]
  PROVE  Steady(L)'
<1>1. Told(L)'
  BY DEF Known
<1>2. parent.addr = dinode[parent.num].addr
  BY DEF Steady, Settled
<1>3. \A m \in Inodes : ~Coming(L, m)'
  BY <1>1, <1>2 DEF Told
<1> QED
  BY <1>1, <1>3 DEF Told

\* No entry comes, before and after.
LEMMA SteadyTree ==
  ASSUME Known, Known', NEW L \in SUBSET Inodes, LiveInv(L), LiveInv(L)', Steady(L), Steady(L)',
         \A n \in L : TableEntries(Table', Dirs', n) = TableEntries(Table, Dirs, n),
         \A n \in L : InTree(InView(n))' = InTree(InView(n))
  PROVE  SameTree
<1>1. Told(L) /\ Told(L)'
  BY DEF Known
<1>2. Leads(Named, Lists, L) /\ \A n \in L : Lists[n] = TableEntries(Table, Dirs, n)
  BY <1>1 DEF Told
<1>3. Leads(Named', Lists', L) /\ \A n \in L : Lists'[n] = TableEntries(Table', Dirs', n)
  BY <1>1 DEF Told
<1>4. \A n \in L : Lists'[n] = Lists[n]
  BY <1>2, <1>3
<1> QED
  BY <1>2, <1>3, <1>4, StandsStill

\* Nothing of what a released inode holds is live.
LEMMA ReleaseTree ==
  ASSUME Known, Known', NEW L \in SUBSET Inodes, LiveInv(L),
         free_block \/ ZeroFreed \/ BlankOut \/ free_inode
  PROVE  SameTree
<1>1. Before(L) /\ DiskTypeOK /\ ShapesDisk
  BY DEF Known, Ready, Before, Inv, TypeOK
<1>2. LiveDisk(L) /\ core \in [Inodes2 -> inode] /\ LiveTool(L)
  BY <1>1, BeforeParts
<1>3. /\ who = "target" /\ held = target /\ pc \in Putting
      /\ target.num \notin L /\ Private(Spare(L), target) /\ Settled(L)
  BY <1>1, ReleasingTool
<1>4. LiveInv(L)'
  BY <1>1, LiveRelease
<1>5. Untouched(L) /\ (target'.num = target.num \/ target'.num = 0) /\ pc' \in Putting
  <2>1. CASE free_block
    <3>1. PICK l \in Logical :
            /\ Unmaps(l)
            /\ IF badblock(held.addr[l])
               THEN pc' = "put" /\ fresh' = 0 /\ UNCHANGED diskVars
               ELSE pc' = "pzero" /\ fresh' = held.addr[l] /\ ClearBlockBit(held.addr[l])
      BY <2>1 DEF free_block
    <3>2. /\ target.addr[l] # 0
          /\ core' = [core EXCEPT !["target"] = [@ EXCEPT !.addr[l] = 0]]
      BY <1>3, <3>1 DEF Unmaps, Lowest, Holes
    <3>3. PICK b : b = target.addr[l]
      OBVIOUS
    <3>4. b \notin Taken(L) /\ ~badblock(b)
      BY <1>3, <3>2, <3>3 DEF Private, Spare
    <3>5. pc' = "pzero" /\ ClearBlockBit(b)
      BY <1>3, <3>1, <3>3, <3>4
    <3>6. Untouched(L)
      BY <1>1, <1>2, <3>4, <3>5, UntouchedBy
    <3>7. target' = [target EXCEPT !.addr[l] = 0]
      BY <1>2, <3>2 DEF target, Inodes2
    <3>8. target'.num = target.num
      BY <1>2, <3>7 DEF inode, target, Inodes2
    <3> QED
      BY <3>5, <3>6, <3>8 DEF Putting
  <2>2. CASE ZeroFreed
    <3>1. pc = "pzero" /\ pc' = "put" /\ zero_block(fresh) /\ core' = core
      BY <2>2 DEF ZeroFreed
    <3>2. fresh \notin Taken(L)
      BY <1>2, <3>1 DEF LiveTool
    <3>3. Untouched(L)
      BY <1>1, <1>2, <3>1, <3>2, UntouchedBy
    <3> QED
      BY <3>1, <3>3 DEF target, Putting
  <2>3. CASE BlankOut
    <3>1. pc' = "ifree" /\ write_disk_inode(target.num, Released) /\ core' = core
      BY <1>3, <2>3 DEF BlankOut
    <3>2. Untouched(L)
      BY <1>1, <1>2, <1>3, <3>1, UntouchedBy
    <3> QED
      BY <3>1, <3>2 DEF target, Putting
  <2>4. CASE free_inode
    <3>1. ClearInodeBit(target.num) /\ PutDone
      BY <1>3, <2>4 DEF free_inode
    <3>2. pc' = "put" /\ core' = [core EXCEPT !["target"] = NULL]
      BY <1>3, <3>1 DEF PutDone
    <3>3. target' = NULL
      BY <1>2, <3>2, CoreFields
    <3>4. target'.num = 0
      BY <3>3 DEF NULL
    <3>5. Untouched(L)
      BY <1>1, <1>2, <1>3, <3>1, UntouchedBy
    <3> QED
      BY <3>2, <3>4, <3>5 DEF Putting
  <2> QED
    BY <2>1, <2>2, <2>3, <2>4
<1>6. /\ parent' = parent /\ dinode'[parent.num] = dinode[parent.num]
  <2>1. put_inode
    BY DEF put_inode
  <2> QED
    BY <1>1, <1>5, <2>1, PutKeepsParent
<1>7. Steady(L) /\ Steady(L)'
  BY <1>3, <1>4, <1>6, SteadyStays DEF Steady
<1>8. \A n \in L : TableEntries(Table', Dirs', n) = TableEntries(Table, Dirs, n)
  <2>1. Unharmed(L)
    BY <1>5 DEF Untouched
  <2>2. /\ \A m \in L, q \in Positions : Table'[m][q] = Table[m][q]
        /\ \A m \in L : m \in Dirs' <=> m \in Dirs
    BY <2>1, UnharmedView
  <2> QED
    BY <2>2, EntriesSame
<1>9. ASSUME NEW n \in L PROVE InTree(InView(n))' = InTree(InView(n))
  <2>1. 0 \notin L
    BY <1>1, BeforeParts
  <2>2. InView(n) = dinode[n] /\ InView(n)' = dinode'[n]
    BY <1>3, <1>5, <2>1 DEF InView
  <2>3. InTree(dinode[n])' = InTree(dinode[n])
    BY <1>1, <1>5, DataKept
  <2> QED
    BY <2>2, <2>3 DEF InTree
<1>10. \A n \in L : InTree(InView(n))' = InTree(InView(n))
  BY <1>9
<1> QED
  BY <1>4, <1>7, <1>8, <1>10, SteadyTree

\* The target's inode: what is in core is on the disk now.
LEMMA PutTargetTree ==
  ASSUME Known, Known', NEW L \in SUBSET Inodes, LiveInv(L), PutClean \/ update_inode, who = "target"
  PROVE  SameTree
<1>1. Before(L) /\ DiskTypeOK /\ Told(L)
  BY DEF Known, Ready, Before, Inv, TypeOK
<1>2. LiveDisk(L) /\ core \in [Inodes2 -> inode] /\ LiveTool(L) /\ 0 \notin Inodes
  BY <1>1, BeforeParts DEF Inodes
<1>3. /\ pc = "put" /\ PutDone /\ dirents' = dirents /\ chunk' = chunk
      /\ PutClean => UNCHANGED diskVars
      /\ update_inode => write_disk_inode(held.num, OnDisk(held)) /\ held.num # 0 /\ held.dirty = DIRTY
      /\ PutClean => held.num = 0 \/ held.dirty = CLEAN
  BY DEF PutClean, update_inode, write_disk_inode, diskVars
<1>4. /\ pc' = "put" /\ who' = "parent" /\ core' = [core EXCEPT !["target"] = NULL] /\ base' = base
      /\ held = target /\ pc \in Putting /\ pc' \in Putting
  <2>1. held = target
    BY DEF held, target
  <2> QED
    BY <1>3, <2>1 DEF PutDone, Putting, args
<1>5. target' = NULL /\ parent' = parent
  BY <1>2, <1>4, CoreFields
<1>6. target'.num = 0
  BY <1>5 DEF NULL
<1>7. ASSUME NEW n \in Inodes PROVE InTree(InView(n))' = InTree(InView(n))
  <2>1. InView(n)' = dinode'[n]
    BY <1>2, <1>6 DEF InView
  <2>2. dinode'[n] = InView(n)
    <3>1. CASE PutClean
      <4>1. ~(target.num = n /\ target.dirty = DIRTY) /\ dinode' = dinode
        BY <1>2, <1>3, <1>4, <3>1, CleanIsNotDirty DEF diskVars
      <4> QED
        BY <4>1 DEF InView
    <3>2. CASE update_inode
      <4>1. dinode' = [dinode EXCEPT ![target.num] = OnDisk(target)] /\ target.dirty = DIRTY
        BY <1>3, <1>4, <3>2 DEF write_disk_inode
      <4>2. dinode'[n] = IF n = target.num THEN OnDisk(target) ELSE dinode[n]
        BY <1>1, <4>1 DEF DiskTypeOK
      <4> QED
        BY <4>1, <4>2 DEF InView
    <3> QED
      BY <3>1, <3>2
  <2> QED
    BY <1>3, <2>1, <2>2 DEF InTree
<1>8. /\ \A n \in L : InTree(InView(n))' = InTree(InView(n))
      /\ \A n \in Inodes : InTree(InView(n))' = InTree(InView(n))
  BY <1>7
<1>9. /\ parent.num \in L /\ dinode'[parent.num] = dinode[parent.num]
  <2>1. put_inode
    BY DEF put_inode
  <2> QED
    BY <1>1, <1>4, <2>1, PutKeepsParent
<1>10. /\ LiveInv(L)'
       /\ \A n \in L : TableEntries(Table', Dirs', n) = TableEntries(Table, Dirs, n)
  <2>1. CASE PutClean
    <3>1. LiveInv(L)'
      BY <1>1, <2>1, LivePutClean
    <3>2. Table' = Table /\ Dirs' = Dirs
      BY <1>3, <2>1 DEF diskVars, Table, Row, View, Dirs
    <3> QED
      BY <3>1, <3>2
  <2>2. CASE update_inode /\ target.num \notin L
    <3>1. LiveInv(L)' /\ Unharmed(L)
      BY <1>1, <2>2, LivePutUnnamed
    <3> QED
      BY <3>1, UnharmedView, EntriesSame
  <2>3. CASE update_inode /\ target.num \in L
    <3>1. LiveInv(L)'
      BY <1>1, <2>3, LivePutNamed
    <3>2. PICK n \in Inodes, P \in Inodes, p \in Positions : Fills(L, Table, Dirs, Table', Dirs', n, P, p)
      BY <1>1, <2>3, LivePutNamed
    <3> QED
      BY <3>1, <3>2, EntriesFilled
  <2> QED
    BY <2>1, <2>2, <2>3
<1>11. CASE Steady(L)
  <2>1. Steady(L)'
    BY <1>4, <1>5, <1>9, <1>10, <1>11, SteadyStays
  <2> QED
    BY <1>8, <1>10, <1>11, <2>1, SteadyTree
<1>12. CASE ~Steady(L)
  <2>1. PICK m \in Inodes : Coming(L, m)
    BY <1>1, <1>12 DEF Told
  <2>2. m = target.num /\ m \notin L /\ target.dirty = DIRTY /\ Grown(L, m, target)
    BY <2>1 DEF Coming
  <2>3. update_inode
    BY <1>2, <1>3, <1>4, <2>2, CleanIsNotDirty
  <2>4. \E n \in Inodes : n = target.num /\ Grown(L, n, dinode[n])'
    BY <1>1, <2>2, <2>3, LivePutUnnamed
  <2>5. Coming(L, m)'
    BY <1>4, <2>2, <2>4 DEF Coming
  <2>6. Told(L)'
    BY <1>10 DEF Known
  <2>7. /\ Leads(Named, Lists, L \cup {m}) /\ Lists[m] = {}
        /\ \A n \in L : Lists[n] = ListedWith(m, n)
    BY <1>1, <2>1 DEF Told
  <2>8. /\ Leads(Named', Lists', L \cup {m}) /\ Lists'[m] = {}
        /\ \A n \in L : Lists'[n] = ListedWith(m, n)'
    BY <2>5, <2>6 DEF Told
  <2>9. \A n \in L : ListedWith(m, n)' = ListedWith(m, n)
    BY <1>4, <1>5, <1>10 DEF ListedWith
  <2>10. /\ \A n \in L \cup {m} : Lists'[n] = Lists[n]
         /\ \A n \in L \cup {m} : InTree(InView(n))' = InTree(InView(n))
         /\ L \cup {m} \subseteq Inodes
    BY <1>8, <2>7, <2>8, <2>9
  <2> QED
    BY <2>7, <2>8, <2>10, StandsStill
<1> QED
  BY <1>11, <1>12

\* The parent's inode, and the end of the tool.
LEMMA PutParentTree ==
  ASSUME Known, Known', NEW L \in SUBSET Inodes, LiveInv(L), PutClean \/ update_inode, who = "parent"
  PROVE  SameTree
<1>1. Before(L) /\ DiskTypeOK /\ Told(L) /\ ParentOld
  BY DEF Known, Ready, Before, Inv, TypeOK, Announced
<1>2. LiveDisk(L) /\ core \in [Inodes2 -> inode] /\ LiveTool(L) /\ 0 \notin Inodes
  BY <1>1, BeforeParts DEF Inodes
<1>3. /\ pc = "put" /\ PutDone /\ pc \in Putting
      /\ PutClean => UNCHANGED diskVars
      /\ update_inode => write_disk_inode(held.num, OnDisk(held)) /\ held.num # 0 /\ held.dirty = DIRTY
      /\ PutClean => held.num = 0 \/ held.dirty = CLEAN
  BY DEF PutClean, update_inode, Putting
<1>4. /\ pc' = "idle" /\ core' = NoInodes /\ held = parent /\ target = NULL
      /\ parent.num \in L \ {0} /\ parent.num \in Inodes
  <2>1. held = parent
    BY DEF held, parent
  <2> QED
    BY <1>1, <1>3, <2>1, PuttingTool DEF PutDone, Exit
<1>5. target' = NULL /\ parent' = NULL
  BY <1>4 DEF NoInodes, target, parent
<1>6. target'.num = 0 /\ target.num = 0
  BY <1>4, <1>5 DEF NULL
<1>7. \A K : Steady(K)'
  BY <1>4 DEF Steady, Putting
<1>8. CASE PutClean
  <2>1. LiveInv(L)'
    BY <1>1, <1>8, LivePutClean
  <2>2. Untouched(L)
    BY <1>1, <1>2, <1>3, <1>8, UntouchedBy
  <2>3. Cleared /\ Cleared'
    BY <1>3, <1>4, <1>5, <1>8 DEF Cleared, NULL
  <2> QED
    BY <2>1, <2>2, <2>3, QuietTree
<1>9. CASE update_inode
  <2>1. /\ dinode' = [dinode EXCEPT ![parent.num] = OnDisk(parent)] /\ parent.dirty = DIRTY
        /\ chunk' = chunk
    BY <1>3, <1>4, <1>9 DEF write_disk_inode
  <2>2. \A n \in Inodes : dinode'[n] = IF n = parent.num THEN OnDisk(parent) ELSE dinode[n]
    BY <1>1, <2>1 DEF DiskTypeOK
  <2>3. parent.num \in Dirs /\ parent.mode = "dir"
    <3>1. parent.num \in Dirs
      BY <1>1, <1>3, <2>1 DEF ParentOld
    <3>2. CASE Steady(L)
      BY <1>3, <3>1, <3>2 DEF Steady, Settled, Dirs
    <3>3. CASE \E m \in Inodes : Coming(L, m)
      BY <3>3 DEF Coming, Grown
    <3> QED
      BY <1>1, <3>1, <3>2, <3>3 DEF Told
  <2>4. ASSUME NEW n \in Inodes PROVE InTree(InView(n))' = InTree(InView(n))
    <3>1. InView(n)' = dinode'[n] /\ InView(n) = dinode[n]
      BY <1>2, <1>6 DEF InView
    <3>2. CASE n = parent.num
      <4>1. dinode'[n].mode = "dir" /\ dinode[n].mode = "dir"
        BY <2>2, <2>3, <3>2 DEF OnDisk, Dirs
      <4> QED
        BY <3>1, <4>1 DEF InTree
    <3>3. CASE n # parent.num
      BY <2>1, <2>2, <3>1, <3>3 DEF InTree
    <3> QED
      BY <3>2, <3>3
  <2>5. CASE Steady(L)
    <3>1. Settled(L)
      BY <1>3, <2>5 DEF Steady
    <3>2. LiveInv(L)' /\ Table' = Table /\ Dirs' = Dirs
      BY <1>1, <1>9, <3>1, LivePutSettled
    <3>3. /\ \A n \in L : TableEntries(Table', Dirs', n) = TableEntries(Table, Dirs, n)
          /\ \A n \in L : InTree(InView(n))' = InTree(InView(n))
      BY <2>4, <3>2
    <3> QED
      BY <1>7, <2>5, <3>2, <3>3, SteadyTree
  <2>6. CASE ~Steady(L)
    <3>1. PICK m \in Inodes : Coming(L, m)
      BY <1>1, <2>6 DEF Told
    <3>2. m \in Inodes \ L /\ Grown(L, m, dinode[m])
      BY <3>1 DEF Coming
    <3>3. LiveInv(L \cup {m})'
      BY <1>1, <1>9, <3>2, LivePutGrown
    <3>4. PICK P \in Inodes, p \in Positions :
            P = parent.num /\ Adds(L, Table, Dirs, Table', Dirs', m, P, p, base)
      BY <1>1, <1>9, <3>2, LivePutGrown
    <3>5. /\ \A d \in L : d # P => TableEntries(Table', Dirs', d) = TableEntries(Table, Dirs, d)
          /\ TableEntries(Table', Dirs', P) = TableEntries(Table, Dirs, P) \cup {[ino |-> m, name |-> base]}
          /\ TableEntries(Table', Dirs', m) = {}
      BY <3>4, EntriesMore
    <3>6. L \cup {m} \in SUBSET Inodes
      OBVIOUS
    <3>7. Told(L \cup {m})'
      BY <3>3, <3>6 DEF Known
    <3>8. /\ Leads(Named', Lists', L \cup {m})
          /\ \A n \in L \cup {m} : Lists'[n] = TableEntries(Table', Dirs', n)
      BY <1>7, <3>7 DEF Told
    <3>9. /\ Leads(Named, Lists, L \cup {m}) /\ Lists[m] = {}
          /\ \A n \in L : Lists[n] = ListedWith(m, n)
      BY <1>1, <3>1 DEF Told
    <3>10. ASSUME NEW n \in L \cup {m} PROVE Lists'[n] = Lists[n]
      <4>1. CASE n = m
        BY <3>5, <3>8, <3>9, <4>1
      <4>2. CASE n \in L /\ n # P
        BY <3>4, <3>5, <3>8, <3>9, <4>2 DEF ListedWith
      <4>3. CASE n = P
        BY <1>4, <3>4, <3>5, <3>8, <3>9, <4>3 DEF ListedWith
      <4> QED
        BY <4>1, <4>2, <4>3
    <3>11. /\ \A n \in L \cup {m} : Lists'[n] = Lists[n]
           /\ \A n \in L \cup {m} : InTree(InView(n))' = InTree(InView(n))
           /\ L \cup {m} \subseteq Inodes
      BY <2>4, <3>10
    <3> QED
      BY <3>8, <3>9, <3>11, StandsStill
  <2> QED
    BY <2>5, <2>6
<1> QED
  BY <1>8, <1>9

\* So put_inode changes nothing that users see.
LEMMA PutTree ==
  ASSUME Known, Known', put_inode
  PROVE  SameTree
<1>1. PICK L \in SUBSET Inodes : LiveInv(L)
  BY DEF Known, Ready, LiveTree
<1>2. Before(L)
  BY <1>1 DEF Known, Ready, Before
<1>3. CASE free_block \/ ZeroFreed \/ BlankOut \/ free_inode
  BY <1>1, <1>3, ReleaseTree
<1>4. CASE PutClean \/ update_inode
  <2>1. who \in {"target", "parent"}
    BY <1>2, BeforeParts DEF ProcTypeOK
  <2> QED
    BY <1>1, <1>4, <2>1, PutTargetTree, PutParentTree
<1> QED
  BY <1>3, <1>4 DEF put_inode

-----------------------------------------------------------------------------
(* Everything before put_inode, but for the writes of an entry.            *)

\* The steps of walking, allocating, and giving up.
Walks    == Start \/ WalkDown \/ WalkFails \/ WalkEnds
GivesUp  == CreateLookupFails \/ NoFreeInode \/ NoFreeBlock \/ HostFails \/ AddEntryFails
Prepares == \/ CreateLookup \/ alloc_inode \/ InitInode \/ alloc_block \/ ZeroFresh \/ FileCopied
            \/ WriteDotEntries \/ CopyChunk \/ AddEntryAllocates \/ AddEntryZeroes
Looked   == RmLookupFails \/ RmFile \/ RmEmptyDir \/ RmNotEmpty

\* They write nothing that is live.
LEMMA QuietWrites ==
  ASSUME OneKill, NEW L, Before(L), Walks \/ GivesUp \/ Prepares \/ Looked
  PROVE  LiveInv(L)' /\ Untouched(L)
<1>1. DiskTypeOK /\ LiveDisk(L) /\ LiveTool(L) /\ L \subseteq Inodes /\ MaxKills <= 1
  BY BeforeParts DEF OneKill
<1>2. CASE Walks
  <2>1. UNCHANGED diskVars
    BY <1>2 DEF Walks, Start, Invoke, WalkDown, WalkFails, WalkEnds
  <2> QED
    BY <1>1, <1>2, <2>1, LiveWalk, UntouchedBy DEF Walks
<1>3. CASE GivesUp
  <2>1. UNCHANGED diskVars
    BY <1>3 DEF GivesUp, CreateLookupFails, NoFreeInode, NoFreeBlock, HostFails, AddEntryFails
  <2> QED
    BY <1>1, <1>3, <2>1, LiveCreateFails, UntouchedBy DEF GivesUp
<1>4. CASE Looked
  <2>1. UNCHANGED diskVars
    BY <1>4 DEF Looked, RmLookupFails, RmFile, RmEmptyDir, RmDirectory, RmNotEmpty
  <2> QED
    BY <1>1, <1>4, <2>1, LiveRmLookup, UntouchedBy DEF Looked
<1>5. CASE CreateLookup \/ alloc_inode \/ InitInode
  <2>1. CASE CreateLookup
    BY <1>1, <2>1, UntouchedBy, LiveAllocInode DEF CreateLookup
  <2>2. CASE alloc_inode
    <3>1. PICK n : SetInodeBit(n)
      BY <2>2 DEF alloc_inode
    <3> QED
      BY <1>1, <2>2, <3>1, UntouchedBy, LiveAllocInode
  <2>3. CASE InitInode
    <3>1. fresh \notin L /\ write_disk_inode(fresh, NewInode)
      BY <1>1, <2>3 DEF InitInode, LiveTool
    <3> QED
      BY <1>1, <2>3, <3>1, UntouchedBy, LiveAllocInode
  <2> QED
    BY <1>5, <2>1, <2>2, <2>3
<1>6. CASE alloc_block \/ ZeroFresh \/ FileCopied
  <2>1. CASE alloc_block
    <3>1. PICK b : SetBlockBit(b)
      BY <2>1 DEF alloc_block
    <3> QED
      BY <1>1, <2>1, <3>1, UntouchedBy, LiveFill
  <2>2. CASE ZeroFresh
    <3>1. fresh \notin Taken(L) /\ zero_block(fresh)
      BY <1>1, <2>2 DEF ZeroFresh, LiveTool, Holding, FreshBlock, Spare
    <3> QED
      BY <1>1, <2>2, <3>1, UntouchedBy, LiveFill
  <2>3. CASE FileCopied
    BY <1>1, <2>3, UntouchedBy, LiveFill DEF FileCopied
  <2> QED
    BY <1>6, <2>1, <2>2, <2>3
<1>7. CASE WriteDotEntries \/ CopyChunk
  <2>1. fresh \notin Taken(L)
    BY <1>1, <1>7 DEF WriteDotEntries, CopyChunk, LiveTool, Holding, FreshBlock, Spare
  <2>2. CASE WriteDotEntries
    <3>1. WriteDots(fresh, core["target"].num, core["parent"].num)
      BY <2>2 DEF WriteDotEntries
    <3> QED
      BY <1>1, <2>1, <2>2, <3>1, UntouchedBy, LiveContent
  <2>3. CASE CopyChunk
    <3>1. WriteChunk(fresh, k)
      BY <2>3 DEF CopyChunk
    <3> QED
      BY <1>1, <2>1, <2>3, <3>1, UntouchedBy, LiveContent
  <2> QED
    BY <1>7, <2>2, <2>3
<1>8. CASE AddEntryAllocates \/ AddEntryZeroes
  <2>1. CASE AddEntryAllocates
    <3>1. PICK b : SetBlockBit(b)
      BY <2>1 DEF AddEntryAllocates
    <3> QED
      BY <1>1, <2>1, <3>1, UntouchedBy, LiveAddBlock
  <2>2. CASE AddEntryZeroes
    <3>1. fresh \notin Taken(L) /\ zero_block(fresh)
      BY <1>1, <2>2 DEF AddEntryZeroes, LiveTool, Holding, FreshBlock, Spare
    <3> QED
      BY <1>1, <2>2, <3>1, UntouchedBy, LiveAddBlock
  <2> QED
    BY <1>8, <2>1, <2>2
<1> QED
  BY <1>2, <1>3, <1>4, <1>5, <1>6, <1>7, <1>8 DEF Prepares

\* Nor is anything in core that put_inode would write.
LEMMA QuietStep ==
  ASSUME OneKill, Known, Known', Walks \/ GivesUp \/ Prepares \/ Looked
  PROVE  SameTree
<1>1. PICK L \in SUBSET Inodes : LiveInv(L)
  BY DEF Known, Ready, LiveTree
<1>2. Before(L) /\ DirtyLast /\ DirtyLast'
  BY <1>1 DEF Known, Ready, Before
<1>3. LiveInv(L)' /\ Untouched(L)
  BY <1>2, QuietWrites
<1>4. pc \notin Putting
  BY DEF Walks, GivesUp, Prepares, Looked, Putting, Start, Invoke, WalkDown, WalkFails, WalkEnds,
     CreateLookupFails, NoFreeInode, NoFreeBlock, HostFails, AddEntryFails, CreateLookup, alloc_inode,
     InitInode, alloc_block, ZeroFresh, FileCopied, WriteDotEntries, CopyChunk, AddEntryAllocates,
     AddEntryZeroes, RmLookupFails, RmFile, RmEmptyDir, RmNotEmpty, RmDirectory, Target
<1>5. pc' \notin Putting \/ status' = EXIT_FAILURE
  <2>1. CASE WalkFails \/ GivesUp \/ RmLookupFails \/ RmNotEmpty
    BY <2>1 DEF WalkFails, GivesUp, CreateLookupFails, NoFreeInode, NoFreeBlock, HostFails,
       AddEntryFails, RmLookupFails, RmNotEmpty, error_handler
  <2>2. CASE Start \/ WalkDown \/ WalkEnds \/ Prepares \/ RmFile \/ RmEmptyDir
    BY <2>2 DEF Putting, Start, Invoke, WalkDown, WalkEnds, Prepares,
       CreateLookup, alloc_inode, InitInode, alloc_block, ZeroFresh, FileCopied, WriteDotEntries,
       CopyChunk, AddEntryAllocates, AddEntryZeroes, RmFile, RmEmptyDir, RmDirectory
  <2> QED
    BY <2>1, <2>2 DEF Walks, Looked
<1>6. Cleared /\ Cleared'
  BY <1>2, <1>4, <1>5 DEF DirtyLast, Cleared
<1> QED
  BY <1>1, <1>3, <1>6, QuietTree

-----------------------------------------------------------------------------
(* Where the tool stands.                                                  *)

\* The parent directory is in the tree that users see.
Reached == pc # "idle" => \E x \in Named : x[2] = parent.num

\* What the set of all paths tells of the tree.
LEMMA NamedIs ==
  ASSUME Known
  PROVE  /\ \E R \in SUBSET Inodes : Leads(Named, Lists, R)
         /\ NoPath \in Named /\ DOMAIN TreeOnDisk = {x[1] : x \in Named}
         /\ \A x \in Named : x[2] \in Inodes /\ PathTo(Named, x[2]) = x[1] /\ x[1] \in DOMAIN TreeOnDisk
<1>1. PICK L \in SUBSET Inodes : LiveInv(L)
  BY DEF Known, Ready, LiveTree
<1>2. Told(L)
  BY <1>1 DEF Known
<1>3. \E R \in SUBSET Inodes : Leads(Named, Lists, R)
  <2>1. CASE Steady(L)
    <3>1. Leads(Named, Lists, L)
      BY <1>2, <2>1 DEF Told
    <3>2. \E R \in SUBSET Inodes : R = L
      BY <1>1
    <3> QED
      BY <3>1, <3>2
  <2>2. CASE \E m \in Inodes : Coming(L, m)
    <3>1. PICK m \in Inodes : Coming(L, m)
      BY <2>2
    <3>2. Leads(Named, Lists, L \cup {m}) /\ L \cup {m} \in SUBSET Inodes
      BY <1>1, <1>2, <3>1 DEF Told
    <3> QED
      BY <3>2
  <2> QED
    BY <1>2, <2>1, <2>2 DEF Told
<1>4. PICK R \in SUBSET Inodes : Leads(Named, Lists, R)
  BY <1>3
<1>5. TreeOnDisk = Shape(Named, Looks)
  BY <1>2 DEF Told
<1>6. Depicts(Shape(Named, Looks), Named, Looks)
  BY <1>4, ShapeAt
<1>7. DOMAIN TreeOnDisk = {x[1] : x \in Named}
  BY <1>5, <1>6 DEF Depicts
<1>8. NoPath \in Named /\ \A x \in Named : x[2] \in R
  BY <1>4 DEF Leads
<1>9. \A x \in Named : PathTo(Named, x[2]) = x[1]
  BY <1>4, PathFound
<1> QED
  BY <1>3, <1>7, <1>8, <1>9

\* So it has a path.
LEMMA HereIs ==
  ASSUME Known, Reached
  PROVE  /\ pc = "idle" => Here = <<>> /\ core = NoInodes
         /\ pc # "idle" => /\ \E x \in Named : x[2] = parent.num
                           /\ \A x \in Named : x[2] = parent.num => Here = x[1]
                           /\ parent.num \in Inodes
<1>1. PICK L \in SUBSET Inodes : LiveInv(L)
  BY DEF Known, Ready, LiveTree
<1>2. CASE pc = "idle"
  <2>1. core = NoInodes
    BY <1>1, <1>2 DEF LiveInv, LiveTool
  <2>2. core["parent"].num = 0
    BY <2>1 DEF NoInodes, NULL
  <2> QED
    BY <1>2, <2>1, <2>2 DEF Here
<1>3. CASE pc # "idle"
  <2>1. PICK x \in Named : x[2] = parent.num
    BY <1>3 DEF Reached
  <2>2. parent.num \in Inodes
    BY <2>1, NamedIs
  <2>3. parent.num # 0
    BY <2>2 DEF Inodes
  <2>4. ASSUME NEW y \in Named, y[2] = parent.num PROVE Here = y[1]
    <3>1. PathTo(Named, y[2]) = y[1]
      BY NamedIs
    <3> QED
      BY <2>3, <2>4, <3>1 DEF Here, parent
  <2> QED
    BY <1>3, <2>1, <2>2, <2>4
<1> QED
  BY <1>2, <1>3

\* The paths stay, and the tool comes to the end of path x.
LEMMA HereMoves ==
  ASSUME Known, Named' = Named, NEW x \in Named, parent'.num = x[2]
  PROVE  Reached' /\ Here' = x[1]
<1>1. x[2] # 0 /\ PathTo(Named, x[2]) = x[1]
  <2>1. x[2] \in Inodes /\ PathTo(Named, x[2]) = x[1]
    BY NamedIs
  <2> QED
    BY <2>1 DEF Inodes
<1>2. core'["parent"].num = x[2]
  BY DEF parent
<1> QED
  BY <1>1, <1>2 DEF Reached, Here

\* Or it stays where it is.
LEMMA HereStays ==
  ASSUME Known, Reached, Named' = Named, parent'.num = parent.num, pc # "idle"
  PROVE  Reached' /\ Here' = Here
<1>1. PICK x \in Named : x[2] = parent.num
  BY HereIs
<1>2. Here = x[1]
  BY <1>1, HereIs
<1>3. parent'.num = x[2]
  BY <1>1
<1> QED
  BY <1>2, <1>3, HereMoves

-----------------------------------------------------------------------------
(* Steps of the tools as steps of the tree.                                *)

\* The step is one of the tree, or none.
Simulates == Reached' /\ [Tree!TreeNext]_(Tree!treeVars)

\* None.
LEMMA Stutters ==
  ASSUME Reached', Here' = Here, TreeOnDisk' = TreeOnDisk, Phase' = Phase, UNCHANGED args, kills' = kills
  PROVE  Simulates
<1>1. tool' = tool /\ base' = base /\ fsz' = fsz
  BY DEF args
<1> QED
  BY <1>1 DEF Simulates, Tree!treeVars

\* The tool has done its work and the parent directory stays where it is.
LEMMA StuttersHere ==
  ASSUME Known, Reached, SameTree, parent'.num = parent.num, pc # "idle",
         Phase' = Phase, UNCHANGED args, kills' = kills
  PROVE  Simulates
<1>1. Reached' /\ Here' = Here
  BY HereStays DEF SameTree
<1> QED
  BY <1>1, Stutters DEF SameTree

\* The target is there, and is not a directory with entries.
Removable ==
  /\ Append(Here, base) \in DOMAIN TreeOnDisk
  /\ \A q \in DOMAIN TreeOnDisk : ~Tree!IsStrictPrefix(Append(Here, base), q)

\* The tool gives up.
LEMMA Refuses ==
  ASSUME Known, Reached, SameTree, parent'.num = parent.num, pc # "idle",
         Phase' = "refused", UNCHANGED args, kills' = kills,
         \/ Phase = "walking" /\ (kills > 0 \/ \E n \in Names : Append(Here, n) \notin DOMAIN TreeOnDisk)
         \/ Phase = "working" /\ tool \in Creators
         \/ Phase = "working" /\ tool = "rm" /\ ~Removable
  PROVE  Simulates
<1>1. Reached' /\ Here' = Here /\ TreeOnDisk' = TreeOnDisk
  BY HereStays DEF SameTree
<1>2. tool' = tool /\ base' = base /\ fsz' = fsz
  BY DEF args
<1>3. Tree!Refuse
  BY <1>1, <1>2 DEF Tree!Refuse, Tree!NoSuchPath, Removable, Tree!Target, Tree!IsLeaf, Creators
<1> QED
  BY <1>1, <1>3 DEF Simulates, Tree!TreeNext

\* What the phase of the tree is.
LEMMA PhaseIs ==
  /\ pc \in {"lookup", "ibit", "iwrite", "block", "bzero", "content", "entry", "ezero", "ewrite", "detach"}
       => Phase = "working"
  /\ pc' \in {"lookup", "ibit", "iwrite", "block", "bzero", "content", "entry", "ezero", "ewrite", "detach"}
       => Phase' = "working"
  /\ pc = "walk" => Phase = "walking"
  /\ pc' = "walk" => Phase' = "walking"
  /\ pc = "idle" => Phase = "idle"
  /\ pc' = "idle" => Phase' = "idle"
  /\ pc \in Putting => Phase = IF status = EXIT_SUCCESS THEN "done" ELSE "refused"
  /\ pc' \in Putting => Phase' = IF status' = EXIT_SUCCESS THEN "done" ELSE "refused"
  BY DEF Phase, Putting

\* What an error handler does.
LEMMA HandlerMaps ==
  ASSUME core \in [Inodes2 -> inode], NEW c \in [Inodes2 -> inode], c["parent"] = parent, error_handler(c)
  PROVE  parent'.num = parent.num /\ UNCHANGED args /\ Phase' = "refused"
<1>1. pc' = "put" /\ status' = EXIT_FAILURE /\ UNCHANGED args
  BY DEF error_handler
<1>2. core'["parent"] = c["parent"]
  BY DEF error_handler, Inodes2
<1>3. Phase' = "refused"
  BY <1>1, PhaseIs DEF Putting, EXIT_FAILURE, EXIT_SUCCESS
<1> QED
  BY <1>1, <1>2, <1>3 DEF parent

\* put_inode, and the end of the tool.
LEMMA PutMaps ==
  ASSUME Known, Known', Reached, put_inode
  PROVE  Simulates
<1>1. SameTree
  BY PutTree
<1>2. PICK L \in SUBSET Inodes : LiveInv(L)
  BY DEF Known, Ready, LiveTree
<1>3. Before(L)
  BY <1>2 DEF Known, Ready, Before
<1>4. pc \in Putting /\ kills' = kills
  BY DEF put_inode, PutClean, update_inode, free_block, Unmaps, Releasing, ZeroFreed, BlankOut,
     free_inode, Putting, faults
<1>5. CASE pc' \in Putting
  <2>1. parent' = parent /\ UNCHANGED <<args, status, kills>>
    BY <1>3, <1>5, PutKeepsParent
  <2>2. UNCHANGED args /\ status' = status
    BY <2>1
  <2>3. Phase' = Phase
    BY <1>4, <1>5, <2>2, PhaseIs
  <2>4. pc # "idle"
    BY <1>4 DEF Putting
  <2> QED
    BY <1>1, <1>4, <2>1, <2>2, <2>3, <2>4, StuttersHere
<1>6. CASE pc' \notin Putting
  <2>1. Exit
    <3>1. CASE free_block \/ ZeroFreed \/ BlankOut
      BY <1>6, <3>1 DEF free_block, ZeroFreed, BlankOut, Putting
    <3>2. CASE PutClean \/ update_inode \/ free_inode
      <4>1. PutDone
        BY <3>2 DEF PutClean, update_inode, free_inode
      <4> QED
        BY <1>6, <4>1 DEF PutDone, Putting
    <3> QED
      BY <3>1, <3>2 DEF put_inode
  <2>2. /\ pc' = "idle" /\ tool' = "none" /\ base' = "" /\ fsz' = 0 /\ core' = NoInodes
    BY <2>1 DEF Exit
  <2>3. Here' = <<>>
    <3>1. core'["parent"].num = 0
      BY <2>2 DEF NoInodes, NULL
    <3> QED
      BY <3>1 DEF Here
  <2>4. Phase' = "idle" /\ Phase \in {"done", "refused"}
    BY <1>4, <2>2, PhaseIs
  <2>5. Tree!End
    BY <1>1, <1>4, <2>2, <2>3, <2>4 DEF Tree!End, Tree!Idle, Tree!NoRequest, Tree!Root, SameTree
  <2> QED
    BY <2>2, <2>5 DEF Simulates, Reached, Tree!TreeNext
<1> QED
  BY <1>5, <1>6

\* A tool starts, at the root.
LEMMA StartMaps ==
  ASSUME OneKill, Known, Known', Reached, Start
  PROVE  Simulates
<1>1. SameTree
  BY QuietStep DEF Walks
<1>2. core \in [Inodes2 -> inode]
  <2>1. PICK L \in SUBSET Inodes : LiveInv(L)
    BY DEF Known, Ready, LiveTree
  <2> QED
    BY <2>1, BeforeParts DEF Known, Ready, Before
<1>3. PICK t \in Creators \cup {"rm"}, name \in Names \cup Dots, size \in 0 .. NDIRECT :
        Invoke(t, name, size)
  BY DEF Start
<1>4. /\ pc = "idle" /\ name \in Names /\ pc' = "walk" /\ kills' = kills
      /\ tool' = t /\ base' = name /\ fsz' = size
      /\ core' = [core EXCEPT !["parent"] = get_inode(ROOT_INODE)]
  BY <1>3 DEF Invoke, base_name_ok, faults
<1>5. parent' = get_inode(ROOT_INODE)
  BY <1>2, <1>4, CoreFields
<1>6. parent'.num = NoPath[2] /\ NoPath[1] = <<>>
  BY <1>5 DEF get_inode, InCore, NoPath
<1>7. Reached' /\ Here' = <<>> /\ Here = <<>>
  <2>1. NoPath \in Named
    BY NamedIs
  <2>2. Here = <<>>
    BY <1>4, HereIs
  <2> QED
    BY <1>1, <1>6, <2>1, <2>2, HereMoves DEF SameTree
<1>8. Phase = "idle" /\ Phase' = "walking"
  BY <1>4, PhaseIs
<1>9. Tree!Begin
  BY <1>1, <1>4, <1>7, <1>8 DEF Tree!Begin, SameTree, Creators
<1> QED
  BY <1>7, <1>9 DEF Simulates, Tree!TreeNext

\* namei has come to the end of the path.
LEMMA WalkEndsMaps ==
  ASSUME OneKill, Known, Known', Reached, WalkEnds
  PROVE  Simulates
<1>1. SameTree
  BY QuietStep DEF Walks
<1>2. /\ pc = "walk" /\ pc' = "lookup" /\ kills' = kills /\ core' = core
      /\ tool' = tool /\ base' = base /\ fsz' = fsz
  BY DEF WalkEnds, args, faults
<1>3. Phase = "walking" /\ Phase' = "working"
  BY <1>2, PhaseIs
<1>4. Reached' /\ Here' = Here
  BY <1>1, <1>2, HereStays DEF SameTree, parent
<1>5. Tree!Arrive
  BY <1>1, <1>2, <1>3, <1>4 DEF Tree!Arrive, SameTree
<1> QED
  BY <1>4, <1>5 DEF Simulates, Tree!TreeNext

\* mkdir and cp before add_entry writes the entry; rm before detach_entry does.
LEMMA PreparesMaps ==
  ASSUME OneKill, Known, Known', Reached, Prepares \/ RmFile \/ RmEmptyDir
  PROVE  Simulates
<1>1. SameTree
  BY QuietStep DEF Looked
<1>2. core \in [Inodes2 -> inode]
  <2>1. PICK L \in SUBSET Inodes : LiveInv(L)
    BY DEF Known, Ready, LiveTree
  <2> QED
    BY <2>1, BeforeParts DEF Known, Ready, Before
<1>3. /\ pc \in {"lookup", "ibit", "iwrite", "block", "bzero", "content", "entry", "ezero"}
      /\ pc' \in {"ibit", "iwrite", "block", "bzero", "content", "entry", "ezero", "ewrite", "detach"}
      /\ UNCHANGED args /\ kills' = kills
  BY DEF Prepares, CreateLookup, alloc_inode, InitInode, alloc_block, ZeroFresh, FileCopied,
     WriteDotEntries, CopyChunk, AddEntryAllocates, AddEntryZeroes, RmFile, RmEmptyDir, RmDirectory,
     Target, faults
<1>4. parent'.num = parent.num
  <2>1. CASE \/ CreateLookup \/ alloc_inode \/ alloc_block \/ ZeroFresh \/ AddEntryAllocates
    BY <2>1 DEF CreateLookup, alloc_inode, alloc_block, ZeroFresh, AddEntryAllocates, parent
  <2>2. CASE InitInode \/ FileCopied \/ WriteDotEntries \/ CopyChunk \/ RmFile
    <3>1. \E x : core' = [core EXCEPT !["target"] = x]
      BY <2>2 DEF InitInode, FileCopied, WriteDotEntries, CopyChunk, RmFile
    <3> QED
      BY <1>2, <3>1, CoreFields
  <2>3. CASE AddEntryZeroes
    <3>1. core' = [core EXCEPT !["parent"] = [@ EXCEPT !.addr[k] = fresh]]
      BY <2>3 DEF AddEntryZeroes
    <3>2. parent' = [parent EXCEPT !.addr[k] = fresh]
      BY <1>2, <3>1 DEF parent, Inodes2
    <3> QED
      BY <1>2, <3>2 DEF parent, Inodes2, inode
  <2>4. CASE RmEmptyDir
    <3>1. PICK n \in Inodes :
            core' = [core EXCEPT !["target"] = [get_inode(n) EXCEPT !.nlink = 0],
                                 !["parent"].nlink = Unlinked(@)]
      BY <2>4 DEF RmEmptyDir, RmDirectory
    <3>2. core'["parent"] = [core["parent"] EXCEPT !.nlink = Unlinked(@)]
      BY <1>2, <3>1 DEF Inodes2
    <3> QED
      BY <1>2, <3>2 DEF parent, Inodes2, inode
  <2> QED
    BY <2>1, <2>2, <2>3, <2>4 DEF Prepares
<1>5. Phase' = Phase /\ pc # "idle"
  BY <1>3, PhaseIs
<1> QED
  BY <1>1, <1>3, <1>4, <1>5, StuttersHere

\* mkdir and cp give up.
LEMMA GivesUpMaps ==
  ASSUME OneKill, Known, Known', Reached, GivesUp
  PROVE  Simulates
<1>1. SameTree
  BY QuietStep
<1>2. PICK L \in SUBSET Inodes : LiveInv(L)
  BY DEF Known, Ready, LiveTree
<1>3. core \in [Inodes2 -> inode] /\ LiveTool(L)
  BY <1>2, BeforeParts DEF Known, Ready, Before
<1>4. /\ pc \in {"lookup", "ibit", "block", "entry"} /\ error_handler(core) /\ kills' = kills
      /\ pc = "lookup" => tool \in Creators
  BY DEF GivesUp, CreateLookupFails, NoFreeInode, NoFreeBlock, HostFails, AddEntryFails, faults
<1>5. tool \in Creators
  BY <1>3, <1>4 DEF LiveTool, Creating, CreatesIn
<1>6. parent'.num = parent.num /\ UNCHANGED args /\ Phase' = "refused"
  <2>1. core["parent"] = parent
    BY DEF parent
  <2> QED
    BY <1>3, <1>4, <2>1, HandlerMaps
<1>7. Phase = "working" /\ pc # "idle"
  BY <1>4, PhaseIs
<1> QED
  BY <1>1, <1>4, <1>5, <1>6, <1>7, Refuses

-----------------------------------------------------------------------------
(* Walking and looking up.                                                 *)

\* What the tool reads is what users see.
LEMMA LookingTree ==
  ASSUME Known, Reached, pc \in {"walk", "lookup"}, NEW L \in SUBSET Inodes, LiveInv(L)
  PROVE  /\ Before(L) /\ DiskTypeOK /\ LiveDisk(L) /\ parent.num \in L /\ parent.num \in Inodes
         /\ Leads(Named, Lists, L) /\ \A n \in L : Lists[n] = TableEntries(Table, Dirs, n)
         /\ \E x \in Named : x[2] = parent.num /\ Here = x[1]
         /\ DOMAIN TreeOnDisk = {x[1] : x \in Named}
         /\ base \in Names /\ core \in [Inodes2 -> inode]
<1>1. Before(L)
  BY DEF Known, Ready, Before
<1>2. Steady(L) /\ Told(L)
  BY DEF Steady, Putting, Known
<1>3. /\ DiskTypeOK /\ LiveDisk(L) /\ core \in [Inodes2 -> inode]
      /\ parent.num \in L /\ parent.num \in Inodes /\ base \in Names
  BY <1>1, BeforeParts, WalkingTool
<1>4. \E x \in Named : x[2] = parent.num /\ Here = x[1]
  <2>1. pc # "idle"
    OBVIOUS
  <2>2. PICK x \in Named : x[2] = parent.num
    BY <2>1, HereIs
  <2>3. Here = x[1]
    BY <2>1, <2>2, HereIs
  <2> QED
    BY <2>2, <2>3
<1>5. Leads(Named, Lists, L) /\ \A n \in L : Lists[n] = TableEntries(Table, Dirs, n)
  BY <1>2 DEF Told
<1> QED
  BY <1>1, <1>3, <1>4, <1>5, NamedIs

\* An entry of the table takes the path on.
LEMMA StepOn ==
  ASSUME Known, Reached, pc \in {"walk", "lookup"}, NEW L \in SUBSET Inodes, LiveInv(L),
         NEW q \in Positions, NEW n \in Inodes, NEW name \in Names, parent.num \in Dirs,
         Table[parent.num][q] = [ino |-> n, name |-> name]
  PROVE  \E y \in Named : y[1] = Append(Here, name) /\ y[2] = n
<1>1. /\ parent.num \in L /\ Leads(Named, Lists, L) /\ \A d \in L : Lists[d] = TableEntries(Table, Dirs, d)
      /\ \E x \in Named : x[2] = parent.num /\ Here = x[1]
  BY LookingTree
<1>2. PICK x \in Named : x[2] = parent.num /\ Here = x[1]
  BY <1>1
<1>3. PICK e : e = Table[parent.num][q]
  OBVIOUS
<1>4. e.ino = n /\ e.name = name
  BY <1>3
<1>5. q \in Kids(Table, parent.num)
  <2>1. name \notin Dots
    BY NamesAssumption DEF Dots
  <2> QED
    BY <1>3, <1>4, <2>1 DEF Kids, Inodes
<1>6. e \in Lists[x[2]]
  <2>1. Lists[x[2]] = TableEntries(Table, Dirs, parent.num)
    BY <1>1, <1>2
  <2>2. e \in TableEntries(Table, Dirs, parent.num)
    BY <1>3, <1>5 DEF TableEntries
  <2> QED
    BY <2>1, <2>2
<1>7. x[1] \in Seq(Tokens) /\ e.name \in Tokens /\ Further(x, e) \in Named
  BY <1>1, <1>2, <1>6 DEF Leads
<1>8. Further(x, e)[1] = Append(x[1], e.name) /\ Further(x, e)[2] = e.ino
  BY <1>7, PathFurther
<1> QED
  BY <1>2, <1>4, <1>7, <1>8

\* What the table does not show is not there.
LEMMA NotBelow ==
  ASSUME Known, Reached, pc \in {"walk", "lookup"}, NEW L \in SUBSET Inodes, LiveInv(L), NEW name \in Names,
         \/ parent.num \notin Dirs
         \/ \A q \in Positions : Table[parent.num][q].ino # 0 => Table[parent.num][q].name # name
  PROVE  Append(Here, name) \notin DOMAIN TreeOnDisk
<1>1. /\ parent.num \in L /\ Leads(Named, Lists, L) /\ \A d \in L : Lists[d] = TableEntries(Table, Dirs, d)
      /\ \E x \in Named : x[2] = parent.num /\ Here = x[1]
      /\ DOMAIN TreeOnDisk = {x[1] : x \in Named}
  BY LookingTree
<1>2. PICK x \in Named : x[2] = parent.num /\ Here = x[1]
  BY <1>1
<1>3. \A e \in Lists[x[2]] : e.name # name
  <2>1. Lists[x[2]] = TableEntries(Table, Dirs, parent.num)
    BY <1>1, <1>2
  <2>2. CASE parent.num \notin Dirs
    BY <2>1, <2>2 DEF TableEntries
  <2>3. CASE \A q \in Positions : Table[parent.num][q].ino # 0 => Table[parent.num][q].name # name
    BY <2>1, <2>3 DEF TableEntries, Kids
  <2> QED
    BY <2>2, <2>3
<1>4. name \in Tokens
  BY DEF Tokens
<1>5. Append(x[1], name) \notin {y[1] : y \in Named}
  BY <1>1, <1>3, <1>4, PathParent
<1> QED
  BY <1>1, <1>2, <1>5

\* search_dir does not find a name: users do not see it.
LEMMA MissedName ==
  ASSUME Known, Reached, pc \in {"walk", "lookup"}, NEW name \in Names, NEW token,
         NEW r \in {0, ENOTDIR}, search_dir(parent, token, r), parent.mode # "dir" \/ name = token
  PROVE  Append(Here, name) \notin DOMAIN TreeOnDisk
<1>1. PICK L \in SUBSET Inodes : LiveInv(L)
  BY DEF Known, Ready, LiveTree
<1>2. /\ Before(L) /\ DiskTypeOK /\ parent.num \in L /\ parent.num \in Inodes
  BY <1>1, LookingTree
<1>3. /\ parent.addr = dinode[parent.num].addr /\ parent.mode = dinode[parent.num].mode
      /\ parent.mode = "dir" => Dense(dinode[parent.num])
  BY <1>2, WalkingTool
<1>4. CASE parent.mode # "dir"
  <2>1. parent.num \notin Dirs
    BY <1>3, <1>4 DEF Dirs
  <2> QED
    BY <1>1, <2>1, NotBelow
<1>5. CASE parent.mode = "dir" /\ r = 0
  <2>1. \A q \in Positions : Table[parent.num][q].ino # 0 => Table[parent.num][q].name # token
    BY <1>2, <1>3, <1>5, SearchMissed
  <2> QED
    BY <1>1, <1>5, <2>1, NotBelow
<1>6. CASE parent.mode = "dir" /\ r = ENOTDIR
  <2>1. r # 0 /\ r \notin 0 .. NInodes - 1
    BY <1>6, GeometryAssumption DEF ENOTDIR
  <2>2. PICK p \in Hits(parent, token) : r = EntryAt(parent, p).ino
    BY <1>6, <2>1 DEF search_dir
  <2>3. p \in Positions /\ parent.addr[p[1]] # 0
    BY <2>2 DEF Hits, Searched, Positions, Logical
  <2>4. Table[parent.num][p] \in dirent /\ Table[parent.num][p] = EntryAt(dinode[parent.num], p)
    BY <1>2, <1>3, <2>3, EntryTypesInTable
  <2>5. EntryAt(parent, p) \in dirent
    BY <1>3, <2>4 DEF EntryAt
  <2> QED
    BY <2>1, <2>2, <2>5 DEF dirent
<1> QED
  BY <1>4, <1>5, <1>6

\* What Front makes of a path and a name.
LEMMA FrontOf ==
  ASSUME NEW s \in Seq(Tokens), NEW a \in Tokens
  PROVE  Tree!Front(Append(s, a)) = s
<1>1. Append(s, a) \in Seq(Tokens) /\ Len(Append(s, a)) = Len(s) + 1 /\ Len(s) \in Nat
  OBVIOUS
<1>2. SubSeq(Append(s, a), 1, Len(s)) = s
  OBVIOUS
<1> QED
  BY <1>1, <1>2 DEF Tree!Front

\* One component of the path.
LEMMA WalkDownMaps ==
  ASSUME OneKill, Known, Known', Reached, WalkDown
  PROVE  Simulates
<1>1. SameTree
  BY QuietStep DEF Walks
<1>2. PICK L \in SUBSET Inodes : LiveInv(L)
  BY DEF Known, Ready, LiveTree
<1>3. /\ pc = "walk" /\ pc' = "walk" /\ kills' = kills /\ pc # "idle"
      /\ UNCHANGED args /\ Phase = "walking" /\ Phase' = "walking"
  BY PhaseIs DEF WalkDown, faults
<1>4. /\ Before(L) /\ DiskTypeOK /\ LiveDisk(L) /\ parent.num \in L /\ parent.num \in Inodes
      /\ Leads(Named, Lists, L) /\ \A n \in L : Lists[n] = TableEntries(Table, Dirs, n)
      /\ \E x \in Named : x[2] = parent.num /\ Here = x[1]
      /\ core \in [Inodes2 -> inode]
  BY <1>2, <1>3, LookingTree
<1>5. PICK token \in Names \cup Dots, n \in Inodes :
        /\ search_dir(core["parent"], token, n)
        /\ core' = [core EXCEPT !["parent"] = get_inode(n)]
  BY DEF WalkDown
<1>6. parent'.num = n
  <2>1. parent' = get_inode(n)
    BY <1>4, <1>5, CoreFields
  <2> QED
    BY <2>1 DEF get_inode, InCore
<1>7. parent.addr = dinode[parent.num].addr /\ (parent.mode = "dir" => parent.num \in Dirs)
  BY <1>3, <1>4, WalkingTool
<1>8. parent.num \in Dirs /\ \E q \in Positions : Table[parent.num][q] = [ino |-> n, name |-> token]
  <2>1. search_dir(parent, token, n)
    BY <1>5 DEF parent
  <2> QED
    BY <1>4, <1>7, <2>1, SearchFound
<1>9. PICK q \in Positions : Table[parent.num][q] = [ino |-> n, name |-> token]
  BY <1>8
<1>10. Table[parent.num][q].ino = n /\ Table[parent.num][q].name = token /\ n # 0
  BY <1>9 DEF Inodes
<1>11. TreeOf(L, Table, Dirs) /\ parent.num \in L \cap Dirs
  BY <1>4, <1>8 DEF LiveDisk
<1>12. ASSUME n = parent.num PROVE Simulates
  BY <1>1, <1>3, <1>6, <1>12, StuttersHere
<1>13. CASE token \in Names
  <2>1. PICK y \in Named : y[1] = Append(Here, token) /\ y[2] = n
    BY <1>2, <1>3, <1>8, <1>9, <1>13, StepOn
  <2>2. Reached' /\ Here' = y[1]
    BY <1>1, <1>6, <2>1, HereMoves DEF SameTree
  <2>3. y[1] \in DOMAIN TreeOnDisk
    BY NamedIs
  <2>4. tool' = tool /\ base' = base /\ fsz' = fsz
    BY <1>3 DEF args
  <2>5. Tree!Walk
    BY <1>1, <1>3, <1>13, <2>1, <2>2, <2>3, <2>4 DEF Tree!Walk, SameTree
  <2> QED
    BY <2>2, <2>5 DEF Simulates, Tree!TreeNext
<1>14. CASE token = "."
  <2>1. n = parent.num
    BY <1>10, <1>11, <1>14 DEF TreeOf, SelfDots
  <2> QED
    BY <1>12, <2>1
<1>15. CASE token = ".."
  <2>1. LeadsUp(L, Table, Dirs, parent.num, n)
    BY <1>10, <1>11, <1>15 DEF TreeOf, UpDots
  <2>2. CASE parent.num = ROOT_INODE /\ n = ROOT_INODE
    BY <1>12, <2>2
  <2>3. CASE n \in L \cap Dirs /\ \E r \in Kids(Table, n) : Table[n][r].ino = parent.num
    <3>1. PICK r \in Kids(Table, n) : Table[n][r].ino = parent.num
      BY <2>3
    <3>2. PICK x \in Named : x[2] = parent.num /\ Here = x[1]
      BY <1>4
    <3>3. x # NoPath
      <4>1. parent.num # ROOT_INODE
        BY <1>11, <2>3, <3>1 DEF TreeOf, KidsStay
      <4> QED
        BY <3>2, <4>1 DEF NoPath
    <3>4. PICK y \in Named : \E e \in Lists[y[2]] : e.name \in Tokens /\ x = Further(y, e)
      BY <1>4, <3>2, <3>3 DEF Leads
    <3>5. PICK e \in Lists[y[2]] : e.name \in Tokens /\ x = Further(y, e)
      BY <3>4
    <3>6. y[2] \in L /\ y[1] \in Seq(Tokens)
      BY <1>4, <3>4 DEF Leads
    <3>7. e \in TableEntries(Table, Dirs, y[2])
      BY <1>4, <3>5, <3>6
    <3>8. x[1] = Append(y[1], e.name) /\ x[2] = e.ino /\ x[1] # <<>> /\ e.name \in Tokens
      BY <3>5, <3>6, PathFurther
    <3>9. y[2] = n
      <4>1. PICK s \in Kids(Table, y[2]) : e = Table[y[2]][s]
        BY <3>7 DEF TableEntries
      <4>2. y[2] \in L \cap Dirs
        BY <3>6, <3>7 DEF TableEntries
      <4>3. Table[y[2]][s].ino = Table[n][r].ino
        BY <3>1, <3>2, <3>8, <4>1
      <4> QED
        BY <1>11, <2>3, <4>2, <4>3 DEF TreeOf, KidsOnce
    <3>10. Reached' /\ Here' = y[1]
      BY <1>1, <1>6, <3>9, HereMoves DEF SameTree
    <3>11. Tree!Front(Here) = y[1]
      <4>1. PICK s \in Seq(Tokens), a \in Tokens : s = y[1] /\ a = e.name
        BY <3>6, <3>8
      <4>2. Here = Append(s, a)
        BY <3>2, <3>8, <4>1
      <4>3. Tree!Front(Append(s, a)) = s
        BY FrontOf
      <4> QED
        BY <4>1, <4>2, <4>3
    <3>12. y[1] \in DOMAIN TreeOnDisk
      BY NamedIs
    <3>13. tool' = tool /\ base' = base /\ fsz' = fsz
      BY <1>3 DEF args
    <3>14. Here # <<>>
      BY <3>2, <3>8
    <3>15. Tree!Walk
      BY <1>1, <1>3, <3>10, <3>11, <3>12, <3>13, <3>14 DEF Tree!Walk, Tree!Root, SameTree
    <3> QED
      BY <3>10, <3>15 DEF Simulates, Tree!TreeNext
  <2> QED
    BY <2>1, <2>2, <2>3 DEF LeadsUp
<1> QED
  BY <1>13, <1>14, <1>15 DEF Dots

\* A component that is not there, or that lies below a file; or dots that a killed
\* mkdir has not written.
LEMMA WalkFailsMaps ==
  ASSUME OneKill, Known, Known', Reached, WalkFails
  PROVE  Simulates
<1>1. SameTree
  BY QuietStep DEF Walks
<1>2. PICK L \in SUBSET Inodes : LiveInv(L)
  BY DEF Known, Ready, LiveTree
<1>3. /\ pc = "walk" /\ kills' = kills /\ pc # "idle" /\ error_handler(core) /\ Phase = "walking"
  BY PhaseIs DEF WalkFails, faults
<1>4. core \in [Inodes2 -> inode] /\ base \in Names /\ Before(L) /\ parent.num \in Inodes
  BY <1>2, <1>3, LookingTree
<1>5. parent'.num = parent.num /\ UNCHANGED args /\ Phase' = "refused"
  <2>1. core["parent"] = parent
    BY DEF parent
  <2> QED
    BY <1>3, <1>4, <2>1, HandlerMaps
<1>6. PICK token \in Names \cup Dots, r \in {0, ENOTDIR} : search_dir(parent, token, r)
  BY DEF WalkFails, parent
<1>7. kills > 0 \/ \E n \in Names : Append(Here, n) \notin DOMAIN TreeOnDisk
  <2>1. CASE token \in Names
    BY <1>3, <1>6, <2>1, MissedName
  <2>2. CASE parent.mode # "dir"
    BY <1>3, <1>4, <1>6, <2>2, MissedName
  <2>3. CASE token \in Dots /\ parent.mode = "dir" /\ r = ENOTDIR
    <3>1. FALSE
      <4>1. r # 0 /\ r \notin 0 .. NInodes - 1
        BY <2>3, GeometryAssumption DEF ENOTDIR
      <4>2. PICK p \in Hits(parent, token) : r = EntryAt(parent, p).ino
        BY <1>6, <2>3, <4>1 DEF search_dir
      <4>3. p \in Positions /\ parent.addr[p[1]] # 0
        BY <4>2 DEF Hits, Searched, Positions, Logical
      <4>4. DiskTypeOK /\ parent.addr = dinode[parent.num].addr
        BY <1>3, <1>4, BeforeParts, WalkingTool
      <4>5. Table[parent.num][p] \in dirent /\ Table[parent.num][p] = EntryAt(dinode[parent.num], p)
        BY <1>4, <4>3, <4>4, EntryTypesInTable
      <4>6. EntryAt(parent, p) \in dirent
        BY <4>4, <4>5 DEF EntryAt
      <4> QED
        BY <4>1, <4>2, <4>6 DEF dirent
    <3> QED
      BY <3>1
  <2>4. CASE token \in Dots /\ parent.mode = "dir" /\ r = 0
    <3>1. CASE kills = 0
      <4>1. WholeTree
        BY <3>1 DEF Known, Dotted
      <4>2. PICK K \in SUBSET Inodes : LiveInv(K) /\ ContentsInv(K)
        BY <4>1 DEF WholeTree
      <4>3. Before(K) /\ DiskTypeOK
        BY <4>2 DEF Known, Ready, Before, Inv, TypeOK
      <4>4. /\ parent.num \in K /\ parent.num \in Dirs /\ Dense(dinode[parent.num])
            /\ parent.addr = dinode[parent.num].addr
        BY <1>3, <2>4, <4>3, WalkingTool
      <4>5. HasDots(Table[parent.num], parent.num)
        <5>1. pc \notin Putting
          BY <1>3 DEF Putting
        <5>2. K \subseteq Inodes
          OBVIOUS
        <5> QED
          BY <4>2, <4>4, <5>1, <5>2, LiveWhole
      <4>6. \A q \in Positions : Table[parent.num][q].ino # 0 => Table[parent.num][q].name # token
        BY <1>4, <1>6, <2>4, <4>3, <4>4, SearchMissed
      <4>7. parent.num # 0
        BY <1>4 DEF Inodes
      <4> QED
        BY <2>4, <4>5, <4>6, <4>7, DotPositions DEF HasDots, Dots
    <3>2. CASE kills # 0
      <4>1. kills \in Nat
        <5>1. kills \in 0 .. MaxKills /\ MaxKills \in Nat
          BY <1>4, BeforeParts, FaultAssumption DEF ProcTypeOK
        <5> QED
          BY <5>1
      <4> QED
        BY <3>2, <4>1
    <3> QED
      BY <3>1, <3>2
  <2> QED
    BY <2>1, <2>2, <2>3, <2>4
<1> QED
  BY <1>1, <1>3, <1>5, <1>7, Refuses

\* rm does not find its target.
LEMMA RmMissesMaps ==
  ASSUME OneKill, Known, Known', Reached, RmLookupFails
  PROVE  Simulates
<1>1. SameTree
  BY QuietStep DEF Looked
<1>2. PICK L \in SUBSET Inodes : LiveInv(L)
  BY DEF Known, Ready, LiveTree
<1>3. /\ pc = "lookup" /\ tool = "rm" /\ kills' = kills /\ pc # "idle" /\ error_handler(core)
      /\ Phase = "working"
  BY PhaseIs DEF RmLookupFails, faults
<1>4. core \in [Inodes2 -> inode] /\ base \in Names
  BY <1>2, <1>3, LookingTree
<1>5. parent'.num = parent.num /\ UNCHANGED args /\ Phase' = "refused"
  <2>1. core["parent"] = parent
    BY DEF parent
  <2> QED
    BY <1>3, <1>4, <2>1, HandlerMaps
<1>6. PICK r \in {0, ENOTDIR} : search_dir(parent, base, r)
  BY DEF RmLookupFails, parent
<1>7. ~Removable
  <2>1. Append(Here, base) \notin DOMAIN TreeOnDisk
    BY <1>3, <1>4, <1>6, MissedName
  <2> QED
    BY <2>1 DEF Removable
<1> QED
  BY <1>1, <1>3, <1>5, <1>7, Refuses

\* rm finds a directory with an entry.
LEMMA RmNotEmptyMaps ==
  ASSUME OneKill, Known, Known', Reached, RmNotEmpty
  PROVE  Simulates
<1>1. SameTree
  BY QuietStep DEF Looked
<1>2. PICK L \in SUBSET Inodes : LiveInv(L)
  BY DEF Known, Ready, LiveTree
<1>3. PICK n \in Inodes :
        /\ Target(n) /\ dinode[n].mode = "dir" /\ Occupants(get_inode(n), Logical) # {}
        /\ error_handler([core EXCEPT !["target"] = get_inode(n)])
  BY DEF RmNotEmpty
<1>4. /\ pc = "lookup" /\ tool = "rm" /\ kills' = kills /\ pc # "idle" /\ Phase = "working"
  BY <1>3, PhaseIs DEF RmNotEmpty, Target, faults
<1>5. /\ core \in [Inodes2 -> inode] /\ base \in Names /\ Before(L) /\ DiskTypeOK
      /\ Leads(Named, Lists, L) /\ \A d \in L : Lists[d] = TableEntries(Table, Dirs, d)
      /\ DOMAIN TreeOnDisk = {x[1] : x \in Named}
  BY <1>2, <1>4, LookingTree
<1>6. /\ parent.num \in L \cap Dirs /\ n \in L
      /\ \E q \in Kids(Table, parent.num) : Table[parent.num][q] = [ino |-> n, name |-> base]
  BY <1>3, <1>5, TargetLive
<1>7. parent'.num = parent.num /\ UNCHANGED args /\ Phase' = "refused"
  <2>1. get_inode(n) \in inode
    BY <1>5, <1>6, LiveInode
  <2>2. PICK c : c = [core EXCEPT !["target"] = get_inode(n)]
    OBVIOUS
  <2>3. c \in [Inodes2 -> inode] /\ c["parent"] = parent
    BY <1>5, <2>1, <2>2 DEF Inodes2, parent
  <2>4. error_handler(c)
    BY <1>3, <2>2
  <2> QED
    BY <1>5, <2>3, <2>4, HandlerMaps
<1>8. PICK q \in Kids(Table, parent.num) : Table[parent.num][q] = [ino |-> n, name |-> base]
  BY <1>6
<1>9. PICK y \in Named : y[1] = Append(Here, base) /\ y[2] = n
  <2>1. q \in Positions
    BY DEF Kids
  <2> QED
    BY <1>2, <1>4, <1>5, <1>6, <1>8, <2>1, StepOn
<1>10. PICK f : f \in Lists[n]
  <2>1. PICK p \in Positions : /\ get_inode(n).addr[p[1]] # 0 /\ EntryAt(get_inode(n), p).ino # 0
                               /\ EntryAt(get_inode(n), p).name \notin Dots
    BY <1>3 DEF Occupants, Mapped
  <2>2. dinode[n].addr[p[1]] # 0
    BY <2>1 DEF get_inode, InCore
  <2>3. Table[n][p] = EntryAt(get_inode(n), p)
    BY <1>5, <2>2, EntryTypesInTable
  <2>4. p \in Kids(Table, n) /\ n \in Dirs
    BY <1>3, <2>1, <2>3 DEF Kids, Dirs
  <2>5. Table[n][p] \in TableEntries(Table, Dirs, n)
    BY <2>4 DEF TableEntries
  <2> QED
    BY <1>5, <1>6, <2>5
<1>11. PICK z \in Named : Tree!IsStrictPrefix(y[1], z[1])
  <2>1. f \in Lists[y[2]]
    BY <1>9, <1>10
  <2> QED
    BY <1>5, <2>1, PathGoesOn
<1>12. ~Removable
  <2>1. z[1] \in DOMAIN TreeOnDisk
    BY <1>5
  <2> QED
    BY <1>9, <1>11, <2>1 DEF Removable
<1> QED
  BY <1>1, <1>4, <1>7, <1>12, Refuses

-----------------------------------------------------------------------------
(* The writes of an entry.                                                 *)

\* Where the tool stands after a step.
LEMMA HereAt ==
  ASSUME NEW R \in SUBSET Inodes, Leads(Named', Lists', R), NEW x \in Named', parent'.num = x[2]
  PROVE  Reached' /\ Here' = x[1]
<1>1. PathTo(Named', x[2]) = x[1]
  BY PathFound
<1>2. x[2] \in R
  BY DEF Leads
<1>3. x[2] # 0
  BY <1>2 DEF Inodes
<1>4. core'["parent"].num = x[2]
  BY DEF parent
<1> QED
  BY <1>1, <1>3, <1>4 DEF Reached, Here

\* Before put_inode: what is listed and shown, and the directory the tool stands in.
LEMMA WorkingTree ==
  ASSUME Known, Reached, pc \in {"entry", "ewrite", "detach"}, NEW L \in SUBSET Inodes, LiveInv(L),
         parent.num \in L \cap Dirs
  PROVE  /\ Leads(Named, Lists, L) /\ \A d \in L : Lists[d] = TableEntries(Table, Dirs, d)
         /\ \A d \in Inodes : Looks[d] = InTree(dinode[d])
         /\ TreeOnDisk = Shape(Named, Looks) /\ status = EXIT_SUCCESS /\ base \in Tokens
         /\ \E x \in Named : /\ x[2] = parent.num /\ Here = x[1]
                             /\ x[1] \in DOMAIN TreeOnDisk /\ TreeOnDisk[x[1]].kind = "dir"
<1>1. DirtyLast /\ pc \notin Putting /\ pc # "idle"
  BY DEF Known, Ready, Putting
<1>2. Cleared /\ status = EXIT_SUCCESS
  BY <1>1 DEF DirtyLast, Cleared
<1>3. Told(L) /\ LiveTool(L)
  BY DEF Known, LiveInv
<1>4. base \in Tokens
  BY <1>1, <1>3 DEF LiveTool, Tokens
<1>5. /\ Leads(Named, Lists, L) /\ \A d \in L : Lists[d] = TableEntries(Table, Dirs, d)
      /\ \A d \in Inodes : Looks[d] = InTree(dinode[d])
      /\ TreeOnDisk = Shape(Named, Looks)
  BY <1>2, <1>3, ClearedTree
<1>6. PICK x \in Named : x[2] = parent.num
  BY <1>1, HereIs
<1>7. Here = x[1]
  BY <1>1, <1>6, HereIs
<1>8. x[1] \in DOMAIN TreeOnDisk /\ TreeOnDisk[x[1]] = Looks[x[2]]
  <2>1. Depicts(Shape(Named, Looks), Named, Looks)
    BY <1>5, ShapeAt
  <2> QED
    BY <1>5, <2>1 DEF Depicts
<1>9. Looks[x[2]].kind = "dir"
  <2>1. dinode[parent.num].mode = "dir" /\ parent.num \in Inodes
    BY DEF Dirs
  <2>2. Looks[x[2]] = InTree(dinode[parent.num])
    BY <1>5, <1>6, <2>1
  <2>3. InTree(dinode[parent.num]).kind = "dir"
    BY <2>1 DEF InTree
  <2> QED
    BY <2>2, <2>3
<1> QED
  BY <1>2, <1>4, <1>5, <1>6, <1>7, <1>8, <1>9

\* What mkdir and cp bring.
Brought == IF tool = "mkdir" THEN Tree!Dir ELSE Tree!File(Tree!HostFile(fsz))

\* The target shows that, once its entry is there.
LEMMA TargetLooks ==
  ASSUME NEW L, Before(L), Copying, pc \in {"entry", "ewrite"}, NEW size, core' = Linked(size),
         chunk' = chunk, NEW n \in Inodes, n = target.num
  PROVE  InTree(InView(n))' = Brought
<1>1. LiveTool(L) /\ core \in [Inodes2 -> inode] /\ ProcTypeOK
  BY BeforeParts
<1>2. /\ TargetStarted(L) /\ tool \in Creators
      /\ tool = "cp" => target.size = fsz /\ Chunks(target, fsz)
  BY <1>1 DEF LiveTool, Started, Creating, CreatesIn, Copying, Adding
<1>3. /\ target'.num = target.num /\ target'.addr = target.addr /\ target'.mode = target.mode
      /\ target'.dirty = DIRTY /\ target'.size = target.size
  BY <1>1, LinkedFields, LinkedSizes
<1>4. target.mode = IF tool = "mkdir" THEN "dir" ELSE "reg"
  BY <1>2 DEF TargetStarted
<1>5. InView(n)' = OnDisk(target')
  BY <1>3 DEF InView
<1>6. /\ OnDisk(target').mode = target.mode /\ OnDisk(target').size = target.size
      /\ OnDisk(target').addr = target.addr
  BY <1>3 DEF OnDisk
<1>7. CASE tool = "mkdir"
  <2>1. InTree(InView(n))' = [kind |-> "dir", data |-> <<>>]
    BY <1>4, <1>5, <1>6, <1>7 DEF InTree
  <2> QED
    BY <1>7, <2>1 DEF Brought, Tree!Dir
<1>8. CASE tool = "cp"
  <2>1. InTree(InView(n))' =
          [kind |-> "reg",
           data |-> [j \in 1 .. fsz |-> IF target.addr[j - 1] = 0 THEN 0 ELSE chunk[target.addr[j - 1]]]]
    BY <1>2, <1>4, <1>5, <1>6, <1>8 DEF InTree
  <2>2. ASSUME NEW j \in 1 .. fsz
        PROVE  (IF target.addr[j - 1] = 0 THEN 0 ELSE chunk[target.addr[j - 1]]) = j
    <3>1. fsz \in 0 .. NDIRECT
      BY <1>1 DEF ProcTypeOK
    <3>2. j - 1 \in Logical /\ j - 1 < fsz /\ (j - 1) + 1 = j
      BY <3>1, GeometryAssumption DEF Logical
    <3>3. target.addr[j - 1] # 0 /\ chunk[target.addr[j - 1]] = (j - 1) + 1
      BY <1>2, <1>8, <3>2 DEF Chunks
    <3> QED
      BY <3>2, <3>3
  <2>3. [j \in 1 .. fsz |-> IF target.addr[j - 1] = 0 THEN 0 ELSE chunk[target.addr[j - 1]]]
          = [j \in 1 .. fsz |-> j]
    BY <2>2
  <2> QED
    BY <1>8, <2>1, <2>3 DEF Brought, Tree!File, Tree!HostFile
<1> QED
  BY <1>2, <1>7, <1>8 DEF Creators

\* A new entry, on the disk or to come with the parent, makes the tree that mkdir or
\* cp was asked for.
LEMMA EntryMaps ==
  ASSUME Known, Known', Reached, NEW L \in SUBSET Inodes, LiveInv(L),
         pc \in {"entry", "ewrite"}, pc' = "put", parent.num \in L \cap Dirs,
         NEW size, core' = Linked(size), UNCHANGED <<args, status, faults>>,
         dinode' = dinode, chunk' = chunk,
         NEW n, n = target.num, Leads(Named', Lists', L \cup {n}), Lists'[n] = {},
         Lists'[parent.num] = Lists[parent.num] \cup {[ino |-> n, name |-> base]},
         \A f \in Lists[parent.num] : f.name # base,
         \A d \in L : d # parent.num => Lists'[d] = Lists[d]
  PROVE  Simulates
<1>1. Before(L) /\ Copying /\ DirtyLast
  BY DEF Known, Ready, Before, Announced
<1>2. LiveTool(L) /\ core \in [Inodes2 -> inode]
  BY <1>1, BeforeParts
<1>3. TargetStarted(L) /\ tool \in Creators
  BY <1>2 DEF LiveTool, Started, Creating, CreatesIn
<1>4. n \in Inodes \ L
  BY <1>3 DEF TargetStarted, TargetOnDisk
<1>5. /\ Leads(Named, Lists, L) /\ \A d \in Inodes : Looks[d] = InTree(dinode[d])
      /\ TreeOnDisk = Shape(Named, Looks) /\ status = EXIT_SUCCESS /\ base \in Tokens
      /\ \E x \in Named : /\ x[2] = parent.num /\ Here = x[1]
                          /\ x[1] \in DOMAIN TreeOnDisk /\ TreeOnDisk[x[1]].kind = "dir"
  BY WorkingTree
<1>6. PICK x \in Named : /\ x[2] = parent.num /\ Here = x[1]
                         /\ x[1] \in DOMAIN TreeOnDisk /\ TreeOnDisk[x[1]].kind = "dir"
  BY <1>5
<1>7. /\ parent'.num = parent.num /\ target'.num = n
      /\ tool' = tool /\ base' = base /\ fsz' = fsz /\ status' = status /\ kills' = kills
  BY <1>2, LinkedFields DEF args, faults
<1>8. PICK M \in SUBSET Inodes : LiveInv(M)'
  BY DEF Known, Ready, LiveTree
<1>9. Told(M)'
  BY <1>8 DEF Known
<1>10. /\ \A d \in Inodes : Looks'[d] = InTree(InView(d))'
       /\ TreeOnDisk' = Shape(Named', Looks')
  BY <1>9 DEF Told
<1>11. Looks'[n] = Brought
  <2>1. InTree(InView(n))' = Brought
    BY <1>1, <1>4, TargetLooks
  <2> QED
    BY <1>4, <1>10, <2>1
<1>12. ASSUME NEW d \in L PROVE Looks'[d] = Looks[d]
  <2>1. d # n /\ d \in Inodes
    BY <1>4
  <2>2. InView(d)' = dinode[d]
    BY <1>7, <2>1 DEF InView
  <2>3. InTree(InView(d))' = InTree(dinode[d])
    BY <2>2 DEF InTree
  <2> QED
    BY <1>5, <1>10, <2>1, <2>3
<1>13. PICK e : e = [ino |-> n, name |-> base]
  OBVIOUS
<1>14. e.ino = n /\ e.name = base
  BY <1>13
<1>15. /\ e.ino \notin L /\ e.name \in Tokens /\ Leads(Named', Lists', L \cup {e.ino})
       /\ \A f \in Lists[x[2]] : f.name # e.name
       /\ Lists'[x[2]] = Lists[x[2]] \cup {e} /\ Lists'[e.ino] = {}
       /\ \A d \in L : Looks'[d] = Looks[d] /\ (d # x[2] => Lists'[d] = Lists[d])
  BY <1>4, <1>5, <1>6, <1>12, <1>13, <1>14
<1>16. /\ Named \subseteq Named'
       /\ Append(x[1], e.name) \notin DOMAIN Shape(Named, Looks)
       /\ Shape(Named', Looks') = Grafted(Shape(Named, Looks), Append(x[1], e.name), Looks'[e.ino])
  <2>1. PICK N, lists, looks : N = Named /\ lists = Lists /\ looks = Looks
    OBVIOUS
  <2>2. PICK N2, lists2, looks2 : N2 = Named' /\ lists2 = Lists' /\ looks2 = Looks'
    OBVIOUS
  <2>3. Leads(N, lists, L) /\ x \in N
    BY <1>5, <2>1
  <2>4. e.ino \notin L /\ e.name \in Tokens /\ Leads(N2, lists2, L \cup {e.ino})
    BY <1>15, <2>2
  <2>5. \A f \in lists[x[2]] : f.name # e.name
    BY <1>15, <2>1
  <2>6. lists2[x[2]] = lists[x[2]] \cup {e} /\ lists2[e.ino] = {}
    BY <1>15, <2>1, <2>2
  <2>7. \A n2 \in L : looks2[n2] = looks[n2] /\ (n2 # x[2] => lists2[n2] = lists[n2])
    BY <1>15, <2>1, <2>2
  <2>8. /\ N \subseteq N2
        /\ Append(x[1], e.name) \notin DOMAIN Shape(N, looks)
        /\ Shape(N2, looks2) = Grafted(Shape(N, looks), Append(x[1], e.name), looks2[e.ino])
    BY ONLY <2>3, <2>4, <2>5, <2>6, <2>7, TreeGets
  <2> QED
    BY <2>1, <2>2, <2>8
<1>17. /\ Append(Here, base) \notin DOMAIN TreeOnDisk
       /\ TreeOnDisk' = Grafted(TreeOnDisk, Append(Here, base), Brought)
  <2>1. Append(x[1], e.name) = Append(Here, base) /\ Looks'[e.ino] = Brought
    BY <1>6, <1>11, <1>14
  <2>2. TreeOnDisk = Shape(Named, Looks) /\ TreeOnDisk' = Shape(Named', Looks')
    BY <1>5, <1>10
  <2>3. DOMAIN TreeOnDisk = DOMAIN Shape(Named, Looks)
    BY <2>2
  <2> QED
    BY <1>16, <2>1, <2>2, <2>3
<1>18. Reached' /\ Here' = Here
  <2>1. L \cup {n} \in SUBSET Inodes /\ x \in Named'
    BY <1>4, <1>16
  <2> QED
    BY <1>6, <1>7, <2>1, HereAt
<1>19. Phase = "working" /\ Phase' = "done"
  BY <1>5, <1>7, PhaseIs DEF Putting
<1>20. CASE tool = "mkdir"
  <2>1. Brought = Tree!Dir
    BY <1>20 DEF Brought
  <2>2. Tree!With(Tree!Dir) = Grafted(TreeOnDisk, Append(Here, base), Tree!Dir)
    BY DEF Tree!With, Grafted, Tree!Target
  <2>3. Tree!Perform("mkdir", Tree!With(Tree!Dir))
    BY <1>6, <1>7, <1>17, <1>18, <1>19, <1>20, <2>1, <2>2 DEF Tree!Perform, Tree!IsDir
  <2>4. Tree!Mkdir
    BY <1>17, <2>3 DEF Tree!Mkdir, Tree!Target
  <2> QED
    BY <1>18, <2>4 DEF Simulates, Tree!TreeNext
<1>21. CASE tool = "cp"
  <2>1. Brought = Tree!File(Tree!HostFile(fsz))
    BY <1>21 DEF Brought
  <2>2. Tree!With(Tree!File(Tree!HostFile(fsz)))
          = Grafted(TreeOnDisk, Append(Here, base), Tree!File(Tree!HostFile(fsz)))
    BY DEF Tree!With, Grafted, Tree!Target
  <2>3. Tree!Perform("cp", Tree!With(Tree!File(Tree!HostFile(fsz))))
    BY <1>6, <1>7, <1>17, <1>18, <1>19, <1>21, <2>1, <2>2 DEF Tree!Perform, Tree!IsDir
  <2>4. Tree!Copy
    BY <1>17, <2>3 DEF Tree!Copy, Tree!Target
  <2> QED
    BY <1>18, <2>4 DEF Simulates, Tree!TreeNext
<1> QED
  BY <1>3, <1>20, <1>21 DEF Creators

\* The entry in a block that the parent has.
LEMMA SlotMaps ==
  ASSUME OneKill, Known, Known', Reached, AddEntryInSlot
  PROVE  Simulates
<1>1. PICK L \in SUBSET Inodes : LiveInv(L)
  BY DEF Known, Ready, LiveTree
<1>2. Before(L) /\ MaxKills <= 1
  BY <1>1 DEF Known, Ready, Before, OneKill
<1>3. PICK n \in Inodes, P \in Inodes, p \in Positions :
        /\ n = target.num /\ P = parent.num /\ LiveInv(L \cup {n})'
        /\ Adds(L, Table, Dirs, Table', Dirs', n, P, p, base)
  BY <1>2, LiveAddSlot
<1>4. PICK size : core' = Linked(size)
  BY DEF AddEntryInSlot
<1>5. /\ pc = "entry" /\ pc' = "put" /\ UNCHANGED <<args, status, faults>> /\ who' = who
      /\ dinode' = dinode /\ chunk' = chunk
  BY DEF AddEntryInSlot, WriteDirent
<1>6. /\ core \in [Inodes2 -> inode] /\ who = "target"
  BY <1>2, <1>5, BeforeParts, AddingTool
<1>7. parent.num \in L \cap Dirs
  BY <1>3 DEF Adds
<1>8. /\ Leads(Named, Lists, L) /\ \A d \in L : Lists[d] = TableEntries(Table, Dirs, d)
  BY <1>1, <1>5, <1>7, WorkingTree
<1>9. PICK K : K = L \cup {n}
  OBVIOUS
<1>10. K \in SUBSET Inodes /\ LiveInv(K)'
  BY <1>3, <1>9
<1>11. Told(K)'
  BY <1>10 DEF Known
<1>12. ASSUME NEW m \in Inodes PROVE ~Coming(K, m)'
  <2>1. target'.num = n /\ who' = "target"
    BY <1>3, <1>4, <1>5, <1>6, LinkedFields
  <2> QED
    BY <1>9, <2>1 DEF Coming
<1>13. Leads(Named', Lists', K) /\ \A d \in K : Lists'[d] = TableEntries(Table', Dirs', d)
  BY <1>11, <1>12 DEF Told
<1>14. /\ \A d \in L : d # P => TableEntries(Table', Dirs', d) = TableEntries(Table, Dirs, d)
       /\ TableEntries(Table', Dirs', P) = TableEntries(Table, Dirs, P) \cup {[ino |-> n, name |-> base]}
       /\ TableEntries(Table', Dirs', n) = {}
       /\ \A f \in TableEntries(Table, Dirs, P) : f.name # base
  BY <1>3, EntriesMore
<1>15. Lists'[n] = {}
  BY <1>9, <1>13, <1>14
<1>16. /\ Lists'[parent.num] = Lists[parent.num] \cup {[ino |-> n, name |-> base]}
       /\ \A f \in Lists[parent.num] : f.name # base
  <2>1. Lists'[P] = TableEntries(Table', Dirs', P) /\ Lists[P] = TableEntries(Table, Dirs, P)
    BY <1>3, <1>7, <1>8, <1>9, <1>13
  <2> QED
    BY <1>3, <1>14, <2>1
<1>17. \A d \in L : d # parent.num => Lists'[d] = Lists[d]
  BY <1>3, <1>8, <1>9, <1>13, <1>14
<1>18. Leads(Named', Lists', L \cup {n})
  BY <1>9, <1>13
<1> QED
  BY <1>1, <1>3, <1>4, <1>5, <1>7, <1>15, <1>16, <1>17, <1>18, EntryMaps

\* The entry in a new block, which put_inode will show.
LEMMA NewBlockMaps ==
  ASSUME OneKill, Known, Known', Reached, AddEntryInNewBlock
  PROVE  Simulates
<1>1. PICK L \in SUBSET Inodes : LiveInv(L)
  BY DEF Known, Ready, LiveTree
<1>2. Before(L) /\ MaxKills <= 1
  BY <1>1 DEF Known, Ready, Before, OneKill
<1>3. LiveInv(L)' /\ Grown(L, target.num, target)'
  BY <1>2, LiveAddLast
<1>4. PICK size : core' = Linked(size)
  BY DEF AddEntryInNewBlock
<1>5. /\ pc = "ewrite" /\ pc' = "put" /\ UNCHANGED <<args, status, faults>> /\ who' = who /\ base' = base
      /\ dinode' = dinode /\ chunk' = chunk
  BY DEF AddEntryInNewBlock, WriteDirent, args
<1>6. /\ core \in [Inodes2 -> inode] /\ LiveTool(L)
  BY <1>2, BeforeParts
<1>7. /\ who = "target" /\ parent.num \in L \cap Dirs /\ target.num \in Inodes \ L
  BY <1>5, <1>6 DEF LiveTool, Putting, Creating, CreatesIn, Started, TargetStarted, TargetOnDisk
<1>8. PICK n \in Inodes : n = target.num
  BY <1>7
<1>9. target'.num = n /\ target'.dirty = DIRTY /\ parent'.num = parent.num
  BY <1>4, <1>6, <1>8, LinkedFields
<1>10. Coming(L, n)'
  <2>1. Grown(L, n, target)'
    BY <1>3, <1>9
  <2> QED
    BY <1>5, <1>7, <1>8, <1>9, <2>1 DEF Coming, Putting
<1>11. Told(L)'
  BY <1>3 DEF Known
<1>12. /\ Leads(Named', Lists', L \cup {n}) /\ Lists'[n] = {}
       /\ \A d \in L : Lists'[d] = ListedWith(n, d)' /\ NameFree'
  BY <1>10, <1>11, <1>7 DEF Told
<1>13. /\ \A d \in L, q \in Positions : Table'[d][q] = Table[d][q]
       /\ \A d \in L : d \in Dirs' <=> d \in Dirs
  <2>1. Unharmed(L)
    BY <1>2, WritesElsewhere
  <2> QED
    BY <2>1, UnharmedView
<1>14. \A d \in L : TableEntries(Table', Dirs', d) = TableEntries(Table, Dirs, d)
  BY <1>13, EntriesSame
<1>15. /\ Leads(Named, Lists, L) /\ \A d \in L : Lists[d] = TableEntries(Table, Dirs, d)
  BY <1>1, <1>5, <1>7, WorkingTree
<1>16. \A d \in L : Lists'[d] = IF d = parent.num THEN Lists[d] \cup {[ino |-> n, name |-> base]}
                                ELSE Lists[d]
  BY <1>5, <1>9, <1>12, <1>14, <1>15 DEF ListedWith
<1>17. \A f \in Lists[parent.num] : f.name # base
  <2>1. \A q \in Positions : Table[parent.num][q].ino # 0 => Table[parent.num][q].name # base
    BY <1>5, <1>7, <1>9, <1>12, <1>13 DEF NameFree
  <2>2. Lists[parent.num] = {Table[parent.num][q] : q \in Kids(Table, parent.num)}
    BY <1>7, <1>15 DEF TableEntries
  <2> QED
    BY <2>1, <2>2 DEF Kids
<1>18. /\ Lists'[parent.num] = Lists[parent.num] \cup {[ino |-> n, name |-> base]}
       /\ \A d \in L : d # parent.num => Lists'[d] = Lists[d]
  BY <1>7, <1>16
<1> QED
  BY <1>1, <1>4, <1>5, <1>7, <1>8, <1>12, <1>17, <1>18, EntryMaps

\* detach_entry takes the target out of the tree.
LEMMA DetachMaps ==
  ASSUME OneKill, Known, Known', Reached, detach_entry
  PROVE  Simulates
<1>1. PICK L \in SUBSET Inodes : LiveInv(L)
  BY DEF Known, Ready, LiveTree
<1>2. Before(L) /\ ParentOld'
  BY <1>1 DEF Known, Ready, Before, Announced
<1>3. PICK n \in Inodes, P \in Inodes, p \in Positions :
        /\ n = target.num /\ P = parent.num /\ LiveInv(L \ {n})'
        /\ Removes(L, Table, Dirs, Table', Dirs', n, P, p)
  BY <1>2, LiveDetach
<1>4. /\ pc = "detach" /\ pc' = "put" /\ UNCHANGED <<args, status, faults>>
      /\ dinode' = dinode /\ chunk' = chunk
      /\ core' = [core EXCEPT !["target"].dirty = DIRTY, !["parent"].dirty = DIRTY]
  BY DEF detach_entry, WriteDirent
<1>5. core \in [Inodes2 -> inode] /\ LiveTool(L) /\ LiveDisk(L)
  BY <1>2, BeforeParts
<1>6. Detaching(L)
  BY <1>4, <1>5 DEF LiveTool
<1>7. parent'.num = parent.num /\ target'.num = n
  <2>1. /\ core'["parent"] = [core["parent"] EXCEPT !.dirty = DIRTY]
        /\ core'["target"] = [core["target"] EXCEPT !.dirty = DIRTY]
    BY <1>4, <1>5 DEF Inodes2
  <2> QED
    BY <1>3, <1>5, <2>1 DEF parent, target, inode, Inodes2
<1>8. parent.num \in L \cap Dirs /\ tool = "rm"
  BY <1>6 DEF Detaching
<1>9. tool' = tool /\ base' = base /\ fsz' = fsz /\ status' = status /\ kills' = kills
  BY <1>4 DEF args, faults
<1>10. /\ Leads(Named, Lists, L) /\ \A d \in L : Lists[d] = TableEntries(Table, Dirs, d)
       /\ \A d \in Inodes : Looks[d] = InTree(dinode[d])
       /\ TreeOnDisk = Shape(Named, Looks) /\ status = EXIT_SUCCESS /\ base \in Tokens
       /\ \E x \in Named : /\ x[2] = parent.num /\ Here = x[1]
                           /\ x[1] \in DOMAIN TreeOnDisk /\ TreeOnDisk[x[1]].kind = "dir"
  BY <1>1, <1>4, <1>8, WorkingTree
<1>11. PICK x \in Named : /\ x[2] = parent.num /\ Here = x[1]
                          /\ x[1] \in DOMAIN TreeOnDisk /\ TreeOnDisk[x[1]].kind = "dir"
  BY <1>10
<1>12. PICK K : K = L \ {n}
  OBVIOUS
<1>13. K \in SUBSET Inodes /\ LiveInv(K)'
  BY <1>3, <1>12
<1>14. Told(K)'
  BY <1>13 DEF Known
<1>15. parent'.addr = dinode'[parent'.num].addr
  BY <1>2, <1>4, <1>8, <1>9 DEF ParentOld, Putting, Creators
<1>16. \A m \in Inodes : ~Coming(K, m)'
  BY <1>14, <1>15 DEF Told
<1>17. /\ Leads(Named', Lists', K) /\ \A d \in K : Lists'[d] = TableEntries(Table', Dirs', d)
       /\ \A d \in Inodes : Looks'[d] = InTree(InView(d))'
       /\ TreeOnDisk' = Shape(Named', Looks')
  BY <1>14, <1>16 DEF Told
<1>18. TreeOf(L, Table, Dirs)
  BY <1>5 DEF LiveDisk
<1>19. PICK e : e = Table[P][p]
  OBVIOUS
<1>20. e.ino = n /\ e.name = base /\ P # n
  <2>1. p \in Kids(Table, P) /\ Table[P][p].ino = n /\ P \in L \cap Dirs
    BY <1>3 DEF Removes
  <2>2. PICK q \in Kids(Table, P) : Table[P][q] = [ino |-> n, name |-> base]
    BY <1>3, <1>6 DEF Detaching
  <2>3. Table[P][q].ino = n /\ Table[P][q].name = base
    BY <2>2
  <2>4. p = q
    BY <1>18, <2>1, <2>3 DEF TreeOf, KidsOnce
  <2>5. P # n
    <3>1. Removed(L, Table, Dirs, Table', Dirs', n, P, p)
      BY <1>3, <1>18, TreeRemove
    <3> QED
      BY <3>1 DEF Removed
  <2> QED
    BY <1>19, <2>1, <2>3, <2>4, <2>5
<1>21. /\ \A d \in L : d # P => TableEntries(Table', Dirs', d) = TableEntries(Table, Dirs, d)
       /\ TableEntries(Table', Dirs', P) = TableEntries(Table, Dirs, P) \ {e}
       /\ TableEntries(Table, Dirs, n) = {}
       /\ e \in TableEntries(Table, Dirs, P)
       /\ \A f \in TableEntries(Table, Dirs, P) : f.name = e.name => f = e
  BY <1>3, <1>18, <1>19, EntriesLess
<1>22. n \in L
  BY <1>3 DEF Removes
<1>23. Lists[P] = TableEntries(Table, Dirs, P) /\ Lists[n] = {}
  BY <1>3, <1>8, <1>10, <1>21, <1>22
<1>24. ASSUME NEW d \in L \ {n}
       PROVE  /\ Lists'[d] = IF d = x[2] THEN Lists[d] \ {e} ELSE Lists[d]
              /\ Looks'[d] = Looks[d]
  <2>1. d \in K /\ d \in L /\ d \in Inodes /\ d # n
    BY <1>12
  <2>2. Lists'[d] = TableEntries(Table', Dirs', d) /\ Lists[d] = TableEntries(Table, Dirs, d)
    BY <1>10, <1>17, <2>1
  <2>3. x[2] = P
    BY <1>3, <1>11
  <2>4. InView(d)' = dinode[d]
    BY <1>4, <1>7, <2>1 DEF InView
  <2>5. InTree(InView(d))' = InTree(dinode[d])
    BY <1>4, <2>4 DEF InTree
  <2> QED
    BY <1>10, <1>17, <1>21, <2>1, <2>2, <2>3, <2>5
<1>25. /\ e \in Lists[x[2]] /\ e.name \in Tokens
       /\ \A f \in Lists[x[2]] : f.name = e.name => f = e
       /\ Lists[e.ino] = {} /\ x[2] # e.ino /\ Lists'[x[2]] = Lists[x[2]] \ {e}
       /\ \A d \in L \ {e.ino} : Looks'[d] = Looks[d] /\ (d # x[2] => Lists'[d] = Lists[d])
  BY <1>3, <1>8, <1>10, <1>11, <1>20, <1>21, <1>23, <1>24
<1>26. /\ x \in Named'
       /\ Append(x[1], e.name) \in DOMAIN Shape(Named, Looks)
       /\ \A y \in DOMAIN Shape(Named, Looks) : ~Tree!IsStrictPrefix(Append(x[1], e.name), y)
       /\ Shape(Named', Looks') = Pruned(Shape(Named, Looks), Append(x[1], e.name))
  <2>1. PICK N, lists, looks : N = Named /\ lists = Lists /\ looks = Looks
    OBVIOUS
  <2>2. PICK N2, lists2, looks2 : N2 = Named' /\ lists2 = Lists' /\ looks2 = Looks'
    OBVIOUS
  <2>3. Leads(N, lists, L) /\ x \in N /\ Leads(N2, lists2, K)
    BY <1>10, <1>17, <2>1, <2>2
  <2>4. /\ e \in lists[x[2]] /\ e.name \in Tokens /\ lists[e.ino] = {} /\ x[2] # e.ino
        /\ lists2[x[2]] = lists[x[2]] \ {e}
    BY <1>25, <2>1, <2>2
  <2>5. \A f \in lists[x[2]] : f.name = e.name => f = e
    BY <1>25, <2>1
  <2>6. \A d \in L \ {e.ino} : looks2[d] = looks[d] /\ (d # x[2] => lists2[d] = lists[d])
    BY <1>25, <2>1, <2>2
  <2>7. /\ x \in N2
        /\ Append(x[1], e.name) \in DOMAIN Shape(N, looks)
        /\ \A y \in DOMAIN Shape(N, looks) : ~Tree!IsStrictPrefix(Append(x[1], e.name), y)
        /\ Shape(N2, looks2) = Pruned(Shape(N, looks), Append(x[1], e.name))
    BY ONLY <2>3, <2>4, <2>5, <2>6, TreeLoses
  <2> QED
    BY <2>1, <2>2, <2>7
<1>27. /\ Append(Here, base) \in DOMAIN TreeOnDisk
       /\ \A y \in DOMAIN TreeOnDisk : ~Tree!IsStrictPrefix(Append(Here, base), y)
       /\ TreeOnDisk' = Pruned(TreeOnDisk, Append(Here, base))
  <2>1. Append(x[1], e.name) = Append(Here, base)
    BY <1>11, <1>20
  <2>2. TreeOnDisk = Shape(Named, Looks) /\ TreeOnDisk' = Shape(Named', Looks')
    BY <1>10, <1>17
  <2>3. DOMAIN TreeOnDisk = DOMAIN Shape(Named, Looks)
    BY <2>2
  <2> QED
    BY <1>26, <2>1, <2>2, <2>3
<1>28. Reached' /\ Here' = Here
  BY <1>7, <1>11, <1>13, <1>17, <1>26, HereAt
<1>29. Phase = "working" /\ Phase' = "done"
  BY <1>4, <1>9, <1>10, PhaseIs DEF Putting
<1>30. Tree!Without(Append(Here, base)) = Pruned(TreeOnDisk, Append(Here, base))
  BY DEF Tree!Without, Pruned
<1>31. Tree!Perform("rm", Tree!Without(Append(Here, base)))
  BY <1>8, <1>9, <1>11, <1>27, <1>28, <1>29, <1>30 DEF Tree!Perform, Tree!IsDir
<1>32. Tree!Unlink
  BY <1>27, <1>31 DEF Tree!Unlink, Tree!Target, Tree!IsLeaf
<1> QED
  BY <1>28, <1>32 DEF Simulates, Tree!TreeNext

-----------------------------------------------------------------------------
(* A killed tool: what it had in core is gone, and the disk says it all.   *)

\* No entry comes any more: the live inodes list and show what the disk says.
LEMMA KillLeaves ==
  ASSUME OneKill, Known, Known', Kill, NEW L \in SUBSET Inodes, LiveInv(L)
  PROVE  /\ LiveInv(L)' /\ Steady(L)' /\ Leads(Named', Lists', L)
         /\ \A d \in L : Lists'[d] = TableEntries(Table, Dirs, d)
         /\ \A d \in Inodes : Looks'[d] = InTree(dinode[d]) /\ InTree(InView(d))' = InTree(dinode[d])
         /\ TreeOnDisk' = Shape(Named', Looks')
<1>1. Before(L)
  BY DEF Known, Ready, Before
<1>2. LiveInv(L)'
  BY <1>1, LiveKill
<1>3. Told(L)'
  BY <1>2 DEF Known
<1>4. pc' = "idle" /\ core' = NoInodes /\ UNCHANGED diskVars
  BY DEF Kill, Exit
<1>5. Steady(L)'
  BY <1>4 DEF Steady, Putting
<1>6. Table' = Table /\ Dirs' = Dirs
  BY <1>4 DEF diskVars, Table, Dirs, View
<1>7. target' = NULL
  BY <1>4 DEF target, NoInodes
<1>8. target'.dirty # DIRTY
  BY <1>7, CleanIsNotDirty DEF NULL
<1>9. ASSUME NEW d \in Inodes PROVE InTree(InView(d))' = InTree(dinode[d])
  <2>1. InView(d)' = dinode[d]
    BY <1>4, <1>8 DEF InView, diskVars
  <2> QED
    BY <1>4, <2>1 DEF InTree, diskVars
<1>10. \A d \in L : Lists'[d] = TableEntries(Table', Dirs', d)
  BY <1>3, <1>5 DEF Told
<1>11. \A d \in Inodes : Looks'[d] = InTree(InView(d))'
  BY <1>3 DEF Told
<1>12. Leads(Named', Lists', L) /\ TreeOnDisk' = Shape(Named', Looks')
  BY <1>3, <1>5 DEF Told
<1> QED
  BY <1>2, <1>5, <1>6, <1>9, <1>10, <1>11, <1>12

\* What that makes of the tree.
LEMMA KillMaps ==
  ASSUME Known, Known', Reached, Kill,
         \/ TreeOnDisk' = TreeOnDisk
         \/ Phase = "done" /\ tool \in Creators /\ TreeOnDisk' = Pruned(TreeOnDisk, Append(Here, base))
         \/ /\ Phase = "done" /\ tool = "cp"
            /\ TreeOnDisk' = Grafted(TreeOnDisk, Append(Here, base), Tree!File(<<>>))
  PROVE  Simulates
<1>1. /\ pc # "idle" /\ kills < MaxKills /\ kills' = kills + 1
      /\ pc' = "idle" /\ tool' = "none" /\ base' = "" /\ fsz' = 0 /\ core' = NoInodes
  BY DEF Kill, Exit
<1>2. Here' = <<>>
  <2>1. core'["parent"].num = 0
    BY <1>1 DEF NoInodes, NULL
  <2> QED
    BY <2>1 DEF Here
<1>3. Phase' = "idle" /\ Phase # "idle"
  BY <1>1, PhaseIs DEF Phase
<1>4. /\ Tree!Without(Tree!Target) = Pruned(TreeOnDisk, Append(Here, base))
      /\ Tree!With(Tree!File(<<>>)) = Grafted(TreeOnDisk, Append(Here, base), Tree!File(<<>>))
  BY DEF Tree!With, Tree!Without, Grafted, Pruned, Tree!Target
<1>5. Tree!Crash
  BY <1>1, <1>2, <1>3, <1>4 DEF Tree!Crash, Tree!Idle, Tree!NoRequest, Tree!Root, Creators
<1> QED
  BY <1>1, <1>5 DEF Simulates, Reached, Tree!TreeNext

\* The new entry was to come with the parent: it is lost.
LEMMA KillLoses ==
  ASSUME OneKill, Known, Known', Reached, Kill, NEW L \in SUBSET Inodes, LiveInv(L),
         NEW m \in Inodes, Coming(L, m)
  PROVE  Simulates
<1>1. Before(L) /\ DirtyLast /\ ParentOld /\ Told(L)
  BY DEF Known, Ready, Before, Announced
<1>2. /\ pc \in Putting /\ m \in Inodes \ L
      /\ (who = "target" /\ m = target.num) \/ who = "parent"
  BY DEF Coming
<1>3. /\ Leads(Named, Lists, L \cup {m}) /\ Lists[m] = {}
      /\ \A d \in L : Lists[d] = ListedWith(m, d)
      /\ parent.num \in L /\ parent.dirty = DIRTY /\ NameFree
      /\ parent.addr # dinode[parent.num].addr
      /\ \A d \in Inodes : Looks[d] = InTree(InView(d))
      /\ TreeOnDisk = Shape(Named, Looks)
  BY <1>1 DEF Told
<1>4. tool \in Creators
  BY <1>1, <1>2, <1>3 DEF ParentOld
<1>5. status = EXIT_SUCCESS
  <2>1. status \in {EXIT_SUCCESS, EXIT_FAILURE}
    BY <1>1, BeforeParts DEF ProcTypeOK
  <2>2. target.dirty = DIRTY \/ parent.dirty = DIRTY
    BY <1>1, <1>3
  <2> QED
    BY <1>1, <2>1, <2>2, CleanIsNotDirty DEF DirtyLast
<1>6. Phase = "done" /\ pc # "idle"
  BY <1>2, <1>5, PhaseIs DEF Putting
<1>7. PICK x \in Named : x[2] = parent.num /\ Here = x[1]
  BY <1>6, HereIs
<1>8. /\ Leads(Named', Lists', L) /\ TreeOnDisk' = Shape(Named', Looks')
      /\ \A d \in L : Lists'[d] = TableEntries(Table, Dirs, d)
      /\ \A d \in Inodes : Looks'[d] = InTree(dinode[d])
  BY KillLeaves
<1>9. base \in Tokens /\ (who = "parent" => target = NULL)
  BY <1>1, <1>2, PuttingTool DEF Tokens
<1>10. ASSUME NEW d \in L PROVE Looks'[d] = Looks[d]
  <2>1. d \in Inodes /\ d # m /\ d # 0
    BY <1>2 DEF Inodes
  <2>2. target.num # d
    BY <1>2, <1>9, <2>1 DEF NULL
  <2>3. InView(d) = dinode[d]
    BY <2>2 DEF InView
  <2> QED
    BY <1>3, <1>8, <2>1, <2>3
<1>11. PICK e : e = [ino |-> m, name |-> base]
  OBVIOUS
<1>12. e.ino = m /\ e.name = base
  BY <1>11
<1>13. \A f \in TableEntries(Table, Dirs, parent.num) : f.name # base
  BY <1>3 DEF TableEntries, NameFree, Kids
<1>14. Lists[parent.num] = TableEntries(Table, Dirs, parent.num) \cup {e}
  BY <1>3, <1>11 DEF ListedWith
<1>15. \A d \in L : d # parent.num => Lists'[d] = Lists[d]
  BY <1>3, <1>8 DEF ListedWith
<1>16. /\ e \in Lists[x[2]] /\ e.name \in Tokens /\ Lists[e.ino] = {} /\ x[2] # e.ino
       /\ Lists'[x[2]] = Lists[x[2]] \ {e}
       /\ \A f \in Lists[x[2]] : f.name = e.name => f = e
       /\ \A d \in (L \cup {m}) \ {e.ino} : Looks'[d] = Looks[d] /\ (d # x[2] => Lists'[d] = Lists[d])
  <2>1. Lists'[parent.num] = Lists[parent.num] \ {e}
    BY <1>3, <1>8, <1>12, <1>13, <1>14
  <2>2. \A f \in Lists[parent.num] : f.name = e.name => f = e
    BY <1>12, <1>13, <1>14
  <2>3. parent.num # m
    BY <1>2, <1>3
  <2> QED
    BY <1>3, <1>7, <1>9, <1>10, <1>12, <1>14, <1>15, <2>1, <2>2, <2>3
<1>17. Shape(Named', Looks') = Pruned(Shape(Named, Looks), Append(x[1], e.name))
  <2>1. PICK N, lists, looks : N = Named /\ lists = Lists /\ looks = Looks
    OBVIOUS
  <2>2. PICK N2, lists2, looks2 : N2 = Named' /\ lists2 = Lists' /\ looks2 = Looks'
    OBVIOUS
  <2>3. PICK Q : Q = L \cup {m}
    OBVIOUS
  <2>4. Leads(N, lists, Q) /\ x \in N /\ Leads(N2, lists2, L)
    BY <1>3, <1>8, <2>1, <2>2, <2>3
  <2>5. /\ e \in lists[x[2]] /\ e.name \in Tokens /\ lists[e.ino] = {} /\ x[2] # e.ino
        /\ lists2[x[2]] = lists[x[2]] \ {e}
    BY <1>16, <2>1, <2>2
  <2>6. \A f \in lists[x[2]] : f.name = e.name => f = e
    BY <1>16, <2>1
  <2>7. \A d \in Q \ {e.ino} : looks2[d] = looks[d] /\ (d # x[2] => lists2[d] = lists[d])
    BY <1>16, <2>1, <2>2, <2>3
  <2>8. Shape(N2, looks2) = Pruned(Shape(N, looks), Append(x[1], e.name))
    BY ONLY <2>4, <2>5, <2>6, <2>7, TreeLoses
  <2> QED
    BY <2>1, <2>2, <2>8
<1>18. TreeOnDisk' = Pruned(TreeOnDisk, Append(Here, base))
  BY <1>3, <1>7, <1>8, <1>12, <1>17
<1> QED
  BY <1>4, <1>6, <1>18, KillMaps

\* The disk has the entry of the inode that put_inode was to fill.
LEMMA KillEmpties ==
  ASSUME OneKill, Known, Known', Reached, Kill, NEW L \in SUBSET Inodes, LiveInv(L),
         Steady(L), target.dirty = DIRTY, target.num \in L
  PROVE  Simulates
<1>1. Before(L) /\ DirtyLast /\ OwnEntry /\ Told(L)
  BY DEF Known, Ready, Before, Announced
<1>2. pc \in Putting /\ who = "target" /\ ToFill(L)
  BY <1>1, Apart
<1>3. LiveTool(L) /\ DiskTypeOK
  BY <1>1, BeforeParts
<1>4. pc = "put" /\ parent.num \in Dirs /\ TargetOnDisk
  BY <1>2, <1>3 DEF LiveTool, ToFill, Newborn, Putting
<1>5. PICK q \in Kids(Table, parent.num) : Table[parent.num][q].ino = target.num
  BY <1>2 DEF ToFill
<1>6. PICK e : e = Table[parent.num][q]
  OBVIOUS
<1>7. /\ e.ino = target.num /\ e.name = base /\ dinode[target.num].size = 0
      /\ tool = IF target.mode = "dir" THEN "mkdir" ELSE "cp"
  BY <1>1, <1>2, <1>4, <1>5, <1>6 DEF OwnEntry
<1>8. /\ Leads(Named, Lists, L) /\ TreeOnDisk = Shape(Named, Looks)
      /\ \A d \in L : Lists[d] = TableEntries(Table, Dirs, d)
      /\ \A d \in Inodes : Looks[d] = InTree(InView(d))
  BY <1>1 DEF Told
<1>9. /\ LiveInv(L)' /\ Steady(L)' /\ Leads(Named', Lists', L) /\ TreeOnDisk' = Shape(Named', Looks')
      /\ \A d \in L : Lists'[d] = TableEntries(Table, Dirs, d)
      /\ \A d \in Inodes : Looks'[d] = InTree(dinode[d]) /\ InTree(InView(d))' = InTree(dinode[d])
  BY KillLeaves
<1>10. ASSUME NEW d \in L
       PROVE  Lists'[d] = Lists[d] /\ (d # target.num => Looks'[d] = Looks[d])
  <2>1. d # target.num => InView(d) = dinode[d]
    BY DEF InView
  <2> QED
    BY <1>8, <1>9, <2>1
<1>11. PICK n \in L : n = target.num
  OBVIOUS
<1>12. InView(n) = OnDisk(target) /\ OnDisk(target).mode = target.mode /\ dinode[n].mode = target.mode
  BY <1>4, <1>11 DEF InView, OnDisk, TargetOnDisk
<1>13. status = EXIT_SUCCESS
  <2>1. status \in {EXIT_SUCCESS, EXIT_FAILURE}
    BY <1>1, BeforeParts DEF ProcTypeOK
  <2>2. target.dirty = DIRTY \/ parent.dirty = DIRTY
    BY <1>1
  <2> QED
    BY <1>1, <2>1, <2>2, CleanIsNotDirty DEF DirtyLast
<1>14. Phase = "done" /\ pc # "idle"
  BY <1>2, <1>13, PhaseIs DEF Putting
<1>15. PICK x \in Named : x[2] = parent.num /\ Here = x[1]
  BY <1>14, HereIs
<1>16. e \in Lists[x[2]]
  <2>1. parent.num \in L
    BY <1>1, <1>2, PuttingTool
  <2>2. Lists[parent.num] = {Table[parent.num][p] : p \in Kids(Table, parent.num)}
    BY <1>4, <1>8, <2>1 DEF TableEntries
  <2> QED
    BY <1>6, <1>15, <2>2
<1>17. Shape(Named', Looks') = Grafted(Shape(Named, Looks), Append(x[1], e.name), Looks'[e.ino])
  <2>1. PICK N, lists, looks : N = Named /\ lists = Lists /\ looks = Looks
    OBVIOUS
  <2>2. PICK N2, lists2, looks2 : N2 = Named' /\ lists2 = Lists' /\ looks2 = Looks'
    OBVIOUS
  <2>3. Leads(N, lists, L) /\ x \in N /\ Leads(N2, lists2, L) /\ e \in lists[x[2]]
    BY <1>8, <1>9, <1>16, <2>1, <2>2
  <2>4. \A d \in L : lists2[d] = lists[d] /\ (d # e.ino => looks2[d] = looks[d])
    BY <1>7, <1>10, <2>1, <2>2
  <2>5. Shape(N2, looks2) = Grafted(Shape(N, looks), Append(x[1], e.name), looks2[e.ino])
    BY ONLY <2>3, <2>4, TreeAlters
  <2> QED
    BY <2>1, <2>2, <2>5
<1>18. CASE target.mode = "dir"
  <2>1. InTree(InView(n)) = InTree(dinode[n])
    BY <1>12, <1>18 DEF InTree
  <2>2. \A d \in L : Looks'[d] = Looks[d]
    BY <1>8, <1>9, <1>10, <1>11, <2>1
  <2>3. PICK N, lists, looks : N = Named /\ lists = Lists /\ looks = Looks
    OBVIOUS
  <2>4. PICK N2, lists2, looks2 : N2 = Named' /\ lists2 = Lists' /\ looks2 = Looks'
    OBVIOUS
  <2>5. /\ Leads(N, lists, L) /\ Leads(N2, lists2, L)
        /\ \A d \in L : lists2[d] = lists[d] /\ looks2[d] = looks[d]
    BY <1>8, <1>9, <1>10, <2>2, <2>3, <2>4
  <2>6. Shape(N2, looks2) = Shape(N, looks)
    BY ONLY <2>5, TreeStays
  <2>7. TreeOnDisk' = TreeOnDisk
    BY <1>8, <1>9, <2>3, <2>4, <2>6
  <2> QED
    BY <2>7, KillMaps
<1>19. CASE target.mode # "dir"
  <2>1. tool = "cp" /\ target.mode = "reg"
    BY <1>4, <1>7, <1>19 DEF TargetOnDisk
  <2>2. InTree(dinode[n]) =
          [kind |-> "reg",
           data |-> [j \in 1 .. 0 |-> IF dinode[n].addr[j - 1] = 0 THEN 0 ELSE chunk[dinode[n].addr[j - 1]]]]
    BY <1>7, <1>11, <1>12, <2>1 DEF InTree
  <2>3. [j \in 1 .. 0 |-> IF dinode[n].addr[j - 1] = 0 THEN 0 ELSE chunk[dinode[n].addr[j - 1]]] = <<>>
    OBVIOUS
  <2>4. Looks'[e.ino] = Tree!File(<<>>)
    BY <1>7, <1>9, <1>11, <2>2, <2>3 DEF Tree!File
  <2>5. TreeOnDisk' = Grafted(TreeOnDisk, Append(Here, base), Tree!File(<<>>))
    BY <1>7, <1>8, <1>9, <1>15, <1>17, <2>4
  <2> QED
    BY <1>14, <2>1, <2>5, KillMaps
<1> QED
  BY <1>18, <1>19

\* So a kill loses or empties at most the file that the tool was creating.
LEMMA CrashMaps ==
  ASSUME OneKill, Known, Known', Reached, Kill
  PROVE  Simulates
<1>1. PICK L \in SUBSET Inodes : LiveInv(L)
  BY DEF Known, Ready, LiveTree
<1>2. Told(L)
  BY <1>1 DEF Known
<1>3. CASE ~Steady(L)
  <2>1. PICK m \in Inodes : Coming(L, m)
    BY <1>2, <1>3 DEF Told
  <2> QED
    BY <1>1, <2>1, KillLoses
<1>4. CASE Steady(L) /\ target.dirty = DIRTY /\ target.num \in L
  BY <1>1, <1>4, KillEmpties
<1>5. CASE Steady(L) /\ ~(target.dirty = DIRTY /\ target.num \in L)
  <2>1. \A d \in L : InView(d) = dinode[d]
    BY <1>5 DEF InView
  <2>2. /\ LiveInv(L)' /\ Steady(L)' /\ \A d \in L : Lists'[d] = TableEntries(Table, Dirs, d)
        /\ \A d \in Inodes : InTree(InView(d))' = InTree(dinode[d])
        /\ Leads(Named', Lists', L)
    BY <1>1, KillLeaves
  <2>3. Leads(Named, Lists, L) /\ \A d \in L : Lists[d] = TableEntries(Table, Dirs, d)
    BY <1>2, <1>5 DEF Told
  <2>4. \A d \in L : Lists'[d] = Lists[d]
    BY <2>2, <2>3
  <2>5. \A d \in L : InTree(InView(d))' = InTree(InView(d))
    BY <2>1, <2>2
  <2>6. SameTree
    BY <2>2, <2>3, <2>4, <2>5, StandsStill
  <2> QED
    BY <2>6, KillMaps DEF SameTree
<1> QED
  BY <1>3, <1>4, <1>5

-----------------------------------------------------------------------------
(* The tools implement the tree.                                           *)

\* Every step of a tool is one of the tree, or none.
LEMMA StepMaps ==
  ASSUME OneKill, Known, Known', Reached, Next
  PROVE  Simulates
<1>1. ProcTypeOK
  BY DEF Known, Ready, Inv, TypeOK
<1>2. CASE Start
  BY <1>2, StartMaps
<1>3. CASE WalkDown \/ WalkFails \/ WalkEnds
  BY <1>3, WalkDownMaps, WalkFailsMaps, WalkEndsMaps
<1>4. CASE Create
  <2>1. GivesUp \/ Prepares \/ AddEntryInSlot \/ AddEntryInNewBlock
    BY <1>4 DEF Create, GivesUp, Prepares
  <2> QED
    BY <2>1, GivesUpMaps, PreparesMaps, SlotMaps, NewBlockMaps
<1>5. CASE Remove
  BY <1>5, RmMissesMaps, PreparesMaps, RmNotEmptyMaps, DetachMaps DEF Remove
<1>6. CASE put_inode
  BY <1>6, PutMaps
<1>7. CASE Fault
  BY <1>1, <1>7, NoFailedIo, CrashMaps
<1> QED
  BY <1>2, <1>3, <1>4, <1>5, <1>6, <1>7 DEF Next, Step

\* And so is a stuttering step.
LEMMA StillMaps ==
  ASSUME Reached, UNCHANGED vars
  PROVE  Simulates
<1>1. Named' = Named /\ TreeOnDisk' = TreeOnDisk
  BY DEF vars, Named, Lists, LeadingTo, TreeOnDisk, Deeper, EntriesIn, AsPut, InTree, Dirty, Mapped, EntryAt
<1>2. Here' = Here /\ Phase' = Phase
  BY <1>1 DEF vars, Here, Phase
<1>3. Reached'
  BY <1>1 DEF vars, Reached, parent
<1> QED
  BY <1>1, <1>2, <1>3, Stutters DEF vars, args

\* What is known holds at every step.
LEMMA AlwaysKnown ==
  ASSUME OneKill
  PROVE  Spec => []Known
<1>1. Init => Announced /\ Dotted
  BY AnnouncedStart, DottedStart
<1>2. Ready => DirtyLast /\ Inv /\ UnlinkedIsBlank
  BY DEF Ready
<1>3. Ready /\ Ready' /\ Announced /\ Dotted /\ [Next]_vars => Announced' /\ Dotted'
  <2> SUFFICES ASSUME Ready, Ready', Announced, Dotted, [Next]_vars
               PROVE  Announced' /\ Dotted'
    OBVIOUS
  <2>1. DirtyLast'
    BY DEF Ready
  <2> QED
    BY <1>2, <2>1, AnnouncedStep, DottedStep
<1>4. Ready /\ Announced => \A L \in SUBSET Inodes : LiveInv(L) => Told(L)
  BY ToldLive
<1>5. Ready /\ Announced /\ Dotted /\ ShapesDisk => Known
  BY <1>4 DEF Known
<1> QED
  BY <1>1, <1>3, <1>5, AlwaysReady, AlwaysShapes, PTL DEF Spec

\* mkfs makes a tree with a root directory only.
LEMMA FirstTree ==
  ASSUME Known, Init
  PROVE  Tree!TreeInit /\ Reached
<1>1. pc = "idle" /\ tool = "none" /\ base = "" /\ fsz = 0 /\ core = NoInodes /\ kills = 0 /\ mkfs
  BY DEF Init
<1>2. LiveInv({ROOT_INODE}) /\ {ROOT_INODE} \in SUBSET Inodes
  BY LiveRoot, RootType
<1>3. Told({ROOT_INODE})
  BY <1>2 DEF Known
<1>4. parent = NULL /\ target = NULL
  BY <1>1 DEF NoInodes, parent, target
<1>5. Cleared
  BY <1>4 DEF Cleared, NULL
<1>6. /\ Leads(Named, Lists, {ROOT_INODE}) /\ TreeOnDisk = Shape(Named, Looks)
      /\ \A d \in Inodes : Looks[d] = InTree(dinode[d])
  BY <1>3, <1>5, ClearedTree
<1>7. Named = {NoPath}
  <2>1. NoPath \in Named /\ NoPath[2] = ROOT_INODE
    BY <1>6 DEF Leads, NoPath
  <2>2. ASSUME NEW x \in Named PROVE x = NoPath
    <3>1. x[2] = ROOT_INODE
      BY <1>6 DEF Leads
    <3> QED
      BY <1>6, <2>1, <3>1 DEF Leads
  <2> QED
    BY <2>1, <2>2
<1>8. dinode[ROOT_INODE].mode = "dir"
  BY <1>2 DEF LiveInv, LiveDisk, InodesOf, Dirs
<1>9. Looks[ROOT_INODE] = Tree!Dir
  <2>1. InTree(dinode[ROOT_INODE]) = [kind |-> "dir", data |-> <<>>]
    BY <1>8 DEF InTree
  <2> QED
    BY <1>2, <1>6, <2>1 DEF Tree!Dir
<1>10. TreeOnDisk = [p \in {Tree!Root} |-> Tree!Dir]
  <2>1. Depicts(Shape(Named, Looks), Named, Looks)
    BY <1>6, ShapeAt
  <2>2. NoPath[1] = Tree!Root /\ NoPath[2] = ROOT_INODE
    BY DEF NoPath, Tree!Root
  <2>3. Shape(Named, Looks) = [p \in {x[1] : x \in Named} |-> Looks[InodeAt(Named, p)]]
    BY DEF Shape
  <2>4. {x[1] : x \in Named} = {Tree!Root}
    BY <1>7, <2>2
  <2>5. Shape(Named, Looks)[Tree!Root] = Tree!Dir
    BY <1>7, <1>9, <2>1, <2>2 DEF Depicts
  <2> QED
    BY <1>6, <2>3, <2>4, <2>5
<1>11. Here = Tree!Root
  <2>1. core["parent"].num = 0
    BY <1>1 DEF NoInodes, NULL
  <2> QED
    BY <2>1 DEF Here, Tree!Root
<1>12. Phase = "idle"
  BY <1>1, PhaseIs
<1> QED
  BY <1>1, <1>10, <1>11, <1>12 DEF Tree!TreeInit, Tree!NoRequest, Reached

\* mkdir, cp and rm implement the file tree, as long as no read or write fails and at
\* most one tool is killed: each tool that succeeds changes the tree once and at once, at
\* the path it walked to; one that is refused does not change it; a kill loses or empties
\* at most the file that the killed tool was creating (mkdir.c, cp.c, rm.c, dir.c).
THEOREM ToolsImplementTree ==
  ASSUME OneKill
  PROVE  Spec => ImplementsTree
<1>1. Init /\ Known => Tree!TreeInit /\ Reached
  BY FirstTree
<1>2. Known /\ Known' /\ Reached /\ [Next]_vars => Reached' /\ [Tree!TreeNext]_(Tree!treeVars)
  BY StepMaps, StillMaps DEF Simulates
<1> QED
  BY <1>1, <1>2, AlwaysKnown, PTL DEF Spec, ImplementsTree, Tree!TreeSpec
=============================================================================
