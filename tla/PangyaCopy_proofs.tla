--------------------------- MODULE PangyaCopy_proofs ---------------------------
(***************************************************************************)
(* Proofs about cp and a host file that changes while it is read, for      *)
(* every block size, inode size and number of changes.                     *)
(***************************************************************************)
EXTENDS PangyaCopy, SequenceTheorems, TLAPS

(* Why they hold.                                                          *)

\* The loop stops when it has read as many blocks as stat asked for.
RoundsInv ==
  /\ Len(blocks) <= NDIRECT
  /\ pc \in {"open", "read", "write", "done"} => Len(stated) <= NDIRECT * BLOCKSIZE
  /\ pc \in {"stat", "open"} => blocks = <<>> /\ offset = 0
  /\ pc \in {"read", "write"} => Len(blocks) < Rounds
  /\ pc = "done" => Len(blocks) = Rounds

\* Units a and b are in the order of the host file.
Ordered(a, b) == a # Nothing /\ b # Nothing => a.at < b.at

\* What was read lies before the offset, and every block before the next.
OrderInv ==
  /\ \A q \in 1 .. Len(host) : host[q].at = q
  /\ \A i \in 1 .. Len(blocks), u \in 1 .. BLOCKSIZE : blocks[i][u].at <= offset
  /\ \A i, j \in 1 .. Len(blocks), u, v \in 1 .. BLOCKSIZE :
       i < j \/ (i = j /\ u < v) => Ordered(blocks[i][u], blocks[j][v])
  /\ pc = "write" =>
       /\ \A u \in 1 .. BLOCKSIZE : buffer[u].at <= offset
       /\ \A u, v \in 1 .. BLOCKSIZE : u < v => Ordered(buffer[u], buffer[v])
       /\ \A i \in 1 .. Len(blocks), u, v \in 1 .. BLOCKSIZE :
            Ordered(blocks[i][u], buffer[v])

\* Unit u of block i is place (i - 1) * BLOCKSIZE + u of the file.
Place(i, u) == (i - 1) * BLOCKSIZE + u

\* As long as the host file only grows, no read within its size comes back short.
GrownInv ==
  ~shrunk /\ pc \in {"open", "read", "write", "done"} =>
    /\ \A q \in 1 .. Len(stated) : q <= Len(host) /\ host[q] = stated[q]
    /\ \A i \in 1 .. Len(blocks), u \in 1 .. BLOCKSIZE :
         Place(i, u) <= Len(stated) => blocks[i][u] = stated[Place(i, u)]
    /\ pc = "open" => offset = 0
    /\ pc = "read" => offset = Len(blocks) * BLOCKSIZE
    /\ pc = "write" =>
         /\ Len(blocks) + 1 < Rounds => offset = (Len(blocks) + 1) * BLOCKSIZE
         /\ \A u \in 1 .. BLOCKSIZE :
              Place(Len(blocks) + 1, u) <= Len(stated)
                => buffer[u] = stated[Place(Len(blocks) + 1, u)]

CopyInv == CopyTypeOK /\ RoundsInv /\ OrderInv /\ GrownInv

-----------------------------------------------------------------------------
(* Arithmetic.                                                             *)

\* Quotient and remainder, as the library defines them.
LEMMA Dividing ==
  ASSUME NEW n \in Nat, NEW d \in Nat \ {0}
  PROVE  /\ n \div d \in Nat /\ (n % d) \in 0 .. d - 1
         /\ n = d * (n \div d) + (n % d)
<1>1. n \div d \in Nat
  BY SMT
<1>2. (n % d) \in 0 .. d - 1
  BY SMT
<1>3. n = d * (n \div d) + (n % d)
  BY SMT
<1> QED
  BY <1>1, <1>2, <1>3

\* More parts are no shorter.
LEMMA TimesMonotone ==
  ASSUME NEW m \in Nat, NEW n \in Nat, NEW d \in Nat, m <= n
  PROVE  m * d <= n * d /\ m * d \in Nat /\ n * d \in Nat
<1>1. PICK k \in Nat : n = m + k
  BY n = m + (n - m)
<1>2. n * d = m * d + k * d /\ k * d \in Nat /\ m * d \in Nat
  BY <1>1
<1> QED
  BY <1>2

\* As many rounds as it takes.
LEMMA RoundsCover ==
  ASSUME CopyTypeOK
  PROVE  /\ Rounds \in Nat
         /\ Len(stated) <= Rounds * BLOCKSIZE
         /\ Rounds * BLOCKSIZE < Len(stated) + BLOCKSIZE
         /\ Len(stated) <= NDIRECT * BLOCKSIZE => Rounds <= NDIRECT
<1> DEFINE n == Len(stated) + BLOCKSIZE - 1
           r == Rounds
<1>1. BLOCKSIZE \in Nat \ {0} /\ NDIRECT \in Nat /\ Len(stated) \in Nat /\ n \in Nat
  BY CopyAssumption DEF CopyTypeOK
<1>2. /\ r \in Nat /\ (n % BLOCKSIZE) \in 0 .. BLOCKSIZE - 1
      /\ n = BLOCKSIZE * r + (n % BLOCKSIZE)
  BY <1>1, Dividing DEF Rounds
<1> HIDE DEF r
<1>3. r * BLOCKSIZE = BLOCKSIZE * r /\ BLOCKSIZE * r \in Nat
  BY <1>1, <1>2
<1>4. Len(stated) <= r * BLOCKSIZE /\ r * BLOCKSIZE < Len(stated) + BLOCKSIZE
  BY <1>1, <1>2, <1>3
<1>5. ASSUME Len(stated) <= NDIRECT * BLOCKSIZE, ~ (r <= NDIRECT) PROVE FALSE
  <2>1. NDIRECT + 1 <= r
    BY <1>1, <1>2, <1>5
  <2>2. (NDIRECT + 1) * BLOCKSIZE <= r * BLOCKSIZE
    BY <1>1, <1>2, <2>1, TimesMonotone
  <2>3. (NDIRECT + 1) * BLOCKSIZE = NDIRECT * BLOCKSIZE + BLOCKSIZE /\ NDIRECT * BLOCKSIZE \in Nat
    BY <1>1
  <2> QED
    BY <1>1, <1>3, <1>4, <1>5, <2>2, <2>3
<1> QED
  BY <1>2, <1>4, <1>5 DEF r

-----------------------------------------------------------------------------
(* The host file.                                                          *)

\* What is read at the offset is the host file from there on.
LEMMA WhatIsRead ==
  ASSUME CopyTypeOK
  PROVE  /\ AtOffset \in Seq(Units) /\ Len(AtOffset) \in 0 .. BLOCKSIZE
         /\ Len(AtOffset) # 0 => offset + Len(AtOffset) <= Len(host)
         /\ \A u \in 1 .. Len(AtOffset) : AtOffset[u] = host[offset + u]
         /\ offset + BLOCKSIZE <= Len(host) => Len(AtOffset) = BLOCKSIZE
         /\ \A u \in 1 .. BLOCKSIZE : offset + u <= Len(host) => u <= Len(AtOffset)
<1> DEFINE end == IF offset + BLOCKSIZE <= Len(host) THEN offset + BLOCKSIZE ELSE Len(host)
<1>1. /\ BLOCKSIZE \in Nat \ {0} /\ offset \in Nat /\ host \in Seq(Units) /\ Len(host) \in Nat
      /\ end \in Nat /\ end <= Len(host) /\ AtOffset = SubSeq(host, offset + 1, end)
  BY CopyAssumption DEF CopyTypeOK, AtOffset, FromOffset
<1>2. CASE offset + 1 <= end
  <2>1. \A i \in offset + 1 .. end : host[i] \in Units
    BY <1>1, <1>2
  <2>2. /\ AtOffset \in Seq(Units) /\ Len(AtOffset) = end - offset
        /\ \A u \in 1 .. end - offset : AtOffset[u] = host[offset + u]
    BY <1>1, <1>2, <2>1, SubSeqProperties
  <2>3. /\ Len(AtOffset) \in 0 .. BLOCKSIZE /\ offset + Len(AtOffset) <= Len(host)
        /\ offset + BLOCKSIZE <= Len(host) => Len(AtOffset) = BLOCKSIZE
        /\ \A u \in 1 .. BLOCKSIZE : offset + u <= Len(host) => u <= Len(AtOffset)
    BY <1>1, <1>2, <2>2
  <2> QED
    BY <2>2, <2>3
<1>3. CASE ~ (offset + 1 <= end)
  <2>1. AtOffset = <<>>
    BY <1>1, <1>3, SubSeqEmpty
  <2>2. AtOffset \in Seq(Units) /\ Len(AtOffset) = 0
    BY <2>1, EmptySeq
  <2>3. ~ (offset + BLOCKSIZE <= Len(host)) /\ \A u \in 1 .. BLOCKSIZE : ~ (offset + u <= Len(host))
    BY <1>1, <1>3
  <2> QED
    <3>1. Len(AtOffset) \in 0 .. BLOCKSIZE
      BY <1>1, <2>2
    <3>2. 1 .. Len(AtOffset) = {}
      BY <2>2
    <3> QED
      BY <2>2, <2>3, <3>1, <3>2
<1> QED
  BY <1>2, <1>3

\* What other programs leave of it.
LEMMA HostGrows ==
  ASSUME CopyTypeOK, OrderInv, Grow
  PROVE  /\ host' \in Seq(Units) /\ Len(host') \in Nat /\ Len(host) <= Len(host')
         /\ \A q \in 1 .. Len(host) : host'[q] = host[q]
         /\ \A q \in 1 .. Len(host') : host'[q].at = q
<1>1. /\ BLOCKSIZE \in Nat \ {0} /\ host \in Seq(Units) /\ Len(host) \in Nat
      /\ edits' \in 0 .. MaxEdits
  BY CopyAssumption DEF CopyTypeOK, Grow, Edit
<1>2. PICK n \in 1 .. BLOCKSIZE : host' = host \o [q \in 1 .. n |-> Unit(Len(host) + q, edits')]
  BY DEF Grow
<1> DEFINE new == [q \in 1 .. n |-> Unit(Len(host) + q, edits')]
<1>3. \A q \in 1 .. n : Unit(Len(host) + q, edits') \in Units
  BY <1>1 DEF Unit, Units
<1>4. new \in Seq(Units) /\ Len(new) = n
  BY <1>1, <1>3
<1>5. \A q \in 1 .. n : new[q].at = Len(host) + q
  BY DEF Unit
<1> HIDE DEF new
<1>6. /\ host' \in Seq(Units) /\ Len(host') = Len(host) + n
      /\ \A q \in 1 .. Len(host) + n : host'[q] = IF q <= Len(host) THEN host[q] ELSE new[q - Len(host)]
  BY <1>1, <1>2, <1>4, ConcatProperties DEF new
<1>7. ASSUME NEW q \in 1 .. Len(host') PROVE host'[q].at = q
  <2>1. CASE q <= Len(host)
    BY <1>1, <1>6, <2>1 DEF OrderInv
  <2>2. CASE ~ (q <= Len(host))
    <3> DEFINE m == q - Len(host)
    <3>1. m \in 1 .. n /\ Len(host) + m = q
      BY <1>1, <1>6, <2>2
    <3>2. host'[q] = new[m]
      BY <1>6, <2>2
    <3>3. new[m].at = Len(host) + m
      BY <1>5, <3>1
    <3> QED
      BY <3>1, <3>2, <3>3
  <2> QED
    BY <2>1, <2>2
<1> QED
  BY <1>1, <1>6, <1>7

\* What is left of a host file that was cut is in order.
LEMMA HostShrinks ==
  ASSUME CopyTypeOK, OrderInv, Shrink
  PROVE  host' \in Seq(Units) /\ \A q \in 1 .. Len(host') : host'[q].at = q
<1>1. host \in Seq(Units) /\ Len(host) \in Nat
  BY DEF CopyTypeOK
<1>2. PICK n \in 0 .. Len(host) - 1 : host' = SubSeq(host, 1, n)
  BY DEF Shrink
<1>3. CASE n = 0
  BY <1>1, <1>2, <1>3, SubSeqEmpty
<1>4. CASE n # 0
  <2>1. \A i \in 1 .. n : host[i] \in Units
    BY <1>1
  <2>2. /\ host' \in Seq(Units) /\ Len(host') = n
        /\ \A q \in 1 .. n : host'[q] = host[q]
    BY <1>1, <1>2, <1>4, <2>1, SubSeqProperties
  <2> QED
    BY <1>1, <2>2 DEF OrderInv
<1> QED
  BY <1>3, <1>4

-----------------------------------------------------------------------------
(* The steps.                                                              *)

\* Nothing is copied yet.
LEMMA CopyStarts ==
  ASSUME Init
  PROVE  CopyInv
<1>1. PICK n \in 0 .. NDIRECT * BLOCKSIZE + 1 : host = [q \in 1 .. n |-> Unit(q, 0)]
  BY DEF Init
<1>2. BLOCKSIZE \in Nat \ {0} /\ NDIRECT \in Nat /\ MaxEdits \in Nat /\ n \in Nat
  BY CopyAssumption
<1>3. \A q \in 1 .. n : Unit(q, 0) \in Units
  BY <1>2 DEF Unit, Units
<1>4. host \in Seq(Units) /\ Len(host) = n /\ \A q \in 1 .. n : host[q].at = q
  <2>1. host \in Seq(Units) /\ Len(host) = n
    BY <1>1, <1>2, <1>3
  <2>2. \A q \in 1 .. n : host[q].at = q
    BY <1>1 DEF Unit
  <2> QED
    BY <2>1, <2>2
<1>5. Nothing \in Units
  BY <1>2 DEF Nothing, Units
<1>6. CopyTypeOK
  <2>1. /\ buffer \in [1 .. BLOCKSIZE -> Units] /\ offset = 0 /\ pc = "stat"
        /\ edits = 0 /\ shrunk \in BOOLEAN
    BY <1>5 DEF Init
  <2>2. blocks = <<>> /\ stated = <<>> /\ Len(blocks) <= NDIRECT
    BY <1>2 DEF Init
  <2>3. blocks \in Seq([1 .. BLOCKSIZE -> Units]) /\ stated \in Seq(Units)
    BY <2>2
  <2> QED
    BY <1>2, <1>4, <2>1, <2>2, <2>3 DEF CopyTypeOK
<1>7. pc = "stat" /\ blocks = <<>> /\ Len(blocks) = 0 /\ offset = 0
  BY DEF Init
<1>8. RoundsInv
  BY <1>2, <1>7 DEF RoundsInv
<1>9. OrderInv
  <2>1. 1 .. Len(blocks) = {}
    BY <1>7
  <2> QED
    BY <1>4, <1>7, <2>1 DEF OrderInv
<1>10. GrownInv
  BY <1>7 DEF GrownInv
<1> QED
  BY <1>6, <1>8, <1>9, <1>10 DEF CopyInv

\* Other programs change the host file.
LEMMA EditKeeps ==
  ASSUME CopyInv, Grow \/ Shrink
  PROVE  CopyInv'
<1>1. CopyTypeOK /\ RoundsInv /\ OrderInv /\ GrownInv
  BY DEF CopyInv
<1>2. /\ UNCHANGED <<stated, pc, offset, buffer, blocks>> /\ edits' \in 0 .. MaxEdits
      /\ shrunk' \in BOOLEAN
  <2>1. /\ UNCHANGED <<stated, pc, offset, buffer, blocks>>
        /\ edits < MaxEdits /\ edits' = edits + 1
    BY DEF Grow, Shrink, Edit
  <2>2. edits' \in 0 .. MaxEdits
    BY <1>1, <2>1, CopyAssumption DEF CopyTypeOK
  <2>3. shrunk' \in BOOLEAN
    BY <1>1 DEF Grow, Shrink, CopyTypeOK
  <2> QED
    BY <2>1, <2>2, <2>3
<1>3. /\ host' \in Seq(Units)
      /\ \A q \in 1 .. Len(host') : host'[q].at = q
  BY <1>1, HostGrows, HostShrinks
<1>4. CopyTypeOK'
  BY <1>1, <1>2, <1>3 DEF CopyTypeOK
<1>5. RoundsInv'
  BY <1>1, <1>2 DEF RoundsInv, Rounds
<1>6. OrderInv'
  BY <1>1, <1>2, <1>3 DEF OrderInv
<1>7. GrownInv'
  <2>1. CASE Grow
    <3>1. /\ Len(host) \in Nat /\ Len(host') \in Nat /\ Len(host) <= Len(host') /\ Len(stated) \in Nat
          /\ \A q \in 1 .. Len(host) : host'[q] = host[q]
      BY <1>1, <2>1, HostGrows DEF CopyTypeOK
    <3>2. shrunk' = shrunk
      BY <2>1 DEF Grow
    <3>3. ASSUME \A q \in 1 .. Len(stated) : q <= Len(host) /\ host[q] = stated[q]
          PROVE  \A q \in 1 .. Len(stated) : q <= Len(host') /\ host'[q] = stated[q]
      <4> TAKE q \in 1 .. Len(stated)
      <4>1. q \in 1 .. Len(host) /\ q <= Len(host')
        BY <3>1, <3>3
      <4> QED
        BY <3>1, <3>3, <4>1
    <3> QED
      BY <1>1, <1>2, <3>2, <3>3 DEF GrownInv, Rounds
  <2>2. CASE Shrink
    BY <2>2 DEF Shrink, GrownInv
  <2> QED
    BY <2>1, <2>2
<1> QED
  BY <1>4, <1>5, <1>6, <1>7 DEF CopyInv

\* cp looks at the size.
LEMMA StatKeeps ==
  ASSUME CopyInv, stat
  PROVE  CopyInv'
<1>1. CopyTypeOK /\ RoundsInv /\ OrderInv /\ GrownInv
  BY DEF CopyInv
<1>2. /\ pc = "stat" /\ stated' = host /\ shrunk' = FALSE
      /\ UNCHANGED <<host, edits, offset, buffer, blocks>>
      /\ pc' = IF Len(host) > NDIRECT * BLOCKSIZE THEN "failed" ELSE "open"
  BY DEF stat
<1>3. CopyTypeOK'
  BY <1>1, <1>2 DEF CopyTypeOK
<1>4. RoundsInv'
  <2>1. Len(stated') \in Nat /\ NDIRECT * BLOCKSIZE \in Nat
    BY <1>3, CopyAssumption DEF CopyTypeOK
  <2>2. pc' = "failed" \/ (pc' = "open" /\ Len(stated') <= NDIRECT * BLOCKSIZE)
    BY <1>2, <2>1
  <2> QED
    BY <1>1, <1>2, <2>2 DEF RoundsInv
<1>5. OrderInv'
  BY <1>1, <1>2 DEF OrderInv
<1>6. GrownInv'
  <2>1. blocks' = <<>> /\ 1 .. Len(blocks') = {}
    BY <1>1, <1>2 DEF RoundsInv
  <2>2. pc' \in {"failed", "open"} /\ offset' = 0
    BY <1>1, <1>2 DEF RoundsInv
  <2> QED
    BY <1>1, <1>2, <2>1, <2>2 DEF GrownInv
<1> QED
  BY <1>3, <1>4, <1>5, <1>6 DEF CopyInv

\* The loop begins, or ends at once.
LEMMA OpenKeeps ==
  ASSUME CopyInv, open
  PROVE  CopyInv'
<1>1. CopyTypeOK /\ RoundsInv /\ OrderInv /\ GrownInv
  BY DEF CopyInv
<1>2. /\ pc = "open" /\ pc' = IF 0 < Rounds THEN "read" ELSE "done"
      /\ UNCHANGED <<host, edits, shrunk, stated, offset, buffer, blocks>>
  BY DEF open, LoopFrom
<1>3. Rounds \in Nat /\ Len(blocks) = 0 /\ offset = 0 /\ BLOCKSIZE \in Nat \ {0}
  BY <1>1, <1>2, RoundsCover, CopyAssumption DEF RoundsInv
<1>4. Rounds' = Rounds
  BY <1>2 DEF Rounds
<1>5. CopyTypeOK'
  BY <1>1, <1>2 DEF CopyTypeOK
<1>6. RoundsInv'
  <2>1. \/ pc' = "read" /\ Len(blocks) < Rounds
        \/ pc' = "done" /\ Len(blocks) = Rounds
    BY <1>2, <1>3
  <2> QED
    BY <1>1, <1>2, <1>4, <2>1 DEF RoundsInv
<1>7. OrderInv'
  BY <1>1, <1>2 DEF OrderInv
<1>8. GrownInv'
  <2>1. offset = Len(blocks) * BLOCKSIZE /\ pc' \in {"read", "done"}
    BY <1>2, <1>3
  <2> QED
    BY <1>1, <1>2, <1>4, <2>1 DEF GrownInv
<1> QED
  BY <1>5, <1>6, <1>7, <1>8 DEF CopyInv

\* A block of the host file, or what is left of it.
LEMMA ReadKeeps ==
  ASSUME CopyInv, read
  PROVE  CopyInv'
<1>1. CopyTypeOK /\ RoundsInv /\ OrderInv /\ GrownInv
  BY DEF CopyInv
<1> DEFINE n == Len(AtOffset)
<1>2. /\ pc = "read" /\ pc' = "write" /\ offset' = offset + n
      /\ buffer' = [u \in 1 .. BLOCKSIZE |-> IF u <= n THEN AtOffset[u] ELSE Nothing]
      /\ UNCHANGED <<host, edits, shrunk, stated, blocks>>
  BY DEF read, ReadInto
<1>3. /\ n \in 0 .. BLOCKSIZE /\ offset \in Nat /\ Len(host) \in Nat /\ BLOCKSIZE \in Nat \ {0}
      /\ Len(blocks) \in Nat /\ MaxEdits \in Nat /\ AtOffset \in Seq(Units)
      /\ n # 0 => offset + n <= Len(host)
      /\ \A u \in 1 .. n : AtOffset[u] = host[offset + u]
      /\ offset + BLOCKSIZE <= Len(host) => n = BLOCKSIZE
      /\ \A u \in 1 .. BLOCKSIZE : offset + u <= Len(host) => u <= n
  BY <1>1, WhatIsRead, CopyAssumption DEF CopyTypeOK
<1>4. \A u \in 1 .. n : AtOffset[u] \in Units
  BY <1>3
<1> HIDE DEF n
<1>5. \A u \in 1 .. BLOCKSIZE : /\ buffer'[u] # Nothing => u <= n /\ buffer'[u].at = offset + u
                                /\ buffer'[u].at <= offset + n
  <2> TAKE u \in 1 .. BLOCKSIZE
  <2>1. CASE u <= n
    <3>1. buffer'[u] = host[offset + u] /\ offset + u \in 1 .. Len(host)
      BY <1>2, <1>3, <2>1
    <3>2. buffer'[u].at = offset + u
      BY <1>1, <3>1 DEF OrderInv
    <3> QED
      BY <1>3, <2>1, <3>2
  <2>2. CASE ~ (u <= n)
    <3>1. buffer'[u] = Nothing
      BY <1>2, <2>2
    <3> QED
      BY <1>3, <3>1 DEF Nothing
  <2> QED
    BY <2>1, <2>2
<1>6. CopyTypeOK'
  <2>1. Nothing \in Units
    BY <1>3 DEF Nothing, Units
  <2>2. \A u \in 1 .. BLOCKSIZE : (IF u <= n THEN AtOffset[u] ELSE Nothing) \in Units
    BY <1>3, <1>4, <2>1
  <2>3. buffer' \in [1 .. BLOCKSIZE -> Units] /\ offset' \in Nat
    BY <1>2, <1>3, <2>2
  <2> QED
    BY <1>1, <1>2, <2>3 DEF CopyTypeOK
<1>7. RoundsInv'
  BY <1>1, <1>2 DEF RoundsInv, Rounds
<1>8. OrderInv'
  <2>1. \A i \in 1 .. Len(blocks), u \in 1 .. BLOCKSIZE :
          blocks[i][u].at \in Nat /\ blocks[i][u].at <= offset
    <3> TAKE i \in 1 .. Len(blocks), u \in 1 .. BLOCKSIZE
    <3>1. blocks[i] \in [1 .. BLOCKSIZE -> Units]
      BY <1>1 DEF CopyTypeOK
    <3>2. blocks[i][u] \in Units
      BY <3>1
    <3> QED
      BY <1>1, <3>2 DEF Units, OrderInv
  <2>2. \A i \in 1 .. Len(blocks), u \in 1 .. BLOCKSIZE : blocks[i][u].at <= offset'
    BY <1>2, <1>3, <2>1
  <2>3. \A u \in 1 .. BLOCKSIZE : buffer'[u].at <= offset'
    BY <1>2, <1>5
  <2>4. \A u, v \in 1 .. BLOCKSIZE : u < v => Ordered(buffer'[u], buffer'[v])
    BY <1>3, <1>5 DEF Ordered
  <2>5. \A i \in 1 .. Len(blocks), u, v \in 1 .. BLOCKSIZE : Ordered(blocks[i][u], buffer'[v])
    BY <1>3, <1>5, <2>1 DEF Ordered
  <2> QED
    BY <1>1, <1>2, <2>2, <2>3, <2>4, <2>5 DEF OrderInv
<1>9. GrownInv'
  <2> SUFFICES ASSUME ~shrunk
               PROVE  /\ Len(blocks) + 1 < Rounds => offset' = (Len(blocks) + 1) * BLOCKSIZE
                      /\ \A u \in 1 .. BLOCKSIZE :
                           Place(Len(blocks) + 1, u) <= Len(stated)
                             => buffer'[u] = stated[Place(Len(blocks) + 1, u)]
    BY <1>1, <1>2 DEF GrownInv, Rounds
  <2>1. /\ offset = Len(blocks) * BLOCKSIZE
        /\ \A q \in 1 .. Len(stated) : q <= Len(host) /\ host[q] = stated[q]
    BY <1>1, <1>2 DEF GrownInv
  <2>2. /\ Len(stated) \in Nat /\ Rounds \in Nat
        /\ Rounds * BLOCKSIZE < Len(stated) + BLOCKSIZE
    BY <1>1, RoundsCover DEF CopyTypeOK
  <2>3. Len(stated) <= Len(host)
    BY <1>3, <2>1, <2>2
  <2>4. (Len(blocks) + 1) * BLOCKSIZE = offset + BLOCKSIZE
    BY <1>3, <2>1
  <2>5. ASSUME Len(blocks) + 1 < Rounds PROVE offset' = (Len(blocks) + 1) * BLOCKSIZE
    <3>1. (Len(blocks) + 2) * BLOCKSIZE <= Rounds * BLOCKSIZE
      BY <1>3, <2>2, <2>5, TimesMonotone
    <3>2. (Len(blocks) + 2) * BLOCKSIZE = offset + BLOCKSIZE + BLOCKSIZE
      BY <1>3, <2>1
    <3>3. Rounds * BLOCKSIZE \in Nat
      BY <1>3, <2>2
    <3>4. offset + BLOCKSIZE <= Len(host)
      BY <1>3, <2>2, <2>3, <3>1, <3>2, <3>3
    <3> QED
      BY <1>2, <1>3, <2>4, <3>4
  <2>6. ASSUME NEW u \in 1 .. BLOCKSIZE, Place(Len(blocks) + 1, u) <= Len(stated)
        PROVE  buffer'[u] = stated[Place(Len(blocks) + 1, u)]
    <3>1. Place(Len(blocks) + 1, u) = offset + u
      BY <1>3, <2>1 DEF Place
    <3>2. offset + u \in 1 .. Len(stated) /\ offset + u <= Len(host)
      BY <1>3, <2>2, <2>3, <2>6, <3>1
    <3>3. u <= n /\ u \in 1 .. n
      BY <1>3, <3>2
    <3> QED
      BY <1>2, <1>3, <2>1, <3>1, <3>2, <3>3
  <2> QED
    BY <2>5, <2>6
<1> QED
  BY <1>6, <1>7, <1>8, <1>9 DEF CopyInv

\* One more block of the target.
LEMMA WriteKeeps ==
  ASSUME CopyInv, write
  PROVE  CopyInv'
<1>1. CopyTypeOK /\ RoundsInv /\ OrderInv /\ GrownInv
  BY DEF CopyInv
<1> DEFINE n == Len(blocks)
<1>2. /\ pc = "write" /\ pc' = IF Len(blocks') < Rounds THEN "read" ELSE "done"
      /\ blocks' = Append(blocks, buffer)
      /\ UNCHANGED <<host, edits, shrunk, stated, offset, buffer>>
  BY DEF write, LoopFrom
<1>3. /\ Len(blocks') = n + 1 /\ n \in Nat /\ BLOCKSIZE \in Nat \ {0}
      /\ blocks' \in Seq([1 .. BLOCKSIZE -> Units])
      /\ \A i \in 1 .. n : blocks'[i] = blocks[i]
      /\ blocks'[n + 1] = buffer
  BY <1>1, <1>2, AppendProperties, CopyAssumption DEF CopyTypeOK
<1>4. Rounds' = Rounds /\ Rounds \in Nat /\ Len(stated) <= NDIRECT * BLOCKSIZE
      /\ Rounds <= NDIRECT /\ n + 1 <= Rounds /\ NDIRECT \in Nat
  <2>1. /\ Rounds \in Nat /\ n < Rounds /\ Len(stated) <= NDIRECT * BLOCKSIZE
        /\ Rounds <= NDIRECT
    BY <1>1, <1>2, RoundsCover DEF RoundsInv
  <2> QED
    BY <1>2, <1>3, <2>1, CopyAssumption DEF Rounds
<1>5. \A i \in 1 .. n + 1 : i \in 1 .. n \/ i = n + 1
  BY <1>3
<1> HIDE DEF n
<1>6. \/ pc' = "read" /\ n + 1 < Rounds
      \/ pc' = "done" /\ n + 1 = Rounds
  BY <1>2, <1>3, <1>4
<1>7. CopyTypeOK'
  <2>1. Len(blocks') <= NDIRECT
    BY <1>3, <1>4
  <2> QED
    BY <1>1, <1>2, <1>3, <1>6, <2>1 DEF CopyTypeOK
<1>8. RoundsInv'
  <2>1. Len(blocks') <= NDIRECT
    BY <1>3, <1>4
  <2> QED
    BY <1>2, <1>3, <1>4, <1>6, <2>1 DEF RoundsInv
<1>9. OrderInv'
  <2>1. \A i \in 1 .. n, u, v \in 1 .. BLOCKSIZE : Ordered(blocks[i][u], buffer[v])
    BY <1>1, <1>2 DEF OrderInv, n
  <2>2. \A u \in 1 .. BLOCKSIZE : buffer[u].at <= offset
    BY <1>1, <1>2 DEF OrderInv
  <2>3. \A u, v \in 1 .. BLOCKSIZE : u < v => Ordered(buffer[u], buffer[v])
    BY <1>1, <1>2 DEF OrderInv
  <2>4. \A i \in 1 .. n, u \in 1 .. BLOCKSIZE : blocks[i][u].at <= offset
    BY <1>1 DEF OrderInv, n
  <2>5. \A i, j \in 1 .. n, u, v \in 1 .. BLOCKSIZE :
          i < j \/ (i = j /\ u < v) => Ordered(blocks[i][u], blocks[j][v])
    BY <1>1 DEF OrderInv, n
  <2>6. \A i \in 1 .. n + 1, u \in 1 .. BLOCKSIZE : blocks'[i][u].at <= offset
    BY <1>3, <1>5, <2>2, <2>4
  <2>7. ASSUME NEW i \in 1 .. n + 1, NEW j \in 1 .. n + 1,
               NEW u \in 1 .. BLOCKSIZE, NEW v \in 1 .. BLOCKSIZE, i < j \/ (i = j /\ u < v)
        PROVE  Ordered(blocks'[i][u], blocks'[j][v])
    <3>1. CASE j \in 1 .. n
      <4>1. i \in 1 .. n
        BY <1>3, <2>7, <3>1
      <4> QED
        BY <1>3, <2>5, <2>7, <3>1, <4>1
    <3>2. CASE j = n + 1 /\ i \in 1 .. n
      BY <1>3, <2>1, <3>2
    <3>3. CASE j = n + 1 /\ i = n + 1
      <4>1. u < v
        BY <1>3, <2>7, <3>3
      <4> QED
        BY <1>3, <2>3, <3>3, <4>1
    <3> QED
      BY <1>5, <3>1, <3>2, <3>3
  <2> QED
    BY <1>1, <1>2, <1>3, <1>6, <2>6, <2>7 DEF OrderInv
<1>10. GrownInv'
  <2> SUFFICES ASSUME ~shrunk
               PROVE  /\ \A i \in 1 .. n + 1, u \in 1 .. BLOCKSIZE :
                           Place(i, u) <= Len(stated) => blocks'[i][u] = stated[Place(i, u)]
                      /\ pc' = "read" => offset = (n + 1) * BLOCKSIZE
                      /\ \A q \in 1 .. Len(stated) : q <= Len(host) /\ host[q] = stated[q]
    BY <1>2, <1>3, <1>6 DEF GrownInv
  <2>1. /\ \A q \in 1 .. Len(stated) : q <= Len(host) /\ host[q] = stated[q]
        /\ \A i \in 1 .. n, u \in 1 .. BLOCKSIZE :
             Place(i, u) <= Len(stated) => blocks[i][u] = stated[Place(i, u)]
        /\ n + 1 < Rounds => offset = (n + 1) * BLOCKSIZE
        /\ \A u \in 1 .. BLOCKSIZE :
             Place(n + 1, u) <= Len(stated) => buffer[u] = stated[Place(n + 1, u)]
    BY <1>1, <1>2 DEF GrownInv, n
  <2>2. \A i \in 1 .. n + 1, u \in 1 .. BLOCKSIZE :
          Place(i, u) <= Len(stated) => blocks'[i][u] = stated[Place(i, u)]
    BY <1>3, <1>5, <2>1
  <2> QED
    BY <1>6, <2>1, <2>2
<1> QED
  BY <1>7, <1>8, <1>9, <1>10 DEF CopyInv

\* cp gives up, or nothing happens.
LEMMA StopKeeps ==
  ASSUME CopyInv, Fails \/ UNCHANGED vars
  PROVE  CopyInv'
<1>1. CopyTypeOK /\ RoundsInv /\ OrderInv /\ GrownInv
  BY DEF CopyInv
<1>2. /\ UNCHANGED <<host, edits, shrunk, stated, offset, buffer, blocks>>
      /\ pc' \in {pc, "failed"}
  BY DEF Fails, vars
<1>3. CopyTypeOK'
  BY <1>1, <1>2 DEF CopyTypeOK
<1>4. RoundsInv' /\ OrderInv' /\ GrownInv'
  BY <1>1, <1>2 DEF RoundsInv, OrderInv, GrownInv, Rounds
<1> QED
  BY <1>3, <1>4 DEF CopyInv

\* So it always holds.
LEMMA CopyAlways == Spec => []CopyInv
<1>1. ASSUME CopyInv, [Next]_vars PROVE CopyInv'
  <2>1. CASE Grow \/ Shrink
    BY <1>1, <2>1, EditKeeps
  <2>2. CASE stat
    BY <1>1, <2>2, StatKeeps
  <2>3. CASE open
    BY <1>1, <2>3, OpenKeeps
  <2>4. CASE read
    BY <1>1, <2>4, ReadKeeps
  <2>5. CASE write
    BY <1>1, <2>5, WriteKeeps
  <2>6. CASE Fails \/ UNCHANGED vars
    BY <1>1, <2>6, StopKeeps
  <2> QED
    BY <1>1, <2>1, <2>2, <2>3, <2>4, <2>5, <2>6 DEF Next
<1> QED
  BY <1>1, CopyStarts, PTL DEF Spec

-----------------------------------------------------------------------------
(* The copy.                                                               *)

\* The place of unit u of block i; every place of the copy is one.
LEMMA PlaceOf ==
  ASSUME CopyTypeOK, NEW q \in DOMAIN Contents
  PROVE  \E i \in 1 .. Len(blocks), u \in 1 .. BLOCKSIZE :
           q = Place(i, u) /\ Contents[q] = blocks[i][u]
<1> DEFINE i == (q - 1) \div BLOCKSIZE
           u == (q - 1) % BLOCKSIZE
<1>1. /\ BLOCKSIZE \in Nat \ {0} /\ Len(blocks) \in Nat /\ Len(blocks) * BLOCKSIZE \in Nat
      /\ q \in 1 .. Len(blocks) * BLOCKSIZE /\ q - 1 \in Nat
  BY CopyAssumption DEF CopyTypeOK, Contents
<1>2. i \in Nat /\ u \in 0 .. BLOCKSIZE - 1 /\ q - 1 = BLOCKSIZE * i + u
  BY <1>1, Dividing
<1>3. Contents[q] = blocks[i + 1][u + 1]
  BY <1>1 DEF Contents
<1> HIDE DEF i, u
<1>4. i + 1 <= Len(blocks)
  <2> SUFFICES ASSUME Len(blocks) <= i PROVE FALSE
    BY <1>1, <1>2
  <2>1. Len(blocks) * BLOCKSIZE <= i * BLOCKSIZE /\ i * BLOCKSIZE \in Nat
    BY <1>1, <1>2, TimesMonotone
  <2>2. i * BLOCKSIZE = BLOCKSIZE * i
    BY <1>1, <1>2
  <2> QED
    BY <1>1, <1>2, <2>1, <2>2
<1>5. q = Place(i + 1, u + 1)
  <2>1. (i + 1 - 1) * BLOCKSIZE = BLOCKSIZE * i /\ BLOCKSIZE * i \in Nat
    BY <1>1, <1>2
  <2> QED
    BY <1>1, <1>2, <2>1 DEF Place
<1> QED
  BY <1>1, <1>2, <1>3, <1>4, <1>5

\* Places are in the order of blocks and units.
LEMMA PlacesInOrder ==
  ASSUME NEW i \in Nat \ {0}, NEW j \in Nat \ {0}, NEW u \in 1 .. BLOCKSIZE, NEW v \in 1 .. BLOCKSIZE,
         Place(i, u) < Place(j, v)
  PROVE  i < j \/ (i = j /\ u < v)
<1>1. BLOCKSIZE \in Nat \ {0} /\ i - 1 \in Nat /\ j - 1 \in Nat
  BY CopyAssumption
<1>2. (i - 1) * BLOCKSIZE \in Nat /\ (j - 1) * BLOCKSIZE \in Nat
  BY <1>1
<1>3. ASSUME j < i PROVE FALSE
  <2>1. j * BLOCKSIZE <= (i - 1) * BLOCKSIZE
    BY <1>1, <1>3, TimesMonotone
  <2>2. j * BLOCKSIZE = (j - 1) * BLOCKSIZE + BLOCKSIZE
    BY <1>1
  <2> QED
    BY <1>1, <1>2, <2>1, <2>2 DEF Place
<1>4. ASSUME i = j, ~ (u < v) PROVE FALSE
  BY <1>1, <1>2, <1>4 DEF Place
<1> QED
  BY <1>3, <1>4

\* What the target's blocks hold is a sequence of units, a block's worth for each.
LEMMA ContentsTyped ==
  ASSUME CopyTypeOK
  PROVE  Contents \in Seq(Units) /\ Len(Contents) = Len(blocks) * BLOCKSIZE
<1> DEFINE n == Len(blocks) * BLOCKSIZE
<1>1. n \in Nat /\ DOMAIN Contents = 1 .. n
  BY CopyAssumption DEF CopyTypeOK, Contents
<1>2. \A q \in 1 .. n : Contents[q] \in Units
  <2> TAKE q \in 1 .. n
  <2>1. PICK i \in 1 .. Len(blocks), u \in 1 .. BLOCKSIZE : Contents[q] = blocks[i][u]
    BY <1>1, PlaceOf
  <2>2. blocks[i] \in [1 .. BLOCKSIZE -> Units]
    BY DEF CopyTypeOK
  <2> QED
    BY <2>1, <2>2
<1>3. Contents = [q \in 1 .. n |-> Contents[q]]
  BY <1>1 DEF Contents
<1> HIDE DEF n
<1>4. Contents \in [1 .. n -> Units]
  BY <1>2, <1>3
<1>5. Contents \in Seq(Units) /\ Len(Contents) = n
  BY <1>1, <1>4
<1> QED
  BY <1>5 DEF n

-----------------------------------------------------------------------------
(* The theorems.                                                           *)

\* cp never runs past the addresses of an inode, whatever happens to the host file
\* (cp.c:117, 195).
THEOREM CopyIsTyped == Spec => []CopyTypeOK
<1>1. CopyInv => CopyTypeOK
  BY DEF CopyInv
<1> QED
  BY <1>1, CopyAlways, PTL

\* The size that cp records from its stat and the blocks that its loop maps agree,
\* whatever happens to the host file (cp.c:195, 224).
THEOREM SizeAlwaysMatches == Spec => []SizeMatchesBlocks
<1>1. ASSUME CopyInv PROVE SizeMatchesBlocks
  <2>1. CopyTypeOK /\ RoundsInv
    BY <1>1 DEF CopyInv
  <2> QED
    BY <2>1, RoundsCover, ContentsTyped DEF RoundsInv, SizeMatchesBlocks
<1> QED
  BY <1>1, CopyAlways, PTL

\* No unit of the host file is copied twice or out of order, however short the reads
\* (cp.c:197).
THEOREM UnitsStayInOrder == Spec => []UnitsOnceInOrder
<1>1. ASSUME CopyInv PROVE UnitsOnceInOrder
  <2>1. CopyTypeOK /\ OrderInv
    BY <1>1 DEF CopyInv
  <2> SUFFICES ASSUME NEW q \in DOMAIN Contents, NEW r \in DOMAIN Contents, q < r,
                      Contents[q] # Nothing, Contents[r] # Nothing
               PROVE  Contents[q].at < Contents[r].at
    BY DEF UnitsOnceInOrder
  <2>2. PICK i \in 1 .. Len(blocks), u \in 1 .. BLOCKSIZE :
          q = Place(i, u) /\ Contents[q] = blocks[i][u]
    BY <2>1, PlaceOf
  <2>3. PICK j \in 1 .. Len(blocks), v \in 1 .. BLOCKSIZE :
          r = Place(j, v) /\ Contents[r] = blocks[j][v]
    BY <2>1, PlaceOf
  <2>4. i \in Nat \ {0} /\ j \in Nat \ {0}
    BY <2>1 DEF CopyTypeOK
  <2>5. i < j \/ (i = j /\ u < v)
    BY <2>2, <2>3, <2>4, PlacesInOrder
  <2>6. Ordered(blocks[i][u], blocks[j][v])
    BY <2>1, <2>5 DEF OrderInv
  <2> QED
    BY <2>2, <2>3, <2>6 DEF Ordered
<1> QED
  BY <1>1, CopyAlways, PTL

\* A host file that is not cut while cp reads it is copied as it was when cp looked
\* at its size (cp.c:100-225).
THEOREM GrowingFileIsCopied == Spec => []GrowingFileCopiedAsStated
<1>1. ASSUME CopyInv PROVE GrowingFileCopiedAsStated
  <2>1. CopyTypeOK /\ RoundsInv /\ GrownInv
    BY <1>1 DEF CopyInv
  <2> SUFFICES ASSUME pc = "done", ~shrunk PROVE Copy = stated
    BY DEF GrowingFileCopiedAsStated
  <2> DEFINE n == Len(stated)
  <2>2. /\ Contents \in Seq(Units) /\ stated \in Seq(Units) /\ n \in Nat
        /\ Len(Contents) \in Nat /\ n <= Len(Contents)
    BY <2>1, ContentsTyped, RoundsCover DEF RoundsInv, CopyTypeOK
  <2>3. \A i \in 1 .. Len(blocks), u \in 1 .. BLOCKSIZE :
          Place(i, u) <= n => blocks[i][u] = stated[Place(i, u)]
    BY <2>1 DEF GrownInv
  <2>4. \A q \in 1 .. n : Contents[q] \in Units /\ Contents[q] = stated[q]
    <3> TAKE q \in 1 .. n
    <3>1. q \in DOMAIN Contents /\ Contents[q] \in Units /\ q <= n
      BY <2>2
    <3>2. PICK i \in 1 .. Len(blocks), u \in 1 .. BLOCKSIZE :
            q = Place(i, u) /\ Contents[q] = blocks[i][u]
      BY <2>1, <3>1, PlaceOf
    <3> QED
      BY <2>3, <3>1, <3>2
  <2>5. Copy = SubSeq(Contents, 1, n)
    BY DEF Copy
  <2> HIDE DEF n
  <2>6. /\ Copy \in Seq(Units) /\ Len(Copy) = n
        /\ \A q \in 1 .. n : Copy[q] = Contents[q]
    <3>1. /\ SubSeq(Contents, 1, n) \in Seq(Units)
          /\ Len(SubSeq(Contents, 1, n)) = IF 1 <= n THEN n - 1 + 1 ELSE 0
          /\ \A q \in 1 .. n - 1 + 1 : SubSeq(Contents, 1, n)[q] = Contents[1 + q - 1]
      BY <2>2, <2>4, SubSeqProperties
    <3>2. \A q \in 1 .. n : 1 + q - 1 = q
      BY <2>2
    <3> QED
      BY <2>2, <2>5, <3>1, <3>2
  <2>7. Len(Copy) = Len(stated) /\ \A q \in 1 .. Len(Copy) : Copy[q] = stated[q]
    BY <2>4, <2>6 DEF n
  <2> QED
    BY <2>2, <2>6, <2>7, SeqEqual
<1> QED
  BY <1>1, CopyAlways, PTL
=============================================================================
