--------------------------- MODULE DocumentProofs ---------------------------
(***************************************************************************)
(* Theorems about Document, for every limit and bound.                     *)
(***************************************************************************)
EXTENDS Document, SequenceTheorems, FiniteSetTheorems, FunctionTheorems, TLAPS

Point == [row : Nat, col : Nat]

(* What one edit is: a node of the text and what is put in its place.      *)
NodeOf(s) == {n \in [start : 0 .. Len(s), end : 0 .. Len(s)] : n.start <= n.end}

-----------------------------------------------------------------------------
(* Texts.                                                                  *)

LEMMA TextsAreSequences ==
  ASSUME NEW n \in Nat, NEW s \in Texts(n)
  PROVE  s \in Seq(Byte)
<1>1. PICK k \in 0 .. n : s \in [1 .. k -> Byte]  BY DEF Texts
<1> QED  BY <1>1, SeqDef

(* The middle of three sequences in a row.                                 *)
LEMMA Middle ==
  ASSUME NEW S, NEW a \in Seq(S), NEW b \in Seq(S), NEW c \in Seq(S), NEW t,
         t = a \o b \o c
  PROVE  /\ t \in Seq(S)
         /\ Len(t) = Len(a) + Len(b) + Len(c)
         /\ SubSeq(t, Len(a) + 1, Len(a) + Len(b)) = b
<1> DEFINE ab == a \o b
<1>0. Len(a) \in Nat /\ Len(b) \in Nat /\ Len(c) \in Nat  BY LenProperties
<1>1. /\ ab \in Seq(S) /\ Len(ab) = Len(a) + Len(b)
      /\ \A i \in 1 .. Len(a) + Len(b) : ab[i] = IF i <= Len(a) THEN a[i] ELSE b[i - Len(a)]
  BY ConcatProperties
<1>2. t = ab \o c  OBVIOUS
<1> HIDE DEF ab
<1>3. /\ ab \o c \in Seq(S) /\ Len(ab \o c) = Len(ab) + Len(c)
      /\ \A i \in 1 .. Len(ab) + Len(c) :
           (ab \o c)[i] = IF i <= Len(ab) THEN ab[i] ELSE c[i - Len(ab)]
  BY <1>1, ConcatProperties
<1> DEFINE m == SubSeq(t, Len(a) + 1, Len(a) + Len(b))
<1>4. \A i \in 1 .. Len(b) : t[Len(a) + i] = b[i]
  <2> SUFFICES ASSUME NEW i \in 1 .. Len(b) PROVE t[Len(a) + i] = b[i]  OBVIOUS
  <2>1. /\ Len(a) + i \in 1 .. Len(a) + Len(b)
        /\ Len(a) + i \in 1 .. Len(ab) + Len(c)
        /\ ~(Len(a) + i <= Len(a)) /\ Len(a) + i <= Len(ab)
        /\ Len(a) + i - Len(a) = i
    BY <1>0, <1>1
  <2>2. t[Len(a) + i] = ab[Len(a) + i]  BY <1>2, <1>3, <2>1
  <2>3. ab[Len(a) + i] = b[Len(a) + i - Len(a)]  BY <1>1, <2>1
  <2> QED  BY <2>1, <2>2, <2>3
<1>5. \A j \in Len(a) + 1 .. Len(a) + Len(b) : t[j] \in S
  <2>1. \A j \in 1 .. Len(t) : t[j] \in S  BY <1>2, <1>3, ElementOfSeq
  <2>2. Len(t) = Len(a) + Len(b) + Len(c)  BY <1>1, <1>2, <1>3
  <2> QED  BY <1>0, <2>1, <2>2
<1>6. /\ m \in Seq(S)
      /\ Len(m) = IF Len(a) + 1 <= Len(a) + Len(b) THEN Len(a) + Len(b) - (Len(a) + 1) + 1 ELSE 0
      /\ \A i \in 1 .. Len(a) + Len(b) - (Len(a) + 1) + 1 : m[i] = t[Len(a) + 1 + i - 1]
  <2>1. Len(a) + 1 \in Int /\ Len(a) + Len(b) \in Int  BY <1>0
  <2> QED  BY <1>5, <2>1, SubSeqProperties
<1> HIDE DEF m
<1>7. Len(m) = Len(b)  BY <1>0, <1>6
<1>8. \A i \in 1 .. Len(m) : m[i] = b[i]
  <2> SUFFICES ASSUME NEW i \in 1 .. Len(b) PROVE m[i] = b[i]  BY <1>7
  <2>1. i \in 1 .. Len(a) + Len(b) - (Len(a) + 1) + 1 /\ Len(a) + 1 + i - 1 = Len(a) + i
    BY <1>0
  <2> QED  BY <1>4, <1>6, <2>1
<1>9. m = b  BY <1>6, <1>7, <1>8, SeqEqual
<1> QED  BY <1>1, <1>2, <1>3, <1>9 DEF m

(* The middle of a spliced text is the replacement, and its length is what *)
(* Fits computes.                                                          *)
LEMMA SpliceProperties ==
  ASSUME NEW s \in Seq(Byte), NEW node \in NodeOf(s), NEW new \in Seq(Byte), NEW t,
         t = Splice(s, node, new)
  PROVE  /\ t \in Seq(Byte)
         /\ Len(t) = Len(s) - (node.end - node.start) + Len(new)
         /\ SubSeq(t, node.start + 1, node.start + Len(new)) = new
<1> DEFINE a == SubSeq(s, 1, node.start)
           c == SubSeq(s, node.end + 1, Len(s))
<1>0. /\ node.start \in Nat /\ node.end \in Nat
      /\ node.start <= node.end /\ node.end <= Len(s)
      /\ Len(s) \in Nat /\ Len(new) \in Nat
  BY LenProperties DEF NodeOf
<1>1. a \in Seq(Byte) /\ Len(a) = node.start
  <2>1. \A i \in 1 .. node.start : s[i] \in Byte  BY <1>0, ElementOfSeq
  <2> QED  BY <1>0, <2>1, SubSeqProperties
<1>2. c \in Seq(Byte) /\ Len(c) = Len(s) - node.end
  <2>1. \A i \in node.end + 1 .. Len(s) : s[i] \in Byte  BY <1>0, ElementOfSeq
  <2>2. /\ c \in Seq(Byte)
        /\ Len(c) = IF node.end + 1 <= Len(s) THEN Len(s) - (node.end + 1) + 1 ELSE 0
    BY <1>0, <2>1, SubSeqProperties
  <2> QED  BY <1>0, <2>2
<1>3. t = a \o new \o c  BY DEF Splice
<1> HIDE DEF a, c
<1>4. /\ t \in Seq(Byte)
      /\ Len(t) = Len(a) + Len(new) + Len(c)
      /\ SubSeq(t, Len(a) + 1, Len(a) + Len(new)) = new
  <2> SUFFICES ASSUME NEW x \in Seq(Byte), NEW z \in Seq(Byte), t = x \o new \o z
               PROVE  /\ t \in Seq(Byte)
                      /\ Len(t) = Len(x) + Len(new) + Len(z)
                      /\ SubSeq(t, Len(x) + 1, Len(x) + Len(new)) = new
    BY <1>1, <1>2, <1>3
  <2> QED  BY Middle
<1>5. Len(t) = Len(s) - (node.end - node.start) + Len(new)  BY <1>0, <1>1, <1>2, <1>4
<1> QED  BY <1>1, <1>4, <1>5

(* Incremental parsing of a spliced text yields the tree of that text.     *)
LEMMA ReparseIsSplice ==
  ASSUME NEW s \in Seq(Byte), NEW node \in NodeOf(s), NEW new \in Seq(Byte),
         NEW edit, edit.start = node.start, edit.oldEnd = node.end,
         edit.newEnd = node.start + Len(new)
  PROVE  Reparse(s, Splice(s, node, new), edit) = Splice(s, node, new)
<1> DEFINE t == Splice(s, node, new)
<1>0. /\ node.start \in Nat /\ node.end \in Nat
      /\ node.start <= node.end /\ node.end <= Len(s)
      /\ Len(s) \in Nat /\ Len(new) \in Nat
  BY LenProperties DEF NodeOf
<1>1. /\ Len(t) = Len(s) - (node.end - node.start) + Len(new)
      /\ SubSeq(t, node.start + 1, node.start + Len(new)) = new
  BY SpliceProperties
<1>2. edit.newEnd <= Len(t)
  <2> HIDE DEF t
  <2> QED  BY <1>0, <1>1
<1>3. Reparse(s, t, edit) =
        SubSeq(s, 1, node.start)
          \o SubSeq(t, node.start + 1, node.start + Len(new))
          \o SubSeq(s, node.end + 1, Len(s))
  BY <1>2 DEF Reparse
<1> QED  BY <1>1, <1>3 DEF Splice

-----------------------------------------------------------------------------
(* Points.                                                                 *)

LEMMA MeasureType ==
  ASSUME NEW s \in Seq(Byte)
  PROVE  MeasureFragment(s) \in Point
<1>1. IsFiniteSet(1 .. Len(s))  BY LenProperties, FS_Interval
<1>2. Breaks(s) \in SUBSET (1 .. Len(s)) /\ LastLine(s) \in SUBSET (1 .. Len(s))
  BY DEF Breaks, LastLine
<1>3. IsFiniteSet(Breaks(s)) /\ IsFiniteSet(LastLine(s))  BY <1>1, <1>2, FS_Subset
<1>4. Cardinality(Breaks(s)) \in Nat /\ Cardinality(LastLine(s)) \in Nat
  BY <1>3, FS_CardinalityType
<1> QED  BY <1>4 DEF MeasureFragment, Point

LEMMA PointType ==
  ASSUME NEW s \in Seq(Byte), NEW k \in 0 .. Len(s)
  PROVE  PointAt(s, k) \in Point
<1>1. \A i \in 1 .. k : s[i] \in Byte  BY LenProperties, ElementOfSeq
<1>2. SubSeq(s, 1, k) \in Seq(Byte)  BY <1>1, SubSeqProperties
<1> QED  BY <1>2, MeasureType DEF PointAt

(* The new end of an edit is never before its old end.                     *)
GoesForward(edit) ==
  /\ edit.oldEndPoint \in Point /\ edit.newEndPoint \in Point
  /\ Precedes(edit.oldEndPoint, edit.newEndPoint)

LEMMA EditGoesForward ==
  ASSUME tree \in Seq(Byte), NEW node \in Nodes, NEW new \in Seq(Byte)
  PROVE  GoesForward(EditForNodeReplacement(node, new))
<1>1. node.end \in 0 .. Len(tree)  BY DEF Nodes
<1>2. PointAt(tree, node.end) \in Point  BY <1>1, PointType
<1>3. MeasureFragment(new) \in Point  BY MeasureType
<1> HIDE DEF Point
<1> DEFINE p == PointAt(tree, node.end)
           d == MeasureFragment(new)
<1>4. p.row \in Nat /\ p.col \in Nat /\ d.row \in Nat /\ d.col \in Nat
  BY <1>2, <1>3 DEF Point
<1> DEFINE n == [row |-> p.row + d.row, col |-> IF d.row = 0 THEN p.col + d.col ELSE d.col]
<1>5. /\ EditForNodeReplacement(node, new).oldEndPoint = p
      /\ EditForNodeReplacement(node, new).newEndPoint = n
  BY DEF EditForNodeReplacement
<1> HIDE DEF p, d
<1>6. n \in Point /\ Precedes(p, n)  BY <1>4 DEF Point, Precedes
<1> QED  BY <1>2, <1>5, <1>6 DEF GoesForward, p

(* That is why calibration keeps the order of any two positions.           *)
LEMMA UpdateKeepsOrder ==
  ASSUME NEW edit, GoesForward(edit), NEW p \in Point, NEW q \in Point
  PROVE  /\ UpdatePosition(p, edit) \in Point
         /\ Precedes(p, q) => Precedes(UpdatePosition(p, edit), UpdatePosition(q, edit))
<1> DEFINE o == edit.oldEndPoint
           n == edit.newEndPoint
           dr == n.row - o.row
           dc == n.col - o.col
           sat(i) == IF i >= 0 THEN i ELSE 0
<1>1. /\ o.row \in Nat /\ o.col \in Nat /\ n.row \in Nat /\ n.col \in Nat
      /\ o.row < n.row \/ (o.row = n.row /\ o.col <= n.col)
  BY DEF GoesForward, Precedes, Point
<1>2. ASSUME NEW r \in Point
      PROVE  UpdatePosition(r, edit) =
               IF o.row < r.row \/ (o.row = r.row /\ o.col <= r.col)
               THEN [row |-> sat(r.row + dr), col |-> sat(r.col + dc)]
               ELSE r
  BY DEF UpdatePosition, IsAfterEdit, AdjustComponent, Precedes
<1>3. /\ p.row \in Nat /\ p.col \in Nat /\ q.row \in Nat /\ q.col \in Nat  BY DEF Point
<1>4. dr \in Nat /\ dc \in Int /\ (dr = 0 => dc \in Nat)  BY <1>1
<1>5. \A i \in Int : sat(i) \in Nat  OBVIOUS
<1>6. UpdatePosition(p, edit) \in Point  BY <1>2, <1>3, <1>4, <1>5 DEF Point
<1>7. ASSUME Precedes(p, q)
      PROVE  Precedes(UpdatePosition(p, edit), UpdatePosition(q, edit))
  <2> DEFINE after(r) == o.row < r.row \/ (o.row = r.row /\ o.col <= r.col)
  <2>1. CASE after(p)
    <3>1. after(q)  BY <1>1, <1>3, <1>7, <2>1 DEF Precedes
    <3>2. /\ UpdatePosition(p, edit) = [row |-> sat(p.row + dr), col |-> sat(p.col + dc)]
          /\ UpdatePosition(q, edit) = [row |-> sat(q.row + dr), col |-> sat(q.col + dc)]
      BY <1>2, <2>1, <3>1
    <3> HIDE DEF dr, dc
    <3> QED  BY <1>3, <1>4, <1>7, <3>2 DEF Precedes
  <2>2. CASE ~after(p) /\ after(q)
    <3>1. /\ UpdatePosition(p, edit) = p
          /\ UpdatePosition(q, edit) = [row |-> sat(q.row + dr), col |-> sat(q.col + dc)]
      BY <1>2, <2>2
    <3> HIDE DEF dr, dc
    <3> QED  BY <1>3, <1>4, <1>7, <3>1 DEF Precedes
  <2>3. CASE ~after(p) /\ ~after(q)
    BY <1>2, <1>7, <2>3
  <2> QED  BY <2>1, <2>2, <2>3
<1> QED  BY <1>6, <1>7

-----------------------------------------------------------------------------
(* Where a character is after an edit.  A text's measure is the sum, in    *)
(* the sense of Plus, of the measures of its parts; the new end of an edit *)
(* is such a sum, and so is the place of every character behind it.        *)

Plus(p, d) == [row |-> p.row + d.row, col |-> IF d.row = 0 THEN p.col + d.col ELSE d.col]

LEMMA Shifted ==
  ASSUME NEW n \in Nat, NEW m \in Nat, NEW T, T \subseteq 1 .. m
  PROVE  LET U == {n + i : i \in T} IN
         /\ IsFiniteSet(T) /\ IsFiniteSet(U) /\ Cardinality(U) = Cardinality(T)
         /\ Cardinality(T) \in Nat
         /\ \A R : R \subseteq 1 .. n => R \cap U = {}
<1> DEFINE U == {n + i : i \in T}
           f == [i \in T |-> n + i]
<1>1. IsFiniteSet(T) /\ Cardinality(T) \in Nat
  <2>1. IsFiniteSet(1 .. m)  BY FS_Interval
  <2>2. IsFiniteSet(T)  BY <2>1, FS_Subset
  <2> QED  BY <2>2, FS_CardinalityType
<1>2. \A i \in T : i \in Nat /\ i >= 1  OBVIOUS
<1>3. f \in [T -> U] /\ \A i, j \in T : f[i] = f[j] => i = j  BY <1>2
<1>4. \A u \in U : \E i \in T : f[i] = u  OBVIOUS
<1>5. ExistsBijection(T, U)
  <2> HIDE DEF f, U
  <2>1. f \in Bijection(T, U)  BY <1>3, <1>4, Fun_IsBij
  <2> QED  BY <2>1, Fun_ExistsBij
<1>6. IsFiniteSet(U) /\ Cardinality(U) = Cardinality(T)
  <2> HIDE DEF U
  <2> QED  BY <1>1, <1>5, FS_Bijection
<1>7. ASSUME NEW R, R \subseteq 1 .. n  PROVE R \cap U = {}
  <2>1. ASSUME NEW u \in U, u \in R  PROVE FALSE
    <3>1. PICK i \in T : u = n + i  BY <2>1
    <3>2. i \in Nat /\ i >= 1 /\ u \in 1 .. n  BY <1>2, <1>7, <2>1
    <3> QED  BY <3>1, <3>2
  <2> QED  BY <2>1
<1> QED  BY <1>1, <1>6, <1>7

(* A fragment without a line break is as wide as it is long.               *)
LEMMA MeasureOneLine ==
  ASSUME NEW s \in Seq(Byte)
  PROVE  /\ MeasureFragment(s).row = 0 <=> Breaks(s) = {}
         /\ MeasureFragment(s).row = 0 => MeasureFragment(s).col = Len(s)
         /\ s = <<>> => MeasureFragment(s) = [row |-> 0, col |-> 0]
<1>0. Len(s) \in Nat  BY LenProperties
<1>1. IsFiniteSet(1 .. Len(s)) /\ Cardinality(1 .. Len(s)) = Len(s)  BY <1>0, FS_Interval
<1>2. IsFiniteSet(Breaks(s))  BY <1>1, FS_Subset DEF Breaks
<1>3. Cardinality(Breaks(s)) = 0 <=> Breaks(s) = {}  BY <1>2, FS_EmptySet
<1>4. Breaks(s) = {} => LastLine(s) = 1 .. Len(s)
  <2>1. ASSUME Breaks(s) = {}, NEW i \in 1 .. Len(s), NEW j \in i .. Len(s)
        PROVE  s[j] # LineSep
    <3>1. j \in 1 .. Len(s)  BY <1>0
    <3> QED  BY <2>1, <3>1 DEF Breaks
  <2> QED  BY <2>1 DEF LastLine
<1>5. s = <<>> => Breaks(s) = {} /\ Len(s) = 0  BY DEF Breaks
<1> QED  BY <1>1, <1>3, <1>4, <1>5 DEF MeasureFragment

LEMMA MeasureConcat ==
  ASSUME NEW x \in Seq(Byte), NEW y \in Seq(Byte)
  PROVE  MeasureFragment(x \o y) = Plus(MeasureFragment(x), MeasureFragment(y))
<1> DEFINE z == x \o y
           m == Len(x)
           n == Len(y)
<1>1. /\ m \in Nat /\ n \in Nat /\ z \in Seq(Byte) /\ Len(z) = m + n
      /\ \A i \in 1 .. m : z[i] = x[i]
      /\ \A i \in 1 .. n : z[m + i] = y[i]
  <2>1. m \in Nat /\ n \in Nat  BY LenProperties
  <2>2. /\ z \in Seq(Byte) /\ Len(z) = m + n
        /\ \A i \in 1 .. m + n : z[i] = IF i <= m THEN x[i] ELSE y[i - m]
    BY ConcatProperties
  <2> HIDE DEF z, m, n
  <2>3. ASSUME NEW i \in 1 .. m  PROVE z[i] = x[i]
    <3>1. i \in 1 .. m + n /\ i <= m  BY <2>1
    <3> QED  BY <2>2, <3>1
  <2>4. ASSUME NEW i \in 1 .. n  PROVE z[m + i] = y[i]
    <3>1. PICK k \in 1 .. m + n : k = m + i  BY <2>1
    <3>2. ~(k <= m) /\ k - m = i  BY <2>1, <3>1
    <3> QED  BY <2>2, <3>1, <3>2
  <2> QED  BY <2>1, <2>2, <2>3, <2>4
<1> HIDE DEF z, m, n
<1>2. \A i \in 1 .. m + n : i \in 1 .. m \/ \E j \in 1 .. n : i = m + j
  <2>1. ASSUME NEW i \in 1 .. m + n, i \notin 1 .. m  PROVE \E j \in 1 .. n : i = m + j
    <3>1. i - m \in 1 .. n /\ i = m + (i - m)  BY <1>1, <2>1
    <3> QED  BY <3>1
  <2> QED  BY <2>1
<1>3. Breaks(x) \subseteq 1 .. m /\ LastLine(x) \subseteq 1 .. m
      /\ Breaks(y) \subseteq 1 .. n /\ LastLine(y) \subseteq 1 .. n
  BY DEF Breaks, LastLine, m, n
<1>4. Cardinality(Breaks(z)) = Cardinality(Breaks(x)) + Cardinality(Breaks(y))
  <2> DEFINE U == {m + i : i \in Breaks(y)}
  <2>1. Breaks(z) = Breaks(x) \cup U
    <3>1. ASSUME NEW i \in Breaks(z)  PROVE i \in Breaks(x) \cup U
      <4>1. i \in 1 .. m + n /\ z[i] = LineSep  BY <1>1 DEF Breaks
      <4>2. CASE i \in 1 .. m  BY <1>1, <4>1, <4>2 DEF Breaks, m
      <4>3. CASE \E j \in 1 .. n : i = m + j
        <5>1. PICK j \in 1 .. n : i = m + j  BY <4>3
        <5>2. j \in Breaks(y)  BY <1>1, <4>1, <5>1 DEF Breaks, n
        <5> QED  BY <5>1, <5>2
      <4> QED  BY <1>2, <4>1, <4>2, <4>3
    <3>2. ASSUME NEW i \in Breaks(x)  PROVE i \in Breaks(z)
      <4>1. i \in 1 .. m /\ x[i] = LineSep  BY DEF Breaks, m
      <4>2. i \in 1 .. m + n  BY <1>1, <4>1
      <4> QED  BY <1>1, <4>1, <4>2 DEF Breaks
    <3>3. ASSUME NEW j \in Breaks(y)  PROVE m + j \in Breaks(z)
      <4>1. j \in 1 .. n /\ y[j] = LineSep  BY DEF Breaks, n
      <4>2. m + j \in 1 .. m + n  BY <1>1, <4>1
      <4> QED  BY <1>1, <4>1, <4>2 DEF Breaks
    <3> QED  BY <3>1, <3>2, <3>3
  <2>2. /\ IsFiniteSet(U) /\ Cardinality(U) = Cardinality(Breaks(y))
        /\ Breaks(x) \cap U = {}
    BY <1>1, <1>3, Shifted
  <2>3. IsFiniteSet(Breaks(x)) /\ Cardinality(Breaks(x)) \in Nat
        /\ Cardinality(Breaks(y)) \in Nat
    BY <1>1, <1>3, Shifted
  <2> HIDE DEF U
  <2>4. Cardinality(Breaks(z)) =
          Cardinality(Breaks(x)) + Cardinality(U) - Cardinality(Breaks(x) \cap U)
    BY <2>1, <2>2, <2>3, FS_Union
  <2>5. Cardinality(Breaks(x) \cap U) = 0  BY <2>2, FS_EmptySet
  <2> QED  BY <2>2, <2>3, <2>4, <2>5
<1>5. CASE Breaks(y) = {}
  <2> DEFINE U == {m + i : i \in 1 .. n}
  <2>1. \A i \in 1 .. n : z[m + i] # LineSep  BY <1>1, <1>5 DEF Breaks, n
  <2>2. LastLine(z) = LastLine(x) \cup U
    <3>1. ASSUME NEW i \in LastLine(z)  PROVE i \in LastLine(x) \cup U
      <4>1. i \in 1 .. m + n /\ \A j \in i .. m + n : z[j] # LineSep  BY <1>1 DEF LastLine
      <4>2. CASE i \in 1 .. m
        <5>1. ASSUME NEW j \in i .. m  PROVE x[j] # LineSep
          <6>1. j \in 1 .. m /\ j \in i .. m + n  BY <1>1, <4>2
          <6> QED  BY <1>1, <4>1, <6>1
        <5> QED  BY <4>2, <5>1 DEF LastLine, m
      <4> QED  BY <1>2, <4>1, <4>2
    <3>2. ASSUME NEW i \in LastLine(x)  PROVE i \in LastLine(z)
      <4>1. i \in 1 .. m /\ \A j \in i .. m : x[j] # LineSep  BY DEF LastLine, m
      <4>2. ASSUME NEW j \in i .. m + n  PROVE z[j] # LineSep
        <5>1. j \in 1 .. m + n  BY <1>1, <4>1
        <5>2. CASE j \in 1 .. m
          <6>1. j \in i .. m  BY <4>1, <5>2
          <6> QED  BY <1>1, <4>1, <5>2, <6>1
        <5> QED  BY <1>2, <2>1, <5>1, <5>2
      <4>3. i \in 1 .. m + n  BY <1>1, <4>1
      <4> QED  BY <1>1, <4>2, <4>3 DEF LastLine
    <3>3. ASSUME NEW k \in 1 .. n  PROVE m + k \in LastLine(z)
      <4>1. m + k \in 1 .. m + n  BY <1>1
      <4>2. ASSUME NEW j \in m + k .. m + n  PROVE z[j] # LineSep
        <5>1. j - m \in 1 .. n /\ j = m + (j - m)  BY <1>1
        <5> QED  BY <2>1, <5>1
      <4> QED  BY <1>1, <4>1, <4>2 DEF LastLine
    <3> QED  BY <3>1, <3>2, <3>3
  <2>3. /\ IsFiniteSet(U) /\ Cardinality(U) = Cardinality(1 .. n)
        /\ LastLine(x) \cap U = {}
    BY <1>1, <1>3, Shifted
  <2>4. IsFiniteSet(LastLine(x)) /\ Cardinality(LastLine(x)) \in Nat  BY <1>1, <1>3, Shifted
  <2> HIDE DEF U
  <2>5. Cardinality(LastLine(z)) =
          Cardinality(LastLine(x)) + Cardinality(U) - Cardinality(LastLine(x) \cap U)
    BY <2>2, <2>3, <2>4, FS_Union
  <2>6. Cardinality(LastLine(x) \cap U) = 0  BY <2>3, FS_EmptySet
  <2>7. Cardinality(1 .. n) = n  BY <1>1, FS_Interval
  <2>8. Cardinality(LastLine(z)) = Cardinality(LastLine(x)) + n
    BY <1>1, <2>3, <2>4, <2>5, <2>6, <2>7
  <2>9. Cardinality(Breaks(y)) = 0 /\ Cardinality(LastLine(y)) = n
    BY <1>5, MeasureOneLine DEF MeasureFragment, n
  <2> QED  BY <1>4, <2>8, <2>9 DEF MeasureFragment, Plus, z
<1>6. CASE Breaks(y) # {}
  <2> DEFINE U == {m + i : i \in LastLine(y)}
  <2>0. PICK b \in Breaks(y) : TRUE  BY <1>6
  <2>1. b \in 1 .. n /\ z[m + b] = LineSep  BY <1>1 DEF Breaks, n
  <2>2. LastLine(z) = U
    <3>1. ASSUME NEW i \in LastLine(z)  PROVE i \in U
      <4>1. i \in 1 .. m + n /\ \A j \in i .. m + n : z[j] # LineSep  BY <1>1 DEF LastLine
      <4>2. i \notin 1 .. m
        <5>1. i \in 1 .. m => m + b \in i .. m + n  BY <1>1, <2>1
        <5> QED  BY <2>1, <4>1, <5>1
      <4>3. PICK k \in 1 .. n : i = m + k  BY <1>2, <4>1, <4>2
      <4>4. ASSUME NEW j \in k .. n  PROVE y[j] # LineSep
        <5>1. j \in 1 .. n /\ m + j \in i .. m + n  BY <1>1, <4>3
        <5> QED  BY <1>1, <4>1, <5>1
      <4>5. k \in LastLine(y)  BY <4>4 DEF LastLine, n
      <4> QED  BY <4>3, <4>5
    <3>2. ASSUME NEW k \in LastLine(y)  PROVE m + k \in LastLine(z)
      <4>1. k \in 1 .. n /\ \A j \in k .. n : y[j] # LineSep  BY DEF LastLine, n
      <4>2. ASSUME NEW j \in m + k .. m + n  PROVE z[j] # LineSep
        <5>1. j - m \in 1 .. n /\ j - m \in k .. n /\ j = m + (j - m)  BY <1>1, <4>1
        <5> QED  BY <1>1, <4>1, <5>1
      <4>3. m + k \in 1 .. m + n  BY <1>1, <4>1
      <4> QED  BY <1>1, <4>2, <4>3 DEF LastLine
    <3> QED  BY <3>1, <3>2
  <2>3. Cardinality(U) = Cardinality(LastLine(y))  BY <1>1, <1>3, Shifted
  <2>4. Cardinality(Breaks(y)) # 0  BY <1>6, MeasureOneLine DEF MeasureFragment
  <2> HIDE DEF U
  <2> QED  BY <1>4, <2>2, <2>3, <2>4 DEF MeasureFragment, Plus, z
<1> QED  BY <1>5, <1>6

(* The place of a character is that of an earlier one and the measure of   *)
(* what lies between; so places are in the order of the characters.        *)
LEMMA Between ==
  ASSUME NEW s \in Seq(Byte), NEW j \in 0 .. Len(s), NEW k \in j .. Len(s)
  PROVE  LET d == SubSeq(s, j + 1, k) IN
         /\ d \in Seq(Byte) /\ Len(d) = k - j
         /\ PointAt(s, k) = Plus(PointAt(s, j), MeasureFragment(d))
         /\ Precedes(PointAt(s, j), PointAt(s, k))
         /\ j < k => ~Precedes(PointAt(s, k), PointAt(s, j))
<1> DEFINE d == SubSeq(s, j + 1, k)
           u == SubSeq(s, 1, j)
<1>0. Len(s) \in Nat /\ j \in Nat /\ k \in Nat /\ j <= k /\ k <= Len(s)  BY LenProperties
<1>1. d \in Seq(Byte) /\ Len(d) = k - j
  <2>1. \A i \in j + 1 .. k : s[i] \in Byte  BY <1>0, ElementOfSeq
  <2>2. d \in Seq(Byte) /\ Len(d) = IF j + 1 <= k THEN k - (j + 1) + 1 ELSE 0
    BY <1>0, <2>1, SubSeqProperties
  <2> QED  BY <1>0, <2>2
<1>2. u \in Seq(Byte)
  <2>1. \A i \in 1 .. j : s[i] \in Byte  BY <1>0, ElementOfSeq
  <2> QED  BY <1>0, <2>1, SubSeqProperties
<1>3. u \o d = SubSeq(s, 1, k)
  <2>1. 1 \in 1 .. Len(s) + 1 /\ j \in 1 - 1 .. Len(s)  BY <1>0
  <2> QED  BY <2>1, ConcatAdjacentSubSeq
<1>4. PointAt(s, k) = Plus(PointAt(s, j), MeasureFragment(d))
  <2> HIDE DEF d
  <2>1. MeasureFragment(u \o d) = Plus(MeasureFragment(u), MeasureFragment(d))
    BY <1>1, <1>2, MeasureConcat
  <2> QED  BY <1>3, <2>1 DEF PointAt
<1>5. PointAt(s, j) \in Point /\ MeasureFragment(d) \in Point
      /\ (MeasureFragment(d).row = 0 => MeasureFragment(d).col = k - j)
  BY <1>1, PointType, MeasureType, MeasureOneLine
<1> HIDE DEF d
<1>6. ASSUME NEW p \in Point, NEW e \in Point, e.row = 0 => e.col = k - j
      PROVE  /\ Precedes(p, Plus(p, e))
             /\ j < k => ~Precedes(Plus(p, e), p)
  <2>1. p.row \in Nat /\ p.col \in Nat /\ e.row \in Nat /\ e.col \in Nat  BY DEF Point
  <2> QED  BY <1>0, <1>6, <2>1 DEF Precedes, Plus
<1> QED  BY <1>1, <1>4, <1>5, <1>6 DEF d

LEMMA Associative ==
  \A u, v, w \in Seq(Byte) : (u \o v) \o w = u \o (v \o w)
<1> DEFINE S == Byte
<1> HIDE DEF S
<1>1. \A u, v, w \in Seq(S) : (u \o v) \o w = u \o (v \o w)  BY ConcatAssociative
<1> QED  BY <1>1 DEF S

(* In a spliced text the places up to the node are as before, and behind   *)
(* it the replacement is measured instead of the node.                     *)
LEMMA SplicedPoint ==
  ASSUME NEW s \in Seq(Byte), NEW node \in NodeOf(s), NEW new \in Seq(Byte), NEW t,
         t = Splice(s, node, new)
  PROVE  /\ \A k \in 0 .. node.start : PointAt(t, k) = PointAt(s, k)
         /\ \A k \in node.end .. Len(s) :
              PointAt(t, k + Len(new) - (node.end - node.start)) =
                Plus(Plus(PointAt(s, node.start), MeasureFragment(new)),
                     MeasureFragment(SubSeq(s, node.end + 1, k)))
<1> DEFINE a == SubSeq(s, 1, node.start)
           c == SubSeq(s, node.end + 1, Len(s))
<1>0. /\ node.start \in Nat /\ node.end \in Nat
      /\ node.start <= node.end /\ node.end <= Len(s)
      /\ Len(s) \in Nat /\ Len(new) \in Nat
  BY LenProperties DEF NodeOf
<1>1. a \in Seq(Byte) /\ Len(a) = node.start
  <2>1. \A i \in 1 .. node.start : s[i] \in Byte  BY <1>0, ElementOfSeq
  <2> QED  BY <1>0, <2>1, SubSeqProperties
<1>2. c \in Seq(Byte)
  <2>1. \A i \in node.end + 1 .. Len(s) : s[i] \in Byte  BY <1>0, ElementOfSeq
  <2> QED  BY <1>0, <2>1, SubSeqProperties
<1>3. t = (a \o new) \o c  BY DEF Splice
<1> HIDE DEF a, c
<1>4. ASSUME NEW x \in Seq(Byte), NEW y \in Seq(Byte), t = x \o y
      PROVE  /\ SubSeq(t, 1, Len(x)) = x
             /\ \A k \in 1 .. Len(x) : t[k] = x[k]
             /\ t \in Seq(Byte) /\ Len(t) >= Len(x)
  <2>0. <<>> \in Seq(Byte) /\ Len(<<>>) = 0 /\ <<>> \o x = x /\ Len(x) \in Nat /\ Len(y) \in Nat
    BY EmptySeq, ConcatEmptySeq, LenProperties
  <2>1. t = <<>> \o x \o y  BY <1>4, <2>0
  <2>2. /\ t \in Seq(Byte) /\ Len(t) = Len(<<>>) + Len(x) + Len(y)
        /\ SubSeq(t, Len(<<>>) + 1, Len(<<>>) + Len(x)) = x
    BY <2>0, <2>1, Middle
  <2>3. Len(<<>>) + 1 = 1 /\ Len(<<>>) + Len(x) = Len(x)  BY <2>0
  <2>4. SubSeq(t, 1, Len(x)) = x  BY <2>2, <2>3
  <2>5. ASSUME NEW k \in 1 .. Len(x)  PROVE t[k] = x[k]
    <3>1. /\ \A i \in 1 .. Len(x) + Len(y) :
               (x \o y)[i] = IF i <= Len(x) THEN x[i] ELSE y[i - Len(x)]
      BY ConcatProperties
    <3>2. k \in 1 .. Len(x) + Len(y) /\ k <= Len(x)  BY <2>0
    <3> QED  BY <1>4, <3>1, <3>2
  <2>6. Len(t) >= Len(x)  BY <2>0, <2>2
  <2> QED  BY <2>2, <2>4, <2>5, <2>6
<1>5. ASSUME NEW k \in 0 .. node.start  PROVE PointAt(t, k) = PointAt(s, k)
  <2>1. a \o new \in Seq(Byte) /\ new \o c \in Seq(Byte)  BY <1>1, <1>2, ConcatProperties
  <2>2. t = a \o (new \o c)  BY <1>1, <1>2, <1>3, ConcatAssociative
  <2>3. t \in Seq(Byte) /\ Len(t) >= Len(a) /\ \A i \in 1 .. Len(a) : t[i] = a[i]
    BY <1>1, <1>4, <2>1, <2>2
  <2>4. \A i \in 1 .. node.start : a[i] = s[i]
    <3>1. \A i \in 1 .. node.start : s[i] \in Byte  BY <1>0, ElementOfSeq
    <3>2. \A i \in 1 .. node.start - 1 + 1 : SubSeq(s, 1, node.start)[i] = s[1 + i - 1]
      BY <1>0, <3>1, SubSeqProperties
    <3> QED  BY <1>0, <3>2 DEF a
  <2>5. ASSUME NEW i \in 1 .. k  PROVE t[i] = s[i]
    <3>1. i \in 1 .. node.start /\ i \in 1 .. Len(a)  BY <1>0, <1>1
    <3>2. t[i] = a[i]  BY <2>3, <3>1
    <3>3. a[i] = s[i]  BY <2>4, <3>1
    <3> QED  BY <3>2, <3>3
  <2>6. \A i \in 1 .. k : t[i] \in Byte /\ s[i] \in Byte
    <3>1. \A i \in 1 .. k : s[i] \in Byte  BY <1>0, ElementOfSeq
    <3> QED  BY <2>5, <3>1
  <2>7. /\ SubSeq(t, 1, k) \in Seq(Byte) /\ SubSeq(s, 1, k) \in Seq(Byte)
        /\ Len(SubSeq(t, 1, k)) = k /\ Len(SubSeq(s, 1, k)) = k
        /\ \A i \in 1 .. k - 1 + 1 : SubSeq(t, 1, k)[i] = t[1 + i - 1]
        /\ \A i \in 1 .. k - 1 + 1 : SubSeq(s, 1, k)[i] = s[1 + i - 1]
    BY <1>0, <2>6, SubSeqProperties
  <2>8. \A i \in 1 .. k : SubSeq(t, 1, k)[i] = SubSeq(s, 1, k)[i]
    <3>1. k \in Nat  BY <1>0
    <3> QED  BY <2>5, <2>7, <3>1
  <2>9. SubSeq(t, 1, k) = SubSeq(s, 1, k)  BY <2>7, <2>8, SeqEqual
  <2> QED  BY <2>9 DEF PointAt
<1>6. ASSUME NEW k \in node.end .. Len(s)
      PROVE  PointAt(t, k + Len(new) - (node.end - node.start)) =
               Plus(Plus(PointAt(s, node.start), MeasureFragment(new)),
                    MeasureFragment(SubSeq(s, node.end + 1, k)))
  <2> DEFINE f == SubSeq(s, node.end + 1, k)
             g == SubSeq(s, k + 1, Len(s))
  <2>1. f \in Seq(Byte) /\ Len(f) = k - node.end
    <3>1. node.end \in 0 .. Len(s)  BY <1>0
    <3> QED  BY <3>1, Between
  <2>2. g \in Seq(Byte)
    <3>1. \A i \in k + 1 .. Len(s) : s[i] \in Byte  BY <1>0, ElementOfSeq
    <3> QED  BY <1>0, <3>1, SubSeqProperties
  <2>3. c = f \o g
    <3>1. /\ node.end + 1 \in 1 .. Len(s) + 1 /\ k \in (node.end + 1) - 1 .. Len(s)
          /\ Len(s) \in k .. Len(s)
      BY <1>0
    <3> QED  BY <3>1, ConcatAdjacentSubSeq DEF c
  <2> HIDE DEF f, g
  <2> DEFINE b == a \o new
             x == b \o f
  <2>4. b \in Seq(Byte) /\ Len(b) = node.start + Len(new)
    <3>1. b \in Seq(Byte) /\ Len(b) = Len(a) + Len(new)  BY <1>1, ConcatProperties
    <3> QED  BY <1>1, <3>1
  <2>5. t = b \o (f \o g)  BY <1>3, <2>3
  <2>6. MeasureFragment(b) = Plus(MeasureFragment(a), MeasureFragment(new))
    BY <1>1, MeasureConcat
  <2> HIDE DEF b
  <2>7. x \in Seq(Byte) /\ Len(x) = node.start + Len(new) + (k - node.end)
    <3>1. x \in Seq(Byte) /\ Len(x) = Len(b) + Len(f)  BY <2>1, <2>4, ConcatProperties
    <3> QED  BY <1>0, <2>1, <2>4, <3>1
  <2>8. t = x \o g
    <3>1. b \in Seq(Byte) /\ f \in Seq(Byte) /\ g \in Seq(Byte)  BY <2>1, <2>2, <2>4
    <3>2. (b \o f) \o g = b \o (f \o g)  BY <3>1, Associative
    <3> QED  BY <2>5, <3>2
  <2>9. MeasureFragment(x) = Plus(MeasureFragment(b), MeasureFragment(f))
    BY <2>1, <2>4, MeasureConcat
  <2> HIDE DEF x
  <2>10. SubSeq(t, 1, Len(x)) = x  BY <1>4, <2>2, <2>7, <2>8
  <2>11. k + Len(new) - (node.end - node.start) = Len(x)  BY <1>0, <2>7
  <2>12. PointAt(t, k + Len(new) - (node.end - node.start)) = MeasureFragment(x)
    BY <2>10, <2>11 DEF PointAt
  <2> QED  BY <2>6, <2>9, <2>12 DEF PointAt, a, f
<1> QED  BY <1>5, <1>6

(* Moving by the difference of the ends of the edit is exact where         *)
(* PositionsFollow says so.                                                *)
LEMMA EditMoves ==
  ASSUME TypeOK, TreeFresh, NEW node \in Nodes, NEW new \in Seq(Byte),
         text' = Splice(text, node, new), NEW p
  PROVE  NamesSame(p, UpdatePosition(p, EditForNodeReplacement(node, new)), node, new)
<1> DEFINE edit == EditForNodeReplacement(node, new)
           q    == UpdatePosition(p, edit)
           A    == PointAt(text, node.start)
           B    == PointAt(text, node.end)
           R    == MeasureFragment(new)
<1>0. /\ text \in Seq(Byte) /\ tree = text /\ node \in NodeOf(text)
      /\ node.start \in 0 .. Len(text) /\ node.end \in node.start .. Len(text)
      /\ node.end \in 0 .. Len(text) /\ Len(text) \in Nat /\ Len(new) \in Nat
      /\ node.start \in Nat /\ node.end \in Nat
  BY LenProperties DEF TypeOK, TreeFresh, Nodes, NodeOf
<1>1. A \in Point /\ B \in Point /\ R \in Point  BY <1>0, PointType, MeasureType
<1>2. edit.oldEndPoint = B /\ edit.newEndPoint = Plus(B, R)
  BY <1>0 DEF EditForNodeReplacement, Plus
<1> HIDE DEF edit
<1>3. SUFFICES ASSUME NEW k \in 0 .. Len(text), PointAt(text, k) = p
      PROVE  LET moved == PointAt(text', k + Len(new) - (node.end - node.start)) IN
             /\ k <= node.start /\ k < node.end => q = PointAt(text', k)
             /\ k >= node.end /\ OneLine(node) => q.row = moved.row
             /\ k >= node.end /\ OneLine(node) /\ LineExact(node, new)
                  /\ p.row = PointAt(text, node.end).row => q = moved
  BY DEF NamesSame, edit
<1>4. ASSUME k <= node.start, k < node.end  PROVE q = PointAt(text', k)
  <2>1. k \in 0 .. node.start /\ node.end \in k .. Len(text)  BY <1>0, <1>4
  <2>2. PointAt(text', k) = p  BY <1>0, <1>3, <2>1, SplicedPoint
  <2>3. ~Precedes(B, p)  BY <1>0, <1>3, <1>4, <2>1, Between
  <2> QED  BY <1>2, <2>2, <2>3 DEF UpdatePosition, IsAfterEdit
<1> DEFINE C     == MeasureFragment(SubSeq(text, node.end + 1, k))
           N     == MeasureFragment(SubSeq(text, node.start + 1, node.end))
           moved == PointAt(text', k + Len(new) - (node.end - node.start))
<1>5. ASSUME k >= node.end
      PROVE  /\ C \in Point /\ N \in Point /\ p = Plus(B, C) /\ B = Plus(A, N)
             /\ node.start = node.end => B = A
             /\ moved = Plus(Plus(A, R), C)
             /\ Precedes(B, p)
  <2>1. k \in node.end .. Len(text)  BY <1>0, <1>5
  <2>2. /\ SubSeq(text, node.end + 1, k) \in Seq(Byte)
        /\ p = Plus(B, C) /\ Precedes(B, p)
    BY <1>0, <1>3, <2>1, Between
  <2>3. SubSeq(text, node.start + 1, node.end) \in Seq(Byte) /\ B = Plus(A, N)
    BY <1>0, Between
  <2>4. moved = Plus(Plus(A, R), C)  BY <1>0, <2>1, SplicedPoint
  <2> QED  BY <2>2, <2>3, <2>4, MeasureType
<1>6. LineExact(node, new) => node.start = node.end \/ R.row # 0
  BY MeasureOneLine DEF LineExact
<1>7. OneLine(node) <=> A.row = B.row  BY DEF OneLine
<1> HIDE DEF A, B, C, N, R, moved
<1>8. ASSUME k >= node.end, A.row = B.row
      PROVE  /\ q.row = moved.row
             /\ (node.start = node.end \/ R.row # 0) /\ p.row = B.row => q = moved
  <2>1. /\ A.row \in Nat /\ A.col \in Nat /\ B.row \in Nat /\ B.col \in Nat
        /\ C.row \in Nat /\ C.col \in Nat /\ R.row \in Nat /\ R.col \in Nat
    BY <1>1, <1>5, <1>8 DEF Point
  <2>2. q = [row |-> AdjustComponent(p.row, B.row, B.row + R.row),
             col |-> AdjustComponent(p.col, B.col, IF R.row = 0 THEN B.col + R.col ELSE R.col)]
    BY <1>2, <1>5, <1>8 DEF UpdatePosition, IsAfterEdit, Plus
  <2>3. p.row = B.row + C.row /\ p.col = IF C.row = 0 THEN B.col + C.col ELSE C.col
    BY <1>5, <1>8 DEF Plus
  <2>4. moved = [row |-> A.row + R.row + C.row,
                 col |-> IF C.row = 0
                         THEN (IF R.row = 0 THEN A.col + R.col ELSE R.col) + C.col
                         ELSE C.col]
    BY <1>5, <1>8 DEF Plus
  <2>5. q.row = moved.row  BY <1>8, <2>1, <2>2, <2>3, <2>4 DEF AdjustComponent
  <2>6. ASSUME node.start = node.end \/ R.row # 0, p.row = B.row
        PROVE  q.col = moved.col
    <3>1. C.row = 0 /\ p.col = B.col + C.col  BY <2>1, <2>3, <2>6
    <3>2. CASE R.row # 0  BY <2>1, <2>2, <2>4, <3>1, <3>2 DEF AdjustComponent
    <3>3. CASE R.row = 0 /\ node.start = node.end
      <4>1. A = B  BY <1>5, <1>8, <3>3
      <4> QED  BY <2>1, <2>2, <2>4, <3>1, <3>3, <4>1 DEF AdjustComponent
    <3> QED  BY <2>6, <3>2, <3>3
  <2> QED  BY <2>2, <2>4, <2>5, <2>6
<1> QED  BY <1>4, <1>6, <1>7, <1>8 DEF B, moved

-----------------------------------------------------------------------------
(* Steps.                                                                  *)

IInv == TypeOK /\ TreeFresh

(* An edit of the document, by any mutator.                                *)
LEMMA EditStep ==
  ASSUME IInv, NEW node \in Nodes, NEW new \in Seq(Byte), Edit(node, new)
  PROVE  /\ IInv'
         /\ Len(text') <= MaxDocumentSize
         /\ \A p, q \in Held :
              Precedes(messages[p[1]][p[2]], messages[q[1]][q[2]])
                => Precedes(messages'[p[1]][p[2]], messages'[q[1]][q[2]])
<1> DEFINE edit == EditForNodeReplacement(node, new)
<1>1. /\ text \in Seq(Byte) /\ tree = text /\ node \in NodeOf(text)
      /\ messages \in Seq(Seq(Point))
  BY DEF IInv, TypeOK, TreeFresh, Nodes, NodeOf, Point
<1>2. /\ text' \in Seq(Byte)
      /\ Len(text') = Len(text) - (node.end - node.start) + Len(new)
  BY <1>1, SpliceProperties DEF Edit
<1>3. tree' = text'
  <2>1. edit.start = node.start /\ edit.oldEnd = node.end /\ edit.newEnd = node.start + Len(new)
    BY DEF EditForNodeReplacement
  <2>2. tree' = Reparse(text, Splice(text, node, new), edit) /\ text' = Splice(text, node, new)
    BY <1>1 DEF Edit
  <2> HIDE DEF edit
  <2> QED  BY <1>1, <2>1, <2>2, ReparseIsSplice
<1>4. Len(text') <= MaxDocumentSize  BY <1>2 DEF Edit, Fits
<1>5. GoesForward(edit)  BY <1>1, EditGoesForward
<1>6. messages' = [i \in DOMAIN messages |-> [j \in DOMAIN messages[i] |-> UpdatePosition(messages[i][j], edit)]]
  BY DEF Edit, Calibrate, CalibrateMessage
<1> HIDE DEF edit
<1>7. ASSUME NEW i \in DOMAIN messages, NEW j \in DOMAIN messages[i]
      PROVE  messages[i][j] \in Point
  BY <1>1, <1>7, LenProperties, ElementOfSeq
<1>8. ASSUME NEW i \in DOMAIN messages
      PROVE  /\ messages'[i] \in Seq(Point)
             /\ Len(messages'[i]) = Len(messages[i])
             /\ \A j \in DOMAIN messages[i] : messages'[i][j] = UpdatePosition(messages[i][j], edit)
  <2>1. messages[i] \in Seq(Point) /\ DOMAIN messages[i] = 1 .. Len(messages[i])
        /\ Len(messages[i]) \in Nat
    BY <1>1, LenProperties, ElementOfSeq
  <2>2. messages'[i] = [j \in 1 .. Len(messages[i]) |-> UpdatePosition(messages[i][j], edit)]
    BY <1>6, <2>1
  <2>3. \A j \in 1 .. Len(messages[i]) : UpdatePosition(messages[i][j], edit) \in Point
    BY <1>5, <1>7, <2>1, UpdateKeepsOrder
  <2>4. messages'[i] \in [1 .. Len(messages[i]) -> Point]  BY <2>2, <2>3
  <2> QED  BY <2>1, <2>2, <2>4, SeqDef
<1>9. messages' \in Seq(Seq(Point)) /\ Len(messages') = Len(messages)
      /\ DOMAIN messages' = DOMAIN messages
  <2>1. DOMAIN messages = 1 .. Len(messages) /\ Len(messages) \in Nat
    BY <1>1, LenProperties
  <2>2. messages' \in [1 .. Len(messages) -> Seq(Point)]  BY <1>6, <1>8, <2>1
  <2> QED  BY <2>1, <2>2, SeqDef
<1>10. IInv'
  <2>1. \A i \in DOMAIN messages' : Len(messages'[i]) <= 2
    BY <1>8, <1>9 DEF IInv, TypeOK
  <2>2. edits' \in 0 .. MaxEdits /\ UNCHANGED <<stage, changes>>
    BY DocumentAssumption DEF Edit, IInv, TypeOK
  <2> QED  BY <1>2, <1>3, <1>9, <2>1, <2>2 DEF IInv, TypeOK, TreeFresh, Point
<1>11. ASSUME NEW p \in Held, NEW q \in Held,
              Precedes(messages[p[1]][p[2]], messages[q[1]][q[2]])
       PROVE  Precedes(messages'[p[1]][p[2]], messages'[q[1]][q[2]])
  <2>1. ASSUME NEW h \in Held PROVE h[1] \in DOMAIN messages /\ h[2] \in DOMAIN messages[h[1]]
    BY DEF Held, Places
  <2>2. ASSUME NEW h \in Held
        PROVE  /\ messages[h[1]][h[2]] \in Point
               /\ messages'[h[1]][h[2]] = UpdatePosition(messages[h[1]][h[2]], edit)
    BY <1>7, <1>8, <2>1
  <2> QED  BY <1>5, <1>11, <2>2, UpdateKeepsOrder
<1> QED  BY <1>4, <1>10, <1>11

(* Both document mutators edit.                                            *)
LEMMA MutatorsEdit ==
  ASSUME IInv, ReplaceNode \/ TruncateNode
  PROVE  \E node \in Nodes, new \in Seq(Byte) : Edit(node, new)
<1>1. CASE ReplaceNode
  <2>1. PICK node \in Nodes, new \in Texts(MaxFragment) : Edit(node, new)
    BY <1>1 DEF ReplaceNode
  <2>2. new \in Seq(Byte)  BY DocumentAssumption, TextsAreSequences
  <2> QED  BY <2>1, <2>2
<1>2. CASE TruncateNode
  <2>1. PICK node \in Nodes, size \in 0 .. Len(text) :
          /\ size < node.end - node.start \/ size = 0
          /\ Edit(node, SubSeq(text, node.start + 1, node.start + size))
    BY <1>2 DEF TruncateNode
  <2>2. /\ text \in Seq(Byte) /\ node.start \in Nat /\ node.end \in Nat
        /\ node.start <= node.end /\ node.end <= Len(text) /\ Len(text) \in Nat
    BY LenProperties DEF IInv, TypeOK, TreeFresh, Nodes
  <2>3. \A i \in node.start + 1 .. node.start + size : text[i] \in Byte
    BY <2>1, <2>2, ElementOfSeq
  <2>4. SubSeq(text, node.start + 1, node.start + size) \in Seq(Byte)
    BY <2>2, <2>3, SubSeqProperties
  <2> QED  BY <2>1, <2>4
<1> QED  BY <1>1, <1>2

(* A change of the message sequence by one of its mutators.                *)
LEMMA ChangeStep ==
  ASSUME IInv, AppendMessage \/ DropRandomMessage \/ SliceSwap
  PROVE  IInv' /\ UNCHANGED <<text, edits>>
<1>0. /\ messages \in Seq(Seq(Point)) /\ Len(messages) \in Nat
      /\ DOMAIN messages = 1 .. Len(messages)
      /\ Len(messages) <= MaxMessages
      /\ \A i \in DOMAIN messages : Len(messages[i]) <= 2
      /\ MaxMessages \in Nat
  BY LenProperties, DocumentAssumption DEF IInv, TypeOK, Point
<1>1. ASSUME NEW m, Change(m), m \in Seq(Seq(Point)), Len(m) <= MaxMessages,
             \A i \in 1 .. Len(m) : Len(m[i]) <= 2
      PROVE  IInv' /\ UNCHANGED <<text, edits>>
  <2>1. DOMAIN m = 1 .. Len(m)  BY <1>1, LenProperties
  <2> QED  BY <1>1, <2>1, DocumentAssumption DEF Change, IInv, TypeOK, TreeFresh, Point
<1>2. ASSUME NEW msg \in Generated PROVE msg \in Seq(Point) /\ Len(msg) <= 2
  <2>1. PICK n \in 0 .. 2 : msg \in [1 .. n -> Position]  BY <1>2 DEF Generated
  <2>2. \A x \in Position : x \in Point  BY DocumentAssumption DEF Position, Point
  <2>3. msg \in [1 .. n -> Point]  BY <2>1, <2>2
  <2> QED  BY <2>1, <2>3, SeqDef
<1>3. ASSUME NEW i \in DOMAIN messages, NEW e \in Seq(Point), Len(e) <= 2
      PROVE  LET m == [messages EXCEPT ![i] = e] IN
             /\ m \in Seq(Seq(Point)) /\ Len(m) = Len(messages)
             /\ \A k \in 1 .. Len(m) : Len(m[k]) <= 2
  BY <1>0, <1>3, ExceptSeq
<1>4. CASE AppendMessage
  <2>1. PICK msg \in Generated :
          IF Len(messages) >= MaxMessages
          THEN \E i \in DOMAIN messages : Change([messages EXCEPT ![i] = msg])
          ELSE Change(Append(messages, msg))
    BY <1>4 DEF AppendMessage
  <2>2. CASE Len(messages) >= MaxMessages
    <3>1. PICK i \in DOMAIN messages : Change([messages EXCEPT ![i] = msg])  BY <2>1, <2>2
    <3> QED  BY <1>0, <1>1, <1>2, <1>3, <3>1
  <2>3. CASE ~(Len(messages) >= MaxMessages)
    <3> DEFINE m == Append(messages, msg)
    <3>1. /\ m \in Seq(Seq(Point)) /\ Len(m) = Len(messages) + 1
          /\ \A k \in 1 .. Len(messages) : m[k] = messages[k]
          /\ m[Len(messages) + 1] = msg
      BY <1>0, <1>2, AppendProperties
    <3>2. Change(m)  BY <2>1, <2>3
    <3> HIDE DEF m
    <3>3. ASSUME NEW k \in 1 .. Len(m) PROVE Len(m[k]) <= 2
      <4>1. CASE k = Len(messages) + 1  BY <1>2, <3>1, <4>1
      <4>2. CASE k # Len(messages) + 1
        <5>1. k \in 1 .. Len(messages)  BY <1>0, <3>1, <4>2
        <5> QED  BY <1>0, <3>1, <5>1
      <4> QED  BY <4>1, <4>2
    <3>4. Len(m) <= MaxMessages  BY <1>0, <2>3, <3>1
    <3> QED  BY <1>1, <3>1, <3>2, <3>3, <3>4
  <2> QED  BY <2>2, <2>3
<1>5. CASE DropRandomMessage
  <2>1. PICK i \in DOMAIN messages :
          Change(SubSeq(messages, 1, i - 1) \o SubSeq(messages, i + 1, Len(messages)))
    BY <1>5 DEF DropRandomMessage
  <2> DEFINE a == SubSeq(messages, 1, i - 1)
             b == SubSeq(messages, i + 1, Len(messages))
             m == a \o b
  <2>2. \A k \in 1 .. Len(messages) : messages[k] \in {x \in Seq(Point) : Len(x) <= 2}
    BY <1>0, ElementOfSeq
  <2>3. a \in Seq({x \in Seq(Point) : Len(x) <= 2}) /\ Len(a) = i - 1
    BY <1>0, <2>2, SubSeqProperties
  <2>4. /\ b \in Seq({x \in Seq(Point) : Len(x) <= 2})
        /\ Len(b) = IF i + 1 <= Len(messages) THEN Len(messages) - (i + 1) + 1 ELSE 0
    BY <1>0, <2>2, SubSeqProperties
  <2>5. Change(m)  BY <2>1
  <2> HIDE DEF a, b
  <2>6. m \in Seq({x \in Seq(Point) : Len(x) <= 2}) /\ Len(m) = Len(a) + Len(b)
    BY <2>3, <2>4, ConcatProperties
  <2> HIDE DEF m
  <2>7. Len(m) <= MaxMessages
    <3>1. i \in Nat /\ 1 <= i /\ i <= Len(messages)  BY <1>0
    <3>2. Len(b) <= Len(messages) - i  BY <1>0, <2>4, <3>1
    <3>3. Len(a) = i - 1 /\ Len(m) = Len(a) + Len(b)  BY <2>3, <2>6
    <3>4. Len(messages) \in Nat /\ Len(messages) <= MaxMessages  BY <1>0, LenProperties
    <3>5. Len(b) \in Nat  BY <2>4, LenProperties
    <3> QED  BY <3>1, <3>2, <3>3, <3>4, <3>5, DocumentAssumption
  <2>8. \A k \in 1 .. Len(m) : Len(m[k]) <= 2  BY <2>6, ElementOfSeq
  <2>9. m \in Seq(Seq(Point))  BY <2>6, SeqMonotonic
  <2> QED  BY <1>1, <2>5, <2>7, <2>8, <2>9
<1>6. CASE SliceSwap
  <2>1. PICK i \in DOMAIN messages, j \in DOMAIN messages :
          Change([messages EXCEPT ![i] = messages[j], ![j] = messages[i]])
    BY <1>6 DEF SliceSwap
  <2>2. messages[i] \in Seq(Point) /\ messages[j] \in Seq(Point)
    BY <1>0, ElementOfSeq
  <2> DEFINE f == [messages EXCEPT ![i] = messages[j], ![j] = messages[i]]
  <2>3. f \in [1 .. Len(messages) -> Seq(Point)]
    <3>1. messages \in [1 .. Len(messages) -> Seq(Point)]  BY <1>0, LenProperties
    <3> QED  BY <1>0, <2>2, <3>1
  <2>4. f \in Seq(Seq(Point)) /\ Len(f) = Len(messages)  BY <1>0, <2>3, SeqDef
  <2>5. \A k \in 1 .. Len(f) : Len(f[k]) <= 2  BY <1>0, <2>4
  <2> HIDE DEF f
  <2> QED  BY <1>0, <1>1, <2>1, <2>4, <2>5 DEF f
<1> QED  BY <1>4, <1>5, <1>6

(* Entering another stage.                                                 *)
LEMMA RoundStep ==
  ASSUME IInv, Round \/ UNCHANGED vars
  PROVE  IInv' /\ UNCHANGED <<text, edits>>
BY DEF IInv, TypeOK, TreeFresh, Round, Enter, vars

-----------------------------------------------------------------------------
(* Theorems.                                                               *)

LEMMA IInvInductive == Spec => []IInv
<1>1. Init => IInv
  <2> SUFFICES ASSUME Init PROVE IInv  OBVIOUS
  <2>1. text \in Seq(Byte)  BY DocumentAssumption, TextsAreSequences DEF Init
  <2>2. messages = <<>> /\ <<>> \in Seq(Seq(Point))  BY EmptySeq DEF Init
  <2> QED  BY <2>1, <2>2, DocumentAssumption DEF Init, IInv, TypeOK, TreeFresh, Point
<1>2. IInv /\ [Next]_vars => IInv'
  BY MutatorsEdit, EditStep, ChangeStep, RoundStep DEF Next
<1> QED  BY <1>1, <1>2, PTL DEF Spec

(* Types, and the limit on the messages of an input, whatever mutators are *)
(* stacked in whatever order.                                              *)
THEOREM TypeCorrect == Spec => []TypeOK
<1>1. IInv => TypeOK  BY DEF IInv
<1> QED  BY <1>1, IInvInductive, PTL

(* The parse tree a mutator takes nodes from is the tree of the text it    *)
(* cuts them out of, after any number of edits.                            *)
THEOREM TreeFreshHolds == Spec => []TreeFresh
<1>1. IInv => TreeFresh  BY DEF IInv
<1> QED  BY <1>1, IInvInductive, PTL

(* No edit leaves a document above MAX_DOCUMENT_SIZE; it needs TreeFresh,  *)
(* since the mutators compute the new size from a node of the tree.        *)
THEOREM SizeBoundedHolds == Spec => SizeBounded
<1>1. IInv /\ [Next]_vars => [text' # text => Len(text') <= MaxDocumentSize]_vars
  BY MutatorsEdit, EditStep, ChangeStep, RoundStep DEF Next
<1> QED  BY <1>1, IInvInductive, PTL DEF Spec, SizeBounded

(* Calibration never turns a range over, nor two positions in a document   *)
(* round, for any texts and replacements.                                  *)
THEOREM OrderKeptHolds == Spec => OrderKept
<1> DEFINE Kept == \A p, q \in Held :
                     Precedes(messages[p[1]][p[2]], messages[q[1]][q[2]])
                       => Precedes(messages'[p[1]][p[2]], messages'[q[1]][q[2]])
<1>1. IInv /\ [Next]_vars => [edits' # edits => Kept]_vars
  BY MutatorsEdit, EditStep, ChangeStep, RoundStep DEF Next
<1> QED  BY <1>1, IInvInductive, PTL DEF Spec, OrderKept

(* Of an edit: where the code can name the same character afterwards, a    *)
(* message does so; everywhere up to the node, and behind it as far as     *)
(* PositionsFollow says, for texts, replacements and messages of any size. *)
THEOREM PositionsFollowHolds == Spec => PositionsFollow
<1> DEFINE Follow == \A node \in Nodes, new \in Texts(MaxFragment) :
                       Edit(node, new) =>
                         \A p \in Held :
                           NamesSame(messages[p[1]][p[2]], messages'[p[1]][p[2]], node, new)
<1>1. IInv => Follow
  <2> SUFFICES ASSUME IInv, NEW node \in Nodes, NEW new \in Texts(MaxFragment),
                      Edit(node, new), NEW p \in Held
               PROVE  NamesSame(messages[p[1]][p[2]], messages'[p[1]][p[2]], node, new)
    OBVIOUS
  <2>1. new \in Seq(Byte)  BY DocumentAssumption, TextsAreSequences
  <2>2. p[1] \in DOMAIN messages /\ p[2] \in DOMAIN messages[p[1]]  BY DEF Held, Places
  <2>3. messages'[p[1]][p[2]] =
          UpdatePosition(messages[p[1]][p[2]], EditForNodeReplacement(node, new))
    BY <2>2 DEF Edit, Calibrate, CalibrateMessage
  <2>4. TypeOK /\ TreeFresh /\ text' = Splice(text, node, new)  BY DEF IInv, Edit
  <2> QED  BY <2>1, <2>3, <2>4, EditMoves
<1>2. IInv /\ [Next]_vars => [edits' # edits => Follow]_vars  BY <1>1
<1> QED  BY <1>2, IInvInductive, PTL DEF Spec, PositionsFollow
=============================================================================
