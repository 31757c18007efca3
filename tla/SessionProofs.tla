--------------------------- MODULE SessionProofs ----------------------------
(***************************************************************************)
(* Answers reach the requests they are for, and names keep to their side,  *)
(* for every input and every server.                                       *)
(*                                                                         *)
(* The core is arithmetic.  The client numbers every request it sends, the *)
(* matcher only those of the input, and adds one: Ids says which number    *)
(* the client has reached after w messages, and Numbering that the two     *)
(* agree on the input's requests and on no others.  The invariant then     *)
(* follows a frame from the server's printing of it (Printed) through the  *)
(* matcher (Learned, Kept) to the metadata (Added).                        *)
(***************************************************************************)
EXTENDS Session, SequenceTheorems, FiniteSetTheorems, WellFoundedInduction, TLAPS

Size == Len(messages)

(* What a session sends, as stored, and as it is on the wire.              *)
Stored ==
  {Request("initialize", Root), Notification("initialized", Root),
   Notification("didOpen", Virtual(Doc)), Request("shutdown", Root),
   Notification("exit", Root)} \cup Appended
Local(msg) == [msg EXCEPT !.uri = Localize(@)]

(* The id the client has reached after w messages.                         *)
Ids(w) ==
  (IF w > 0 THEN 1 ELSE 0) + Cardinality({i \in Asked : i + 3 <= w})
    + (IF w > Size + 3 THEN 1 ELSE 0)

TypeOK ==
  /\ files \in WorkspaceFiles /\ messages \in Seq(Appended)
  /\ phase \in {"send", "run", "match", "done"}
  /\ wire \in Seq([id : Int, message : {Local(msg) : msg \in Stored}])
  /\ \E F : out \in Seq(F)

Sent ==
  /\ id = Ids(Len(wire))
  /\ Len(wire) <= Size + 5 /\ (phase = "send" <=> Len(wire) < Size + 5)
  /\ \A k \in 1 .. Len(wire) :
       wire[k] = [id |-> IF IsRequest(MessageSequence[k]) THEN Ids(k - 1) ELSE NoId,
                  message |-> Local(MessageSequence[k])]

(* A frame of the server: an answer bears the id of the request it is      *)
(* about, a diagnostic is about a document the server knows.               *)
Genuine(f) ==
  \/ /\ f.kind = "response" /\ f.about \in 1 .. Len(wire)
     /\ IsRequest(wire[f.about].message) /\ f.id = wire[f.about].id
     /\ f.result \in {None, Result("bad", Root, None, f.about)}
          \cup Results(wire[f.about].message.method, f.about)
  \/ f.kind = "notification" /\ (f.params => f.uri \in Reported)
  \/ f.kind \in {"request", "text"}

Printed ==
  /\ phase = "send" => out = <<>>
  /\ \A i \in 1 .. Len(out) : Genuine(out[i])

(* What is kept names a document as inputs do; a nested symbol names none. *)
Known == {LiftJson(u) : u \in Reported}
NamesKnown(method, result) ==
  result.uri \in Known \/ (method = "documentSymbol" /\ result.shape = "nested")

Learned ==
  /\ phase \in {"send", "run"} => next = 1 /\ responses = <<>> /\ notifications = {}
  /\ DOMAIN responses \subseteq Appended /\ OwnAnswer
  /\ \A r \in DOMAIN responses : NamesKnown(r.method, responses[r])
  /\ notifications \subseteq Known

(* Of the frames before place m, no answer to a request of the input is    *)
(* lost.                                                                   *)
KeptBefore(m) ==
  \A k \in 1 .. Len(wire), i \in 1 .. m - 1 :
    FromInput(k) /\ Carries(i, k) =>
      /\ MessageSequence[k] \in DOMAIN responses
      /\ \E j \in i .. m - 1 : Carries(j, responses[MessageSequence[k]].about)

Kept ==
  /\ next \in Nat \ {0} /\ (phase \in {"match", "done"} => next <= Len(Captured) + 1)
  /\ KeptBefore(next)

Added ==
  metadata # None =>
    phase = "done" /\ next > Len(Captured) /\ metadata = CollectResponseInfo

IInv == TypeOK /\ Sent /\ Printed /\ Learned /\ Kept /\ Added
-----------------------------------------------------------------------------
(* The least number of a set, and the places of what a filter leaves.      *)

LEMMA Least ==
  ASSUME NEW T, T \subseteq Nat, T # {}
  PROVE  \E x \in T : \A y \in T : x <= y
<1> DEFINE R == OpToRel(<, Nat)
<1>1. IsWellFoundedOn(R, Nat)  BY NatLessThanWellFounded
<1>2. \A x, y \in Nat : <<y, x>> \in R <=> y < x  BY DEF OpToRel
<1> HIDE DEF R
<1>3. PICK x \in T : \A y \in T : ~(<<y, x>> \in R)  BY <1>1, WFMin
<1>4. ASSUME NEW y \in T  PROVE x <= y
  <2>1. x \in Nat /\ y \in Nat  OBVIOUS
  <2>2. ~(y < x)  BY <1>2, <1>3, <2>1
  <2> QED  BY <2>1, <2>2
<1> QED  BY <1>4

(* The rank of a picked place is one more than the number of those below.  *)
LEMMA RankIsNext ==
  ASSUME NEW P, P \subseteq Nat, IsFiniteSet(P), NEW i \in P
  PROVE  /\ Rank(P, i) = Cardinality({j \in P : j < i}) + 1
         /\ Rank(P, i) \in 1 .. Cardinality(P)
         /\ Cardinality({j \in P : j < i}) \in Nat
<1> DEFINE B == {j \in P : j < i}
           U == {j \in P : j <= i}
<1>0. i \in Nat /\ \A j \in P : j \in Nat  OBVIOUS
<1>1. B \in SUBSET P /\ U \in SUBSET P  OBVIOUS
<1>2. IsFiniteSet(B) /\ IsFiniteSet(U)  BY <1>1, FS_Subset
<1>3. U = B \cup {i}
  <2>1. ASSUME NEW j \in P  PROVE j <= i <=> (j < i \/ j = i)  BY <1>0
  <2> QED  BY <2>1
<1>4. i \notin B  BY <1>0
<1>5. Cardinality(B) \in Nat /\ Cardinality(U) \in Nat /\ Cardinality(P) \in Nat
  BY <1>2, FS_CardinalityType
<1>6. Cardinality(U) <= Cardinality(P)  BY <1>1, FS_Subset
<1> HIDE DEF B, U
<1>7. Cardinality(U) = Cardinality(B) + 1  BY <1>2, <1>3, <1>4, FS_AddElement
<1>8. Rank(P, i) = Cardinality(U)  BY DEF Rank, U
<1>9. Rank(P, i) = Cardinality(B) + 1 /\ Rank(P, i) \in 1 .. Cardinality(P)
  BY <1>5, <1>6, <1>7, <1>8
<1> QED  BY <1>5, <1>9 DEF B

(* Two picked places have two ranks, so the filter keeps each at its own.  *)
LEMMA NthOfRank ==
  ASSUME NEW P, P \subseteq Nat, IsFiniteSet(P), NEW i \in P
  PROVE  Nth(P, Rank(P, i)) = i
<1>1. ASSUME NEW j \in P, Rank(P, j) = Rank(P, i)  PROVE j = i
  <2> DEFINE U(a) == {b \in P : b <= a}
  <2>1. i \in Nat /\ j \in Nat  OBVIOUS
  <2>2. ASSUME NEW a \in P, NEW b \in P, a <= b, Rank(P, a) = Rank(P, b)  PROVE b <= a
    <3>1. a \in Nat /\ b \in Nat /\ \A c \in P : c \in Nat  OBVIOUS
    <3>2. U(a) \in SUBSET U(b)
      <4>1. \A c \in P : c <= a => c <= b  BY <2>2, <3>1
      <4> QED  BY <4>1
    <3>3. U(b) \in SUBSET P  OBVIOUS
    <3>4. IsFiniteSet(U(b))  BY <3>3, FS_Subset
    <3>5. Cardinality(U(b)) = Cardinality(U(a))  BY <2>2 DEF Rank
    <3>6. b \in U(b)  BY <3>1
    <3> HIDE DEF U
    <3>7. U(b) = U(a)  BY <3>2, <3>4, <3>5, FS_Subset
    <3>8. b \in U(a)  BY <3>6, <3>7
    <3> QED  BY <3>8 DEF U
  <2>3. i <= j \/ j <= i  BY <2>1
  <2>4. i <= j /\ j <= i  BY <1>1, <2>2, <2>3
  <2> QED  BY <2>1, <2>4
<1> DEFINE r == Rank(P, i)
<1>2. i \in P /\ Rank(P, i) = r  OBVIOUS
<1> HIDE DEF r
<1>3. Nth(P, r) \in P /\ Rank(P, Nth(P, r)) = r  BY <1>2 DEF Nth
<1>4. Nth(P, r) = i  BY <1>1, <1>2, <1>3
<1> QED  BY <1>2, <1>4
-----------------------------------------------------------------------------
(* The messages of a session.                                              *)

LEMMA OneDocument ==
  ASSUME files \in WorkspaceFiles
  PROVE  DidOpen = <<Notification("didOpen", Virtual(Doc))>>
<1>1. PICK c \in DOMAIN files : files[c] = Doc /\ Sources = {c} /\ c \in Nat
  <2>1. CASE files = <<Doc>>
    <3>1. Sources = {1}  BY <2>1, SessionAssumption DEF SessionAssumption, Sources
    <3> QED  BY <2>1, <3>1
  <2>2. ASSUME NEW s \in Skeleton, files = <<Doc, s>>
        PROVE  files[1] = Doc /\ Sources = {1} /\ 1 \in DOMAIN files
    BY <2>2, SessionAssumption DEF SessionAssumption, Sources
  <2>3. ASSUME NEW s \in Skeleton, files = <<s, Doc>>
        PROVE  files[2] = Doc /\ Sources = {2} /\ 2 \in DOMAIN files
    BY <2>3, SessionAssumption DEF SessionAssumption, Sources
  <2> QED  BY <2>1, <2>2, <2>3 DEF WorkspaceFiles
<1>2. Cardinality(Sources) = 1 /\ IsFiniteSet(Sources)  BY <1>1, FS_Singleton
<1>3. Sources \subseteq Nat /\ c \in Sources  BY <1>1
<1>4. Rank(Sources, c) = 1
  <2>1. Rank(Sources, c) \in 1 .. Cardinality(Sources)  BY <1>2, <1>3, RankIsNext
  <2> QED  BY <1>2, <2>1
<1>5. Nth(Sources, 1) = c  BY <1>2, <1>3, <1>4, NthOfRank
<1>6. DidOpen = [i \in 1 .. 1 |-> Notification("didOpen", Virtual(files[Nth(Sources, i)]))]
  BY <1>2 DEF DidOpen
<1>7. \A i \in 1 .. 1 : i = 1  OBVIOUS
<1>8. DidOpen = [i \in 1 .. 1 |-> Notification("didOpen", Virtual(Doc))]
  BY <1>1, <1>5, <1>6, <1>7
<1> HIDE DEF DidOpen
<1> QED  BY <1>8

(* The input's messages stand between the opening and the closing.         *)
LEMMA Sequence ==
  ASSUME TypeOK
  PROVE  /\ Size \in Nat /\ Len(DidOpen) = 1
         /\ MessageSequence \in Seq(Stored) /\ Len(MessageSequence) = Size + 5
         /\ MessageSequence[1] = Request("initialize", Root)
         /\ MessageSequence[2] = Notification("initialized", Root)
         /\ MessageSequence[3] = Notification("didOpen", Virtual(Doc))
         /\ \A i \in 1 .. Size : MessageSequence[i + 3] = messages[i]
         /\ MessageSequence[Size + 4] = Request("shutdown", Root)
         /\ MessageSequence[Size + 5] = Notification("exit", Root)
<1> DEFINE a == <<Request("initialize", Root), Notification("initialized", Root)>>
           b == <<Notification("didOpen", Virtual(Doc))>>
           d == <<Request("shutdown", Root), Notification("exit", Root)>>
<1>1. a \in Seq(Stored) /\ b \in Seq(Stored) /\ d \in Seq(Stored)  BY DEF Stored
<1>2. /\ Len(a) = 2 /\ Len(b) = 1 /\ Len(d) = 2
      /\ a[1] = Request("initialize", Root) /\ a[2] = Notification("initialized", Root)
      /\ b[1] = Notification("didOpen", Virtual(Doc))
      /\ d[1] = Request("shutdown", Root) /\ d[2] = Notification("exit", Root)
  OBVIOUS
<1>3. DidOpen = b  BY OneDocument DEF TypeOK
<1>4. messages \in Seq(Stored) /\ Len(messages) \in Nat
  BY LenProperties, SeqMonotonic DEF TypeOK, Stored
<1>5. MessageSequence = ((a \o b) \o messages) \o d  BY <1>3 DEF MessageSequence
<1> HIDE DEF a, b, d
<1> DEFINE ab == a \o b
<1>6. ab \in Seq(Stored) /\ Len(ab) = 3 /\ ab[1] = a[1] /\ ab[2] = a[2] /\ ab[3] = b[1]
  BY <1>1, <1>2, ConcatProperties
<1> HIDE DEF ab
<1> DEFINE m == ab \o messages
<1>7. /\ m \in Seq(Stored) /\ Len(m) = Size + 3
      /\ m[1] = a[1] /\ m[2] = a[2] /\ m[3] = b[1]
      /\ \A i \in 1 .. Size : m[i + 3] = messages[i]
  <2>0. /\ m \in Seq(Stored) /\ Len(m) = Len(ab) + Len(messages)
        /\ \A i \in 1 .. Len(ab) + Len(messages) :
             m[i] = IF i <= Len(ab) THEN ab[i] ELSE messages[i - Len(ab)]
    BY <1>4, <1>6, ConcatProperties
  <2>1. m \in Seq(Stored) /\ Len(m) = 3 + Size
    BY <1>6, <2>0 DEF Size
  <2>2. \A i \in 1 .. 3 + Size : m[i] = IF i <= 3 THEN ab[i] ELSE messages[i - 3]
    BY <1>6, <2>0 DEF Size
  <2> HIDE DEF m
  <2>3. \A i \in 1 .. Size : m[i + 3] = messages[i]  BY <1>4, <2>2 DEF Size
  <2> QED  BY <1>4, <1>6, <2>1, <2>2, <2>3 DEF Size
<1> HIDE DEF m
<1>8. /\ m \o d \in Seq(Stored) /\ Len(m \o d) = (Size + 3) + 2
      /\ \A i \in 1 .. (Size + 3) + 2 :
           (m \o d)[i] = IF i <= Size + 3 THEN m[i] ELSE d[i - (Size + 3)]
  <2>1. /\ m \o d \in Seq(Stored) /\ Len(m \o d) = Len(m) + Len(d)
        /\ \A i \in 1 .. Len(m) + Len(d) :
             (m \o d)[i] = IF i <= Len(m) THEN m[i] ELSE d[i - Len(m)]
    BY <1>1, <1>7, ConcatProperties
  <2> QED  BY <1>2, <1>7, <2>1
<1>9. MessageSequence = m \o d  BY <1>5 DEF m, ab
<1>10. Size \in Nat  BY <1>4 DEF Size
<1>11. /\ MessageSequence[1] = a[1] /\ MessageSequence[2] = a[2] /\ MessageSequence[3] = b[1]
       /\ \A i \in 1 .. Size : MessageSequence[i + 3] = messages[i]
  BY <1>7, <1>8, <1>9, <1>10
<1>12. MessageSequence[Size + 4] = d[1] /\ MessageSequence[Size + 5] = d[2]
  <2>1. (Size + 4) - (Size + 3) = 1 /\ (Size + 5) - (Size + 3) = 2  BY <1>10
  <2> QED  BY <1>8, <1>9, <1>10, <2>1
<1>13. Len(DidOpen) = 1  BY <1>2, <1>3
<1>14. MessageSequence \in Seq(Stored) /\ Len(MessageSequence) = Size + 5
  BY <1>8, <1>9, <1>10
<1> QED  BY <1>2, <1>10, <1>11, <1>12, <1>13, <1>14

(* Which of a session's places hold a request.                             *)
LEMMA Places ==
  ASSUME TypeOK
  PROVE  /\ Asked \subseteq 1 .. Size /\ IsFiniteSet(Asked) /\ Cardinality(Asked) \in Nat
         /\ \A k \in 1 .. Size + 5 :
              IsRequest(MessageSequence[k]) <=> k = 1 \/ k - 3 \in Asked \/ k = Size + 4
         /\ \A k \in 1 .. Size + 5 : FromInput(k) <=> k - 3 \in 1 .. Size
         /\ \A k \in 1 .. Size + 5 : MessageSequence[k] \in Stored
<1>1. /\ Size \in Nat /\ Len(DidOpen) = 1
      /\ DOMAIN messages = 1 .. Size
  BY Sequence, LenProperties DEF TypeOK, Size
<1>2. Asked \subseteq 1 .. Size  BY <1>1 DEF Asked
<1>3. IsFiniteSet(1 .. Size)  BY <1>1, FS_Interval
<1>4. IsFiniteSet(Asked) /\ Cardinality(Asked) \in Nat
  BY <1>2, <1>3, FS_Subset, FS_CardinalityType
<1>5. ASSUME NEW k \in 1 .. Size + 5
      PROVE  IsRequest(MessageSequence[k]) <=> k = 1 \/ k - 3 \in Asked \/ k = Size + 4
  <2>1. CASE k = 1
    BY <2>1, Sequence DEF IsRequest, Request
  <2>2. CASE k = 2 \/ k = 3
    <3>1. k - 3 \notin Asked /\ k # 1 /\ k # Size + 4  BY <1>1, <1>2, <2>2
    <3>2. ~IsRequest(MessageSequence[k])
      BY <2>2, Sequence DEF IsRequest, Notification
    <3> QED  BY <3>1, <3>2
  <2>3. CASE k \in 4 .. Size + 3
    <3>1. k - 3 \in 1 .. Size /\ (k - 3) + 3 = k  BY <1>1, <2>3
    <3>2. MessageSequence[k] = messages[k - 3]
      <4> DEFINE i == k - 3
      <4>1. i \in 1 .. Size /\ i + 3 = k  BY <3>1
      <4> HIDE DEF i
      <4>2. MessageSequence[k] = messages[i]  BY <4>1, Sequence
      <4> QED  BY <4>2 DEF i
    <3>3. k # 1 /\ k # Size + 4  BY <1>1, <2>3
    <3> QED  BY <1>1, <3>1, <3>2, <3>3 DEF Asked
  <2>4. CASE k = Size + 4
    BY <2>4, Sequence DEF IsRequest, Request
  <2>5. CASE k = Size + 5
    <3>1. k - 3 \notin Asked /\ k # 1 /\ k # Size + 4  BY <1>1, <1>2, <2>5
    <3>2. ~IsRequest(MessageSequence[k])
      BY <2>5, Sequence DEF IsRequest, Notification
    <3> QED  BY <3>1, <3>2
  <2> QED  BY <1>1, <2>1, <2>2, <2>3, <2>4, <2>5
<1>6. ASSUME NEW k \in 1 .. Size + 5  PROVE FromInput(k) <=> k - 3 \in 1 .. Size
  BY <1>1 DEF FromInput, Size
<1>7. \A k \in 1 .. Size + 5 : MessageSequence[k] \in Stored
  BY Sequence, ElementOfSeq
<1> QED  BY <1>2, <1>4, <1>5, <1>6, <1>7

(* One more message, one more id if it is a request.                       *)
LEMMA IdsStep ==
  ASSUME TypeOK, NEW w \in 0 .. Size + 4
  PROVE  /\ Ids(0) = 0 /\ Ids(w) \in Nat
         /\ Ids(w + 1) = IF IsRequest(MessageSequence[w + 1]) THEN Ids(w) + 1 ELSE Ids(w)
<1> DEFINE B(v) == {i \in Asked : i + 3 <= v}
<1>1. /\ Size \in Nat /\ Asked \subseteq 1 .. Size /\ IsFiniteSet(Asked)
      /\ IsRequest(MessageSequence[w + 1])
           <=> w + 1 = 1 \/ (w + 1) - 3 \in Asked \/ w + 1 = Size + 4
  <2>1. Size \in Nat  BY Sequence
  <2>2. w + 1 \in 1 .. Size + 5  BY <2>1
  <2> QED  BY <2>1, <2>2, Places
<1>2. \A i \in Asked : i \in 1 .. Size  BY <1>1
<1>3. ASSUME NEW v \in Nat  PROVE IsFiniteSet(B(v)) /\ Cardinality(B(v)) \in Nat
  <2>1. B(v) \in SUBSET Asked  OBVIOUS
  <2> QED  BY <1>1, <2>1, FS_Subset, FS_CardinalityType
<1>4. ASSUME NEW v \in 0 .. 3  PROVE Cardinality(B(v)) = 0
  <2>1. \A i \in Asked : ~(i + 3 <= v)  BY <1>1, <1>2
  <2>2. B(v) = {}  BY <2>1
  <2> QED  BY <2>2, FS_EmptySet
<1>5. w \in Nat /\ w + 1 \in Nat /\ w - 2 \in Int /\ (w + 1) - 3 = w - 2  BY <1>1
<1>6. B(w + 1) = IF w - 2 \in Asked THEN B(w) \cup {w - 2} ELSE B(w)
  <2>1. \A i \in Asked : i + 3 <= w + 1 <=> i + 3 <= w \/ i = w - 2  BY <1>1, <1>2, <1>5
  <2>2. CASE w - 2 \in Asked
    <3>1. ASSUME NEW i  PROVE i \in B(w + 1) <=> i \in B(w) \cup {w - 2}
      BY <2>1, <2>2
    <3> QED  BY <2>2, <3>1
  <2>3. CASE w - 2 \notin Asked
    <3>1. ASSUME NEW i  PROVE i \in B(w + 1) <=> i \in B(w)
      BY <2>1, <2>3
    <3> QED  BY <2>3, <3>1
  <2> QED  BY <2>2, <2>3
<1>7. w - 2 \notin B(w)  BY <1>5
<1> DEFINE C(v) == Cardinality(B(v))
<1>8. C(w) \in Nat /\ C(w + 1) = IF w - 2 \in Asked THEN C(w) + 1 ELSE C(w)
  <2>1. IsFiniteSet(B(w)) /\ Cardinality(B(w)) \in Nat  BY <1>3, <1>5
  <2> HIDE DEF B
  <2>2. Cardinality(B(w) \cup {w - 2}) = Cardinality(B(w)) + 1
    BY <1>7, <2>1, FS_AddElement
  <2> QED  BY <1>6, <2>1, <2>2
<1>9. \A v \in Nat :
        Ids(v) = (IF v > 0 THEN 1 ELSE 0) + C(v) + (IF v > Size + 3 THEN 1 ELSE 0)
  BY DEF Ids
<1>10. Ids(0) = 0
  <2>1. C(0) = 0  BY <1>4
  <2> HIDE DEF C
  <2> QED  BY <1>1, <1>9, <2>1
<1>11. w - 2 \in Asked => w - 2 \in 1 .. Size  BY <1>2
<1>12. C(w) \in Nat /\ (w = 0 => C(w) = 0)
  <2>1. C(0) = 0  BY <1>4
  <2> HIDE DEF C
  <2> QED  BY <1>8, <2>1
<1> HIDE DEF C, B
<1>13. Ids(w) \in Nat  BY <1>1, <1>5, <1>9, <1>12
<1>14. Ids(w + 1) = IF IsRequest(MessageSequence[w + 1]) THEN Ids(w) + 1 ELSE Ids(w)
  BY <1>1, <1>5, <1>8, <1>9, <1>11, <1>12
<1> QED  BY <1>10, <1>13, <1>14

(* The matcher's table has the ids of the input's requests and no others,  *)
(* and under each the request that bore it.                                *)
LEMMA Numbering ==
  ASSUME TypeOK, NEW k \in 1 .. Size + 5, IsRequest(MessageSequence[k])
  PROVE  /\ Ids(k - 1) \in DOMAIN Requests <=> FromInput(k)
         /\ FromInput(k) => Requests[Ids(k - 1)] = MessageSequence[k]
<1> DEFINE B(v) == {i \in Asked : i + 3 <= v}
           m == Cardinality(Asked)
<1>1. /\ Size \in Nat /\ Asked \subseteq 1 .. Size /\ IsFiniteSet(Asked) /\ m \in Nat
      /\ k = 1 \/ k - 3 \in Asked \/ k = Size + 4
      /\ FromInput(k) <=> k - 3 \in 1 .. Size
  BY Places, Sequence
<1>2. \A i \in Asked : i \in 1 .. Size  BY <1>1
<1>3. /\ DOMAIN Requests = 1 .. m
      /\ \A i \in 1 .. m : Requests[i] = messages[Nth(Asked, i)]
  BY DEF Requests
<1>4. CASE k = 1
  <2>1. Ids(k - 1) = 0 /\ ~FromInput(k)
    <3>1. k - 1 = 0 /\ k - 3 \notin 1 .. Size  BY <1>1, <1>4
    <3>2. 0 \in 0 .. Size + 4  BY <1>1
    <3>3. Ids(0) = 0  BY <3>2, IdsStep
    <3> QED  BY <1>1, <3>1, <3>3
  <2> QED  BY <1>1, <1>3, <2>1
<1>5. CASE k - 3 \in Asked
  <2> DEFINE i == k - 3
             r == Rank(Asked, i)
  <2>1. i \in Asked /\ i \in 1 .. Size /\ FromInput(k) /\ i + 3 = k  BY <1>1, <1>2, <1>5
  <2>2. Asked \subseteq Nat  BY <1>1
  <2>3. /\ r = Cardinality({j \in Asked : j < i}) + 1 /\ r \in 1 .. m
        /\ Cardinality({j \in Asked : j < i}) \in Nat
    BY <1>1, <2>1, <2>2, RankIsNext
  <2>4. Nth(Asked, r) = i  BY <1>1, <2>1, <2>2, NthOfRank
  <2>5. MessageSequence[k] = messages[i]
    <3> HIDE DEF i
    <3> QED  BY <2>1, Sequence
  <2>6. {j \in Asked : j < i} = B(k - 1)
    <3>1. ASSUME NEW j \in Asked  PROVE j < i <=> j + 3 <= k - 1  BY <1>2, <2>1
    <3> QED  BY <3>1
  <2>7. Ids(k - 1) = r
    <3>1. k - 1 > 0 /\ ~(k - 1 > Size + 3)  BY <1>1, <2>1
    <3>2. Ids(k - 1) = 1 + Cardinality(B(k - 1)) + 0  BY <3>1 DEF Ids
    <3>3. Cardinality(B(k - 1)) \in Nat /\ r = Cardinality(B(k - 1)) + 1
      BY <2>3, <2>6
    <3> HIDE DEF B, r
    <3> QED  BY <3>2, <3>3
  <2> HIDE DEF i, r
  <2> QED  BY <1>3, <2>1, <2>3, <2>4, <2>5, <2>7
<1>6. CASE k = Size + 4
  <2>1. ~FromInput(k)
    <3>1. k - 3 \notin 1 .. Size  BY <1>1, <1>6
    <3> QED  BY <1>1, <3>1
  <2>2. B(k - 1) = Asked
    <3>1. \A j \in Asked : j + 3 <= k - 1  BY <1>1, <1>2, <1>6
    <3> QED  BY <3>1
  <2>3. Ids(k - 1) = m + 1
    <3>1. k - 1 > 0 /\ ~(k - 1 > Size + 3)  BY <1>1, <1>6
    <3>2. Ids(k - 1) = 1 + Cardinality(B(k - 1)) + 0  BY <3>1 DEF Ids
    <3> HIDE DEF B
    <3> QED  BY <1>1, <2>2, <3>2
  <2>4. Ids(k - 1) \notin 1 .. m  BY <1>1, <2>3
  <2> QED  BY <1>3, <2>1, <2>4
<1> QED  BY <1>1, <1>4, <1>5, <1>6
-----------------------------------------------------------------------------
(* What is on the wire, and what is read back.                             *)

LEMMA LocalKeeps ==
  ASSUME NEW msg \in Stored
  PROVE  /\ Local(msg).type = msg.type /\ Local(msg).method = msg.method
         /\ Local(msg).uri = Localize(msg.uri) /\ msg.uri \in {Root, Virtual(Doc)}
<1>1. msg \in [type : {"request", "notification"},
               method : {"initialize", "initialized", "didOpen", "completion",
                         "documentSymbol", "setTrace", "shutdown", "exit"},
               uri : {Root, Virtual(Doc)}]
  BY DEF Stored, Appended, Request, Notification
<1> QED  BY <1>1 DEF Local

LEMMA OnWire ==
  ASSUME TypeOK, Sent, NEW k \in 1 .. Len(wire)
  PROVE  /\ k \in 1 .. Size + 5 /\ MessageSequence[k] \in Stored
         /\ wire[k].id = IF IsRequest(MessageSequence[k]) THEN Ids(k - 1) ELSE NoId
         /\ wire[k].message = Local(MessageSequence[k])
         /\ IsRequest(wire[k].message) <=> IsRequest(MessageSequence[k])
         /\ wire[k].message.method = MessageSequence[k].method
         /\ wire[k].message.uri = Localize(MessageSequence[k].uri)
<1>1. Len(wire) \in Nat  BY LenProperties DEF TypeOK
<1>2. k \in 1 .. Size + 5 /\ Size \in Nat  BY <1>1, Sequence DEF Sent
<1>3. MessageSequence[k] \in Stored  BY <1>2, Places
<1>4. /\ wire[k].id = IF IsRequest(MessageSequence[k]) THEN Ids(k - 1) ELSE NoId
      /\ wire[k].message = Local(MessageSequence[k])
  <2> DEFINE number == IF IsRequest(MessageSequence[k]) THEN Ids(k - 1) ELSE NoId
             message == Local(MessageSequence[k])
  <2>1. wire[k] = [id |-> number, message |-> message]  BY DEF Sent
  <2> HIDE DEF number, message
  <2>2. wire[k].id = number /\ wire[k].message = message  BY <2>1
  <2> QED  BY <2>2 DEF number, message
<1>5. /\ Local(MessageSequence[k]).type = MessageSequence[k].type
      /\ Local(MessageSequence[k]).method = MessageSequence[k].method
      /\ Local(MessageSequence[k]).uri = Localize(MessageSequence[k].uri)
  BY <1>3, LocalKeeps
<1> QED  BY <1>2, <1>3, <1>4, <1>5 DEF IsRequest

(* What is captured is the output up to the first frame nobody can read.   *)
LEMMA CapturedIsAPrefix ==
  ASSUME TypeOK
  PROVE  /\ Len(Captured) \in 0 .. Len(out) /\ Len(out) \in Nat
         /\ \A i \in 1 .. Len(Captured) : Captured[i] = out[i] /\ out[i].kind # "text"
<1> DEFINE T == {i \in 1 .. Len(out) : out[i].kind = "text"}
<1>1. PICK F : out \in Seq(F)  BY DEF TypeOK
<1>2. Len(out) \in Nat /\ \A i \in 1 .. Len(out) : out[i] \in F
  BY <1>1, LenProperties, ElementOfSeq
<1>3. \A r \in Readable : r \in Nat  BY <1>2 DEF Readable
<1>4. \E r \in Readable : \A q \in Readable : q <= r
  <2>1. CASE T = {}
    <3>1. Len(out) \in Readable  BY <1>2, <2>1 DEF Readable
    <3>2. \A q \in Readable : q <= Len(out)  BY <1>2 DEF Readable
    <3> QED  BY <3>1, <3>2
  <2>2. CASE T # {}
    <3>1. T \subseteq Nat  BY <1>2
    <3>2. PICK x \in T : \A y \in T : x <= y  BY <2>2, <3>1, Least
    <3>3. x \in 1 .. Len(out) /\ out[x].kind = "text"  BY <3>2
    <3>4. \A i \in 1 .. x - 1 : out[i].kind # "text"
      <4>1. ASSUME NEW i \in 1 .. x - 1, out[i].kind = "text"  PROVE FALSE
        <5>1. i \in 1 .. Len(out) /\ ~(x <= i)  BY <1>2, <3>3
        <5> QED  BY <3>2, <4>1, <5>1
      <4> QED  BY <4>1
    <3>5. x - 1 \in 0 .. Len(out)  BY <1>2, <3>3
    <3>6. x - 1 \in Readable  BY <3>4, <3>5 DEF Readable
    <3>7. ASSUME NEW q \in Readable  PROVE q <= x - 1
      <4>1. q \in 0 .. Len(out) /\ \A i \in 1 .. q : out[i].kind # "text"  BY DEF Readable
      <4>2. x \notin 1 .. q  BY <3>3, <4>1
      <4> QED  BY <1>2, <3>3, <4>1, <4>2
    <3> QED  BY <3>6, <3>7
  <2> QED  BY <2>1, <2>2
<1> DEFINE N == CHOOSE r \in Readable : \A q \in Readable : q <= r
<1>5. N \in Readable  BY <1>4
<1>6. Captured = SubSeq(out, 1, N)  BY DEF Captured
<1> HIDE DEF N
<1>7. N \in 0 .. Len(out) /\ \A i \in 1 .. N : out[i].kind # "text"  BY <1>5 DEF Readable
<1>8. N \in Int /\ \A i \in 1 .. N : out[i] \in F  BY <1>2, <1>7
<1>9. /\ Len(Captured) = IF 1 <= N THEN N - 1 + 1 ELSE 0
      /\ \A i \in 1 .. N - 1 + 1 : Captured[i] = out[1 + i - 1]
  BY <1>6, <1>8, SubSeqProperties
<1>10. Len(Captured) = N  BY <1>7, <1>9
<1>11. \A i \in 1 .. N : Captured[i] = out[i]  BY <1>7, <1>9
<1> QED  BY <1>2, <1>7, <1>10, <1>11

(* What does not depend on the session's progress.                         *)
LEMMA InputFixed ==
  ASSUME UNCHANGED input
  PROVE  /\ MessageSequence' = MessageSequence /\ Size' = Size
         /\ \A w : Ids(w)' = Ids(w)
         /\ \A k : FromInput(k)' <=> FromInput(k)
<1>1. files' = files /\ messages' = messages  BY DEF input
<1>2. Asked' = Asked  BY <1>1 DEF Asked
<1>3. DidOpen' = DidOpen  BY <1>1 DEF DidOpen, Sources
<1>4. MessageSequence' = MessageSequence  BY <1>1, <1>3 DEF MessageSequence
<1>5. Size' = Size  BY <1>1 DEF Size
<1>6. \A w : Ids(w)' = Ids(w)  BY <1>2, <1>5 DEF Ids
<1>7. \A k : FromInput(k)' <=> FromInput(k)  BY <1>1, <1>3 DEF FromInput
<1> QED  BY <1>4, <1>5, <1>6, <1>7

LEMMA OutputFixed ==
  ASSUME UNCHANGED out
  PROVE  Captured' = Captured
BY DEF Captured, Readable

LEMMA CarriesFixed ==
  ASSUME UNCHANGED out
  PROVE  \A i, k : Carries(i, k)' <=> Carries(i, k)
BY OutputFixed DEF Carries
-----------------------------------------------------------------------------
(* The steps.                                                              *)

LEMMA Initially == Init => IInv
<1> SUFFICES ASSUME Init  PROVE IInv  OBVIOUS
<1>0. /\ phase = "send" /\ id = 0 /\ wire = <<>> /\ out = <<>> /\ next = 1
      /\ responses = <<>> /\ notifications = {} /\ metadata = None
  BY DEF Init
<1>1. messages \in Seq(Appended)
  <2>1. PICK l \in 0 .. MaxMessages : messages \in [1 .. l -> Appended]  BY DEF Init
  <2>2. l \in Nat  BY SessionAssumption DEF SessionAssumption
  <2> QED  BY <2>1, <2>2
<1>2. TypeOK
  <2>1. wire \in Seq([id : Int, message : {Local(msg) : msg \in Stored}])  BY <1>0, EmptySeq
  <2>2. \E F : out \in Seq(F)  BY <1>0, EmptySeq
  <2>3. phase \in {"send", "run", "match", "done"} /\ files \in WorkspaceFiles  BY DEF Init
  <2> QED  BY <1>1, <2>1, <2>2, <2>3 DEF TypeOK
<1>3. Size \in Nat  BY <1>2, Sequence
<1>4. Sent
  <2>1. 0 \in 0 .. Size + 4  BY <1>3
  <2>2. Len(wire) = 0 /\ Ids(0) = 0  BY <1>0, <1>2, <2>1, IdsStep
  <2>3. phase = "send" <=> 0 < Size + 5  BY <1>0, <1>3
  <2>4. \A k \in 1 .. 0 : FALSE  OBVIOUS
  <2> QED  BY <1>0, <1>3, <2>2, <2>3, <2>4 DEF Sent
<1>5. Printed
  <2>1. Len(out) = 0 /\ \A k \in 1 .. 0 : FALSE  BY <1>0
  <2> QED  BY <1>0, <2>1 DEF Printed
<1>6. DOMAIN responses = {}  BY <1>0
<1>7. Learned  BY <1>0, <1>6 DEF Learned, OwnAnswer
<1>8. Kept
  <2>1. \A i \in 1 .. 1 - 1 : FALSE  OBVIOUS
  <2>2. KeptBefore(1)  BY <2>1 DEF KeptBefore
  <2> QED  BY <1>0, <2>2 DEF Kept
<1>9. Added  BY <1>0 DEF Added
<1> QED  BY <1>2, <1>4, <1>5, <1>7, <1>8, <1>9 DEF IInv

LEMMA Sends ==
  ASSUME IInv, Serialise
  PROVE  IInv'
<1> DEFINE w   == Len(wire)
           msg == MessageSequence[w + 1]
           M   == [id : Int, message : {Local(m) : m \in Stored}]
           new == IntoJsonRpc(msg)
<1>1. /\ TypeOK /\ Sent /\ phase = "send" /\ wire \in Seq(M)
      /\ next = 1 /\ responses = <<>> /\ notifications = {} /\ out = <<>>
  BY DEF IInv, Serialise, Learned, Printed, TypeOK
<1>2. /\ wire' = Append(wire, new) /\ id' = IF IsRequest(msg) THEN id + 1 ELSE id
      /\ phase' = IF w + 1 = Len(MessageSequence) THEN "run" ELSE "send"
      /\ UNCHANGED <<input, out, next, matching, metadata>>
  BY DEF Serialise
<1>3. w \in Nat /\ Size \in Nat /\ w + 1 \in 1 .. Size + 5 /\ w \in 0 .. Size + 4
      /\ Len(MessageSequence) = Size + 5
  <2>1. w \in Nat /\ Size \in Nat  BY <1>1, LenProperties, Sequence
  <2>2. w < Size + 5  BY <1>1 DEF Sent
  <2>3. Len(MessageSequence) = Size + 5  BY <1>1, Sequence
  <2> QED  BY <2>1, <2>2, <2>3
<1>4. id = Ids(w) /\ Ids(w) \in Nat /\ msg \in Stored
  BY <1>1, <1>3, IdsStep, Places DEF Sent
<1>5. new = [id |-> IF IsRequest(msg) THEN Ids(w) ELSE NoId, message |-> Local(msg)]
  BY <1>4 DEF IntoJsonRpc, Local
<1>6. new \in M
  <2>1. NoId \in Int  BY DEF NoId
  <2>2. (IF IsRequest(msg) THEN Ids(w) ELSE NoId) \in Int  BY <1>4, <2>1
  <2>3. Local(msg) \in {Local(m) : m \in Stored}  BY <1>4
  <2> QED  BY <1>5, <2>2, <2>3
<1>7. /\ MessageSequence' = MessageSequence /\ Size' = Size
      /\ \A v : Ids(v)' = Ids(v)
  BY <1>2, InputFixed
<1> HIDE DEF M, new
<1>8. /\ wire' \in Seq(M) /\ Len(wire') = w + 1
      /\ \A k \in 1 .. w : wire'[k] = wire[k]
      /\ wire'[w + 1] = new
  BY <1>1, <1>2, <1>3, <1>6, AppendProperties
<1>9. TypeOK'
  <2>1. files' = files /\ messages' = messages /\ out' = out  BY <1>2 DEF input
  <2>2. phase' \in {"send", "run", "match", "done"}  BY <1>2
  <2>3. files' \in WorkspaceFiles /\ messages' \in Seq(Appended) /\ \E F : out' \in Seq(F)
    BY <1>1, <2>1 DEF TypeOK
  <2> QED  BY <1>8, <2>2, <2>3 DEF TypeOK, M
<1>10. Sent'
  <2>1. id' = Ids(w + 1)  BY <1>1, <1>2, <1>3, <1>4, IdsStep
  <2>2. Ids(Len(wire))' = Ids(w + 1)
    <3>1. Ids(Len(wire))' = (IF Len(wire)' > 0 THEN 1 ELSE 0)
                              + Cardinality({i \in Asked' : i + 3 <= Len(wire)'})
                              + (IF Len(wire)' > Size' + 3 THEN 1 ELSE 0)
      BY DEF Ids
    <3>2. Len(wire)' = w + 1  BY <1>8
    <3>3. Asked' = Asked  BY <1>2 DEF input, Asked
    <3> QED  BY <1>7, <3>1, <3>2, <3>3 DEF Ids
  <2>3. Len(wire') <= Size' + 5 /\ (phase' = "send" <=> Len(wire') < Size' + 5)
    BY <1>2, <1>3, <1>7, <1>8
  <2>4. ASSUME NEW k \in 1 .. Len(wire')
        PROVE  wire'[k] = [id |-> IF IsRequest(MessageSequence'[k]) THEN Ids(k - 1)' ELSE NoId,
                           message |-> Local(MessageSequence'[k])]
    <3>1. CASE k \in 1 .. w  BY <1>1, <1>7, <1>8, <3>1 DEF Sent
    <3>2. CASE k = w + 1
      <4>1. k - 1 = w  BY <1>3, <3>2
      <4> QED  BY <1>5, <1>7, <1>8, <3>2, <4>1
    <3> QED  BY <1>3, <1>8, <3>1, <3>2
  <2> QED  BY <2>1, <2>2, <2>3, <2>4 DEF Sent, IsRequest
<1>11. Printed'
  <2>1. out' = <<>> /\ Len(out') = 0 /\ \A k \in 1 .. 0 : FALSE  BY <1>1, <1>2
  <2> QED  BY <2>1 DEF Printed
<1>12. /\ next' = 1 /\ responses' = <<>> /\ notifications' = {} /\ DOMAIN responses' = {}
  BY <1>1, <1>2 DEF matching
<1>13. Learned'  BY <1>12 DEF Learned, OwnAnswer
<1>14. Kept'
  <2>1. \A i \in 1 .. 1 - 1 : FALSE  OBVIOUS
  <2>2. phase' \notin {"match", "done"}  BY <1>2
  <2>3. KeptBefore(next)'  BY <1>12, <2>1 DEF KeptBefore
  <2> QED  BY <1>12, <2>2, <2>3 DEF Kept
<1>15. Added'
  <2>1. metadata = None /\ metadata' = metadata  BY <1>1, <1>2 DEF IInv, Added
  <2> QED  BY <2>1 DEF Added
<1> QED  BY <1>9, <1>10, <1>11, <1>13, <1>14, <1>15 DEF IInv

(* Everything but the wire stays genuine as long as the wire stays.        *)
LEMMA GenuineFixed ==
  ASSUME UNCHANGED wire
  PROVE  \A f : Genuine(f)' <=> Genuine(f)
BY DEF Genuine

LEMMA Prints ==
  ASSUME IInv, NEW f, Genuine(f), Emit(f)
  PROVE  IInv'
<1>1. /\ phase = "run" /\ out' = Append(out, f)
      /\ UNCHANGED <<input, phase, id, wire, next, matching, metadata>>
  BY DEF Emit
<1>2. /\ files' = files /\ messages' = messages /\ id' = id /\ wire' = wire
      /\ responses' = responses /\ notifications' = notifications
      /\ phase' = phase /\ next' = next /\ metadata' = metadata
  BY <1>1 DEF input, matching
<1>3. PICK F : out \in Seq(F)  BY DEF IInv, TypeOK
<1> DEFINE G == F \cup {f}
<1>4. out \in Seq(G) /\ f \in G
  <2>1. F \subseteq G  OBVIOUS
  <2> QED  BY <1>3, <2>1, SeqMonotonic
<1> HIDE DEF G
<1>5. /\ out' \in Seq(G) /\ Len(out) \in Nat /\ Len(out') = Len(out) + 1
      /\ \A i \in 1 .. Len(out) : out'[i] = out[i]
      /\ out'[Len(out) + 1] = f
  BY <1>1, <1>4, AppendProperties, LenProperties
<1>6. TypeOK'  BY <1>2, <1>5 DEF IInv, TypeOK
<1>7. Sent'
  <2>1. MessageSequence' = MessageSequence /\ Size' = Size /\ \A w : Ids(w)' = Ids(w)
    BY <1>1, InputFixed
  <2>2. Ids(Len(wire))' = Ids(Len(wire))  BY <1>2 DEF Ids, Asked, Size
  <2> QED  BY <1>2, <2>1, <2>2 DEF IInv, Sent, IsRequest
<1>8. Printed'
  <2>1. ASSUME NEW i \in 1 .. Len(out')  PROVE Genuine(out'[i])
    <3>1. CASE i \in 1 .. Len(out)  BY <1>5, <3>1 DEF IInv, Printed
    <3>2. CASE i = Len(out) + 1  BY <1>5, <3>2
    <3> QED  BY <1>5, <3>1, <3>2
  <2>2. \A g : Genuine(g)' <=> Genuine(g)  BY <1>2, GenuineFixed
  <2>3. phase' # "send"  BY <1>1, <1>2
  <2>4. ASSUME NEW i \in 1 .. Len(out')  PROVE Genuine(out[i])'
    <3> DEFINE g == out'[i]
    <3>1. Genuine(g)  BY <2>1
    <3>2. Genuine(out[i])' <=> Genuine(g)  BY <1>2 DEF Genuine
    <3> QED  BY <3>1, <3>2
  <2> QED  BY <2>3, <2>4 DEF Printed
<1>9. next = 1 /\ responses = <<>> /\ notifications = {}
  BY <1>1 DEF IInv, Learned
<1>10. DOMAIN responses' = {}  BY <1>2, <1>9
<1>11. Learned'  BY <1>2, <1>9, <1>10 DEF Learned, OwnAnswer
<1>12. Kept'
  <2>1. \A i \in 1 .. 1 - 1 : FALSE  OBVIOUS
  <2>2. phase' \notin {"match", "done"}  BY <1>1, <1>2
  <2>3. KeptBefore(next)'  BY <1>2, <1>9, <2>1 DEF KeptBefore
  <2>4. next' \in Nat \ {0}  BY <1>2, <1>9
  <2> QED  BY <2>2, <2>3, <2>4 DEF Kept
<1>13. Added'
  <2>1. metadata = None  BY <1>1 DEF IInv, Added
  <2> QED  BY <1>2, <2>1 DEF Added
<1> QED  BY <1>6, <1>7, <1>8, <1>11, <1>12, <1>13 DEF IInv

(* Every frame the server prints is genuine.                               *)
LEMMA ServerPrints ==
  ASSUME IInv, ServerAnswers \/ ServerNotifies \/ ServerRequests \/ ServerBabbles
  PROVE  IInv'
<1>1. CASE ServerAnswers
  <2>1. PICK k \in 1 .. Len(wire) :
          /\ IsRequest(wire[k].message)
          /\ \E r \in {None, Result("bad", Root, None, k)} \cup Results(wire[k].message.method, k),
                failed \in BOOLEAN :
               Emit([kind |-> "response", id |-> wire[k].id, result |-> r,
                      error |-> failed, about |-> k])
    BY <1>1 DEF ServerAnswers
  <2>2. PICK r \in {None, Result("bad", Root, None, k)} \cup Results(wire[k].message.method, k),
             failed \in BOOLEAN :
          Emit([kind |-> "response", id |-> wire[k].id, result |-> r,
                 error |-> failed, about |-> k])
    BY <2>1
  <2> DEFINE f == [kind |-> "response", id |-> wire[k].id, result |-> r,
                   error |-> failed, about |-> k]
  <2>3. /\ f.kind = "response" /\ f.about = k /\ f.id = wire[k].id /\ f.result = r
        /\ Emit(f)
    BY <2>2
  <2> HIDE DEF f
  <2>4. Genuine(f)  BY <2>1, <2>3 DEF Genuine
  <2> QED  BY <2>3, <2>4, Prints
<1>2. CASE ServerNotifies
  <2>1. CASE \E u \in Reported, m \in {"publishDiagnostics", "unknown"} :
               Emit([kind |-> "notification", method |-> m, uri |-> u, params |-> TRUE])
    <3>1. PICK u \in Reported, m \in {"publishDiagnostics", "unknown"} :
            Emit([kind |-> "notification", method |-> m, uri |-> u, params |-> TRUE])
      BY <2>1
    <3> DEFINE f == [kind |-> "notification", method |-> m, uri |-> u, params |-> TRUE]
    <3>2. f.kind = "notification" /\ f.uri \in Reported /\ Emit(f)  BY <3>1
    <3> HIDE DEF f
    <3>3. Genuine(f)  BY <3>2 DEF Genuine
    <3> QED  BY <3>2, <3>3, Prints
  <2>2. CASE Emit([kind |-> "notification", params |-> FALSE])
    <3> DEFINE f == [kind |-> "notification", params |-> FALSE]
    <3>1. f.kind = "notification" /\ ~f.params /\ Emit(f)  BY <2>2
    <3> HIDE DEF f
    <3>2. Genuine(f)  BY <3>1 DEF Genuine
    <3> QED  BY <3>1, <3>2, Prints
  <2> QED  BY <1>2, <2>1, <2>2 DEF ServerNotifies
<1>3. CASE ServerRequests
  <2>1. \E f : Emit(f) /\ f.kind = "request"  BY <1>3 DEF ServerRequests
  <2>2. PICK f : Emit(f) /\ f.kind = "request"  BY <2>1
  <2>3. Genuine(f)  BY <2>2 DEF Genuine
  <2> QED  BY <2>2, <2>3, Prints
<1>4. CASE ServerBabbles
  <2> DEFINE f == [kind |-> "text"]
  <2>1. f.kind = "text" /\ Emit(f)  BY <1>4 DEF ServerBabbles
  <2> HIDE DEF f
  <2>2. Genuine(f)  BY <2>1 DEF Genuine
  <2> QED  BY <2>1, <2>2, Prints
<1> QED  BY <1>1, <1>2, <1>3, <1>4

(* What steps that print nothing and send nothing leave as it is.          *)
LEMMA Idle ==
  ASSUME IInv, UNCHANGED <<input, id, wire, out>>,
         phase' \in {"run", "match", "done"}, phase # "send"
  PROVE  TypeOK' /\ Sent' /\ Printed'
<1>1. files' = files /\ messages' = messages /\ id' = id /\ wire' = wire /\ out' = out
  BY DEF input
<1>2. TypeOK'  BY <1>1 DEF IInv, TypeOK
<1>3. Sent'
  <2>1. MessageSequence' = MessageSequence /\ Size' = Size /\ \A w : Ids(w)' = Ids(w)
    BY InputFixed
  <2>2. Ids(Len(wire))' = Ids(Len(wire))  BY <1>1 DEF Ids, Asked, Size
  <2>3. phase' # "send" /\ phase # "send"  OBVIOUS
  <2> QED  BY <1>1, <2>1, <2>2, <2>3 DEF IInv, Sent, IsRequest
<1>4. Printed'
  <2>1. \A f : Genuine(f)' <=> Genuine(f)  BY <1>1, GenuineFixed
  <2>2. ASSUME NEW i \in 1 .. Len(out)  PROVE Genuine(out[i])'
    <3>1. Genuine(out[i])  BY DEF IInv, Printed
    <3> QED  BY <1>1, <3>1 DEF Genuine
  <2> QED  BY <1>1, <2>2 DEF Printed
<1> QED  BY <1>2, <1>3, <1>4

(* The matcher's turn: an answer to a request of the input is recorded     *)
(* under the request it is about, or ends the matching; any other frame    *)
(* leaves the answers as they are.                                         *)
Records(f) ==
  /\ f.kind = "response" /\ f.about \in 1 .. Len(wire) /\ FromInput(f.about)
  /\ f.result # None /\ f.result \in Results(MessageSequence[f.about].method, f.about)
  /\ responses' = Insert(responses, MessageSequence[f.about], Lifted(f.result))
  /\ UNCHANGED <<phase, notifications>> /\ next' = next + 1

Passes(f) ==
  /\ \/ UNCHANGED notifications
     \/ f.uri \in Reported /\ notifications' = notifications \cup {LiftJson(f.uri)}
  /\ f.kind = "response" /\ FromInput(f.about) => f.result = None
  /\ UNCHANGED <<phase, responses>> /\ next' = next + 1

LEMMA Outcome ==
  ASSUME IInv, NEW f, Genuine(f), f.kind # "text", MatchMessage(Decode(f))
  PROVE  Records(f) \/ Passes(f) \/ GiveUp
<1>1. CASE f.kind = "response"
  <2>1. Decode(f) = f  BY <1>1 DEF Decode
  <2>2. MatchResponse(f)  BY <1>1, <2>1 DEF MatchMessage
  <2> DEFINE k == f.about
  <2>3. /\ k \in 1 .. Len(wire) /\ IsRequest(wire[k].message) /\ f.id = wire[k].id
        /\ f.result \in {None, Result("bad", Root, None, k)} \cup Results(wire[k].message.method, k)
    BY <1>1 DEF Genuine
  <2>4. /\ k \in 1 .. Size + 5 /\ IsRequest(MessageSequence[k]) /\ f.id = Ids(k - 1)
        /\ wire[k].message.method = MessageSequence[k].method
    BY <2>3, OnWire DEF IInv
  <2>5. /\ f.id \in DOMAIN Requests <=> FromInput(k)
        /\ FromInput(k) => Requests[f.id] = MessageSequence[k]
    BY <2>4, Numbering DEF IInv
  <2>6. CASE ~FromInput(k)
    <3>1. UNCHANGED matching /\ next' = next + 1 /\ UNCHANGED phase
      BY <2>2, <2>5, <2>6 DEF MatchResponse
    <3> QED  BY <2>6, <3>1 DEF Passes, matching
  <2>7. CASE FromInput(k)
    <3> DEFINE request == MessageSequence[k]
    <3>1. \/ /\ f.result # None /\ ResultDecodes(request.method, f.result)
             /\ responses' = Insert(responses, request, Lifted(f.result))
             /\ next' = next + 1
             /\ UNCHANGED <<errors, notifications, phase>>
          \/ GiveUp
          \/ /\ f.result = None
             /\ next' = next + 1
             /\ UNCHANGED <<responses, notifications, phase>>
      BY <2>2, <2>5, <2>7 DEF MatchResponse
    <3>2. CASE f.result = None /\ next' = next + 1 /\ UNCHANGED <<responses, notifications, phase>>
      BY <3>2 DEF Passes
    <3>3. CASE /\ f.result # None /\ ResultDecodes(request.method, f.result)
               /\ responses' = Insert(responses, request, Lifted(f.result))
               /\ next' = next + 1
               /\ UNCHANGED <<errors, notifications, phase>>
      <4>1. f.result # Result("bad", Root, None, k)
        <5>1. ~ResultDecodes(request.method, Result("bad", Root, None, k))
          BY DEF ResultDecodes, Result
        <5> QED  BY <3>3, <5>1
      <4>2. f.result \in Results(request.method, k)  BY <2>3, <2>4, <3>3, <4>1
      <4> QED  BY <1>1, <2>3, <2>7, <3>3, <4>2 DEF Records
    <3> QED  BY <3>1, <3>2, <3>3
  <2> QED  BY <2>6, <2>7
<1>2. CASE f.kind # "response" /\ f.kind \in {"request", "notification"} /\ ~f.params
  <2>1. \E i : Decode(f) = Reply(i, None, FALSE)  BY <1>2 DEF Decode
  <2>2. PICK i : Decode(f) = Reply(i, None, FALSE)  BY <2>1
  <2>3. Decode(f).kind = "response" /\ Decode(f).result = None  BY <2>2 DEF Reply
  <2>4. MatchResponse(Decode(f))  BY <2>3 DEF MatchMessage
  <2>5. UNCHANGED <<responses, notifications, phase>> /\ next' = next + 1
    BY <2>3, <2>4 DEF MatchResponse, matching
  <2> QED  BY <1>2, <2>5 DEF Passes
<1>3. CASE f.kind # "response" /\ f.kind \in {"request", "notification"} /\ f.params
  <2>1. Decode(f) = f  BY <1>3 DEF Decode
  <2>2. CASE f.kind = "request"
    <3>1. GiveUp \/ (next' = next + 1 /\ UNCHANGED <<matching, phase>>)
      BY <2>1, <2>2 DEF MatchMessage
    <3> QED  BY <1>3, <3>1 DEF Passes, matching
  <2>3. CASE f.kind = "notification"
    <3>1. f.uri \in Reported  BY <1>3, <2>3 DEF Genuine
    <3>2. \/ GiveUp
          \/ /\ next' = next + 1 /\ notifications' = notifications \cup {LiftJson(f.uri)}
             /\ UNCHANGED <<responses, phase>>
      BY <2>1, <2>3 DEF MatchMessage
    <3> QED  BY <1>3, <3>1, <3>2 DEF Passes
  <2> QED  BY <1>3, <2>2, <2>3
<1>4. f.kind \in {"response", "request", "notification"}  BY DEF Genuine
<1> QED  BY <1>1, <1>2, <1>3, <1>4

(* A result that is kept names no workspace but the fuzzer's own.          *)
LEMMA ResultsAreAbout ==
  ASSUME NEW method, NEW k, NEW r \in Results(method, k)
  PROVE  Lifted(r).about = k /\ NamesKnown(method, Lifted(r))
<1>1. CASE method = "documentSymbol" /\ r = Result("nested", Root, None, k)
  BY <1>1 DEF Lifted, Result, NamesKnown
<1>2. CASE \E u \in Reported : \E shape, key : r = Result(shape, u, key, k)
  <2>0. PICK u \in Reported : \E shape, key : r = Result(shape, u, key, k)  BY <1>2
  <2>1. PICK shape, key : r = [shape |-> shape, uri |-> u, key |-> key, about |-> k]
    BY <2>0 DEF Result
  <2>2. Lifted(r) = [shape |-> shape, uri |-> LiftJson(u), key |-> key, about |-> k]
    BY <2>1 DEF Lifted
  <2>3. LiftJson(u) \in Known  BY DEF Known
  <2> QED  BY <2>2, <2>3 DEF NamesKnown
<1>3. Uri("workspace", Doc) \in Reported  BY DEF Reported
<1> QED  BY <1>1, <1>2, <1>3 DEF Results

(* An answer read is about the request it bears the id of, and reading it  *)
(* leaves no earlier answer unaccounted for.                               *)
LEMMA Matches ==
  ASSUME IInv, Match
  PROVE  IInv'
<1> DEFINE N == Len(Captured)
           f == Captured[next]
<1>1. /\ phase = "match" /\ next <= N /\ MatchMessage(Decode(f))
      /\ UNCHANGED <<input, id, wire, out, metadata>>
  BY DEF Match
<1>2. /\ N \in 0 .. Len(out) /\ Len(out) \in Nat
      /\ \A i \in 1 .. N : Captured[i] = out[i] /\ out[i].kind # "text"
  BY CapturedIsAPrefix DEF IInv
<1>3. next \in 1 .. N /\ next \in Nat  BY <1>1, <1>2 DEF IInv, Kept
<1>4. Genuine(f) /\ f.kind # "text"
  <2>1. f = out[next] /\ next \in 1 .. Len(out) /\ out[next].kind # "text"  BY <1>2, <1>3
  <2>2. Genuine(out[next])  BY <2>1 DEF IInv, Printed
  <2> QED  BY <2>1, <2>2
<1>5. Records(f) \/ Passes(f) \/ GiveUp
  <2> HIDE DEF f
  <2> QED  BY <1>1, <1>4, Outcome
<1>6. phase' \in {"match", "done"}  BY <1>1, <1>5 DEF Records, Passes, GiveUp
<1>7. TypeOK' /\ Sent' /\ Printed'  BY <1>1, <1>6, Idle
<1>8. /\ MessageSequence' = MessageSequence /\ Captured' = Captured /\ wire' = wire
      /\ \A k : FromInput(k)' <=> FromInput(k)
      /\ \A i, k : Carries(i, k)' <=> Carries(i, k)
  BY <1>1, InputFixed, OutputFixed, CarriesFixed
<1>9. Added'
  <2>1. metadata = None /\ metadata' = None  BY <1>1 DEF IInv, Added
  <2> QED  BY <2>1 DEF Added
<1>10. next' \in Nat \ {0} /\ next' <= N + 1
  BY <1>2, <1>3, <1>5 DEF Records, Passes, GiveUp
<1>11. /\ DOMAIN responses \subseteq Appended /\ OwnAnswer /\ notifications \subseteq Known
       /\ \A r \in DOMAIN responses : NamesKnown(r.method, responses[r])
       /\ KeptBefore(next)
  BY DEF IInv, Learned, Kept
<1> HIDE DEF N, f
<1>12. CASE GiveUp
  <2>1. next' = next /\ responses' = responses /\ notifications' = notifications
    BY <1>12 DEF GiveUp, matching
  <2>2. OwnAnswer'  BY <1>8, <1>11, <2>1 DEF OwnAnswer
  <2>3. Learned'  BY <1>6, <1>11, <2>1, <2>2 DEF Learned
  <2>4. KeptBefore(next)'
    BY <1>8, <1>11, <2>1 DEF KeptBefore
  <2>5. Kept'  BY <1>8, <1>10, <2>4 DEF Kept, N
  <2> QED  BY <1>7, <1>9, <2>3, <2>5 DEF IInv
<1>13. CASE Passes(f)
  <2>1. next' = next + 1 /\ responses' = responses  BY <1>13 DEF Passes
  <2>2. notifications' \subseteq Known  BY <1>11, <1>13 DEF Passes, Known
  <2>3. OwnAnswer'  BY <1>8, <1>11, <2>1 DEF OwnAnswer
  <2>4. Learned'  BY <1>6, <1>11, <2>1, <2>2, <2>3 DEF Learned
  <2>5. KeptBefore(next)'
    <3> SUFFICES ASSUME NEW k \in 1 .. Len(wire), NEW i \in 1 .. next,
                        FromInput(k), Carries(i, k)
                 PROVE  /\ MessageSequence[k] \in DOMAIN responses
                        /\ \E j \in i .. next :
                             Carries(j, responses[MessageSequence[k]].about)
      <4>1. next' - 1 = next  BY <1>3, <2>1
      <4> QED  BY <1>8, <2>1, <4>1 DEF KeptBefore
    <3>1. i # next
      <4>1. SUFFICES ASSUME i = next  PROVE FALSE  OBVIOUS
      <4>2. f.kind = "response" /\ f.about = k /\ f.result # None  BY <4>1 DEF Carries, f
      <4> QED  BY <1>13, <4>2 DEF Passes
    <3>2. i \in 1 .. next - 1  BY <1>3, <3>1
    <3>3. PICK j \in i .. next - 1 : Carries(j, responses[MessageSequence[k]].about)
      BY <1>11, <3>2 DEF KeptBefore
    <3>4. j \in i .. next  BY <1>3, <3>3
    <3>5. MessageSequence[k] \in DOMAIN responses  BY <1>11, <3>2 DEF KeptBefore
    <3> QED  BY <3>3, <3>4, <3>5
  <2>6. Kept'  BY <1>8, <1>10, <2>5 DEF Kept, N
  <2> QED  BY <1>7, <1>9, <2>4, <2>6 DEF IInv
<1>14. CASE Records(f)
  <2> DEFINE a == f.about
             request == MessageSequence[a]
             kept == Lifted(f.result)
  <2>1. /\ f.kind = "response" /\ a \in 1 .. Len(wire) /\ FromInput(a) /\ f.result # None
        /\ f.result \in Results(request.method, a)
        /\ responses' = Insert(responses, request, kept)
        /\ notifications' = notifications /\ next' = next + 1
    BY <1>14 DEF Records
  <2>2. /\ kept.about = a
        /\ NamesKnown(request.method, kept)
    BY <2>1, ResultsAreAbout
  <2>3. /\ a \in 1 .. Size + 5 /\ wire[a].message = [request EXCEPT !.uri = Localize(@)]
        /\ request \in Appended
    <3>1. a \in 1 .. Size + 5 /\ wire[a].message = Local(request)
      BY <2>1, OnWire DEF IInv
    <3>2. a - 3 \in 1 .. Size /\ (a - 3) + 3 = a  BY <2>1, <3>1, Places DEF IInv
    <3>3. messages \in Seq(Appended)  BY DEF IInv, TypeOK
    <3>4. \A i \in 1 .. Size : MessageSequence[i + 3] = messages[i] /\ messages[i] \in Appended
      BY <3>3, Sequence, ElementOfSeq DEF IInv, Size
    <3> DEFINE i == a - 3
    <3>5. i \in 1 .. Size /\ i + 3 = a  BY <3>2
    <3> HIDE DEF i
    <3>6. MessageSequence[a] \in Appended  BY <3>4, <3>5
    <3> QED  BY <3>1, <3>6 DEF Local
  <2> HIDE DEF a, request, kept
  <2>4. /\ DOMAIN responses' = DOMAIN responses \cup {request}
        /\ responses'[request] = kept
        /\ \A q \in DOMAIN responses : q # request => responses'[q] = responses[q]
    BY <2>1 DEF Insert
  <2>5. OwnAnswer'
    <3> SUFFICES ASSUME NEW q \in DOMAIN responses'
                 PROVE  wire[responses'[q].about].message = [q EXCEPT !.uri = Localize(@)]
      BY <1>8 DEF OwnAnswer
    <3>1. CASE q = request  BY <2>2, <2>3, <2>4, <3>1
    <3>2. CASE q # request  BY <1>11, <2>4, <3>2 DEF OwnAnswer
    <3> QED  BY <3>1, <3>2
  <2>6. Learned'
    <3>1. DOMAIN responses' \subseteq Appended /\ notifications' \subseteq Known
      BY <1>11, <2>1, <2>3, <2>4
    <3>2. ASSUME NEW q \in DOMAIN responses'
          PROVE  NamesKnown(q.method, responses'[q])
      <4>1. CASE q = request  BY <2>2, <2>4, <4>1
      <4>2. CASE q # request  BY <1>11, <2>4, <4>2
      <4> QED  BY <4>1, <4>2
    <3> QED  BY <1>6, <2>5, <3>1, <3>2 DEF Learned, NamesKnown, Known, Reported
  <2>7. Carries(next, a)  BY <2>1 DEF Carries, a, f
  <2>8. KeptBefore(next)'
    <3> SUFFICES ASSUME NEW k \in 1 .. Len(wire), NEW i \in 1 .. next,
                        FromInput(k), Carries(i, k)
                 PROVE  /\ MessageSequence[k] \in DOMAIN responses'
                        /\ \E j \in i .. next :
                             Carries(j, responses'[MessageSequence[k]].about)
      <4>1. next' - 1 = next  BY <1>3, <2>1
      <4> QED  BY <1>8, <2>1, <4>1 DEF KeptBefore
    <3>1. next \in i .. next  BY <1>3
    <3>2. CASE MessageSequence[k] = request
      <4>1. responses'[MessageSequence[k]].about = a  BY <2>2, <2>4, <3>2
      <4> QED  BY <2>4, <2>7, <3>1, <3>2, <4>1
    <3>3. CASE MessageSequence[k] # request
      <4>1. i # next
        <5>1. SUFFICES ASSUME i = next  PROVE FALSE  OBVIOUS
        <5>2. k = a  BY <5>1 DEF Carries, f, a
        <5> QED  BY <3>3, <5>2 DEF request
      <4>2. i \in 1 .. next - 1  BY <1>3, <4>1
      <4>3. PICK j \in i .. next - 1 : Carries(j, responses[MessageSequence[k]].about)
        BY <1>11, <4>2 DEF KeptBefore
      <4>4. j \in i .. next  BY <1>3, <4>3
      <4>5. MessageSequence[k] \in DOMAIN responses  BY <1>11, <4>2 DEF KeptBefore
      <4>6. responses'[MessageSequence[k]] = responses[MessageSequence[k]]
        BY <2>4, <3>3, <4>5
      <4> QED  BY <2>4, <4>3, <4>4, <4>5, <4>6
    <3> QED  BY <3>2, <3>3
  <2>9. Kept'  BY <1>8, <1>10, <2>8 DEF Kept, N
  <2> QED  BY <1>7, <1>9, <2>6, <2>9 DEF IInv
<1> QED  BY <1>5, <1>12, <1>13, <1>14

LEMMA Ends ==
  ASSUME IInv, ServerEnds
  PROVE  IInv'
<1>1. /\ phase = "run" /\ phase' = "match"
      /\ UNCHANGED <<input, id, wire, out, next, matching, metadata>>
  BY DEF ServerEnds
<1>2. next' = next /\ responses' = responses /\ notifications' = notifications
  BY <1>1 DEF matching
<1>3. TypeOK' /\ Sent' /\ Printed'  BY <1>1, Idle
<1>4. Captured' = Captured /\ wire' = wire  BY <1>1, OutputFixed
<1>5. next = 1 /\ responses = <<>> /\ notifications = {}  BY <1>1 DEF IInv, Learned
<1>6. DOMAIN responses' = {}  BY <1>2, <1>5
<1>7. Learned'  BY <1>1, <1>2, <1>5, <1>6 DEF Learned, OwnAnswer
<1>8. Kept'
  <2>1. Len(Captured) \in Nat  BY CapturedIsAPrefix DEF IInv
  <2>2. next' \in Nat \ {0} /\ next' <= Len(Captured') + 1  BY <1>2, <1>4, <1>5, <2>1
  <2>3. \A i \in 1 .. 1 - 1 : FALSE  OBVIOUS
  <2>4. KeptBefore(next)'  BY <1>2, <1>5, <2>3 DEF KeptBefore
  <2> QED  BY <2>2, <2>4 DEF Kept
<1>9. Added'
  <2>1. metadata = None /\ metadata' = None  BY <1>1 DEF IInv, Added
  <2> QED  BY <2>1 DEF Added
<1> QED  BY <1>3, <1>7, <1>8, <1>9 DEF IInv

(* The metadata is what the matcher learned, all of it.                    *)
LEMMA Adds ==
  ASSUME IInv, AppendMetadata
  PROVE  IInv'
<1>1. /\ phase = "match" /\ next > Len(Captured) /\ phase' = "done"
      /\ metadata' = CollectResponseInfo
      /\ UNCHANGED <<input, id, wire, out, next, matching>>
  BY DEF AppendMetadata
<1>2. next' = next /\ responses' = responses /\ notifications' = notifications
  BY <1>1 DEF matching
<1>3. TypeOK' /\ Sent' /\ Printed'  BY <1>1, Idle
<1>4. /\ MessageSequence' = MessageSequence /\ Captured' = Captured /\ wire' = wire
      /\ \A k : FromInput(k)' <=> FromInput(k)
      /\ \A i, k : Carries(i, k)' <=> Carries(i, k)
  BY <1>1, InputFixed, OutputFixed, CarriesFixed
<1>5. OwnAnswer'  BY <1>2, <1>4 DEF IInv, Learned, OwnAnswer
<1>6. Learned'  BY <1>1, <1>2, <1>5 DEF IInv, Learned
<1>7. KeptBefore(next)'  BY <1>2, <1>4 DEF IInv, Kept, KeptBefore
<1>8. Kept'  BY <1>1, <1>2, <1>4, <1>7 DEF IInv, Kept
<1>9. CollectResponseInfo' = CollectResponseInfo
  BY <1>2 DEF CollectResponseInfo, SymbolUri
<1>10. Added'  BY <1>1, <1>2, <1>4, <1>9 DEF Added
<1> QED  BY <1>3, <1>6, <1>8, <1>10 DEF IInv

LEMMA Rests ==
  ASSUME IInv, UNCHANGED vars
  PROVE  IInv'
<1>1. /\ files' = files /\ messages' = messages /\ phase' = phase /\ id' = id
      /\ wire' = wire /\ out' = out /\ next' = next /\ responses' = responses
      /\ notifications' = notifications /\ metadata' = metadata
      /\ UNCHANGED input
  BY DEF vars, input, matching
<1>2. /\ MessageSequence' = MessageSequence /\ Captured' = Captured /\ Size' = Size
      /\ \A w : Ids(w)' = Ids(w)
      /\ \A k : FromInput(k)' <=> FromInput(k)
      /\ \A i, k : Carries(i, k)' <=> Carries(i, k)
  BY <1>1, InputFixed, OutputFixed, CarriesFixed
<1>3. TypeOK'  BY <1>1 DEF IInv, TypeOK
<1>4. Sent'
  <2>1. Ids(Len(wire))' = Ids(Len(wire))  BY <1>1 DEF Ids, Asked, Size
  <2> QED  BY <1>1, <1>2, <2>1 DEF IInv, Sent, IsRequest
<1>5. Printed'
  <2>1. ASSUME NEW i \in 1 .. Len(out)  PROVE Genuine(out[i])'
    <3>1. Genuine(out[i])  BY DEF IInv, Printed
    <3> QED  BY <1>1, <3>1 DEF Genuine
  <2> QED  BY <1>1, <2>1 DEF IInv, Printed
<1>6. OwnAnswer'  BY <1>1 DEF IInv, Learned, OwnAnswer
<1>7. Learned'  BY <1>1, <1>6 DEF IInv, Learned
<1>8. KeptBefore(next)'  BY <1>1, <1>2 DEF IInv, Kept, KeptBefore
<1>9. Kept'  BY <1>1, <1>2, <1>8 DEF IInv, Kept
<1>10. CollectResponseInfo' = CollectResponseInfo
  BY <1>1 DEF CollectResponseInfo, SymbolUri
<1>11. Added'  BY <1>1, <1>2, <1>10 DEF IInv, Added
<1> QED  BY <1>3, <1>4, <1>5, <1>7, <1>9, <1>11 DEF IInv

LEMMA Steps ==
  ASSUME IInv, [Next]_vars
  PROVE  IInv'
<1>1. CASE Serialise  BY <1>1, Sends
<1>2. CASE ServerAnswers \/ ServerNotifies \/ ServerRequests \/ ServerBabbles
  BY <1>2, ServerPrints
<1>3. CASE ServerEnds  BY <1>3, Ends
<1>4. CASE Match  BY <1>4, Matches
<1>5. CASE AppendMetadata  BY <1>5, Adds
<1>6. CASE Done \/ UNCHANGED vars  BY <1>6, Rests DEF Done
<1> QED  BY <1>1, <1>2, <1>3, <1>4, <1>5, <1>6 DEF Next, Server

(* Every session, of every input with every server, keeps the invariant.   *)
THEOREM Invariant == Spec => []IInv
<1>1. IInv /\ [Next]_vars => IInv'  BY Steps
<1> QED  BY Initially, <1>1, PTL DEF Spec
-----------------------------------------------------------------------------
(* The properties.                                                         *)

(* An answer is only ever recorded under the request it is about:          *)
(* session.rs, message.rs and matching.rs number requests alike.           *)
THEOREM OwnAnswerHolds == Spec => []OwnAnswer
<1>1. IInv => OwnAnswer  BY DEF IInv, Learned
<1> QED  BY <1>1, Invariant, PTL

(* When the metadata is added every answer the campaign could read is in   *)
(* it, or a later one to an equal request.                                 *)
THEOREM AnswersKeptHolds == Spec => []AnswersKept
<1>1. IInv => AnswersKept
  <2> SUFFICES ASSUME IInv, metadata # None,
                      NEW k \in 1 .. Len(wire), NEW i \in 1 .. Len(Captured),
                      FromInput(k), Carries(i, k)
               PROVE  /\ MessageSequence[k] \in DOMAIN responses
                      /\ \E j \in i .. Len(Captured) :
                           Carries(j, responses[MessageSequence[k]].about)
    BY DEF AnswersKept
  <2>1. Len(Captured) \in Nat  BY CapturedIsAPrefix DEF IInv
  <2>2. next = Len(Captured) + 1  BY <2>1 DEF IInv, Added, Kept
  <2>3. next - 1 = Len(Captured)  BY <2>1, <2>2
  <2>4. i \in 1 .. next - 1  BY <2>3
  <2> QED  BY <2>3, <2>4 DEF IInv, Kept, KeptBefore
<1> QED  BY <1>1, Invariant, PTL

(* The fuzzer's scheme never reaches a server, and a run's directory never *)
(* reaches the diagnostics, the symbols or the values of the fragments     *)
(* that are learned from it (lift_localized_json); the keys of objects in  *)
(* fragments are not translated and not covered.                           *)
THEOREM UrisTranslatedHolds == Spec => []UrisTranslated
<1>1. IInv => UrisTranslated
  <2> SUFFICES ASSUME IInv  PROVE UrisTranslated  OBVIOUS
  <2> DEFINE Names == {Virtual(f) : f \in Skeleton \cup {Doc}} \cup {Uri("elsewhere", Outside)}
  <2>1. ASSUME NEW i \in 1 .. Len(wire)  PROVE wire[i].message.uri.root # "virtual"
    <3>1. wire[i].message.uri = Localize(MessageSequence[i].uri)
          /\ MessageSequence[i].uri \in {Root, Virtual(Doc)}
      BY OnWire, LocalKeeps DEF IInv
    <3> QED  BY <3>1 DEF Localize, Root, Virtual, Uri
  <2>2. Known \subseteq Names
    <3>1. Virtual(Doc) \in Names  OBVIOUS
    <3>2. LiftJson(Uri("workspace", Doc)) = Virtual(Doc)  BY DEF LiftJson, Uri
    <3>3. LiftJson(Uri("elsewhere", Outside)) = Uri("elsewhere", Outside)  BY DEF LiftJson, Uri
    <3> QED  BY <3>1, <3>2, <3>3 DEF Known, Reported
  <2>3. ASSUME metadata # None
        PROVE  metadata.diagnostics \cup metadata.symbols
                 \cup {fragment.uri : fragment \in metadata.fragments} \subseteq Names
    <3>1. metadata = CollectResponseInfo  BY <2>3 DEF IInv, Added
    <3>2. /\ metadata.diagnostics = {LiftUri(u) : u \in notifications}
          /\ metadata.symbols =
               {SymbolUri(r) : r \in {q \in DOMAIN responses : q.method = "documentSymbol"}}
          /\ metadata.fragments =
               {responses[r] : r \in {q \in DOMAIN responses : q.method # "documentSymbol"}}
      BY <3>1 DEF CollectResponseInfo
    <3>3. \A u \in Known : LiftUri(u) = u
      BY DEF Known, Reported, LiftJson, LiftUri, Uri, Virtual
    <3>4. metadata.diagnostics \subseteq Names  BY <2>2, <3>2, <3>3 DEF IInv, Learned
    <3>5. ASSUME NEW r \in DOMAIN responses, r.method = "documentSymbol"
          PROVE  SymbolUri(r) \in Names
      <4>1. responses[r].shape = "nested" \/ responses[r].uri \in Known
        BY <3>5 DEF IInv, Learned, NamesKnown
      <4>2. r.uri = Virtual(Doc)
        <5>1. r \in Appended  BY DEF IInv, Learned
        <5> QED  BY <3>5, <5>1 DEF Appended, Request, Notification
      <4>3. Virtual(Doc) \in Names  OBVIOUS
      <4>4. SymbolUri(r) = IF responses[r].shape = "nested" THEN r.uri ELSE responses[r].uri
        BY DEF SymbolUri
      <4> QED  BY <2>2, <4>1, <4>2, <4>3, <4>4
    <3>6. metadata.symbols \subseteq Names  BY <3>2, <3>5
    <3>7. \A fragment \in metadata.fragments : fragment.uri \in Names
      BY <2>2, <3>2 DEF IInv, Learned, NamesKnown
    <3> QED  BY <3>4, <3>6, <3>7
  <2> QED  BY <2>1, <2>3 DEF UrisTranslated
<1> QED  BY <1>1, Invariant, PTL
-----------------------------------------------------------------------------
(* The session is one a client may hold.                                   *)

(* What the server has been told, by the number of messages sent.          *)
Told ==
  /\ Len(wire) \in Nat /\ Size \in Nat /\ Len(wire) <= Size + 5
  /\ Len(wire) = 0 => Stage = "down"
  /\ Len(wire) = 1 => Stage = "starting"
  /\ Len(wire) \in 2 .. Size + 3 => Stage = "running"
  /\ Len(wire) = Size + 4 => Stage = "closing"
  /\ Len(wire) = Size + 5 => Stage = "over"
  /\ Opened = IF Len(wire) >= 3 THEN {Uri("workspace", Doc)} ELSE {}

LEMMA Heard ==
  ASSUME IInv
  PROVE  Told
<1>1. TypeOK /\ Sent  BY DEF IInv
<1>2. Len(wire) \in Nat /\ Size \in Nat /\ Len(wire) <= Size + 5
  BY <1>1, LenProperties, Sequence DEF TypeOK, Sent
<1> DEFINE M(k) == MessageSequence[k].method
<1>3. \A k \in 1 .. Len(wire) :
        wire[k].message.method = M(k) /\ wire[k].message.uri = Localize(MessageSequence[k].uri)
  BY <1>1, OnWire
<1>4. /\ M(1) = "initialize" /\ M(2) = "initialized" /\ M(3) = "didOpen"
      /\ M(Size + 4) = "shutdown" /\ M(Size + 5) = "exit"
      /\ MessageSequence[3].uri = Virtual(Doc)
  BY <1>1, Sequence DEF Request, Notification
<1>5. ASSUME NEW k \in 4 .. Size + 3
      PROVE  M(k) \in {"completion", "documentSymbol", "setTrace"}
  <2> DEFINE i == k - 3
  <2>1. i \in 1 .. Size /\ i + 3 = k  BY <1>2
  <2> HIDE DEF i
  <2>2. messages \in Seq(Appended)  BY <1>1 DEF TypeOK
  <2>3. messages[i] \in Appended  BY <2>1, <2>2, ElementOfSeq DEF Size
  <2>4. MessageSequence[k] = messages[i]  BY <1>1, <2>1, Sequence
  <2>5. messages[i].method \in {"completion", "documentSymbol", "setTrace"}
    BY <2>3 DEF Appended, Request, Notification
  <2> QED  BY <2>4, <2>5
<1> HIDE DEF M
<1>6. \A k \in 1 .. Len(wire) :
        k \in {1, 2, 3, Size + 4, Size + 5} \/ k \in 4 .. Size + 3
  BY <1>2
<1>7. \A k \in 1 .. Len(wire) :
        /\ M(k) = "initialize" <=> k = 1
        /\ M(k) = "initialized" <=> k = 2
        /\ M(k) = "didOpen" <=> k = 3
        /\ M(k) = "shutdown" <=> k = Size + 4
        /\ M(k) = "exit" <=> k = Size + 5
  BY <1>2, <1>4, <1>5, <1>6
<1>8. \A m : Said(m) <=> \E k \in 1 .. Len(wire) : M(k) = m
  BY <1>3 DEF Said
<1>9. /\ Said("initialize") <=> Len(wire) >= 1
      /\ Said("initialized") <=> Len(wire) >= 2
      /\ Said("shutdown") <=> Len(wire) >= Size + 4
      /\ Said("exit") <=> Len(wire) >= Size + 5
  BY <1>2, <1>7, <1>8
<1> DEFINE D == {j \in 1 .. Len(wire) : wire[j].message.method = "didOpen"}
<1>10. D = IF Len(wire) >= 3 THEN {3} ELSE {}
  <2>1. \A j \in 1 .. Len(wire) : wire[j].message.method = "didOpen" <=> j = 3
    BY <1>3, <1>7
  <2>2. 3 \in 1 .. Len(wire) <=> Len(wire) >= 3  BY <1>2
  <2> QED  BY <2>1, <2>2
<1>11. Len(wire) >= 3 => wire[3].message.uri = Uri("workspace", Doc)
  <2>1. Len(wire) >= 3 => 3 \in 1 .. Len(wire)  BY <1>2
  <2>2. Localize(Virtual(Doc)) = Uri("workspace", Doc)  BY DEF Localize, Virtual, Uri
  <2> QED  BY <1>3, <1>4, <2>1, <2>2
<1> HIDE DEF D
<1>12. {wire[i].message.uri : i \in D}
         = IF Len(wire) >= 3 THEN {Uri("workspace", Doc)} ELSE {}
  BY <1>10, <1>11
<1>13. Opened = IF Len(wire) >= 3 THEN {Uri("workspace", Doc)} ELSE {}
  BY <1>12 DEF D, Opened
<1>14. /\ Len(wire) = 0 => Stage = "down"
       /\ Len(wire) = 1 => Stage = "starting"
       /\ Len(wire) \in 2 .. Size + 3 => Stage = "running"
       /\ Len(wire) = Size + 4 => Stage = "closing"
       /\ Len(wire) = Size + 5 => Stage = "over"
  <2>1. CASE Len(wire) = 0
    <3>1. /\ ~Said("exit") /\ ~Said("shutdown") /\ ~Said("initialized")
          /\ ~Said("initialize")
      BY <1>2, <1>9, <2>1
    <3>2. Stage = "down"  BY <3>1 DEF Stage
    <3> QED  BY <1>2, <2>1, <3>2
  <2>2. CASE Len(wire) = 1
    <3>1. ~Said("exit") /\ ~Said("shutdown") /\ ~Said("initialized") /\ Said("initialize")
      BY <1>2, <1>9, <2>2
    <3>2. Stage = "starting"  BY <3>1 DEF Stage
    <3> QED  BY <1>2, <2>2, <3>2
  <2>3. CASE Len(wire) \in 2 .. Size + 3
    <3>1. ~Said("exit") /\ ~Said("shutdown") /\ Said("initialized") /\ Said("initialize")
      BY <1>2, <1>9, <2>3
    <3>2. Stage = "running"  BY <3>1 DEF Stage
    <3> DEFINE w == Len(wire)
    <3>3. w \in Nat /\ Size \in Nat /\ w \in 2 .. Size + 3  BY <1>2, <2>3
    <3> HIDE DEF w
    <3>4. w # 0 /\ w # 1 /\ w # Size + 4 /\ w # Size + 5  BY <3>3
    <3> QED  BY <3>2, <3>4 DEF w
  <2>4. CASE Len(wire) = Size + 4
    <3>1. ~Said("exit") /\ Said("shutdown") /\ Said("initialized") /\ Said("initialize")
      BY <1>2, <1>9, <2>4
    <3>2. Stage = "closing"  BY <3>1 DEF Stage
    <3> QED  BY <1>2, <2>4, <3>2
  <2>5. CASE Len(wire) = Size + 5
    <3>1. Said("exit") /\ Said("shutdown") /\ Said("initialized") /\ Said("initialize")
      BY <1>2, <1>9, <2>5
    <3>2. Stage = "over"  BY <3>1 DEF Stage
    <3> QED  BY <1>2, <2>5, <3>2
  <2>6. \/ Len(wire) = 0 \/ Len(wire) = 1 \/ Len(wire) \in 2 .. Size + 3
        \/ Len(wire) = Size + 4 \/ Len(wire) = Size + 5
    <3> DEFINE w == Len(wire)
    <3>1. w \in Nat /\ Size \in Nat /\ w <= Size + 5  BY <1>2
    <3> HIDE DEF w
    <3>2. w >= 2 /\ w <= Size + 3 => w \in 2 .. Size + 3  BY <3>1
    <3>3. w < 2 => w = 0 \/ w = 1  BY <3>1
    <3>4. w > Size + 3 => w = Size + 4 \/ w = Size + 5  BY <3>1
    <3>5. w < 2 \/ (w >= 2 /\ w <= Size + 3) \/ w > Size + 3  BY <3>1
    <3>6. w = 0 \/ w = 1 \/ w \in 2 .. Size + 3 \/ w = Size + 4 \/ w = Size + 5
      BY <3>2, <3>3, <3>4, <3>5
    <3> QED  BY <3>6 DEF w
  <2> QED  BY <2>1, <2>2, <2>3, <2>4, <2>5, <2>6
<1> QED  BY <1>2, <1>13, <1>14 DEF Told


(* Message by message, the session is one LspClient allows.                *)
THEOREM Refinement == Spec => SpeaksLsp
<1>1. IInv => Told  BY Heard
<1>2. Init => Client!Init
  <2> SUFFICES ASSUME Init  PROVE Client!Init  OBVIOUS
  <2>1. Told  BY Initially, Heard
  <2>2. wire = <<>> /\ Len(wire) = 0  BY DEF Init
  <2>3. Stage = "down" /\ Opened = {}  BY <2>1, <2>2 DEF Told
  <2> QED  BY <2>2, <2>3 DEF Client!Init, Stage, Opened
<1>3. IInv /\ Told /\ Told' /\ [Next]_vars => [Client!Next]_(Client!vars)
  <2> SUFFICES ASSUME IInv, Told, Told', [Next]_vars
               PROVE  [Client!Next]_(Client!vars)
    OBVIOUS
  <2> DEFINE w == Len(wire)
             d == Uri("workspace", Doc)
  <2>1. CASE Serialise
    <3>1. Len(wire') = w + 1
      <4>1. wire' = Append(wire, IntoJsonRpc(MessageSequence[w + 1]))
        BY <2>1 DEF Serialise
      <4>2. PICK M : wire \in Seq(M)  BY DEF IInv, TypeOK
      <4> DEFINE new == IntoJsonRpc(MessageSequence[w + 1])
                 G   == M \cup {new}
      <4>3. wire \in Seq(G) /\ new \in G
        <5>1. M \subseteq G  OBVIOUS
        <5> QED  BY <4>2, <5>1, SeqMonotonic
      <4>4. wire' = Append(wire, new)  BY <4>1
      <4> HIDE DEF new, G
      <4> QED  BY <4>3, <4>4, AppendProperties
    <3>2. Size' = Size  BY <2>1, InputFixed DEF Serialise
    <3>3. w \in Nat /\ Size \in Nat /\ w + 1 <= Size + 5  BY <3>1, <3>2 DEF Told
    <3>4. /\ Opened = IF w >= 3 THEN {d} ELSE {}
          /\ Opened' = IF w + 1 >= 3 THEN {d} ELSE {}
          /\ w = 0 => Stage = "down" /\ Stage' = "starting"
          /\ w = 1 => Stage = "starting" /\ Stage' = "running"
          /\ w \in 2 .. Size + 2 => Stage = "running" /\ Stage' = "running"
          /\ w = Size + 3 => Stage = "running" /\ Stage' = "closing"
          /\ w = Size + 4 => Stage = "closing" /\ Stage' = "over"
      BY <3>1, <3>2, <3>3 DEF Told
    <3>5. \/ w = 0 \/ w = 1 \/ w = 2 \/ w \in 3 .. Size + 2
          \/ w = Size + 3 \/ w = Size + 4
      <4> HIDE DEF w
      <4>1. w >= 3 /\ w <= Size + 2 => w \in 3 .. Size + 2  BY <3>3
      <4>2. w < 3 => w = 0 \/ w = 1 \/ w = 2  BY <3>3
      <4>3. w > Size + 2 => w = Size + 3 \/ w = Size + 4  BY <3>3
      <4>4. w < 3 \/ (w >= 3 /\ w <= Size + 2) \/ w > Size + 2  BY <3>3
      <4> QED  BY <4>1, <4>2, <4>3, <4>4
    <3>6. CASE w = 0
      <4>1. Stage = "down" /\ Stage' = "starting" /\ Opened' = Opened
        BY <3>3, <3>4, <3>6
      <4>2. Client!Initialize
        BY <3>1, <4>1 DEF Client!Initialize, Client!Send, Stage, Opened
      <4> QED  BY <4>2 DEF Client!Next
    <3>7. CASE w = 1
      <4>1. Stage = "starting" /\ Stage' = "running" /\ Opened' = Opened
        BY <3>3, <3>4, <3>7
      <4>2. Client!Initialized
        BY <3>1, <4>1 DEF Client!Initialized, Client!Send, Stage, Opened
      <4> QED  BY <4>2 DEF Client!Next
    <3>8. CASE w = 2
      <4>1. /\ Stage = "running" /\ Stage' = "running"
            /\ d \notin Opened /\ Opened' = Opened \cup {d}
        BY <3>3, <3>4, <3>8
      <4>2. Client!Open(d)
        BY <3>1, <4>1 DEF Client!Open, Client!Send, Stage, Opened
      <4> QED  BY <4>2 DEF Client!Next
    <3>9. CASE w \in 3 .. Size + 2
      <4>1. /\ Stage = "running" /\ Stage' = "running"
            /\ Opened = {d} /\ Opened' = Opened
        BY <3>3, <3>4, <3>9
      <4>2. Client!Ask
        BY <3>1, <4>1 DEF Client!Ask, Client!Send, Stage, Opened
      <4> QED  BY <4>2 DEF Client!Next
    <3>10. CASE w = Size + 3
      <4>1. /\ Stage = "running" /\ Stage' = "closing"
            /\ Opened = {d} /\ Opened' = Opened
        BY <3>3, <3>4, <3>10
      <4>2. Client!Shutdown
        BY <3>1, <4>1 DEF Client!Shutdown, Client!Send, Stage, Opened
      <4> QED  BY <4>2 DEF Client!Next
    <3>11. CASE w = Size + 4
      <4>1. Stage = "closing" /\ Stage' = "over" /\ Opened' = Opened
        BY <3>3, <3>4, <3>11
      <4>2. Client!Exit
        BY <3>1, <4>1 DEF Client!Exit, Client!Send, Stage, Opened
      <4> QED  BY <4>2 DEF Client!Next
    <3> QED  BY <3>5, <3>6, <3>7, <3>8, <3>9, <3>10, <3>11
  <2>2. CASE UNCHANGED wire
    BY <2>2 DEF Client!vars, Stage, Opened, Said
  <2>3. UNCHANGED wire \/ Serialise
    BY DEF Next, Server, ServerAnswers, ServerNotifies, ServerRequests, ServerBabbles,
           ServerEnds, Emit, Match, AppendMetadata, Done, vars
  <2> QED  BY <2>1, <2>2, <2>3
<1> QED  BY Invariant, <1>1, <1>2, <1>3, PTL DEF Spec, SpeaksLsp, Client!Spec
=============================================================================
