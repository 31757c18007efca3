--------------------------- MODULE GuidanceProofs ---------------------------
(***************************************************************************)
(* What a generated message aims at, for every document, report and order  *)
(* of test cases.                                                          *)
(*                                                                         *)
(* A parameter is right when it fits the document as it is now, the        *)
(* information of the current test case and the configuration; Fits says   *)
(* so of one value.  Every generator makes values that fit, or none, and a *)
(* message keeps its fit because neither the document nor the test case    *)
(* changes while one is kept.                                              *)
(***************************************************************************)
EXTENDS Guidance, SequenceTheorems, TLAPS

Stages == {"schedule", "document", "requests", "generate", "evaluate"}
Parts  == {"position", "range", "document", "text", "optionText", "texts", "optionKinds",
           "item", "constant"}

(* What each of the three properties says of one value.                    *)
Lies(v) ==
  \/ v.kind = "position" /\ v.by # "random"
  \/ v.kind = "range" /\ v.by \in {"valid", "subtree"}
  => v.uri = "own" /\ InDocument(v.from) /\ InDocument(v.to)

Heard(v) ==
  v.by \in FeedbackKinds =>
    /\ Info # None
    /\ \E r \in ReportsOf(v.by) :
         /\ r.uri = "own"
         /\ v.kind = "range" => RangeOf(r) = RangeOf(v)

Allowed(v) ==
  /\ ~config.context => v.uri # "own" /\ v.by \notin {"valid", "terminal"} \cup GrammarKinds
  /\ ~config.feedback => v.by \notin FeedbackKinds
  /\ ~config.grammarOps /\ ~config.feedback => v.by \notin GrammarKinds

Fits(v) == Lies(v) /\ Heard(v) /\ Allowed(v)

TypeOK ==
  /\ config \in {Full, NoServerFeedback, NoContextAwareness}
  /\ doc \in Documents /\ stage \in Stages /\ usage \in [Groups -> Nat]
  /\ current \in DOMAIN corpus /\ \E F : corpus \in Seq(F)
  /\ \A i \in DOMAIN corpus : corpus[i].doc \in Documents
  /\ stage = "generate" => parts \in Seq(Parts) /\ parts # <<>>
  /\ stage = "evaluate" => observed \in Said(doc)

Kept ==
  /\ stage \in {"schedule", "document", "evaluate"} => message = None
  /\ message # None \/ stage = "generate" =>
       \E V : message \in Seq(V) /\ \A v \in V : Fits(v)

IInv == TypeOK /\ Kept /\ InfoOfOwnRun
-----------------------------------------------------------------------------
(* Documents: what is found in a tree is of its nodes.                     *)

LEMMA Trees ==
  ASSUME NEW d \in Documents
  PROVE  /\ d.lines \in Seq(Nat) /\ Len(d.lines) \in Nat \ {0}
         /\ \A l \in 1 .. Len(d.lines) : d.lines[l] \in Nat
         /\ \A l \in 1 .. Len(d.lines) : \A c \in 0 .. d.lines[l] : Within(d, <<l - 1, c>>)
         /\ \A m \in d.nodes : Within(d, m.from) /\ Within(d, m.to)
         /\ Root(d) \in d.nodes
<1>1. d.lines \in Seq(Nat) /\ d.lines # <<>>  BY GuidanceAssumption DEF GuidanceAssumption
<1>2. Len(d.lines) \in Nat \ {0}  BY <1>1, EmptySeq
<1>3. \A l \in 1 .. Len(d.lines) : d.lines[l] \in Nat  BY <1>1, ElementOfSeq
<1>4. ASSUME NEW l \in 1 .. Len(d.lines), NEW c \in 0 .. d.lines[l]
      PROVE  Within(d, <<l - 1, c>>)
  <2>1. l - 1 \in 0 .. Len(d.lines) - 1 /\ (l - 1) + 1 = l  BY <1>2
  <2> QED  BY <2>1 DEF Within
<1>5. \A m \in d.nodes : Within(d, m.from) /\ Within(d, m.to)
  BY GuidanceAssumption DEF GuidanceAssumption
<1>6. Root(d) \in d.nodes
  <2>1. \E m \in d.nodes : m.depth = 0  BY GuidanceAssumption DEF GuidanceAssumption
  <2> QED  BY <2>1 DEF Root
<1> QED  BY <1>1, <1>2, <1>3, <1>4, <1>5, <1>6

LEMMA Found ==
  ASSUME NEW d \in Documents, NEW r
  PROVE  /\ \A found \in Descendant(d, r) : found \subseteq d.nodes
         /\ \A starts \in NodeStartsInRange(d, r) : \A p \in starts : Within(d, p)
<1>1. Root(d) \in d.nodes /\ \A m \in d.nodes : Within(d, m.from)  BY Trees
<1>2. ASSUME NEW found \in Descendant(d, r)  PROVE found \subseteq d.nodes
  <2> DEFINE around == {m \in d.nodes : Holds(m, r.from, r.to)}
             deepest == {m \in around : \A o \in around : o.depth <= m.depth}
  <2>1. found \in {{}, {Root(d)}} \cup {{m} : m \in deepest}  BY DEF Descendant
  <2>2. deepest \subseteq d.nodes  OBVIOUS
  <2> HIDE DEF deepest
  <2> QED  BY <1>1, <2>1, <2>2
<1>3. ASSUME NEW starts \in NodeStartsInRange(d, r), NEW p \in starts  PROVE Within(d, p)
  <2>1. PICK found \in Descendant(d, r) :
          starts = UNION {{m.from : m \in Subtree(d, o)} : o \in found}
    BY DEF NodeStartsInRange
  <2>2. PICK o \in found : p \in {m.from : m \in Subtree(d, o)}  BY <2>1
  <2>3. PICK m \in Subtree(d, o) : p = m.from  BY <2>2
  <2>4. m \in d.nodes  BY <2>3 DEF Subtree
  <2> QED  BY <1>1, <2>3, <2>4
<1> QED  BY <1>2, <1>3

LEMMA Named ==
  ASSUME NEW by \in Generators
  PROVE  by \notin Groups
BY GuidanceAssumption DEF GuidanceAssumption
-----------------------------------------------------------------------------
(* Values that fit.                                                        *)

LEMMA PointFits ==
  ASSUME UseContext, NEW p, InDocument(p), NEW by, by \notin FeedbackKinds,
         by \in GrammarKinds => UseGrammarOps
  PROVE  Fits(Position(p, by))
<1> DEFINE v == Position(p, by)
<1>1. v.kind = "position" /\ v.uri = "own" /\ v.from = p /\ v.to = p /\ v.by = by
  BY DEF Position, Value, At
<1> HIDE DEF v
<1>2. Lies(v)  BY <1>1 DEF Lies
<1>3. Heard(v)  BY <1>1 DEF Heard
<1>4. Allowed(v)  BY <1>1 DEF Allowed, UseContext, UseGrammarOps
<1>5. Fits(v)  BY <1>2, <1>3, <1>4 DEF Fits
<1> QED  BY <1>5 DEF v

LEMMA ReportedPointFits ==
  ASSUME UseFeedbackGuidance, NEW p, InDocument(p), NEW by \in FeedbackKinds, Reports(by) # {}
  PROVE  Fits(Position(p, by))
<1> DEFINE v == Position(p, by)
<1>1. v.kind = "position" /\ v.uri = "own" /\ v.from = p /\ v.to = p /\ v.by = by
  BY DEF Position, Value, At
<1> HIDE DEF v
<1>2. Lies(v)  BY <1>1 DEF Lies
<1>3. Heard(v)
  <2>1. PICK r \in ReportsOf(by) : r.uri = "own"  BY DEF Reports
  <2>2. Info # None  BY <2>1 DEF ReportsOf
  <2>3. v.kind # "range"  BY <1>1
  <2> QED  BY <1>1, <2>1, <2>2, <2>3 DEF Heard
<1>4. Allowed(v)  BY <1>1 DEF Allowed, UseFeedbackGuidance
<1>5. Fits(v)  BY <1>2, <1>3, <1>4 DEF Fits
<1> QED  BY <1>5 DEF v

LEMMA RangeFits ==
  ASSUME UseContext, NEW r, NEW by \in {"valid", "invalid", "subtree"},
         by # "invalid" => InDocument(r.from) /\ InDocument(r.to),
         by = "subtree" => UseGrammarOps \/ UseFeedbackGuidance
  PROVE  Fits(Selection(r, by))
<1> DEFINE v == Selection(r, by)
<1>1. v.kind = "range" /\ v.uri = "own" /\ v.from = r.from /\ v.to = r.to /\ v.by = by
  BY DEF Selection, Value
<1>2. by \notin FeedbackKinds /\ (by \in GrammarKinds => by = "subtree")
  <2>1. by \notin Groups  BY Named DEF Generators
  <2> QED  BY <2>1 DEF FeedbackKinds, GrammarKinds
<1> HIDE DEF v
<1>3. Lies(v)  BY <1>1 DEF Lies
<1>4. Heard(v)  BY <1>1, <1>2 DEF Heard
<1>5. Allowed(v)
  BY <1>1, <1>2 DEF Allowed, UseContext, UseGrammarOps, UseFeedbackGuidance
<1>6. Fits(v)  BY <1>3, <1>4, <1>5 DEF Fits
<1> QED  BY <1>6 DEF v

LEMMA ReportedRangeFits ==
  ASSUME UseFeedbackGuidance, NEW by \in FeedbackKinds, NEW r \in Reports(by)
  PROVE  Fits(Selection(RangeOf(r), by))
<1> DEFINE v == Selection(RangeOf(r), by)
<1>1. v.kind = "range" /\ v.uri = "own" /\ v.from = r.from /\ v.to = r.to /\ v.by = by
  BY DEF Selection, Value, RangeOf
<1> HIDE DEF v
<1>2. Lies(v)  BY <1>1 DEF Lies, FeedbackKinds
<1>3. Heard(v)
  <2>1. r \in ReportsOf(by) /\ r.uri = "own"  BY DEF Reports
  <2>2. Info # None  BY <2>1 DEF ReportsOf
  <2>3. RangeOf(r) = RangeOf(v)  BY <1>1 DEF RangeOf
  <2> QED  BY <1>1, <2>1, <2>2, <2>3 DEF Heard
<1>4. Allowed(v)  BY <1>1 DEF Allowed, UseFeedbackGuidance
<1>5. Fits(v)  BY <1>2, <1>3, <1>4 DEF Fits
<1> QED  BY <1>5 DEF v

(* Texts, documents and constants aim at no place.                         *)
LEMMA PlainFits ==
  ASSUME NEW kind \in {"text", "constant", "document"}, NEW uri,
         NEW by \in {"token", "terminal", "default", "constant", "identifier"},
         by = "terminal" => UseContext, uri = "own" => UseContext
  PROVE  Fits(Value(kind, uri, Here, by))
<1> DEFINE v == Value(kind, uri, Here, by)
<1>1. v.kind = kind /\ v.uri = uri /\ v.by = by  BY DEF Value
<1>2. by \notin FeedbackKinds /\ by \notin GrammarKinds
  <2>1. by \notin Groups  BY Named DEF Generators
  <2> QED  BY <2>1 DEF FeedbackKinds, GrammarKinds
<1> HIDE DEF v
<1>3. Lies(v)  BY <1>1 DEF Lies
<1>4. Heard(v)  BY <1>1, <1>2 DEF Heard
<1>5. Allowed(v)  BY <1>1, <1>2 DEF Allowed, UseContext
<1>6. Fits(v)  BY <1>3, <1>4, <1>5 DEF Fits
<1> QED  BY <1>6 DEF v

(* Without context a place is in no document.                              *)
LEMMA BlindFits ==
  ASSUME NEW kind \in {"position", "range"}, NEW r
  PROVE  Fits(Value(kind, "random", r, "random"))
<1> DEFINE v == Value(kind, "random", r, "random")
<1>1. v.kind = kind /\ v.uri = "random" /\ v.by = "random"  BY DEF Value
<1>2. "random" \notin FeedbackKinds /\ "random" \notin GrammarKinds
  <2>1. "random" \notin Groups  BY Named DEF Generators
  <2> QED  BY <2>1 DEF FeedbackKinds, GrammarKinds
<1> HIDE DEF v
<1>3. Lies(v)  BY <1>1 DEF Lies
<1>4. Heard(v)  BY <1>1, <1>2 DEF Heard
<1>5. Allowed(v)  BY <1>1, <1>2 DEF Allowed
<1>6. Fits(v)  BY <1>3, <1>4, <1>5 DEF Fits
<1> QED  BY <1>6 DEF v
-----------------------------------------------------------------------------
(* Every generator makes values that fit, or nothing.                      *)

Sound(values) == \A v \in values : v = Nothing \/ Fits(v)

LEMMA ChooseSound ==
  ASSUME NEW values, \A v \in values : Fits(v)
  PROVE  Sound(Choose(values))
BY DEF Sound, Choose

LEMMA UnionSound ==
  ASSUME NEW A, \A a \in A : Sound(a)
  PROVE  Sound(UNION A)
BY DEF Sound

LEMMA ValidPositionSound ==
  ASSUME TypeOK, UseContext
  PROVE  Sound(ValidPosition)
<1>1. ASSUME NEW p \in ValidPositions(doc)  PROVE Fits(Position(p, "valid"))
  <2>1. doc \in Documents  BY DEF TypeOK
  <2>2. PICK l \in DOMAIN doc.lines : p \in {<<l - 1, c>> : c \in 0 .. doc.lines[l] - 1}
    BY DEF ValidPositions
  <2>3. PICK c \in 0 .. doc.lines[l] - 1 : p = <<l - 1, c>>  BY <2>2
  <2>4. l \in 1 .. Len(doc.lines) /\ doc.lines[l] \in Nat  BY <2>1, Trees, LenProperties
  <2>5. c \in 0 .. doc.lines[l]  BY <2>4
  <2>6. InDocument(p)  BY <2>1, <2>3, <2>4, <2>5, Trees DEF InDocument
  <2>7. "valid" \notin FeedbackKinds /\ "valid" \notin GrammarKinds
    <3>1. "valid" \notin Groups  BY Named DEF Generators
    <3> QED  BY <3>1 DEF FeedbackKinds, GrammarKinds
  <2> QED  BY <2>6, <2>7, PointFits
<1>2. ASSUME NEW v \in {Position(p, "valid") : p \in ValidPositions(doc)}  PROVE Fits(v)
  BY <1>1
<1> QED  BY <1>2, ChooseSound DEF ValidPosition

LEMMA NodeTypeBalancingSound ==
  ASSUME TypeOK, UseGrammarOps
  PROVE  Sound(NodeTypeBalancing)
<1>1. doc \in Documents /\ UseContext  BY DEF TypeOK, UseGrammarOps, UseContext
<1>2. "nodeType" \notin FeedbackKinds  BY DEF FeedbackKinds
<1>3. ASSUME NEW v \in {Position(n.from, "nodeType") : n \in {m \in doc.nodes : m.leaf}}
      PROVE  Fits(v)
  <2>1. PICK m \in doc.nodes : v = Position(m.from, "nodeType")  BY <1>3
  <2>2. InDocument(m.from)  BY <1>1, Trees DEF InDocument
  <2> QED  BY <1>1, <1>2, <2>1, <2>2, PointFits
<1> QED  BY <1>3, ChooseSound DEF NodeTypeBalancing

LEMMA RandomPositionSound ==
  ASSUME UseContext
  PROVE  Sound(RandomPosition)
<1>1. ASSUME NEW p  PROVE Fits(Position(p, "random"))
  <2> DEFINE v == Position(p, "random")
  <2>1. v.kind = "position" /\ v.by = "random"  BY DEF Position, Value
  <2>2. "random" \notin FeedbackKinds /\ "random" \notin GrammarKinds
    <3>1. "random" \notin Groups  BY Named DEF Generators
    <3> QED  BY <3>1 DEF FeedbackKinds, GrammarKinds
  <2> HIDE DEF v
  <2>3. Lies(v) /\ Heard(v) /\ Allowed(v)
    BY <2>1, <2>2 DEF Lies, Heard, Allowed, UseContext
  <2>4. Fits(v)  BY <2>3 DEF Fits
  <2> QED  BY <2>4 DEF v
<1> QED  BY <1>1 DEF RandomPosition, Sound

LEMMA HighlightSteerSound ==
  ASSUME TypeOK, UseGrammarOps
  PROVE  Sound(HighlightSteer)
<1>1. doc \in Documents /\ UseContext  BY DEF TypeOK, UseGrammarOps, UseContext
<1>2. ASSUME NEW g \in Groups
      PROVE  Sound(Choose({Position(n.from, g) : n \in Captures(g)}))
  <2>1. g \notin FeedbackKinds
    <3>1. "diagnostic" \notin Groups /\ "symbol" \notin Groups  BY Named DEF Generators
    <3> QED  BY <3>1 DEF FeedbackKinds
  <2>2. ASSUME NEW v \in {Position(n.from, g) : n \in Captures(g)}  PROVE Fits(v)
    <3>1. PICK m \in doc.nodes : v = Position(m.from, g)  BY <2>2 DEF Captures
    <3>2. InDocument(m.from)  BY <1>1, Trees DEF InDocument
    <3> QED  BY <1>1, <2>1, <3>1, <3>2, PointFits
  <2> QED  BY <2>2, ChooseSound
<1>3. HighlightChoices \subseteq Groups  BY DEF HighlightChoices
<1>4. \A a \in {Choose({Position(n.from, g) : n \in Captures(g)}) : g \in HighlightChoices} :
        Sound(a)
  BY <1>2, <1>3
<1>5. Sound(UNION {Choose({Position(n.from, g) : n \in Captures(g)}) : g \in HighlightChoices})
  BY <1>4, UnionSound
<1>6. Sound({Nothing})  BY DEF Sound
<1> QED  BY <1>5, <1>6 DEF HighlightSteer

LEMMA AroundSound ==
  ASSUME TypeOK, UseFeedbackGuidance, NEW by \in FeedbackKinds, NEW starts,
         \A ps \in starts : \A p \in ps : InDocument(p) /\ Reports(by) # {}
  PROVE  Sound(Around(starts, by))
<1>1. ASSUME NEW ps \in starts  PROVE Sound(Choose({Position(p, by) : p \in ps}))
  <2>1. ASSUME NEW v \in {Position(p, by) : p \in ps}  PROVE Fits(v)
    <3>1. PICK p \in ps : v = Position(p, by)  BY <2>1
    <3>2. InDocument(p) /\ Reports(by) # {}  BY <3>1
    <3> QED  BY <3>1, <3>2, ReportedPointFits
  <2> QED  BY <2>1, ChooseSound
<1>2. Sound(UNION {Choose({Position(p, by) : p \in ps}) : ps \in starts})
  BY <1>1, UnionSound
<1>3. Sound({Nothing})  BY DEF Sound
<1> QED  BY <1>2, <1>3 DEF Around

LEMMA StartsInDocument ==
  ASSUME TypeOK, NEW ranges, NEW ps \in StartsIn(ranges), NEW p \in ps
  PROVE  InDocument(p) /\ ranges # {}
<1>1. PICK r \in ranges : ps \in NodeStartsInRange(doc, r)  BY DEF StartsIn
<1>2. doc \in Documents  BY DEF TypeOK
<1>3. Within(doc, p)  BY <1>1, <1>2, Found
<1> QED  BY <1>1, <1>3 DEF InDocument

LEMMA FeedbackPositionsSound ==
  ASSUME TypeOK, UseFeedbackGuidance
  PROVE  Sound(DiagNodes) /\ Sound(CollectedSymbols) /\ Sound(DiagNodesParent)
<1>1. "diagnostic" \in FeedbackKinds /\ "symbol" \in FeedbackKinds  BY DEF FeedbackKinds
<1>2. Sound(DiagNodes)
  <2>1. \A ps \in StartsIn(Reports("diagnostic")) : \A p \in ps :
          InDocument(p) /\ Reports("diagnostic") # {}
    BY StartsInDocument
  <2> QED  BY <1>1, <2>1, AroundSound DEF DiagNodes
<1>3. Sound(CollectedSymbols)
  <2>1. \A ps \in StartsIn(Reports("symbol")) : \A p \in ps :
          InDocument(p) /\ Reports("symbol") # {}
    BY StartsInDocument
  <2> QED  BY <1>1, <2>1, AroundSound DEF CollectedSymbols
<1>4. Sound(DiagNodesParent)
  <2> DEFINE parents == UNION {UNION {Parent(doc, n) : n \in UNION Descendant(doc, r)} :
                                 r \in Reports("diagnostic")}
             starts  == {{}} \cup StartsIn({RangeOf(m) : m \in parents})
  <2>1. parents # {} => Reports("diagnostic") # {}  OBVIOUS
  <2> HIDE DEF parents
  <2>2. ASSUME NEW ps \in starts, NEW p \in ps
        PROVE  InDocument(p) /\ Reports("diagnostic") # {}
    <3>1. ps \in StartsIn({RangeOf(m) : m \in parents})  BY <2>2
    <3>2. InDocument(p) /\ {RangeOf(m) : m \in parents} # {}  BY <3>1, StartsInDocument
    <3> QED  BY <2>1, <3>2
  <2> HIDE DEF starts
  <2>3. Sound(Around(starts, "diagnostic"))  BY <1>1, <2>2, AroundSound
  <2> QED  BY <2>3 DEF DiagNodesParent, starts, parents
<1> QED  BY <1>2, <1>3, <1>4

LEMMA PositionsSound ==
  ASSUME TypeOK
  PROVE  Sound(PositionOutcomes)
<1>1. CASE ~UseContext
  <2>1. ASSUME NEW v \in InvalidDocPosition  PROVE Fits(v)
    <3>1. v = Value("position", "random", At(<<Far, 0>>), "random")
      BY <2>1 DEF InvalidDocPosition
    <3> QED  BY <3>1, BlindFits
  <2> QED  BY <1>1, <2>1 DEF PositionOutcomes, Sound
<1>2. CASE UseContext
  <2> DEFINE byGrammar  == IF UseGrammarOps THEN NodeTypeBalancing \cup HighlightSteer ELSE {}
             byFeedback == IF UseFeedbackGuidance
                             THEN DiagNodes \cup DiagNodesParent \cup CollectedSymbols ELSE {}
             invalid    == IF AllowInvalid THEN RandomPosition ELSE {}
  <2>1. Sound(ValidPosition)  BY <1>2, ValidPositionSound
  <2>2. Sound(byGrammar)
    BY NodeTypeBalancingSound, HighlightSteerSound DEF Sound
  <2>3. Sound(byFeedback)
    BY FeedbackPositionsSound DEF Sound
  <2>4. Sound(invalid)
    BY <1>2, RandomPositionSound DEF Sound
  <2> HIDE DEF byGrammar, byFeedback, invalid
  <2>5. Sound(UNION {ValidPosition, byGrammar, byFeedback, invalid})
    BY <2>1, <2>2, <2>3, <2>4, UnionSound
  <2> QED  BY <1>2, <2>5 DEF PositionOutcomes, byGrammar, byFeedback, invalid
<1> QED  BY <1>1, <1>2

LEMMA SubtreeSound ==
  ASSUME TypeOK, UseGrammarOps \/ UseFeedbackGuidance
  PROVE  Sound(SubtreeNodeType)
<1>1. doc \in Documents /\ UseContext
  BY DEF TypeOK, UseGrammarOps, UseFeedbackGuidance, UseContext
<1>2. ASSUME NEW m \in doc.nodes  PROVE Fits(Selection(RangeOf(m), "subtree"))
  <2>1. InDocument(m.from) /\ InDocument(m.to)  BY <1>1, Trees DEF InDocument
  <2> DEFINE r == RangeOf(m)
  <2>2. r.from = m.from /\ r.to = m.to  BY DEF RangeOf
  <2> HIDE DEF r
  <2>3. Fits(Selection(r, "subtree"))  BY <1>1, <2>1, <2>2, RangeFits
  <2> QED  BY <2>3 DEF r
<1> QED  BY <1>2 DEF SubtreeNodeType, Sound

LEMMA ValidRangesSound ==
  ASSUME TypeOK, UseContext
  PROVE  Sound(WholeSelection) /\ Sound(RandomValidRange)
<1>1. doc \in Documents  BY DEF TypeOK
<1> DEFINE L == Len(doc.lines)
<1>2. /\ L \in Nat \ {0} /\ DOMAIN doc.lines = 1 .. L
      /\ \A l \in 1 .. L : doc.lines[l] \in Nat
      /\ \A l \in 1 .. L : \A c \in 0 .. doc.lines[l] : InDocument(<<l - 1, c>>)
  BY <1>1, Trees, LenProperties DEF InDocument
<1> HIDE DEF L
<1>3. Sound(WholeSelection)
  <2> DEFINE r == WholeRange(doc)
  <2>1. r.from = <<0, 0>> /\ r.to = <<L - 1, doc.lines[L]>>  BY DEF WholeRange, L
  <2>2. 1 \in 1 .. L /\ L \in 1 .. L /\ 1 - 1 = 0  BY <1>2
  <2>3. 0 \in 0 .. doc.lines[1] /\ doc.lines[L] \in 0 .. doc.lines[L]  BY <1>2, <2>2
  <2>4. InDocument(<<1 - 1, 0>>) /\ InDocument(<<L - 1, doc.lines[L]>>)  BY <1>2, <2>2, <2>3
  <2>5. InDocument(r.from) /\ InDocument(r.to)  BY <2>1, <2>2, <2>4
  <2> HIDE DEF r
  <2>6. Fits(Selection(r, "valid"))  BY <2>5, RangeFits
  <2> QED  BY <2>6 DEF WholeSelection, Sound, r
<1>4. Sound(RandomValidRange)
  <2> DEFINE points == ValidPositions(doc) \cup {<<l - 1, 0>> : l \in DOMAIN doc.lines}
  <2>1. ASSUME NEW p \in points  PROVE InDocument(p)
    <3>1. CASE p \in ValidPositions(doc)
      <4>1. PICK l \in DOMAIN doc.lines : p \in {<<l - 1, c>> : c \in 0 .. doc.lines[l] - 1}
        BY <3>1 DEF ValidPositions
      <4>2. PICK c \in 0 .. doc.lines[l] - 1 : p = <<l - 1, c>>  BY <4>1
      <4>3. l \in 1 .. L /\ c \in 0 .. doc.lines[l]  BY <1>2
      <4> QED  BY <1>2, <4>2, <4>3
    <3>2. CASE p \in {<<l - 1, 0>> : l \in DOMAIN doc.lines}
      <4>1. PICK l \in DOMAIN doc.lines : p = <<l - 1, 0>>  BY <3>2
      <4>2. l \in 1 .. L /\ 0 \in 0 .. doc.lines[l]  BY <1>2
      <4> QED  BY <1>2, <4>1, <4>2
    <3> QED  BY <3>1, <3>2
  <2> HIDE DEF points
  <2>2. ASSUME NEW r \in [from : points, to : points]  PROVE Fits(Selection(r, "valid"))
    <3>1. InDocument(r.from) /\ InDocument(r.to)  BY <2>1
    <3> QED  BY <3>1, RangeFits
  <2>3. RandomValidRange =
          {Selection(r, "valid") :
             r \in {q \in [from : points, to : points] : q.from[1] <= q.to[1]}}
    BY DEF RandomValidRange, points
  <2> QED  BY <2>2, <2>3 DEF Sound
<1> QED  BY <1>3, <1>4

LEMMA InvalidRangesSound ==
  ASSUME UseContext
  PROVE  Sound(AfterRange \cup InvertedRange \cup RandomInvalidRange)
<1>1. ASSUME NEW r  PROVE Fits(Selection(r, "invalid"))  BY RangeFits
<1> QED  BY <1>1 DEF AfterRange, InvertedRange, RandomInvalidRange, Sound

LEMMA OrSubtreeSound ==
  ASSUME TypeOK, UseFeedbackGuidance, NEW ranges, \A v \in ranges : Fits(v)
  PROVE  Sound(OrSubtree(ranges))
BY SubtreeSound DEF OrSubtree, Sound

LEMMA FeedbackRangesSound ==
  ASSUME TypeOK, UseFeedbackGuidance
  PROVE  Sound(DiagnosedRange) /\ Sound(DiagnosedParent) /\ Sound(SymbolsRange)
<1>1. "diagnostic" \in FeedbackKinds /\ "symbol" \in FeedbackKinds  BY DEF FeedbackKinds
<1>2. Sound(DiagnosedRange)
  <2>1. \A v \in {Selection(RangeOf(r), "diagnostic") : r \in Reports("diagnostic")} : Fits(v)
    BY <1>1, ReportedRangeFits
  <2> QED  BY <2>1, OrSubtreeSound DEF DiagnosedRange
<1>3. Sound(SymbolsRange)
  <2>1. \A v \in {Selection(RangeOf(r), "symbol") : r \in Reports("symbol")} : Fits(v)
    BY <1>1, ReportedRangeFits
  <2> QED  BY <2>1, OrSubtreeSound DEF SymbolsRange
<1>4. Sound(DiagnosedParent)
  <2> DEFINE parents == UNION {UNION {Parent(doc, n) : n \in UNION Descendant(doc, r)} :
                                 r \in Reports("diagnostic")}
  <2>1. doc \in Documents /\ UseContext  BY DEF TypeOK, UseFeedbackGuidance, UseContext
  <2>2. parents \subseteq doc.nodes  BY DEF Parent
  <2>3. ASSUME NEW m \in parents  PROVE Fits(Selection(RangeOf(m), "subtree"))
    <3>1. InDocument(m.from) /\ InDocument(m.to)  BY <2>1, <2>2, Trees DEF InDocument
    <3> DEFINE r == RangeOf(m)
    <3>2. r.from = m.from /\ r.to = m.to  BY DEF RangeOf
    <3> HIDE DEF r
    <3>3. Fits(Selection(r, "subtree"))  BY <2>1, <3>1, <3>2, RangeFits
    <3> QED  BY <3>3 DEF r
  <2> HIDE DEF parents
  <2>4. Sound(OrSubtree({Selection(RangeOf(m), "subtree") : m \in parents}))
    BY <2>3, OrSubtreeSound
  <2> QED  BY <2>4 DEF DiagnosedParent, parents
<1> QED  BY <1>2, <1>3, <1>4

LEMMA RangesSound ==
  ASSUME TypeOK
  PROVE  Sound(RangeOutcomes)
<1>1. CASE ~UseContext
  <2>1. ASSUME NEW v \in InvalidSelection  PROVE Fits(v)
    <3>1. v = Value("range", "random", At(<<Far, Far>>), "random")
      BY <2>1 DEF InvalidSelection
    <3> QED  BY <3>1, BlindFits
  <2> QED  BY <1>1, <2>1 DEF RangeOutcomes, Sound
<1>2. CASE UseContext
  <2> DEFINE byGrammar  == IF UseGrammarOps THEN SubtreeNodeType ELSE {}
             invalid    == IF AllowInvalid
                             THEN AfterRange \cup InvertedRange \cup RandomInvalidRange ELSE {}
             byFeedback == IF UseFeedbackGuidance
                             THEN DiagnosedRange \cup DiagnosedParent \cup SymbolsRange ELSE {}
  <2>1. Sound(WholeSelection) /\ Sound(RandomValidRange)  BY <1>2, ValidRangesSound
  <2>2. Sound(byGrammar)  BY SubtreeSound DEF Sound
  <2>3. Sound(invalid)  BY <1>2, InvalidRangesSound DEF Sound
  <2>4. Sound(byFeedback)  BY FeedbackRangesSound DEF Sound
  <2> HIDE DEF byGrammar, byFeedback, invalid
  <2>5. Sound(UNION {WholeSelection, RandomValidRange, byGrammar, invalid, byFeedback})
    BY <2>1, <2>2, <2>3, <2>4, UnionSound
  <2> QED  BY <1>2, <2>5 DEF RangeOutcomes, byGrammar, byFeedback, invalid
<1> QED  BY <1>1, <1>2

LEMMA TextsSound ==
  Sound(StringOutcomes) /\ Sound({Constant}) /\ Sound({Nothing})
<1>1. /\ Fits(Text("default")) /\ Fits(Text("token")) /\ Fits(Constant)
      /\ UseContext => Fits(Text("terminal"))
  BY PlainFits DEF Text, Constant
<1>2. Sound(TokenText)  BY <1>1 DEF TokenText, Sound
<1>3. UseContext => Sound(TerminalText)  BY <1>1 DEF TerminalText, Choose, Sound
<1> QED  BY <1>1, <1>2, <1>3 DEF StringOutcomes, Sound

LEMMA OutcomesSound ==
  ASSUME TypeOK, NEW part \in Parts
  PROVE  Sound(Outcomes(part))
<1>1. Sound(StringOutcomes) /\ Sound({Constant}) /\ Sound({Nothing})  BY TextsSound
<1>2. Sound(OptionOf(StringOutcomes)) /\ Sound(VecOf(StringOutcomes))
  BY <1>1 DEF OptionOf, VecOf, Sound
<1>3. Sound(OptionOf(VecOf({Constant})))  BY <1>1 DEF OptionOf, VecOf, Sound
<1>4. Sound(PositionOutcomes) /\ Sound(RangeOutcomes)  BY PositionsSound, RangesSound
<1>5. Sound(IdentifierOutcomes)
  <2>1. Fits(Value("document", IF UseContext THEN "own" ELSE "random", Here, "identifier"))
    BY PlainFits
  <2> QED  BY <2>1 DEF IdentifierOutcomes, Sound
<1>6. Sound(ParamFragment)
  <2>1. "ParamFragments" \notin TestcaseMetadata  BY DEF TestcaseMetadata
  <2> QED  BY <1>1, <2>1 DEF ParamFragment
<1>7. /\ part = "position" => Outcomes(part) = PositionOutcomes
      /\ part = "range" => Outcomes(part) = RangeOutcomes
      /\ part = "document" => Outcomes(part) = IdentifierOutcomes
      /\ part = "text" => Outcomes(part) = StringOutcomes
      /\ part = "optionText" => Outcomes(part) = OptionOf(StringOutcomes)
      /\ part = "texts" => Outcomes(part) = VecOf(StringOutcomes)
      /\ part = "optionKinds" => Outcomes(part) = OptionOf(VecOf({Constant}))
      /\ part = "item" => Outcomes(part) = ParamFragment
      /\ part = "constant" => Outcomes(part) = {Constant}
  BY DEF Outcomes
<1> QED  BY <1>1, <1>2, <1>3, <1>4, <1>5, <1>6, <1>7 DEF Parts
-----------------------------------------------------------------------------
(* The steps.                                                              *)

LEMMA MethodsHaveParts ==
  ASSUME NEW method \in Methods
  PROVE  method \in Seq(Parts) /\ method # <<>>
<1>1. \A a, b, c \in Parts :
        /\ <<a>> \in Seq(Parts) /\ <<a, b>> \in Seq(Parts) /\ <<a, b, c>> \in Seq(Parts)
        /\ <<a>> # <<>> /\ <<a, b>> # <<>> /\ <<a, b, c>> # <<>>
  OBVIOUS
<1>2. \E a, b, c \in Parts : method \in {<<a>>, <<a, b>>, <<a, b, c>>}
  BY DEF Methods, NavigationMethods, FormattingMethods, DiagnosticsMethods, SymbolsMethods,
         HierarchyMethods, WorkspaceMethods, TracingMethods, Parts
<1> QED  BY <1>1, <1>2

(* What fits keeps fitting while the document, the test case and the       *)
(* configuration stay.                                                     *)
LEMMA FitsFixed ==
  ASSUME UNCHANGED <<config, corpus, current, doc>>
  PROVE  \A v : Fits(v)' <=> Fits(v)
BY DEF Fits, Lies, Heard, Allowed, InDocument, Info, ReportsOf, UseContext

LEMMA Initially == Init => IInv
<1> SUFFICES ASSUME Init  PROVE IInv  OBVIOUS
<1>1. PICK said \in Said(doc) :
        corpus = <<[doc |-> doc, info |-> IF said.decodes THEN CollectResponseInfo(said) ELSE None]>>
  BY DEF Init
<1> DEFINE info == IF said.decodes THEN CollectResponseInfo(said) ELSE None
           kept == [doc |-> doc, info |-> info]
<1>2. corpus = <<kept>> /\ kept.doc = doc /\ kept.info = info  BY <1>1
<1>3. info # None => info.about = doc
  <2>1. said.about = doc  BY DEF Said
  <2> QED  BY <2>1 DEF CollectResponseInfo
<1> HIDE DEF kept, info
<1>4. corpus \in Seq({kept}) /\ DOMAIN corpus = {1} /\ corpus[1] = kept  BY <1>2
<1>5. TypeOK
  <2>1. /\ config \in {Full, NoServerFeedback, NoContextAwareness}
        /\ doc \in Documents /\ stage = "schedule" /\ usage \in [Groups -> Nat] /\ current = 1
    BY DEF Init
  <2>2. current \in DOMAIN corpus /\ \A i \in DOMAIN corpus : corpus[i].doc \in Documents
    BY <1>2, <1>4, <2>1
  <2> QED  BY <1>4, <2>1, <2>2 DEF TypeOK, Stages
<1>6. Kept  BY DEF Init, Kept
<1>7. InfoOfOwnRun
  <2>1. \A i \in DOMAIN corpus : corpus[i] = kept  BY <1>4
  <2> QED  BY <1>2, <1>3, <2>1 DEF InfoOfOwnRun
<1> QED  BY <1>5, <1>6, <1>7 DEF IInv

(* A part that was generated fits, so the message still does.              *)
LEMMA PartGenerated ==
  ASSUME IInv, GeneratePart
  PROVE  IInv'
<1>1. /\ stage = "generate" /\ stage' = IF parts' = <<>> THEN "requests" ELSE "generate"
      /\ UNCHANGED <<config, corpus, current, doc, observed>>
  BY DEF GeneratePart
<1>2. PICK v \in Outcomes(Head(parts)) :
        /\ usage' = Steered(v)
        /\ message' = IF v = Nothing THEN None ELSE Append(message, v)
        /\ parts' = IF v = Nothing THEN <<>> ELSE Tail(parts)
  BY DEF GeneratePart
<1>3. TypeOK /\ parts \in Seq(Parts) /\ parts # <<>> /\ InfoOfOwnRun
  BY <1>1 DEF IInv, TypeOK
<1>4. Head(parts) \in Parts /\ Tail(parts) \in Seq(Parts)  BY <1>3, HeadTailProperties
<1>5. v = Nothing \/ Fits(v)  BY <1>3, <1>4, OutcomesSound DEF Sound
<1>6. PICK V : message \in Seq(V) /\ \A u \in V : Fits(u)
  BY <1>1 DEF IInv, Kept
<1>7. TypeOK'
  <2>1. usage' \in [Groups -> Nat]
    <3>1. usage \in [Groups -> Nat]  BY <1>3 DEF TypeOK
    <3> QED  BY <1>2, <3>1 DEF Steered
  <2>2. parts' \in Seq(Parts)  BY <1>2, <1>4, EmptySeq
  <2>3. stage' \in {"requests", "generate"} /\ (stage' = "generate" => parts' # <<>>)
    BY <1>1
  <2>4. config' = config /\ corpus' = corpus /\ current' = current /\ doc' = doc
    BY <1>1
  <2> QED  BY <1>3, <2>1, <2>2, <2>3, <2>4 DEF TypeOK, Stages
<1>8. Kept'
  <2>1. stage' \notin {"schedule", "document", "evaluate"}  BY <1>1
  <2>2. \A u : Fits(u)' <=> Fits(u)  BY <1>1, FitsFixed
  <2>3. CASE v = Nothing
    <3>1. message' = None /\ stage' # "generate"  BY <1>1, <1>2, <2>3
    <3> QED  BY <2>1, <3>1 DEF Kept
  <2>4. CASE v # Nothing
    <3> DEFINE W == V \cup {v}
    <3>1. \A u \in W : Fits(u)  BY <1>5, <1>6, <2>4
    <3>2. message \in Seq(W)
      <4>1. V \subseteq W  OBVIOUS
      <4> QED  BY <1>6, <4>1, SeqMonotonic
    <3>3. v \in W  OBVIOUS
    <3> HIDE DEF W
    <3>4. message' \in Seq(W)  BY <1>2, <2>4, <3>2, <3>3, AppendProperties
    <3>5. \A u \in W : Fits(u)'  BY <2>2, <3>1
    <3> QED  BY <2>1, <3>4, <3>5 DEF Kept
  <2> QED  BY <2>3, <2>4
<1>9. InfoOfOwnRun'  BY <1>1, <1>3 DEF InfoOfOwnRun
<1> QED  BY <1>7, <1>8, <1>9 DEF IInv

(* What is kept of a run is about the document that was run.               *)
LEMMA Evaluated ==
  ASSUME IInv, Evaluate
  PROVE  IInv'
<1>1. /\ stage = "evaluate" /\ stage' = "schedule" /\ message = None
      /\ UNCHANGED <<config, current, doc, message, parts, usage>>
  BY DEF Evaluate, IInv, Kept
<1>2. TypeOK /\ InfoOfOwnRun /\ doc \in Documents /\ observed \in Said(doc)
  BY <1>1 DEF IInv, TypeOK
<1>3. Kept'  BY <1>1 DEF Kept
<1>4. CASE UNCHANGED corpus
  <2>1. TypeOK'  BY <1>1, <1>2, <1>4 DEF TypeOK, Stages
  <2>2. InfoOfOwnRun'  BY <1>2, <1>4 DEF InfoOfOwnRun
  <2> QED  BY <1>3, <2>1, <2>2 DEF IInv
<1>5. CASE corpus' = Append(corpus, [doc |-> doc, info |-> InfoOf(observed)])
  <2> DEFINE info == InfoOf(observed)
             kept == [doc |-> doc, info |-> info]
  <2>1. info # None => info.about = doc
    <3>1. observed.about = doc  BY <1>2 DEF Said
    <3> QED  BY <3>1 DEF InfoOf, CollectResponseInfo
  <2>2. corpus' = Append(corpus, kept) /\ kept.doc = doc /\ kept.info = info  BY <1>5
  <2> HIDE DEF kept, info
  <2>3. PICK F : corpus \in Seq(F)  BY <1>2 DEF TypeOK
  <2> DEFINE G == F \cup {kept}
  <2>4. corpus \in Seq(G) /\ kept \in G
    <3>1. F \subseteq G  OBVIOUS
    <3> QED  BY <2>3, <3>1, SeqMonotonic
  <2> HIDE DEF G
  <2> DEFINE l == Len(corpus)
  <2>5. /\ corpus' \in Seq(G) /\ Len(corpus') = l + 1 /\ l \in Nat
        /\ \A i \in 1 .. l : corpus'[i] = corpus[i]
        /\ corpus'[l + 1] = kept
    BY <2>2, <2>4, AppendProperties, LenProperties
  <2>6. DOMAIN corpus = 1 .. l /\ DOMAIN corpus' = 1 .. l + 1  BY <2>4, <2>5, LenProperties
  <2> HIDE DEF l
  <2>7. \A i \in DOMAIN corpus' : i \in DOMAIN corpus \/ i = l + 1  BY <2>5, <2>6
  <2>8. \A i \in DOMAIN corpus' : corpus'[i].doc \in Documents
    BY <1>2, <2>2, <2>5, <2>6, <2>7 DEF TypeOK
  <2>9. current' \in DOMAIN corpus'
    <3>1. current \in 1 .. l  BY <1>2, <2>6 DEF TypeOK
    <3>2. current \in 1 .. l + 1  BY <2>5, <3>1
    <3> QED  BY <1>1, <2>6, <3>2
  <2>10. TypeOK'  BY <1>1, <1>2, <2>5, <2>8, <2>9 DEF TypeOK, Stages
  <2>11. ASSUME NEW i \in DOMAIN corpus', corpus'[i].info # None
         PROVE  corpus'[i].info.about = corpus'[i].doc
    <3>1. CASE i \in DOMAIN corpus
      <4>1. corpus'[i] = corpus[i]  BY <2>5, <2>6, <3>1
      <4> QED  BY <1>2, <2>11, <3>1, <4>1 DEF InfoOfOwnRun
    <3>2. CASE i = l + 1  BY <2>1, <2>2, <2>5, <2>11, <3>2
    <3> QED  BY <2>7, <3>1, <3>2
  <2>12. InfoOfOwnRun'  BY <2>11 DEF InfoOfOwnRun
  <2> QED  BY <1>3, <2>10, <2>12 DEF IInv
<1> QED  BY <1>4, <1>5 DEF Evaluate

LEMMA Steps ==
  ASSUME IInv, [Next]_vars
  PROVE  IInv'
<1>0. TypeOK /\ Kept /\ InfoOfOwnRun  BY DEF IInv
<1>1. CASE SchedulerNext
  <2>1. /\ stage = "schedule" /\ stage' = "document" /\ current' \in DOMAIN corpus
        /\ doc' = corpus[current'].doc
        /\ UNCHANGED <<config, corpus, message, parts, usage, observed>>
    BY <1>1 DEF SchedulerNext
  <2>2. doc' \in Documents  BY <1>0, <2>1 DEF TypeOK
  <2>3. TypeOK'  BY <1>0, <2>1, <2>2 DEF TypeOK, Stages
  <2>4. Kept'  BY <1>0, <2>1 DEF Kept
  <2>5. InfoOfOwnRun'  BY <1>0, <2>1 DEF InfoOfOwnRun
  <2> QED  BY <2>3, <2>4, <2>5 DEF IInv
<1>2. CASE MutateDocument
  <2>1. /\ stage = "document" /\ stage' = "requests" /\ doc' \in Documents
        /\ UNCHANGED <<config, corpus, current, message, parts, usage, observed>>
    BY <1>2 DEF MutateDocument
  <2>2. TypeOK'  BY <1>0, <2>1 DEF TypeOK, Stages
  <2>3. Kept'  BY <1>0, <2>1 DEF Kept
  <2>4. InfoOfOwnRun'  BY <1>0, <2>1 DEF InfoOfOwnRun
  <2> QED  BY <2>2, <2>3, <2>4 DEF IInv
<1>3. CASE AppendMessage
  <2>1. /\ parts' \in Methods /\ message' = <<>> /\ stage' = "generate"
        /\ UNCHANGED <<config, corpus, current, doc, usage, observed>>
    BY <1>3 DEF AppendMessage
  <2>2. parts' \in Seq(Parts) /\ parts' # <<>>  BY <2>1, MethodsHaveParts
  <2>3. TypeOK'  BY <1>0, <2>1, <2>2 DEF TypeOK, Stages
  <2>4. Kept'
    <3> DEFINE V == {}
    <3>1. message' \in Seq(V)  BY <2>1, EmptySeq
    <3>2. \A v \in V : Fits(v)'  OBVIOUS
    <3> HIDE DEF V
    <3> QED  BY <2>1, <3>1, <3>2 DEF Kept
  <2>5. InfoOfOwnRun'  BY <1>0, <2>1 DEF InfoOfOwnRun
  <2> QED  BY <2>3, <2>4, <2>5 DEF IInv
<1>4. CASE GeneratePart  BY <1>4, PartGenerated
<1>5. CASE Execute
  <2>1. /\ observed' \in Said(doc) /\ message' = None /\ stage' = "evaluate"
        /\ UNCHANGED <<config, corpus, current, doc, parts, usage>>
    BY <1>5 DEF Execute
  <2>2. TypeOK'  BY <1>0, <2>1 DEF TypeOK, Stages, Said
  <2>3. Kept'  BY <2>1 DEF Kept
  <2>4. InfoOfOwnRun'  BY <1>0, <2>1 DEF InfoOfOwnRun
  <2> QED  BY <2>2, <2>3, <2>4 DEF IInv
<1>6. CASE Skip
  <2>1. /\ message = None /\ stage' = "schedule"
        /\ UNCHANGED <<config, corpus, current, doc, message, parts, usage, observed>>
    BY <1>6 DEF Skip
  <2>2. TypeOK'  BY <1>0, <2>1 DEF TypeOK, Stages
  <2>3. Kept'  BY <2>1 DEF Kept
  <2>4. InfoOfOwnRun'  BY <1>0, <2>1 DEF InfoOfOwnRun
  <2> QED  BY <2>2, <2>3, <2>4 DEF IInv
<1>7. CASE Evaluate  BY <1>7, Evaluated
<1>8. CASE UNCHANGED vars
  <2>1. /\ UNCHANGED <<config, corpus, current, doc>>
        /\ UNCHANGED <<stage, message, parts, usage, observed>>
    BY <1>8 DEF vars
  <2>2. TypeOK'  BY <1>0, <2>1 DEF TypeOK, Said
  <2>3. Kept'
    <3>1. \A v : Fits(v)' <=> Fits(v)  BY <2>1, FitsFixed
    <3>2. CASE message # None \/ stage = "generate"
      <4>1. PICK V : message \in Seq(V) /\ \A v \in V : Fits(v)  BY <1>0, <3>2 DEF Kept
      <4>2. message' \in Seq(V) /\ \A v \in V : Fits(v)'  BY <2>1, <3>1, <4>1
      <4> QED  BY <1>0, <2>1, <4>2 DEF Kept
    <3>3. CASE ~(message # None \/ stage = "generate")  BY <2>1, <3>3 DEF Kept
    <3> QED  BY <3>2, <3>3
  <2>4. InfoOfOwnRun'  BY <1>0, <2>1 DEF InfoOfOwnRun
  <2> QED  BY <2>2, <2>3, <2>4 DEF IInv
<1> QED  BY <1>1, <1>2, <1>3, <1>4, <1>5, <1>6, <1>7, <1>8 DEF Next

(* Every campaign keeps the invariant.                                     *)
THEOREM Invariant == Spec => []IInv
<1>1. IInv /\ [Next]_vars => IInv'  BY Steps
<1> QED  BY Initially, <1>1, PTL DEF Spec
-----------------------------------------------------------------------------
(* The properties.                                                         *)

LEMMA ParametersFit ==
  ASSUME IInv, NEW v \in Parameters
  PROVE  Fits(v)
<1>1. message # None /\ v \in {message[i] : i \in DOMAIN message}  BY DEF Parameters
<1>2. PICK V : message \in Seq(V) /\ \A u \in V : Fits(u)  BY <1>1 DEF IInv, Kept
<1>3. PICK i \in DOMAIN message : v = message[i]  BY <1>1
<1>4. v \in V  BY <1>2, <1>3, LenProperties, ElementOfSeq
<1> QED  BY <1>2, <1>4

(* A position or range aimed into the document lies in it, in whatever     *)
(* order test cases are scheduled, edited and reported on.                 *)
THEOREM TargetsInDocumentHolds == Spec => []TargetsInDocument
<1>1. IInv => TargetsInDocument
  BY ParametersFit DEF Fits, Lies, TargetsInDocument
<1> QED  BY <1>1, Invariant, PTL

(* Whatever is attributed to feedback was reported, for the test case      *)
(* being mutated and of this document.                                     *)
THEOREM FeedbackReportedHolds == Spec => []FeedbackReported
<1>1. IInv => FeedbackReported
  BY ParametersFit DEF Fits, Heard, FeedbackReported
<1> QED  BY <1>1, Invariant, PTL

(* No configuration uses what it ablates.                                  *)
THEOREM AblationKeptHolds == Spec => []AblationKept
<1>1. IInv => AblationKept
  BY ParametersFit DEF Fits, Allowed, AblationKept
<1> QED  BY <1>1, Invariant, PTL

(* What a test case knows was said in its own run.                         *)
THEOREM InfoOfOwnRunHolds == Spec => []InfoOfOwnRun
<1>1. IInv => InfoOfOwnRun  BY DEF IInv
<1> QED  BY <1>1, Invariant, PTL
=============================================================================
