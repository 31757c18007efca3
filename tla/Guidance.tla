------------------------------- MODULE Guidance -------------------------------
(***************************************************************************)
(* What the campaign generates messages from: lsp/generation, over the     *)
(* document as it is now and over what the server said when the test case  *)
(* being mutated was run (server_response.rs keeps it with the test case). *)
(*                                                                         *)
(* A mutation stage takes a test case, edits a copy of its document, then  *)
(* appends messages whose parameters are generated; the copy is run, and   *)
(* may become a test case of its own.  The edits have changed the document *)
(* the server talked about: feedback is used on another text.              *)
(*                                                                         *)
(* Points are <<line, character>>; a document is a record of the lengths   *)
(* of its lines and its nodes, [from, to, depth, leaf, group].             *)
(***************************************************************************)
EXTENDS Integers, Sequences

CONSTANTS
  Documents,   (* the texts a document may have, with their trees          *)
  Groups,      (* WELL_KNOWN_HIGHLIGHT_CAPTURE_NAMES                       *)
  HasTokens,   (* whether the target has an automatic dictionary           *)
  Reported,    (* what a server may report, [kind, uri, from, to]          *)
  None,        (* the absent value                                         *)
  MaxCorpus    (* bound on the corpus                                      *)

(* A point of a text; one character past the end of a line is its end.     *)
Within(d, p) == p[1] \in 0 .. Len(d.lines) - 1 /\ p[2] \in 0 .. d.lines[p[1] + 1]

(* The generators "by" names below, beside the highlight groups.           *)
Generators ==
  {"valid", "invalid", "random", "nodeType", "subtree", "diagnostic", "symbol",
   "token", "terminal", "default", "constant", "identifier", "none"}

(* A tree is that of its text: it has a root, and no node leaves the text. *)
ASSUME GuidanceAssumption ==
  /\ \A d \in Documents :
       /\ d.lines \in Seq(Nat) /\ d.lines # <<>>
       /\ \E n \in d.nodes : n.depth = 0
       /\ \A n \in d.nodes : Within(d, n.from) /\ Within(d, n.to)
  /\ Groups \cap Generators = {}
  /\ HasTokens \in BOOLEAN
  /\ MaxCorpus \in Nat \ {0}

VARIABLES
  config,     (* GeneratorsConfig::awareness                               *)
  corpus,     (* test cases [doc, info]; info is None if none was kept     *)
  current,    (* state.current_testcase()                                  *)
  doc,        (* the document of the input being mutated                   *)
  stage,      (* "schedule", "document", "requests", "generate", "evaluate" *)
  message,    (* the parameters generated last, or None                    *)
  parts,      (* those the message still lacks                             *)
  usage,      (* HighlightGroupUsageMetadata                               *)
  observed    (* what the server said in the run being evaluated           *)

vars == <<config, corpus, current, doc, stage, message, parts, usage, observed>>

-----------------------------------------------------------------------------
(* Documents and their trees.                                              *)

Before(a, b)   == a[1] < b[1] \/ (a[1] = b[1] /\ a[2] <= b[2])
Holds(n, a, b) == Before(n.from, a) /\ Before(b, n.to)
Root(d) == CHOOSE n \in d.nodes : n.depth = 0

(* descendant_for_point_range: the deepest node around a range; around     *)
(* one that is not in the text, the root or nothing.                       *)
Descendant(d, r) ==
  LET around == {n \in d.nodes : Holds(n, r.from, r.to)}
  IN  IF around = {} THEN {{}, {Root(d)}}
      ELSE {{n} : n \in {m \in around : \A o \in around : o.depth <= m.depth}}

Parent(d, n)  == {m \in d.nodes : m.depth = n.depth - 1 /\ Holds(m, n.from, n.to)}
Subtree(d, n) == {m \in d.nodes : m.depth >= n.depth /\ Holds(n, m.from, m.to)}
RangeOf(n)    == [from |-> n.from, to |-> n.to]

(* Variant with a defect, used by no specification: the range's own start. *)
RangeStart(d, r) == {{r.from}}

(* TextDocument::node_starts_in_range, for each outcome of the search.     *)
NodeStartsInRange(d, r) ==
  {UNION {{m.from : m \in Subtree(d, n)} : n \in found} : found \in Descendant(d, r)}

ValidPositions(d) ==
  UNION {{<<l - 1, c>> : c \in 0 .. d.lines[l] - 1} : l \in DOMAIN d.lines}
WholeRange(d) ==
  [from |-> <<0, 0>>, to |-> <<Len(d.lines) - 1, d.lines[Len(d.lines)]>>]

Far == 9  (* a line or character beyond every text                         *)

-----------------------------------------------------------------------------
(* GeneratorsConfig: what the generators may use.  The invalid ranges and  *)
(* positions that the configurations all allow are not used without context. *)

Full               == [context |-> TRUE,  grammarOps |-> TRUE,  feedback |-> TRUE]
NoServerFeedback   == [context |-> TRUE,  grammarOps |-> FALSE, feedback |-> FALSE]
NoContextAwareness == [context |-> FALSE, grammarOps |-> TRUE,  feedback |-> FALSE]

UseContext          == config.context
UseFeedbackGuidance == config.context /\ config.feedback
UseGrammarOps       == config.context /\ config.grammarOps
AllowInvalid        == config.context

-----------------------------------------------------------------------------
(* Values, with the generator that made them.  A generator may also yield  *)
(* nothing: GenerationError::NothingGenerated.                             *)

Value(kind, uri, r, by) == [kind |-> kind, uri |-> uri, from |-> r.from, to |-> r.to, by |-> by]
At(p) == [from |-> p, to |-> p]
Here  == At(<<0, 0>>)

Position(p, by) == Value("position", "own", At(p), by)
Selection(r, by)    == Value("range", "own", r, by)
Text(by)        == Value("text", "none", Here, by)
Constant        == Value("constant", "none", Here, "constant")
Nothing         == Value("nothing", "none", Here, "none")

(* rand.choose(..).ok_or(NothingGenerated).                                *)
Choose(values) == IF values = {} THEN {Nothing} ELSE values

-----------------------------------------------------------------------------
(* What the current test case knows of its document.                       *)

Info == corpus[current].info
ReportsOf(kind) ==
  IF Info = None THEN {}
  ELSE IF kind = "symbol" THEN Info.symbolRanges ELSE Info.diagnostics

(* Variant with a defect, used by no specification: of any document.       *)
ReportsOfAny(kind) == ReportsOf(kind)

Reports(kind) == {r \in ReportsOf(kind) : r.uri = "own"}

-----------------------------------------------------------------------------
(* TextDocumentPositionParams.                                             *)

ValidPosition      == Choose({Position(p, "valid") : p \in ValidPositions(doc)})
NodeTypeBalancing  == Choose({Position(n.from, "nodeType") : n \in {m \in doc.nodes : m.leaf}})
RandomPosition     == {Position(<<0, 0>>, "random"), Position(<<Far, Far>>, "random")}
InvalidDocPosition == {Value("position", "random", At(<<Far, 0>>), "random")}

(* HighlightSteer: RandExt::weighted_choose has nothing to choose among if *)
(* every weight is 0, as they are when all groups were used as often; and  *)
(* only a group that was steered to is ever counted as used.               *)
HighlightChoices ==
  {g \in Groups : \E h \in Groups : usage[h] > usage[g]}
Captures(g)    == {n \in doc.nodes : n.group = g}
HighlightSteer ==
  IF HighlightChoices = {} THEN {Nothing}
  ELSE UNION {Choose({Position(n.from, g) : n \in Captures(g)}) : g \in HighlightChoices}

(* diag_nodes, diag_nodes_parent, collected_symbols: the starts of the     *)
(* nodes around one of the reports.                                        *)
Around(starts, by) ==
  IF starts = {} THEN {Nothing} ELSE UNION {Choose({Position(p, by) : p \in ps}) : ps \in starts}

StartsIn(ranges) == UNION {NodeStartsInRange(doc, r) : r \in ranges}

DiagNodes        == Around(StartsIn(Reports("diagnostic")), "diagnostic")
CollectedSymbols == Around(StartsIn(Reports("symbol")), "symbol")
DiagNodesParent  ==
  LET parents == UNION {UNION {Parent(doc, n) : n \in UNION Descendant(doc, r)} :
                          r \in Reports("diagnostic")}
  IN  Around({{}} \cup StartsIn({RangeOf(m) : m \in parents}), "diagnostic")

PositionOutcomes ==
  IF ~UseContext THEN InvalidDocPosition
  ELSE UNION {ValidPosition,
              IF UseGrammarOps THEN NodeTypeBalancing \cup HighlightSteer ELSE {},
              IF UseFeedbackGuidance THEN DiagNodes \cup DiagNodesParent \cup CollectedSymbols ELSE {},
              IF AllowInvalid THEN RandomPosition ELSE {}}

-----------------------------------------------------------------------------
(* DocumentSelection.  A range selector always yields: those that find no  *)
(* report fall back to a subtree themselves.                               *)

End == WholeRange(doc).to
WholeSelection  == {Selection(WholeRange(doc), "valid")}
AfterRange      == {Selection([from |-> End, to |-> <<Far, End[2]>>], "invalid")}
InvertedRange   == {Selection([from |-> End, to |-> <<0, 0>>], "invalid")}
RandomInvalidRange == {Selection(At(<<Far, Far>>), "invalid")}
SubtreeNodeType == {Selection(RangeOf(n), "subtree") : n \in doc.nodes}

(* Two lines in order and a character of each: on one line they may be in  *)
(* the wrong order.                                                        *)
RandomValidRange ==
  LET points == ValidPositions(doc) \cup {<<l - 1, 0>> : l \in DOMAIN doc.lines}
      ranges == [from : points, to : points]
  IN  {Selection(r, "valid") : r \in {q \in ranges : q.from[1] <= q.to[1]}}

OrSubtree(ranges) == IF ranges = {} THEN SubtreeNodeType ELSE ranges
DiagnosedRange  == OrSubtree({Selection(RangeOf(r), "diagnostic") : r \in Reports("diagnostic")})
SymbolsRange    == OrSubtree({Selection(RangeOf(r), "symbol") : r \in Reports("symbol")})
DiagnosedParent ==
  OrSubtree({Selection(RangeOf(m), "subtree") :
               m \in UNION {UNION {Parent(doc, n) : n \in UNION Descendant(doc, r)} :
                              r \in Reports("diagnostic")}})

InvalidSelection == {Value("range", "random", At(<<Far, Far>>), "random")}

RangeOutcomes ==
  IF ~UseContext THEN InvalidSelection
  ELSE UNION {WholeSelection,
              RandomValidRange,
              IF UseGrammarOps THEN SubtreeNodeType ELSE {},
              IF AllowInvalid THEN AfterRange \cup InvertedRange \cup RandomInvalidRange ELSE {},
              IF UseFeedbackGuidance THEN DiagnosedRange \cup DiagnosedParent \cup SymbolsRange ELSE {}}

-----------------------------------------------------------------------------
(* The other parameters.                                                   *)

IdentifierOutcomes ==
  {Value("document", IF UseContext THEN "own" ELSE "random", Here, "identifier")}

TokenText    == IF HasTokens THEN {Text("token")} ELSE {Nothing}
TerminalText == Choose({Text("terminal") : n \in {m \in doc.nodes : m.leaf}})
(* Variant with a defect, used by no specification: context not asked.     *)
StringUnaware == {Text("default")} \cup TokenText \cup TerminalText

StringOutcomes ==
  {Text("default")} \cup TokenText \cup (IF UseContext THEN TerminalText ELSE {})

(* An item of an earlier answer is looked up as ParamFragments among the   *)
(* metadata of the test case; LspResponseFeedback adds LspResponseInfo,    *)
(* which holds them, so nothing is found.                                  *)
TestcaseMetadata == IF Info = None THEN {} ELSE {"LspResponseInfo"}
ParamFragment ==
  IF UseFeedbackGuidance /\ "ParamFragments" \in TestcaseMetadata
  THEN {Value("item", "own", Here, "symbol")} ELSE {Nothing}

OptionOf(outcomes) == outcomes \cup {Constant}
VecOf(outcomes)    == outcomes \cup {Nothing}

Outcomes(component) ==
  CASE component = "position"     -> PositionOutcomes
    [] component = "range"        -> RangeOutcomes
    [] component = "document"     -> IdentifierOutcomes
    [] component = "text"         -> StringOutcomes
    [] component = "optionText"   -> OptionOf(StringOutcomes)
    [] component = "texts"        -> VecOf(StringOutcomes)
    [] component = "optionKinds"  -> OptionOf(VecOf({Constant}))
    [] component = "item"         -> ParamFragment
    [] component = "constant"     -> {Constant}

-----------------------------------------------------------------------------
(* The messages of each family: what their parameters are composed of,     *)
(* without the progress tokens, numbers and flags.                         *)

NavigationMethods ==
  {<<"position">>, <<"position", "optionText">>, <<"optionText", "position">>,
   <<"position", "text">>, <<"range">>, <<"item">>}
FormattingMethods  == {<<"document">>, <<"position", "text">>, <<"range">>}
DiagnosticsMethods ==
  {<<"document", "optionText", "optionText">>, <<"optionText", "texts">>,
   <<"range", "optionKinds">>, <<"item">>, <<"constant">>}
SymbolsMethods   == {<<"document">>, <<"range">>, <<"document", "text">>, <<"item">>}
HierarchyMethods == {<<"item">>, <<"position">>}
WorkspaceMethods == {<<"text">>, <<"item">>}
TracingMethods   == {<<"text", "optionText">>, <<"constant">>}

Methods == UNION {NavigationMethods, FormattingMethods, DiagnosticsMethods, SymbolsMethods,
                  HierarchyMethods, WorkspaceMethods, TracingMethods}

-----------------------------------------------------------------------------
(* One evaluation: a test case is scheduled, a copy of its document edited *)
(* or not, messages appended, the copy run and perhaps kept.               *)

(* What the server says of a document in a run; its messages can be        *)
(* matched with what was sent, or not.                                     *)
Said(about) ==
  [about : {about}, items : {{}} \cup {{r} : r \in Reported}, decodes : BOOLEAN]

(* collect_response_info.                                                  *)
CollectDiagnostics(said)    == {r \in said.items : r.kind = "diagnostic"}
CollectSymbolRanges(said)   == {r \in said.items : r.kind = "symbol"}
CollectParamFragments(said) == {r \in said.items : r.kind = "item"}
CollectResponseInfo(said) ==
  [about |-> said.about, diagnostics |-> CollectDiagnostics(said),
   symbolRanges |-> CollectSymbolRanges(said), paramFragments |-> CollectParamFragments(said)]

(* Variant with a defect, used by no specification: without a match the    *)
(* information of the mutated test case stays.                             *)
InfoKept(said) == IF said.decodes THEN CollectResponseInfo(said) ELSE Info

(* LspResponseFeedback::append_metadata: no match, no information.         *)
InfoOf(said) == IF said.decodes THEN CollectResponseInfo(said) ELSE None

Init ==
  /\ config \in {Full, NoServerFeedback, NoContextAwareness}
  /\ doc \in Documents
  /\ \E said \in Said(doc) :
       corpus = <<[doc |-> doc, info |-> IF said.decodes THEN CollectResponseInfo(said) ELSE None]>>
  /\ current = 1
  /\ stage = "schedule" /\ message = None /\ parts = <<>> /\ observed = None
  /\ usage = [g \in Groups |-> 0]

(* Scheduler::next, for the next iteration of this or another test case.   *)
SchedulerNext ==
  /\ stage = "schedule"
  /\ current' \in DOMAIN corpus
  /\ doc' = corpus[current'].doc
  /\ stage' = "document"
  /\ UNCHANGED <<config, corpus, message, parts, usage, observed>>

(* LspInputMutator: half the time the document is left alone.              *)
MutateDocument ==
  /\ stage = "document"
  /\ doc' \in Documents
  /\ stage' = "requests"
  /\ UNCHANGED <<config, corpus, current, message, parts, usage, observed>>

(* AppendMessage::mutate.  What is generated does not depend on the other  *)
(* messages of the input: one is kept.                                     *)
AppendMessage ==
  /\ stage = "requests" /\ message = None
  /\ parts' \in Methods
  /\ message' = <<>>
  /\ stage' = "generate"
  /\ UNCHANGED <<config, corpus, current, doc, usage, observed>>

(* A highlight group that was steered to stays counted, whether or not the *)
(* message is then completed.                                              *)
Steered(v) == [g \in Groups |-> usage[g] + (IF v.by = g THEN 1 ELSE 0)]

(* CompositionGenerator: part by part, until one yields nothing.           *)
GeneratePart ==
  /\ stage = "generate"
  /\ \E v \in Outcomes(Head(parts)) :
       /\ usage' = Steered(v)
       /\ message' = IF v = Nothing THEN None ELSE Append(message, v)
       /\ parts' = IF v = Nothing THEN <<>> ELSE Tail(parts)
  /\ stage' = IF parts' = <<>> THEN "requests" ELSE "generate"
  /\ UNCHANGED <<config, corpus, current, doc, observed>>

(* evaluate_input: the observer is cleared before the run.                 *)
Execute ==
  /\ stage = "requests"
  /\ observed' \in Said(doc)
  /\ message' = None
  /\ stage' = "evaluate"
  /\ UNCHANGED <<config, corpus, current, doc, parts, usage>>

(* MutationResult::Skipped: nothing was changed, nothing is run.           *)
Skip ==
  /\ stage = "requests" /\ message = None /\ doc = corpus[current].doc
  /\ stage' = "schedule"
  /\ UNCHANGED <<config, corpus, current, doc, message, parts, usage, observed>>

Evaluate ==
  /\ stage = "evaluate"
  /\ \/ /\ Len(corpus) < MaxCorpus
        /\ corpus' = Append(corpus, [doc |-> doc, info |-> InfoOf(observed)])
     \/ UNCHANGED corpus
  /\ observed' = None
  /\ stage' = "schedule"
  /\ UNCHANGED <<config, current, doc, message, parts, usage>>

Next ==
  \/ SchedulerNext \/ MutateDocument \/ AppendMessage \/ GeneratePart
  \/ Execute \/ Skip \/ Evaluate
Spec == Init /\ [][Next]_vars

-----------------------------------------------------------------------------
(* Properties.                                                             *)

Parameters == IF message = None THEN {} ELSE {message[i] : i \in DOMAIN message}
InDocument(p) == Within(doc, p)
GrammarKinds  == {"nodeType", "subtree"} \cup Groups
FeedbackKinds == {"diagnostic", "symbol"}

(* A position chosen in the document, from its tree or from what the       *)
(* server reported of an earlier version of it, lies in the document as it *)
(* is sent, and so does a valid range and the range of a subtree.          *)
TargetsInDocument ==
  \A v \in Parameters :
    \/ v.kind = "position" /\ v.by # "random"
    \/ v.kind = "range" /\ v.by \in {"valid", "subtree"}
    => v.uri = "own" /\ InDocument(v.from) /\ InDocument(v.to)

(* What is attributed to feedback was reported for the test case that is   *)
(* being mutated and of this document, and a reported range is repeated    *)
(* unchanged, however the document was edited since.                       *)
FeedbackReported ==
  \A v \in Parameters : v.by \in FeedbackKinds =>
    /\ Info # None
    /\ \E r \in ReportsOf(v.by) :
         /\ r.uri = "own"
         /\ v.kind = "range" => RangeOf(r) = RangeOf(v)

(* The ablations are kept: without context a message names no document of  *)
(* the workspace and quotes none of its text; without feedback nothing     *)
(* reported is used; nor is the tree without grammar operations.           *)
AblationKept ==
  \A v \in Parameters :
    /\ ~config.context => v.uri # "own" /\ v.by \notin {"valid", "terminal"} \cup GrammarKinds
    /\ ~config.feedback => v.by \notin FeedbackKinds
    /\ ~config.grammarOps /\ ~config.feedback => v.by \notin GrammarKinds

(* What a test case knows of its document is what the server said when     *)
(* that very document was run, or nothing: the run it was mutated from     *)
(* lends it nothing.                                                       *)
InfoOfOwnRun ==
  \A i \in DOMAIN corpus :
    corpus[i].info # None => corpus[i].info.about = corpus[i].doc
=============================================================================
