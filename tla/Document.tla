------------------------------ MODULE Document ------------------------------
(***************************************************************************)
(* An input under mutation: the source file of its workspace and the       *)
(* messages that refer to it.  text_document/mod.rs keeps a text and its   *)
(* parse tree, lsp_input/message_edit.rs moves the positions of messages   *)
(* when the text is edited, registration/mod.rs and messages.rs change the *)
(* sequence of messages.                                                   *)
(*                                                                         *)
(* LspInputMutator works in rounds: a stack of edits of the document, or   *)
(* none, then a stack of changes to the messages.                          *)
(***************************************************************************)
EXTENDS Integers, Sequences, FiniteSets

CONSTANTS
  MaxDocumentSize,  (* MAX_DOCUMENT_SIZE                                   *)
  MaxMessages,      (* MAX_MESSAGES                                        *)
  MaxSeed,          (* bound on the text of a seed, which may be larger    *)
  MaxFragment,      (* bound on the text put in place of a node            *)
  MaxLine, MaxChar, (* bounds on the positions that are generated          *)
  MaxEdits,         (* bound on the edits of the document                  *)
  MaxChanges        (* bound on the changes to the messages                *)

ASSUME DocumentAssumption ==
  /\ MaxDocumentSize \in Nat /\ MaxMessages \in Nat \ {0}
  /\ MaxSeed \in Nat /\ MaxFragment \in Nat
  /\ MaxLine \in Nat /\ MaxChar \in Nat
  /\ MaxEdits \in Nat /\ MaxChanges \in Nat

VARIABLES
  text,      (* TextDocument::content                                      *)
  tree,      (* the text that metadata.parse_tree is the tree of           *)
  messages,  (* input.messages: of each, the positions that               *)
             (* calibrate_message can reach: none, one, two for a range    *)
  stage,     (* "idle", "document" or "requests"                           *)
  edits, changes

vars == <<text, tree, messages, stage, edits, changes>>

LineSep == "\n"
Byte    == {LineSep, "x"}

Texts(n) == UNION {[1 .. k -> Byte] : k \in 0 .. n}

-----------------------------------------------------------------------------
(* Points and edits.                                                       *)

Breaks(s)   == {i \in 1 .. Len(s) : s[i] = LineSep}
LastLine(s) == {i \in 1 .. Len(s) : \A j \in i .. Len(s) : s[j] # LineSep}

(* Line breaks, and bytes after the last of them.                          *)
MeasureFragment(s) == [row |-> Cardinality(Breaks(s)), col |-> Cardinality(LastLine(s))]

(* tree_sitter::Point of a byte offset.                                    *)
PointAt(s, k) == MeasureFragment(SubSeq(s, 1, k))

(* A node of the tree is some range of its bytes, empty if it is MISSING.  *)
Nodes == {n \in [start : 0 .. Len(tree), end : 0 .. Len(tree)] : n.start <= n.end}

(* Variant: the new end in bytes counts from the old end as well.          *)
EditFromOldEnd(node, new) ==
  [start |-> node.start, oldEnd |-> node.end, newEnd |-> node.end + Len(new),
   oldEndPoint |-> PointAt(tree, node.end), newEndPoint |-> PointAt(tree, node.end)]

(* Variant: the new end point is where the replacement really ends.        *)
EditFromStart(node, new) ==
  LET delta == MeasureFragment(new)
      first == PointAt(tree, node.start)
  IN  [start |-> node.start, oldEnd |-> node.end, newEnd |-> node.start + Len(new),
       oldEndPoint |-> PointAt(tree, node.end),
       newEndPoint |-> [row |-> first.row + delta.row,
                        col |-> IF delta.row = 0 THEN first.col + delta.col ELSE delta.col]]

EditForNodeReplacement(node, new) ==
  LET delta == MeasureFragment(new)
      last  == PointAt(tree, node.end)
  IN  [start |-> node.start, oldEnd |-> node.end, newEnd |-> node.start + Len(new),
       oldEndPoint |-> last,
       newEndPoint |-> [row |-> last.row + delta.row,
                        col |-> IF delta.row = 0 THEN last.col + delta.col ELSE delta.col]]

Splice(s, node, new) == SubSeq(s, 1, node.start) \o new \o SubSeq(s, node.end + 1, Len(s))

(* Incremental parsing reads the new text where the edit says it changed   *)
(* and takes the rest from the old tree.                                   *)
Reparse(old, content, edit) ==
  LET last == IF edit.newEnd <= Len(content) THEN edit.newEnd ELSE Len(content)
  IN  SubSeq(old, 1, edit.start)
        \o SubSeq(content, edit.start + 1, last)
        \o SubSeq(old, edit.oldEnd + 1, Len(old))

-----------------------------------------------------------------------------
(* Positions of messages.                                                  *)

Precedes(p, q) == p.row < q.row \/ (p.row = q.row /\ p.col <= q.col)

IsAfterEdit(p, edit) == Precedes(edit.oldEndPoint, p)

(* saturating_add, saturating_sub.                                         *)
AdjustComponent(current, oldEnd, newEnd) ==
  LET sum == current + (newEnd - oldEnd) IN IF sum >= 0 THEN sum ELSE 0

(* Variant: what follows on the line of the edit keeps its column.         *)
UpdateLineOnly(p, edit) ==
  IF IsAfterEdit(p, edit)
  THEN [p EXCEPT !.row = AdjustComponent(@, edit.oldEndPoint.row, edit.newEndPoint.row)]
  ELSE p

UpdatePosition(p, edit) ==
  IF IsAfterEdit(p, edit)
  THEN [row |-> AdjustComponent(p.row, edit.oldEndPoint.row, edit.newEndPoint.row),
        col |-> AdjustComponent(p.col, edit.oldEndPoint.col, edit.newEndPoint.col)]
  ELSE p

CalibrateMessage(msg, edit) ==
  [i \in DOMAIN msg |-> UpdatePosition(msg[i], edit)]

Calibrate(edit) == [i \in DOMAIN messages |-> CalibrateMessage(messages[i], edit)]

-----------------------------------------------------------------------------
(* The document mutators.                                                  *)

(* Variant: only the replacement is measured.                              *)
FitsAlone(node, new) == Len(new) <= MaxDocumentSize

Fits(node, new) == Len(text) - (node.end - node.start) + Len(new) <= MaxDocumentSize

Edit(node, new) ==
  LET edit == EditForNodeReplacement(node, new) IN
  /\ stage = "document" /\ edits < MaxEdits
  /\ Fits(node, new)
  /\ text' = Splice(text, node, new)
  /\ tree' = Reparse(tree, text', edit)
  /\ messages' = Calibrate(edit)
  /\ edits' = edits + 1
  /\ UNCHANGED <<stage, changes>>

(* A derivation, an expansion of the grammar, a fragment of another kind,  *)
(* or nothing, in place of a node.                                         *)
ReplaceNode == \E node \in Nodes, new \in Texts(MaxFragment) : Edit(node, new)

(* A proper prefix of the node; of an empty one, itself.                   *)
TruncateNode ==
  \E node \in Nodes, size \in 0 .. Len(text) :
    /\ size < node.end - node.start \/ size = 0
    /\ Edit(node, SubSeq(text, node.start + 1, node.start + size))

-----------------------------------------------------------------------------
(* The message mutators.                                                   *)

Position  == [row : 0 .. MaxLine, col : 0 .. MaxChar]
Generated == UNION {[1 .. n -> Position] : n \in 0 .. 2}

Change(sequence) ==
  /\ stage = "requests" /\ changes < MaxChanges
  /\ messages' = sequence
  /\ changes' = changes + 1
  /\ UNCHANGED <<text, tree, stage, edits>>

(* The new message replaces one of a full sequence.                        *)
AppendMessage ==
  \E msg \in Generated :
    IF Len(messages) >= MaxMessages
    THEN \E i \in DOMAIN messages : Change([messages EXCEPT ![i] = msg])
    ELSE Change(Append(messages, msg))

DropRandomMessage ==
  \E i \in DOMAIN messages :
    Change(SubSeq(messages, 1, i - 1) \o SubSeq(messages, i + 1, Len(messages)))

(* Two places drawn independently: they may be the same.                   *)
SliceSwap ==
  /\ Len(messages) >= 2
  /\ \E i, j \in DOMAIN messages :
       Change([messages EXCEPT ![i] = messages[j], ![j] = messages[i]])

-----------------------------------------------------------------------------
(* Rounds.  A mutator that skips leaves the input as it is.                *)

Enter(from, to) ==
  /\ stage = from /\ stage' = to
  /\ UNCHANGED <<text, tree, messages, edits, changes>>

Round ==
  \/ Enter("idle", "document")
  \/ Enter("idle", "requests")
  \/ Enter("document", "requests")
  \/ Enter("requests", "idle")

Init ==
  /\ text \in Texts(MaxSeed) /\ tree = text
  /\ messages = <<>> /\ stage = "idle" /\ edits = 0 /\ changes = 0

Next ==
  \/ Round
  \/ ReplaceNode \/ TruncateNode
  \/ AppendMessage \/ DropRandomMessage \/ SliceSwap

Spec == Init /\ [][Next]_vars

-----------------------------------------------------------------------------
(* Properties.                                                             *)

(* Types; the message sequence keeps to its limit.                         *)
TypeOK ==
  /\ text \in Seq(Byte) /\ tree \in Seq(Byte)
  /\ messages \in Seq(Seq([row : Nat, col : Nat]))
  /\ Len(messages) <= MaxMessages
  /\ \A i \in DOMAIN messages : Len(messages[i]) <= 2
  /\ stage \in {"idle", "document", "requests"}
  /\ edits \in 0 .. MaxEdits /\ changes \in 0 .. MaxChanges

(* The parse tree and the node index describe the text: every byte range a *)
(* mutator takes from a node lies in the content and holds that node.      *)
TreeFresh == tree = text

(* An edit leaves a document within its limit, even one whose seed was     *)
(* above it.                                                               *)
SizeBounded == [][text' # text => Len(text') <= MaxDocumentSize]_vars

(* Calibration keeps the order of positions: a range does not turn over,   *)
(* and of two requests the one further down stays so.                      *)
Places == {<<i, j>> : i \in DOMAIN messages, j \in 1 .. 2}
Held   == {p \in Places : p[2] \in DOMAIN messages[p[1]]}

OrderKept ==
  [][edits' # edits =>
       \A p, q \in Held :
         Precedes(messages[p[1]][p[2]], messages[q[1]][q[2]])
           => Precedes(messages'[p[1]][p[2]], messages'[q[1]][q[2]])]_vars

(* What calibration keeps of the place of a character.  Up to the node     *)
(* that is replaced, all of it.  After a node of one line, the line; and   *)
(* on the line of that node the column too, if the node was empty or the   *)
(* replacement ends on another line.  (A position on a later line, or      *)
(* after a node of one line replaced within it, is moved by columns it     *)
(* should not be, and one after a node of several lines by lines: the new  *)
(* end is computed from the old end.)                                      *)
OneLine(node) == PointAt(text, node.start).row = PointAt(text, node.end).row

LineExact(node, new) == node.start = node.end \/ Breaks(new) # {}

NamesSame(p, p2, node, new) ==
  \A k \in {i \in 0 .. Len(text) : PointAt(text, i) = p} :
    LET moved == PointAt(text', k + Len(new) - (node.end - node.start)) IN
    /\ k <= node.start /\ k < node.end => p2 = PointAt(text', k)
    /\ k >= node.end /\ OneLine(node) => p2.row = moved.row
    /\ k >= node.end /\ OneLine(node) /\ LineExact(node, new)
         /\ p.row = PointAt(text, node.end).row => p2 = moved

PositionsFollow ==
  [][edits' # edits =>
       \A node \in Nodes, new \in Texts(MaxFragment) :
         Edit(node, new) =>
           \A p \in Held :
             NamesSame(messages[p[1]][p[2]], messages'[p[1]][p[2]], node, new)]_vars
=============================================================================
