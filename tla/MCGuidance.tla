----------------------------- MODULE MCGuidance -----------------------------
(* Three texts: two lines with a nested node, one line, and the empty one. *)
EXTENDS Guidance

CONSTANTS keyword

Node(from, to, depth, leaf, group) ==
  [from |-> from, to |-> to, depth |-> depth, leaf |-> leaf, group |-> group]

MCDocuments ==
  {[lines |-> <<1, 2>>,
    nodes |-> {Node(<<0, 0>>, <<1, 2>>, 0, FALSE, None),
               Node(<<0, 0>>, <<0, 1>>, 1, TRUE, keyword),
               Node(<<1, 0>>, <<1, 2>>, 1, FALSE, None),
               Node(<<1, 1>>, <<1, 2>>, 2, TRUE, None)}],
   [lines |-> <<1>>,
    nodes |-> {Node(<<0, 0>>, <<0, 1>>, 0, FALSE, None),
               Node(<<0, 0>>, <<0, 1>>, 1, TRUE, keyword)}],
   [lines |-> <<0>>, nodes |-> {Node(<<0, 0>>, <<0, 0>>, 0, TRUE, None)}]}

MCGroups == {keyword}

Report(kind, uri, from, to) == [kind |-> kind, uri |-> uri, from |-> from, to |-> to]
MCReported ==
  {Report("diagnostic", "own", <<1, 1>>, <<1, 2>>),
   Report("symbol", "own", <<1, 1>>, <<1, 2>>),
   Report("diagnostic", "own", <<0, 0>>, <<Far, 0>>),
   Report("item", "own", <<0, 0>>, <<0, 0>>),
   Report("diagnostic", "other", <<0, 0>>, <<0, 1>>)}
=============================================================================
