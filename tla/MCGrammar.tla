---- MODULE MCGrammar ----
(* Grammars of up to four rules, with everything the passes treat apart. *)
EXTENDS Grammar

MCSpelling == ("" :> <<>>) @@ ("a" :> <<"a">>) @@ ("b" :> <<"b">>) @@ ("ab" :> <<"a", "b">>) @@ (" " :> <<" ">>)
MCAlphabet == {"a", "b", " "}
MCHidden   == {"_h"}
Name(n)    == <<"name", n>>
Rule(n)    == <<"symbol", n>>
MCEntries  == <<Name("p"), Name("q"), Name("r"), Rule("_h"), Rule("start"), Rule("x")>>

S(n)  == [type |-> "SYMBOL", name |-> n]
L(s)  == [type |-> "STRING", value |-> s]
P(h)  == [type |-> "PATTERN", regex |-> h]
Nil   == [type |-> "BLANK"]
T(kind, rs) == [type |-> kind, of |-> rs]
A(n, r)     == [type |-> "ALIAS", value |-> n, named |-> TRUE, of |-> <<r>>]
Pr(v, r)    == [type |-> "PREC", prec |-> v, of |-> <<r>>]
Fd(r)       == [type |-> "FIELD", of |-> <<r>>]
Rs(c, r)    == [type |-> "RESERVED", context |-> c, of |-> <<r>>]

Class(cs)       == [h |-> "class", set |-> cs]
Text(cs)        == [h |-> "literal", chars |-> cs]
Rep(lo, hi, h)  == [h |-> "repetition", min |-> lo, max |-> hi, of |-> <<h>>]
Regex(kind, hs) == [h |-> kind, of |-> hs]

Starts == {
  T("SEQ", <<S("x"), Fd(S("y")), Fd(L("a"))>>),
  T("REPEAT", <<T("CHOICE", <<S("x"), S("y")>>)>>),
  T("CHOICE", <<S("_h"), T("SEQ", <<S("x"), P(Text(<<"b">>)), Pr(<<"int", 1>>, S("_h"))>>)>>),
  T("SEQ", <<A("k", S("_h")), T("CHOICE", <<A("k", S("x")), A("m", S("x")), Nil>>), S("y")>>),
  T("SEQ", <<T("REPEAT1", <<T("SEQ", <<Rs("words", S("x")), L("a")>>)>>), S("_h")>>) }

Xs == {
  T("TOKEN", <<T("SEQ", <<L("a"), L("b")>>)>>),
  T("CHOICE", <<L("a"), T("SEQ", <<L("b"), S("x")>>)>>),
  T("CHOICE", <<S("_h"), Nil>>),
  P(Rep(1, Unbounded, Class({"a", "b"}))),
  L("a") }

Hs == {
  T("REPEAT1", <<L("b")>>),
  T("CHOICE", <<A("m", S("y")), T("SEQ", <<S("y"), S("y")>>)>>),
  P(Regex("concat", <<Text(<<"a">>), Rep(0, 1, Class({"b"}))>>)),
  T("REPEAT", <<S("y")>>) }

Ys == { T("SEQ", <<L("ab"), S("e")>>), T("IMMEDIATE_TOKEN", <<T("CHOICE", <<L("a"), L("ab")>>)>>),
        T("REPEAT1", <<L("b")>>) }

Four(s, x, h, y) == <<[name |-> "start", rule |-> s], [name |-> "x", rule |-> x],
                      [name |-> "_h", rule |-> h], [name |-> "y", rule |-> y]>>

Plain ==
  [rules : {Four(s, x, h, y) : s \in Starts, x \in Xs, h \in Hs, y \in Ys},
   extras : {<<P(Class({" "})), S("x")>>}, externals : {<<S("e")>>}, inline : {{}, {"_h"}},
   supertypes : {{}}, word : {NoName}, precedences : {{}}, contexts : {{"words"}}]

(* One grammar, and others that differ from it in one respect.             *)
Ordinary ==
  [rules |-> Four(T("SEQ", <<S("x"), T("REPEAT", <<S("y")>>), S("_h")>>), L("a"), S("y"),
                  T("SEQ", <<L("b"), Pr(<<"name", "p">>, S("x"))>>)),
   extras |-> <<P(Class({" "}))>>, externals |-> <<L("b")>>, inline |-> {}, supertypes |-> {},
   word |-> "x", precedences |-> {<<<<"name", "p">>, <<"symbol", "start">>>>}, contexts |-> {"words"}]

Start(r) == [Ordinary EXCEPT !.rules[1].rule = r]
X(r)     == [Ordinary EXCEPT !.rules[2].rule = r]
Special ==
  {Ordinary, Start(S("y")), Start(T("SEQ", <<S("x"), P(Class({"b"}))>>)),
   [Start(S("y")) EXCEPT !.precedences = {<<<<"name", "p">>, <<"symbol", "_h">>>>}],
   [Ordinary EXCEPT !.word = "y"], [Ordinary EXCEPT !.word = "z"],
   [Ordinary EXCEPT !.word = "y", !.rules[3].rule = Ordinary.rules[4].rule],
   [Ordinary EXCEPT !.supertypes = {"y"}], [Ordinary EXCEPT !.supertypes = {"z"}],
   [Ordinary EXCEPT !.inline = {"start"}], [Ordinary EXCEPT !.inline = {"x"}],
   [Ordinary EXCEPT !.inline = {"y"}, !.externals = <<S("y")>>],
   [Ordinary EXCEPT !.externals = <<T("SEQ", <<L("a"), L("b")>>)>>],
   [Ordinary EXCEPT !.extras = <<L("a"), L(""), P(Class({" "}))>>],
   [Ordinary EXCEPT !.extras = <<L("b"), P(Class({" "})), P(Text(<<" ", " ">>))>>],
   [Ordinary EXCEPT !.precedences = {}],
   [Ordinary EXCEPT !.precedences = {<<<<"name", "p">>, <<"symbol", "x">>>>,
                                     <<<<"symbol", "x">>, <<"name", "p">>>>}],
   [Ordinary EXCEPT !.rules[1].name = "_h", !.rules[3].name = "start"],
   Start(S("z")), Start(T("SEQ", <<Rs("words", S("x")), S("y"), S("_h")>>)), Start(Rs("others", S("x"))),
   Start(T("REPEAT", <<T("REPEAT1", <<T("CHOICE", <<S("x"), T("SEQ", <<S("y"), S("y")>>)>>)>>)>>)),
   Start(T("CHOICE", <<A("k", S("x")), A("m", S("y")), T("SEQ", <<A("m", S("x")), S("y")>>)>>)),
   Start(T("TOKEN", <<S("x")>>)), X(T("TOKEN", <<L("")>>)),
   X(P(Regex("look", <<>>))), X(P(Rep(0, 2, Text(<<"a">>)))), X(P(Rep(2, 3, Class({"a", "b"})))),
   X(P(Rep(0, Unbounded, Regex("capture", <<Regex("alternation", <<Text(<<"a">>), Regex("empty", <<>>)>>)>>)))),
   X(P(Regex("concat", <<Class({"a"}), Rep(2, 2, Class({"b"}))>>))),
   X(T("TOKEN", <<T("SEQ", <<L("a"), T("REPEAT1", <<T("CHOICE", <<L("b"), L(" ")>>)>>)>>)>>)),
   X(T("TOKEN", <<T("CHOICE", <<Pr(<<"int", 1>>, L("a")), P(Class({"b"}))>>)>>))}

(* Rules whose name or content a pass makes something else of.             *)
Lists(ls) == [Ordinary EXCEPT !.precedences = ls]
Clash(n, start, x) ==
  [Ordinary EXCEPT !.precedences = {},
     !.rules = <<[name |-> "start", rule |-> start], [name |-> "x", rule |-> x],
                 [name |-> "_h", rule |-> S(n)],
                 [name |-> n, rule |-> T("SEQ", <<L("b"), L("b")>>)]>>]
Token(t) == X(T("TOKEN", <<t>>))
Opt(t)   == T("CHOICE", <<t, Nil>>)
Odd ==
  {Start(T("SEQ", <<Rs("words", T("REPEAT", <<S("x")>>)), S("y")>>)),
   Start(T("CHOICE", <<Rs("words", T("SEQ", <<T("REPEAT1", <<S("x")>>), L("b")>>)), S("_h")>>)),
   [Start(T("SEQ", <<S("x"), S("_h")>>)) EXCEPT
      !.rules[3].rule = T("CHOICE", <<Rs("words", T("REPEAT1", <<S("x")>>)), S("y")>>)],
   Start(T("SEQ", <<Rs("words", T("TOKEN", <<T("REPEAT1", <<L("b")>>)>>)), S("_h")>>)),
   Clash("start_repeat1", T("SEQ", <<T("REPEAT", <<S("x")>>), S("_h")>>), L("a")),
   Clash("start_repeat2", T("SEQ", <<T("REPEAT", <<S("x")>>), S("_h")>>), L("a")),
   [Clash("x_repeat1", T("CHOICE", <<S("x"), S("_h")>>), T("SEQ", <<T("REPEAT1", <<L("a")>>), L("ab")>>))
      EXCEPT !.word = NoName],
   Clash("start_token1", T("CHOICE", <<T("SEQ", <<T("REPEAT", <<S("x")>>), P(Class({"b"}))>>), S("_h")>>), L("a")),
   Lists({<<Name("r"), Name("p"), Name("q")>>}), Lists({<<Name("p"), Name("q")>>, <<Name("q"), Name("p")>>}),
   Lists({<<Name("r"), Name("p"), Name("q")>>, <<Name("q"), Name("r")>>}),
   [Ordinary EXCEPT !.precedences = {}, !.externals = <<>>, !.extras = <<P(Regex("look", <<>>))>>,
      !.rules = Four(T("SEQ", <<S("x"), S("_h")>>), T("IMMEDIATE_TOKEN", <<L("a")>>), S("y"),
                     T("SEQ", <<T("IMMEDIATE_TOKEN", <<L("b")>>), S("x")>>))],
   [Ordinary EXCEPT !.extras = <<P(Regex("look", <<>>))>>],
   X(P(Rep(2, Unbounded, Class({"a"})))), [Ordinary EXCEPT !.extras = <<P(Rep(2, Unbounded, Class({" "})))>>],
   X(P(Regex("alternation", <<Rep(2, Unbounded, Class({"a"})), Text(<<"b">>)>>))),
   Token(T("CHOICE", <<L("a"), T("SEQ", <<L("b"), Nil>>)>>)),
   Token(T("CHOICE", <<L("a"), T("SEQ", <<Nil, L("b")>>), Nil>>)),
   Token(T("SEQ", <<Opt(L("a")), T("CHOICE", <<L("b"), T("SEQ", <<L("a"), Opt(L("b"))>>)>>)>>)),
   Token(T("SEQ", <<L("a"), Opt(L("b")), Nil>>)), Token(T("SEQ", <<L("a"), T("REPEAT1", <<Nil>>)>>))}

Grammars == Plain \cup Special \cup Odd
====
