---------------------------- MODULE GrammarRules ----------------------------
(***************************************************************************)
(* The rules of a tree-sitter grammar (rules.rs), what parse_rule makes of *)
(* the JSON form, the substitution that several passes are, and the        *)
(* sentences a rule stands for, against which the passes are judged.       *)
(*                                                                         *)
(* A rule's children are in `of`, whatever their number.  Left out of the  *)
(* parameters of Metadata: the associativity, the dynamic precedence and   *)
(* the field name, which no pass lets decide what is derived.              *)
(***************************************************************************)
EXTENDS Integers, Sequences, FiniteSets, SequencesExt, TLC

CONSTANTS
  Spelling,    (* the string literals, each with its characters            *)
  MaxTokens    (* bound on the length of the sentences compared            *)

ASSUME RulesAssumption == MaxTokens \in Nat /\ "" \in DOMAIN Spelling

NoPrec  == <<"none">>
NoAlias == <<>>

DefaultParams == [prec |-> NoPrec, token |-> FALSE, main |-> FALSE, alias |-> NoAlias]

Blank              == [t |-> "blank"]
String(s)          == [t |-> "string", string |-> s]
Pattern(re)        == [t |-> "pattern", regex |-> re]
NamedSymbol(n)     == [t |-> "named", name |-> n]
Symbol(kind, i)    == [t |-> "symbol", kind |-> kind, index |-> i]
Choice(rs)         == [t |-> "choice", of |-> rs]
Sequence(rs)       == [t |-> "seq", of |-> rs]
Repeat(r)          == [t |-> "repeat", of |-> <<r>>]
Metadata(ps, r)    == [t |-> "metadata", of |-> <<r>>, params |-> ps]
Reserved(context, r) == [t |-> "reserved", of |-> <<r>>, context |-> context]

(* Indices count from 1.                                                   *)
NonTerminal(i) == Symbol("nonterminal", i)
Terminal(i)    == Symbol("terminal", i)
External(i)    == Symbol("external", i)

Kids(r)        == IF "of" \in DOMAIN r THEN r.of ELSE <<>>
IsTokenCall(r) == r.t = "metadata" /\ r.params.token

(* add_metadata: parameters are added to those a rule has, unless it is    *)
(* already a token.                                                        *)
AddMetadata(r, ps) ==
  IF r.t = "metadata" /\ ~r.params.token THEN [r EXCEPT !.params = ps @@ @]
  ELSE Metadata(ps @@ DefaultParams, r)

(* Rule::choice: nested choices are flattened and equal members dropped.   *)
RECURSIVE ChoiceHelper(_, _)
ChoiceHelper(result, r) ==
  IF r.t = "choice" THEN FoldLeft(LAMBDA acc, e : ChoiceHelper(acc, e), result, r.of)
  ELSE IF Contains(result, r) THEN result ELSE Append(result, r)

ChoiceOf(rs) == Choice(FoldLeft(LAMBDA acc, e : ChoiceHelper(acc, e), <<>>, rs))

(* Rule::is_empty: a pattern is never asked.                               *)
RECURSIVE IsEmpty(_)
IsEmpty(r) ==
  CASE r.t = "string" -> r.string = ""
    [] r.t = "choice" -> \E i \in DOMAIN r.of : IsEmpty(r.of[i])
    [] r.t \in {"seq", "metadata", "repeat", "reserved"} ->
         \A i \in DOMAIN r.of : IsEmpty(r.of[i])
    [] OTHER -> FALSE

-----------------------------------------------------------------------------
(* parse_rule.  In the JSON form, too, children are in `of`; PREC stands   *)
(* for its three variants, which set further parameters.                   *)

(* A symbol inside token() is an error, one inside token.immediate() not.  *)
RECURSIVE SymbolInToken(_, _)
SymbolInToken(json, inToken) ==
  \/ json.type = "SYMBOL" /\ inToken
  \/ \E i \in DOMAIN Kids(json) :
       SymbolInToken(json.of[i], inToken \/ json.type = "TOKEN")

RECURSIVE ParseRule(_)
ParseRule(json) ==
  LET of == [i \in DOMAIN Kids(json) |-> ParseRule(json.of[i])] IN
  CASE json.type = "BLANK"    -> Blank
    [] json.type = "STRING"   -> String(json.value)
    [] json.type = "PATTERN"  -> Pattern(json.regex)
    [] json.type = "SYMBOL"   -> NamedSymbol(json.name)
    [] json.type = "CHOICE"   -> ChoiceOf(of)
    [] json.type = "SEQ"      -> Sequence(of)
    [] json.type = "REPEAT1"  -> Repeat(of[1])
    [] json.type = "REPEAT"   -> ChoiceOf(<<Repeat(of[1]), Blank>>)
    [] json.type = "RESERVED" -> Reserved(json.context, of[1])
    [] json.type = "ALIAS" ->
         AddMetadata(of[1], [alias |-> [value |-> json.value, named |-> json.named]])
    [] json.type = "FIELD" -> AddMetadata(of[1], <<>>)
    [] json.type = "PREC"  -> AddMetadata(of[1], [prec |-> json.prec])
    [] json.type = "TOKEN" -> AddMetadata(of[1], [token |-> TRUE])
    [] json.type = "IMMEDIATE_TOKEN" -> AddMetadata(of[1], [token |-> TRUE, main |-> TRUE])

-----------------------------------------------------------------------------

(* The rule with every subrule in the domain of f replaced, from the top.  *)
RECURSIVE Subst(_, _)
Subst(r, f) ==
  IF r \in DOMAIN f THEN f[r]
  ELSE IF "of" \in DOMAIN r THEN [r EXCEPT !.of = [i \in DOMAIN @ |-> Subst(@[i], f)]]
  ELSE r

RECURSIVE Subrules(_)
Subrules(r) == {r} \cup UNION {Subrules(Kids(r)[i]) : i \in DOMAIN Kids(r)}

(* The tokens of a rule from left to right: literals, patterns, and the    *)
(* calls of token(), as a whole.                                           *)
RECURSIVE TokensOf(_)
TokensOf(r) ==
  IF r.t \in {"string", "pattern"} \/ IsTokenCall(r) THEN <<r>>
  ELSE FlattenSeq([i \in DOMAIN Kids(r) |-> TokensOf(Kids(r)[i])])

-----------------------------------------------------------------------------
(* Sentences: sequences of lexemes, a lexeme being a token stripped of     *)
(* what does not change its text.                                          *)

RECURSIVE Lexeme(_)
Lexeme(r) ==
  IF r.t = "metadata" THEN Lexeme(r.of[1])
  ELSE IF "of" \in DOMAIN r THEN [r EXCEPT !.of = [i \in DOMAIN @ |-> Lexeme(@[i])]]
  ELSE r

Concat(S, T, max) == {u \in {s \o t : s \in S, t \in T} : Len(u) <= max}

RECURSIVE Plus(_, _, _)
Plus(S, T, max) == \* the least set with S in it that T can be appended to
  LET next == S \cup Concat(S, T, max) IN IF next = S THEN S ELSE Plus(next, T, max)

(* The sentences of a rule, given those of the symbols in it; the empty    *)
(* literal is no token.                                                    *)
RECURSIVE Sentences(_, _)
Sentences(r, lang) ==
  IF r \in DOMAIN lang THEN lang[r]
  ELSE IF r \in {Blank, String("")} THEN {<<>>}
  ELSE
  CASE r.t \in {"string", "pattern"} \/ IsTokenCall(r) -> {<<Lexeme(r)>>}
    [] r.t = "choice" -> UNION {Sentences(r.of[i], lang) : i \in DOMAIN r.of}
    [] r.t = "seq" ->
         FoldLeft(LAMBDA acc, e : Concat(acc, Sentences(e, lang), MaxTokens), {<<>>}, r.of)
    [] r.t = "repeat" ->
         LET once == Sentences(r.of[1], lang) IN Plus(once, once, MaxTokens)
    [] r.t \in {"metadata", "reserved"} /\ ~IsTokenCall(r) -> Sentences(r.of[1], lang)
    [] OTHER -> {}

(* The same, of a rule in the JSON form and without parse_rule's help.     *)
RECURSIVE JsonSentences(_, _)
JsonSentences(json, lang) ==
  LET of == [i \in DOMAIN Kids(json) |-> JsonSentences(json.of[i], lang)] IN
  CASE json.type = "BLANK" -> {<<>>}
    [] json.type \in {"STRING", "PATTERN", "TOKEN", "IMMEDIATE_TOKEN"} ->
         Sentences(ParseRule(json), <<>>)
    [] json.type = "SYMBOL" -> IF json.name \in DOMAIN lang THEN lang[json.name] ELSE {}
    [] json.type = "CHOICE" -> UNION {of[i] : i \in DOMAIN of}
    [] json.type = "SEQ" -> FoldLeft(LAMBDA s, t : Concat(s, t, MaxTokens), {<<>>}, of)
    [] json.type = "REPEAT1" -> Plus(of[1], of[1], MaxTokens)
    [] json.type = "REPEAT"  -> {<<>>} \cup Plus(of[1], of[1], MaxTokens)
    [] OTHER -> of[1]

(* The least solution of a system of rules for the symbols in the domain   *)
(* of lang, started from below.                                            *)
RECURSIVE Solve(_, _)
Solve(rules, lang) ==
  LET next == [x \in DOMAIN lang |->
                 IF x \in DOMAIN rules THEN Sentences(rules[x], lang) ELSE lang[x]]
  IN  IF next = lang THEN lang ELSE Solve(rules, next)

RECURSIVE JsonSolve(_, _)
JsonSolve(rules, lang) ==
  LET next == [x \in DOMAIN lang |->
                 IF x \in DOMAIN rules THEN JsonSentences(rules[x], lang) ELSE lang[x]]
  IN  IF next = lang THEN lang ELSE JsonSolve(rules, next)
=============================================================================
