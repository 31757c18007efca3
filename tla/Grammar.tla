------------------------------ MODULE Grammar ------------------------------
(***************************************************************************)
(* From the JSON form of a tree-sitter grammar to the derivation rules the *)
(* fuzzer generates from: Grammar::from_tree_sitter_grammar_json           *)
(* (stolen/tree_sitter_generate.rs), parse_grammar, prepare_grammar with   *)
(* its passes (stolen/upstream/tree_sitter_generate), and                  *)
(* NamedNodeGenerator (text_document/generation.rs).                       *)
(*                                                                         *)
(* One action is one pass; `grammar` is what it hands to the next one.     *)
(* Conflicts and the members of reserved word sets are left out: they are  *)
(* passed through to parse tables nobody builds here.                      *)
(***************************************************************************)
EXTENDS TokenNfa

CONSTANTS
  Source,      (* grammars in the JSON form                                *)
  HiddenNames, (* the names that begin with an underscore                  *)
  NoName,      (* a grammar without a word token has it as `word`          *)
  EntryOrder,  (* the entries of precedence lists in the order of their type *)
  Alphabet,    (* characters of the texts compared                         *)
  Limit        (* DEFAULT_REDURSION_LIMIT                                  *)

ASSUME GrammarAssumption == Limit \in Nat

VARIABLES
  stage,       (* the next pass; then "ready", "generated", "failed", "panicked" *)
  source,      (* the grammar in the JSON form                             *)
  grammar,     (* [variables, extras, externals, inline, supertypes, word] *)
  lexical,     (* lexical variables: [name, kind, rule, uses, by]          *)
  separators,
  nfa, starts, (* the automaton, and the start state of each variable      *)
  aliases,     (* default aliases: symbol -> alias                         *)
  inlined,     (* <<production, step>> -> the productions inlined there    *)
  rules,       (* derivation rules: name -> its derivations                *)
  fragments,   (* node kind -> its fragments                               *)
  text,        (* what was generated last                                  *)
  meaning      (* history: the sentences of each rule of the source        *)

tokens == <<lexical, separators, nfa, starts>>
vars   == <<stage, source, grammar, tokens, aliases, inlined, rules, fragments, text, meaning>>

Elements(s)  == {s[i] : i \in DOMAIN s}
Indices(s)   == [i \in DOMAIN s |-> i]
Fails        == stage' = "failed"
NoFragment   == [t |-> "nofragment"]
NothingText  == <<NoFragment>>

(* The sentences of the source, straight from the JSON form.               *)
RuleNames    == {source.rules[i].name : i \in DOMAIN source.rules}
Externals    == {source.externals[i].name : i \in
                   {j \in DOMAIN source.externals : source.externals[j].type = "SYMBOL"}}
RuleFor(n)   == source.rules[CHOOSE i \in DOMAIN source.rules : source.rules[i].name = n].rule
Meaning ==
  JsonSolve([n \in RuleNames |-> RuleFor(n)],
            [n \in RuleNames \cup Externals |->
               IF n \in RuleNames THEN {} ELSE {<<NamedSymbol(n)>>}])

Init ==
  /\ stage = "parse" /\ source \in Source
  /\ grammar = <<>> /\ lexical = <<>> /\ separators = <<>> /\ nfa = <<>> /\ starts = <<>>
  /\ aliases = <<>> /\ inlined = <<>> /\ rules = <<>> /\ fragments = <<>>
  /\ text = NothingText /\ meaning = Meaning

-----------------------------------------------------------------------------
(* Variants of definitions below with a defect; no specification uses      *)
(* them.                                                                   *)

(* Variables after one that became a token keep their indices.             *)
ReplacementUnshifted(variables, merged) ==
  [x \in {NonTerminal(i) : i \in DOMAIN variables} |->
     IF x.index \in merged THEN variables[x.index].rule ELSE x]

(* The made-up name of a token without one is taken for its text.          *)
ConvertByName(v, alias) ==
  [d |-> IF v.kind \in {"anonymous", "auxiliary"} THEN "immediate" ELSE "named", name |-> v.name]

-----------------------------------------------------------------------------
(* parse_grammar: rules nothing refers to are dropped, with what mentions  *)
(* them.  An external token is no reference to the rule of its name.       *)

RECURSIVE Referenced(_, _)
Referenced(r, isExternal) ==
  IF r.t = "named" THEN IF isExternal THEN {} ELSE {r.name}
  ELSE UNION {Referenced(Kids(r)[i], isExternal /\ r.t \in {"metadata", "reserved"})
                : i \in DOMAIN Kids(r)}

RECURSIVE Reachable(_, _)
Reachable(names, parsed) ==
  LET next == names \cup UNION {Referenced(v.rule, FALSE)
                                  : v \in {w \in Elements(parsed) : w.name \in names}}
  IN  IF next = names THEN names ELSE Reachable(next, parsed)

Parse(jsons) == [i \in DOMAIN jsons |-> ParseRule(jsons[i])]

ParseGrammar ==
  LET jsons     == [i \in DOMAIN source.rules |-> source.rules[i].rule]
      extras    == Parse(source.extras)
      externals == Parse(source.externals)
      parsed    == [i \in DOMAIN jsons |->
                      [name |-> source.rules[i].name, kind |-> "named",
                       rule |-> ParseRule(jsons[i])]]
      used      == Reachable({parsed[1].name}
                     \cup UNION {Referenced(r, FALSE) : r \in Elements(extras)}
                     \cup UNION {Referenced(r, TRUE) : r \in Elements(externals)}, parsed)
      kept      == used \cup {source.word}
      dropped   == RuleNames \ kept
      Mentions(r) == Referenced(r, TRUE) \cap dropped # {}
  IN  /\ stage = "parse"
      /\ IF \/ \E j \in Elements(jsons \o source.extras \o source.externals) :
                  SymbolInToken(j, FALSE)
            \/ String("") \in Elements(extras)
         THEN Fails /\ UNCHANGED grammar
         ELSE /\ stage' = "validate"
              /\ grammar' = [variables  |-> SelectSeq(parsed, LAMBDA v : v.name \in kept),
                             extras     |-> SelectSeq(extras, LAMBDA r : ~Mentions(r)),
                             externals  |-> SelectSeq(externals, LAMBDA r : ~Mentions(r)),
                             inline     |-> source.inline \ dropped,
                             supertypes |-> source.supertypes \ dropped,
                             word       |-> source.word,
                             precedences |->
                               {list \in source.precedences :
                                  Elements(list) \cap {<<"symbol", n>> : n \in dropped} = {}}]
      /\ UNCHANGED <<source, tokens, aliases, inlined, rules, fragments, text, meaning>>

-----------------------------------------------------------------------------
(* validate_precedences: named precedences are declared, and no pair of    *)
(* entries is recorded in both orders; what is reserved is not looked      *)
(* into.  The loop over what follows an entry goes on with the lesser of   *)
(* the entries it has swapped, so that an entry is only recorded as before *)
(* those reached while nothing less than it was met.                       *)

RECURSIVE NamedPrecs(_)
NamedPrecs(r) ==
  (IF r.t = "metadata" /\ r.params.prec[1] = "name" THEN {r.params.prec} ELSE {})
  \cup (IF r.t = "reserved" THEN {}
        ELSE UNION {NamedPrecs(Kids(r)[i]) : i \in DOMAIN Kids(r)})

Rank(entry) == SelectInSeq(EntryOrder, LAMBDA e : e = entry)
Before(list) ==
  {p \in (DOMAIN list) \X (DOMAIN list) : p[1] < p[2] /\ list[p[1]] # list[p[2]]}
Precedes ==
  UNION {{<<list[p[1]], list[p[2]]>> :
            p \in {q \in Before(list) : \A m \in q[1] .. q[2] - 1 : Rank(list[q[1]]) <= Rank(list[m])}}
           : list \in grammar.precedences}

ValidatePrecedences ==
  LET declared == UNION {Elements(list) : list \in grammar.precedences} IN
  /\ stage = "validate"
  /\ IF \/ \E p \in Precedes : <<p[2], p[1]>> \in Precedes
        \/ \E v \in Elements(grammar.variables) : NamedPrecs(v.rule) \ declared # {}
     THEN Fails ELSE stage' = "intern"
  /\ UNCHANGED <<source, grammar, tokens, aliases, inlined, rules, fragments, text, meaning>>

-----------------------------------------------------------------------------
(* intern_symbols: names become symbols, those of variables first.         *)

KindOf(name) == IF name \in HiddenNames THEN "hidden" ELSE "named"

Known(g) ==
  {v.name : v \in Elements(g.variables)} \cup
  {r.name : r \in {e \in Elements(g.externals) : e.t = "named"}}
Interned(g, n) ==
  IF \E v \in Elements(g.variables) : v.name = n
  THEN NonTerminal(SelectInSeq(g.variables, LAMBDA v : v.name = n))
  ELSE External(SelectInSeq(g.externals, LAMBDA r : r = NamedSymbol(n)))

NamesIn(r) == {x \in Subrules(r) : x.t = "named"}
InternRule(g, r) == Subst(r, [x \in NamesIn(r) |-> Interned(g, x.name)])

InternSymbols ==
  LET g          == grammar
      allRules   == {v.rule : v \in Elements(g.variables)} \cup Elements(g.extras)
                    \cup Elements(g.externals)
      named      == UNION {{x.name : x \in NamesIn(r)} : r \in allRules}
      supertypes == {Interned(g, n) : n \in g.supertypes}
  IN  /\ stage = "intern"
      /\ IF \/ KindOf(g.variables[1].name) = "hidden"
            \/ ~((named \cup g.supertypes \cup ({g.word} \ {NoName})) \subseteq Known(g))
         THEN Fails /\ UNCHANGED grammar
         ELSE /\ stage' = "extract"
              /\ grammar' =
                   [variables |-> [i \in DOMAIN g.variables |->
                      [name |-> g.variables[i].name, rule |-> InternRule(g, g.variables[i].rule),
                       kind |-> IF NonTerminal(i) \in supertypes THEN "hidden"
                                ELSE KindOf(g.variables[i].name)]],
                    extras    |-> [i \in DOMAIN g.extras |-> InternRule(g, g.extras[i])],
                    externals |-> [i \in DOMAIN g.externals |->
                      LET r == g.externals[i] IN
                      [name |-> IF r.t = "named" THEN r.name ELSE "",
                       kind |-> IF r.t = "named" THEN KindOf(r.name) ELSE "anonymous",
                       rule |-> InternRule(g, r)]],
                    inline    |-> {Interned(g, n) : n \in g.inline \cap Known(g)},
                    supertypes |-> supertypes,
                    word      |-> IF g.word = NoName THEN Blank ELSE Interned(g, g.word)]
      /\ UNCHANGED <<source, tokens, aliases, inlined, rules, fragments, text, meaning>>

-----------------------------------------------------------------------------
(* extract_tokens: equal tokens share one lexical variable; a rule that is *)
(* nothing but a token used nowhere else becomes that token.               *)

(* token() around a literal or a pattern is dropped if it says no more.    *)
ExtractedRule(token) ==
  IF IsTokenCall(token) /\ token.params = [DefaultParams EXCEPT !.token = TRUE]
  THEN token.of[1] ELSE token
IsLiteral(token) == token.t = "string" \/ (IsTokenCall(token) /\ token.of[1].t = "string")
LiteralOf(token) == IF token.t = "string" THEN token.string ELSE token.of[1].string

(* One more token of the variable number `by` in the table.                *)
ExtractToken(table, token, by, variable) ==
  LET rule  == ExtractedRule(token)
      same  == {k \in DOMAIN table : table[k].rule = rule}
      mine  == {k \in DOMAIN table : table[k].by = by /\ table[k].kind = "auxiliary"}
      entry == [rule |-> rule, uses |-> 1, by |-> by,
                kind |-> IF IsLiteral(token) THEN "anonymous" ELSE "auxiliary",
                name |-> IF IsLiteral(token) THEN LiteralOf(token)
                         ELSE variable \o "_token" \o ToString(Cardinality(mine) + 1)]
  IN  IF same = {} THEN Append(table, entry)
      ELSE [table EXCEPT ![CHOOSE k \in same : TRUE].uses = @ + 1]

TokenTable(all) ==
  FoldLeft(LAMBDA acc, i :
             FoldLeft(LAMBDA table, token : ExtractToken(table, token, i, all[i].name),
                      acc, TokensOf(all[i].rule)),
           <<>>, Indices(all))

(* A rule with its tokens replaced by symbols.                             *)
TokenIndex(table, token) == CHOOSE k \in DOMAIN table : table[k].rule = ExtractedRule(token)
Extracted(table, r) == Subst(r, [x \in Elements(TokensOf(r)) |-> Terminal(TokenIndex(table, x))])

(* The variables that become tokens, given the rules after extraction.     *)
IsTerminal(r) == r.t = "symbol" /\ r.kind = "terminal"
BecomeTokens(table, variables) ==
  {i \in 2 .. Len(variables) :
     LET v == variables[i] IN
     /\ IsTerminal(v.rule) /\ table[v.rule.index].uses = 1
     /\ table[v.rule.index].kind = "auxiliary" \/ v.kind # "hidden"}

Replacement(variables, merged) ==
  [x \in {NonTerminal(i) : i \in DOMAIN variables} |->
     IF x.index \in merged THEN variables[x.index].rule
     ELSE NonTerminal(x.index - Cardinality({j \in merged : j < x.index}))]

ExtractTokens ==
  LET g         == grammar
      all       == g.variables \o g.externals
      table     == TokenTable(all)
      extracted == [i \in DOMAIN all |-> [all[i] EXCEPT !.rule = Extracted(table, @)]]
      variables == SubSeq(extracted, 1, Len(g.variables))
      merged    == BecomeTokens(table, variables)
      Replaced(r) == Subst(r, Replacement(variables, merged))
      order     == SetToSortSeq(DOMAIN variables \ merged, <)
      kept      == [i \in DOMAIN order |-> [variables[order[i]] EXCEPT !.rule = Replaced(@)]]
      named     == [k \in DOMAIN table |->
                      LET owner == {i \in merged : variables[i].rule = Terminal(k)} IN
                      IF owner = {} THEN table[k]
                      ELSE LET v == variables[CHOOSE i \in owner : TRUE]
                           IN  [table[k] EXCEPT !.name = v.name, !.kind = v.kind]]
      externals == [i \in DOMAIN g.externals |->
                      [g.externals[i] EXCEPT !.rule = Replaced(extracted[Len(g.variables) + i].rule)]]
      IsToken(r) == r.t = "symbol" \/ \E k \in DOMAIN named : named[k].rule = r
      extras    == SelectSeq(g.extras, IsToken)
      word      == Replaced(g.word)
      syntaxWord == word.t = "symbol" /\ word.kind = "nonterminal"
      failed    == \/ \E k \in DOMAIN table : table[k].by > 1 /\ table[k].kind = "anonymous"
                                              /\ table[k].name = ""
                   \/ \E i \in DOMAIN externals :
                        externals[i].rule.t # "symbol" \/ externals[i].rule.kind = "nonterminal"
                   \/ /\ syntaxWord
                      /\ \E i \in DOMAIN kept : i # word.index /\ kept[i].rule = kept[word.index].rule
  IN  /\ stage = "extract"
      /\ stage' = CASE failed -> "failed"
                    [] syntaxWord /\ ~failed -> "panicked"
                    [] OTHER -> "repeats"
      /\ IF stage' # "repeats" THEN UNCHANGED <<grammar, lexical, separators>>
         ELSE /\ lexical'    = named
              /\ separators' = SelectSeq(g.extras, LAMBDA r : ~IsToken(r))
              /\ grammar'    =
                   [variables |-> kept,
                    extras    |-> [i \in DOMAIN extras |->
                                     IF extras[i].t = "symbol" THEN Replaced(extras[i])
                                     ELSE Terminal(SelectInSeq(named, LAMBDA v : v.rule = extras[i]))],
                    externals |-> [i \in DOMAIN externals |->
                                     LET x == externals[i] IN
                                     IF IsTerminal(x.rule)
                                     THEN [x EXCEPT !.name = named[x.rule.index].name] ELSE x],
                    inline    |-> {Replaced(x) : x \in g.inline},
                    supertypes |-> {Replaced(x) : x \in g.supertypes},
                    word      |-> word]
      /\ UNCHANGED <<source, nfa, starts, aliases, inlined, rules, fragments, text, meaning>>

-----------------------------------------------------------------------------
(* expand_repeats: a repetition becomes an auxiliary variable that is one  *)
(* round or two of itself; equal ones share it.  What is under Reserved is *)
(* not descended into.                                                     *)

Doubled(symbol, r) == ChoiceOf(<<Sequence(<<symbol, symbol>>), r>>)

(* aux: the variables added so far, with the rule repeated and the number  *)
(* of the variable it was found in; n: the variables there were before.    *)
RECURSIVE ExpandRepeat(_, _, _, _, _)
ExpandRepeat(r, aux, n, by, name) ==
  LET kids == FoldLeft(LAMBDA acc, e :
                LET x == ExpandRepeat(e, acc.aux, n, by, name)
                IN  [of |-> Append(acc.of, x.rule), aux |-> x.aux],
              [of |-> <<>>, aux |-> aux], Kids(r))
      inner  == kids.of[1]
      known  == {k \in DOMAIN kids.aux : kids.aux[k].inner = inner}
      fresh  == NonTerminal(n + Len(kids.aux) + 1)
      count  == Cardinality({k \in DOMAIN kids.aux : kids.aux[k].by = by}) + 1
      entry  == [name |-> name \o "_repeat" \o ToString(count), kind |-> "auxiliary",
                 rule |-> Doubled(fresh, inner), inner |-> inner, by |-> by]
  IN  CASE r.t \in {"choice", "seq", "metadata"} ->
             [rule |-> [r EXCEPT !.of = kids.of], aux |-> kids.aux]
        [] r.t = "repeat" /\ known # {} ->
             [rule |-> NonTerminal(n + CHOOSE k \in known : TRUE), aux |-> kids.aux]
        [] r.t = "repeat" /\ known = {} ->
             [rule |-> fresh, aux |-> Append(kids.aux, entry)]
        [] OTHER -> [rule |-> r, aux |-> aux]

(* A hidden variable that is a repetition becomes the auxiliary variable.  *)
IsHiddenRepeat(v) == v.kind = "hidden" /\ v.rule.t = "repeat"
ExpandVariableRepeats(variables) ==
  FoldLeft(LAMBDA acc, i :
             LET v == variables[i]
                 x == ExpandRepeat(IF IsHiddenRepeat(v) THEN v.rule.of[1] ELSE v.rule,
                                   acc.aux, Len(variables), i, v.name)
             IN  [variables |-> Append(acc.variables,
                    IF IsHiddenRepeat(v)
                    THEN [v EXCEPT !.rule = Doubled(NonTerminal(i), x.rule), !.kind = "auxiliary"]
                    ELSE [v EXCEPT !.rule = x.rule]),
                  aux |-> x.aux],
           [variables |-> <<>>, aux |-> <<>>], Indices(variables))

ExpandRepeats ==
  LET x   == ExpandVariableRepeats(grammar.variables)
      new == [k \in DOMAIN x.aux |-> [name |-> x.aux[k].name, kind |-> x.aux[k].kind,
                                      rule |-> x.aux[k].rule]]
      trees == {NonTerminal(i) : i \in {j \in DOMAIN grammar.variables :
                                          IsHiddenRepeat(grammar.variables[j])}}
  IN  /\ stage = "repeats" /\ stage' = "flatten"
      /\ grammar' = [grammar EXCEPT !.variables = x.variables \o new, !.inline = @ \ trees]
      /\ UNCHANGED <<source, tokens, aliases, inlined, rules, fragments, text, meaning>>

-----------------------------------------------------------------------------
(* flatten_grammar: each way through the choices of a rule is a            *)
(* production, a sequence of steps.                                        *)

Step(symbol, prec, alias, context) ==
  [symbol |-> symbol, prec |-> prec, alias |-> alias, context |-> context]

(* extract_choices.                                                        *)
RECURSIVE ExtractChoices(_)
ExtractChoices(r) ==
  CASE r.t = "seq" ->
         FoldLeft(LAMBDA acc, e :
                    FlattenSeq([i \in DOMAIN acc |->
                      LET ways == ExtractChoices(e)
                      IN  [j \in DOMAIN ways |-> Sequence(<<acc[i], ways[j]>>)]]),
                  <<Blank>>, r.of)
    [] r.t = "choice" -> FlattenSeq([i \in DOMAIN r.of |-> ExtractChoices(r.of[i])])
    [] r.t \in {"metadata", "reserved"} ->
         LET ways == ExtractChoices(r.of[1]) IN [j \in DOMAIN ways |-> [r EXCEPT !.of = <<ways[j]>>]]
    [] OTHER -> <<r>>

(* RuleFlattener::apply; the arguments are the tops of its stacks.  A step *)
(* that ends a rule with a precedence, but not the production, has that of *)
(* the rule around it.  What is neither structure nor symbol is dropped.   *)
RECURSIVE Steps(_, _, _, _, _)
Steps(r, prec, alias, context, atEnd) ==
  CASE r.t = "symbol" -> <<Step(r, prec, alias, context)>>
    [] r.t = "seq" ->
         FlattenSeq([i \in DOMAIN r.of |->
           Steps(r.of[i], prec, alias, context, i = Len(r.of) /\ atEnd)])
    [] r.t = "reserved" -> Steps(r.of[1], prec, alias, r.context, atEnd)
    [] r.t = "metadata" ->
         LET has == r.params.prec # NoPrec
             all == Steps(r.of[1], IF has THEN r.params.prec ELSE prec,
                          IF r.params.alias # NoAlias THEN r.params.alias ELSE alias,
                          context, atEnd)
         IN  IF has /\ ~atEnd /\ all # <<>> THEN [all EXCEPT ![Len(all)].prec = prec] ELSE all
    [] OTHER -> <<>>

NoContext == "no context"
Productions(r) ==
  FoldLeft(LAMBDA acc, way :
             LET p == Steps(way, NoPrec, NoAlias, NoContext, TRUE)
             IN  IF Contains(acc, p) THEN acc ELSE Append(acc, p),
           <<>>, ExtractChoices(r))

SymbolsOf(production) == {production[j].symbol : j \in DOMAIN production}
SymbolIsUsed(variables, symbol) ==
  \E v \in Elements(variables) : \E p \in Elements(v.productions) : symbol \in SymbolsOf(p)

FlattenGrammar ==
  LET variables == [i \in DOMAIN grammar.variables |->
                      LET v == grammar.variables[i]
                      IN  [name |-> v.name, kind |-> v.kind, productions |-> Productions(v.rule)]]
      unknownContext == \E v \in Elements(grammar.variables) : \E x \in Subrules(v.rule) :
                          x.t = "reserved" /\ x.context \notin source.contexts
      emptyString     == \E i \in DOMAIN variables :
                          /\ <<>> \in Elements(variables[i].productions)
                          /\ SymbolIsUsed(variables, NonTerminal(i))
      recursiveInline == \E i \in DOMAIN variables : \E p \in Elements(variables[i].productions) :
                          NonTerminal(i) \in grammar.inline \cap SymbolsOf(p)
  IN  /\ stage = "flatten"
      /\ IF unknownContext \/ emptyString \/ recursiveInline
         THEN Fails /\ UNCHANGED grammar
         ELSE stage' = "tokens" /\ grammar' = [grammar EXCEPT !.variables = variables]
      /\ UNCHANGED <<source, tokens, aliases, inlined, rules, fragments, text, meaning>>

-----------------------------------------------------------------------------
(* expand_tokens: the automaton of all lexical variables (TokenNfa).       *)

ExpandTokens ==
  LET separator == SeparatorRule(separators)
      built == FoldLeft(LAMBDA acc, i :
                 LET next == ExpandVariable(acc.nfa, i, lexical[i].rule, separator)
                 IN  [nfa |-> next, starts |-> Append(acc.starts, Len(next))],
               [nfa |-> <<>>, starts |-> <<>>], Indices(lexical))
  IN  /\ stage = "tokens"
      /\ IF \/ \E v \in Elements(lexical) : IsEmpty(v.rule) \/ Unexpandable(v.rule)
            \/ (\E v \in Elements(lexical) : ~IsImmediate(v.rule)) /\ Unexpandable(separator)
         THEN Fails /\ UNCHANGED <<nfa, starts>>
         ELSE stage' = "aliases" /\ nfa' = built.nfa /\ starts' = built.starts
      /\ UNCHANGED <<source, grammar, lexical, separators, aliases, inlined, rules, fragments,
                     text, meaning>>

-----------------------------------------------------------------------------
(* extract_default_aliases: a symbol that never appears without an alias   *)
(* gets its commonest one, the first met among equals, by default; steps   *)
(* that give it this one lose it, unless another production of the         *)
(* variable gives it at the same place to a symbol with another default.   *)

StepsMet(g) ==
  FlattenSeq([i \in DOMAIN g.variables |-> FlattenSeq(g.variables[i].productions)])
AliasesMet(g, x) ==
  LET at == SelectSeq(StepsMet(g), LAMBDA s : s.symbol = x)
  IN  [k \in DOMAIN at |-> at[k].alias]

(* Variant with a defect: one use with an alias is enough.                 *)
OnceAliased(g, x) == x \notin g.inline /\ Elements(AliasesMet(g, x)) \ {NoAlias} # {}

AlwaysAliased(g, x) ==
  /\ x \notin g.inline /\ x \notin Elements(g.extras)
  /\ AliasesMet(g, x) # <<>> /\ NoAlias \notin Elements(AliasesMet(g, x))

Times(s, e)   == Len(SelectSeq(s, LAMBDA x : x = e))
Commonest(s)  == s[CHOOSE k \in DOMAIN s : \A j \in DOMAIN s :
                     \/ Times(s, s[k]) > Times(s, s[j])
                     \/ Times(s, s[k]) = Times(s, s[j]) /\ (s[j] = s[k] \/ k < j)]

DefaultAliases(g) ==
  LET symbols == {s.symbol : s \in Elements(StepsMet(g))}
  IN  [x \in {y \in symbols : AlwaysAliased(g, y)} |-> Commonest(AliasesMet(g, x))]

DefaultOf(defaults, x) == IF x \in DOMAIN defaults THEN defaults[x] ELSE NoAlias
NeededAt(productions, i, j, defaults) ==
  \E k \in DOMAIN productions \ {i} :
    /\ Len(productions[k]) >= j
    /\ productions[k][j].alias = productions[i][j].alias
    /\ DefaultOf(defaults, productions[k][j].symbol) # productions[i][j].alias

ClearDefaults(productions, defaults) ==
  [i \in DOMAIN productions |-> [j \in DOMAIN productions[i] |->
     LET step == productions[i][j] IN
     IF step.alias = DefaultOf(defaults, step.symbol) /\ ~NeededAt(productions, i, j, defaults)
     THEN [step EXCEPT !.alias = NoAlias] ELSE step]]

ExtractDefaultAliases ==
  LET defaults == DefaultAliases(grammar) IN
  /\ stage = "aliases" /\ stage' = "inlines"
  /\ aliases' = defaults
  /\ grammar' = [grammar EXCEPT !.variables =
       [i \in DOMAIN @ |->
          [@[i] EXCEPT !.productions = ClearDefaults(@, defaults)]]]
  /\ UNCHANGED <<source, tokens, inlined, rules, fragments, text, meaning>>

-----------------------------------------------------------------------------
(* process_inlines: for every step at which a variable to inline is met,   *)
(* the productions with that variable replaced by each of its own.         *)

(* The steps of a production put in the place of step j of another: the    *)
(* alias of the step replaced goes to all of them, its precedence to the   *)
(* last if it has none.                                                    *)
Spliced(production, j, steps) ==
  LET removed  == production[j]
      inserted == [k \in DOMAIN steps |->
        [steps[k] EXCEPT
           !.alias = IF removed.alias # NoAlias THEN removed.alias ELSE @,
           !.prec  = IF k = Len(steps) /\ @ = NoPrec THEN removed.prec ELSE @]]
  IN  SubSeq(production, 1, j - 1) \o inserted \o SubSeq(production, j + 1, Len(production))

IsInlined(production, j) ==
  j \in DOMAIN production /\ production[j].symbol \in grammar.inline

RECURSIVE InlineAt(_, _)
InlineAt(production, j) ==
  IF ~IsInlined(production, j) THEN <<production>>
  ELSE LET own == grammar.variables[production[j].symbol.index].productions
       IN  FlattenSeq([k \in DOMAIN own |-> InlineAt(Spliced(production, j, own[k]), j)])

(* The steps to inline at from step j of a production on.                  *)
RECURSIVE Walk(_, _)
Walk(production, j) ==
  IF j \notin DOMAIN production THEN {}
  ELSE IF IsInlined(production, j)
  THEN {<<production, j>>} \cup UNION {Walk(p, j) : p \in Elements(InlineAt(production, j))}
  ELSE Walk(production, j + 1)

ProcessInlines ==
  LET all == UNION {Elements(v.productions) : v \in Elements(grammar.variables)} IN
  /\ stage = "inlines"
  /\ IF \E x \in grammar.inline : x.kind # "nonterminal" \/ x = NonTerminal(1)
     THEN Fails /\ UNCHANGED inlined
     ELSE /\ stage' = "convert"
          /\ inlined' = [id \in UNION {Walk(p, 1) : p \in all} |-> InlineAt(id[1], id[2])]
  /\ UNCHANGED <<source, grammar, tokens, aliases, rules, fragments, text, meaning>>

-----------------------------------------------------------------------------
(* Grammar::from_tree_sitter_grammar: the derivation rules, by name; of    *)
(* two variables with one name the later one is kept.  What was inlined    *)
(* and the aliases of single steps are not looked at.                      *)

Expand(name)    == [d |-> "nonterminal", name |-> name]
Immediate(name) == [d |-> "immediate", name |-> name]
Named(name)     == [d |-> "named", name |-> name]
Auxiliary(name) == [d |-> "auxiliary", name |-> name]

ConvertTerminal(v, alias) ==
  CASE v.kind = "anonymous" -> Immediate(v.name)
    [] v.kind = "hidden"    -> Named(v.name)
    [] v.kind \in {"auxiliary", "named"} /\ alias # NoAlias ->
         IF alias.named THEN Named(alias.value) ELSE Immediate(alias.value)
    [] v.kind = "auxiliary" /\ alias = NoAlias -> Auxiliary(v.name)
    [] v.kind = "named" /\ alias = NoAlias     -> Named(v.name)

ConvertSymbol(x) ==
  CASE x.kind = "nonterminal" -> Expand(grammar.variables[x.index].name)
    [] x.kind = "terminal"    -> ConvertTerminal(lexical[x.index], DefaultOf(aliases, x))
    [] x.kind = "external"    -> Named(grammar.externals[x.index].name)

Derivations(v) ==
  {[j \in DOMAIN p |-> ConvertSymbol(p[j].symbol)] : p \in Elements(v.productions)}

Convert ==
  LET variables == grammar.variables
      names     == {v.name : v \in Elements(variables)}
      last(n)   == CHOOSE i \in DOMAIN variables : /\ variables[i].name = n
                     /\ \A j \in i + 1 .. Len(variables) : variables[j].name # n
  IN  /\ stage = "convert" /\ stage' = "mine"
      /\ rules' = [n \in names |-> Derivations(variables[last(n)])]
      /\ UNCHANGED <<source, grammar, tokens, aliases, inlined, fragments, text, meaning>>

-----------------------------------------------------------------------------
(* The languages of the grammar as it stands.                              *)

TokenSentences(k) ==
  IF lexical[k].rule = String("") THEN {<<>>} ELSE {<<Lexeme(lexical[k].rule)>>}
ExternalSentences(i) ==
  LET x == grammar.externals[i] IN
  IF IsTerminal(x.rule) THEN TokenSentences(x.rule.index) ELSE {<<NamedSymbol(x.name)>>}

Symbols(kind, indices) == {Symbol(kind, i) : i \in indices}

(* The productions of a production once everything inlined is in place.    *)
RECURSIVE InPlace(_, _)
InPlace(production, j) ==
  IF j \notin DOMAIN production THEN {production}
  ELSE IF <<production, j>> \in DOMAIN inlined
  THEN UNION {InPlace(p, j) : p \in Elements(inlined[<<production, j>>])}
  ELSE InPlace(production, j + 1)

AsRule(productions) ==
  Choice(SetToSeq({Sequence([j \in DOMAIN p |-> p[j].symbol]) : p \in productions}))
RuleNow(v) ==
  IF "rule" \in DOMAIN v THEN v.rule
  ELSE AsRule(UNION {InPlace(p, 1) : p \in Elements(v.productions)})

SymbolSentences ==
  LET n == DOMAIN grammar.variables IN
  Solve([x \in Symbols("nonterminal", n) |-> RuleNow(grammar.variables[x.index])],
        [x \in Symbols("nonterminal", n) |-> {}]
        @@ [x \in Symbols("terminal", DOMAIN lexical) |-> TokenSentences(x.index)]
        @@ [x \in Symbols("external", DOMAIN grammar.externals) |-> ExternalSentences(x.index)])

(* While symbols are still names.                                          *)
NameSentences ==
  LET own == {NamedSymbol(v.name) : v \in Elements(grammar.variables)} IN
  Solve([x \in own |-> grammar.variables[SelectInSeq(grammar.variables, LAMBDA v : v.name = x.name)].rule],
        [x \in own |-> {}] @@ [x \in {r \in Elements(grammar.externals) : r.t = "named"} |-> {<<x>>}])

(* Of the derivation rules, when nothing is aliased.                       *)
SentencesOfKind(name, kinds) ==
  UNION ({TokenSentences(k) : k \in {j \in DOMAIN lexical :
                                       lexical[j].name = name /\ lexical[j].kind \in kinds}}
         \cup {ExternalSentences(i) : i \in {j \in DOMAIN grammar.externals :
                 grammar.externals[j].name = name /\ grammar.externals[j].kind \in kinds}})
DerivedSentences ==
  LET own  == {Expand(n) : n \in DOMAIN rules}
      used == UNION {UNION {Elements(d) : d \in rules[n]} : n \in DOMAIN rules} \ own
  IN  Solve([x \in own |-> Choice(SetToSeq({Sequence(d) : d \in rules[x.name]}))],
            [x \in own |-> {}] @@
            [x \in used |-> CASE x.d = "immediate" -> {<<String(x.name)>>}
                             [] x.d = "named" -> SentencesOfKind(x.name, {"named", "hidden"})
                             [] x.d = "auxiliary" -> SentencesOfKind(x.name, {"auxiliary"})
                             [] OTHER -> {}])

AllProductions == UNION {Elements(v.productions) : v \in Elements(grammar.variables)}
Unaliased ==
  /\ DOMAIN aliases = {}
  /\ \A p \in AllProductions : \A j \in DOMAIN p : p[j].alias = NoAlias

-----------------------------------------------------------------------------
(* The fragments mined from a parsed corpus are texts of the nodes of a    *)
(* kind; the corpus need not have all kinds.                               *)

AliasOf(step) == IF step.alias # NoAlias THEN step.alias ELSE DefaultOf(aliases, step.symbol)
AliasedAs(kind) ==
  {x \in UNION {SymbolsOf(p) : p \in AllProductions} :
     \E p \in AllProductions : \E j \in DOMAIN p :
       p[j].symbol = x /\ AliasOf(p[j]) = [value |-> kind, named |-> TRUE]}
ShownAs(kind) ==
  UNION ({SymbolSentences[NonTerminal(i)] : i \in {j \in DOMAIN grammar.variables :
            grammar.variables[j].name = kind /\ grammar.variables[j].kind = "named"}}
         \cup {SymbolSentences[x] : x \in AliasedAs(kind)})
  \cup SentencesOfKind(kind, {"named"})

Kinds ==
  {v.name : v \in {w \in Elements(grammar.variables \o lexical \o grammar.externals) :
                     w.kind = "named"}}
  \cup {AliasOf(p[j]).value : <<p, j>> \in
          {<<q, k>> \in AllProductions \X (1 .. MaxTokens) :
             k \in DOMAIN q /\ AliasOf(q[k]) # NoAlias}}

Mine ==
  /\ stage = "mine" /\ stage' = "generate"
  /\ \E kinds \in SUBSET {k \in Kinds : ShownAs(k) # {}} :
       fragments' = [k \in kinds |-> ShownAs(k)]
  /\ UNCHANGED <<source, grammar, tokens, aliases, inlined, rules, text, meaning>>

-----------------------------------------------------------------------------
(* NamedNodeGenerator with a random choice of rule and fragment.           *)

Fragment(kind) == IF kind \in DOMAIN fragments THEN fragments[kind] ELSE {NothingText}

(* generate_recursively: what it may return; NoFragment in it is an error. *)
RECURSIVE Generated(_, _)
Generated(kind, limit) ==
  IF kind \in DOMAIN rules /\ limit > 0
  THEN UNION {FoldLeft(LAMBDA acc, x :
                Concat(acc, CASE x.d = "nonterminal" -> Generated(x.name, limit - 1)
                              [] x.d = "immediate"   -> {<<String(x.name)>>}
                              [] OTHER               -> Fragment(x.name), MaxTokens),
                {<<>>}, d) : d \in rules[kind]}
  ELSE Fragment(kind)

Generate ==
  /\ stage = "generate"
  /\ \E t \in Generated(grammar.variables[1].name, Limit) :
       text' = IF NoFragment \in Elements(t) THEN NothingText ELSE t
  /\ UNCHANGED <<stage, source, grammar, tokens, aliases, inlined, rules, fragments, meaning>>

-----------------------------------------------------------------------------
Next ==
  \/ ParseGrammar \/ ValidatePrecedences \/ InternSymbols \/ ExtractTokens
  \/ ExpandRepeats \/ FlattenGrammar \/ ExpandTokens \/ ExtractDefaultAliases
  \/ ProcessInlines \/ Convert \/ Mine \/ Generate

Spec == Init /\ [][Next]_vars

-----------------------------------------------------------------------------
(* Properties.                                                             *)

(* A repetition under RESERVED is not expanded, and flatten_grammar drops  *)
(* it; of two variables with one name, one of them made up by              *)
(* expand_repeats, only the later one has derivation rules.  Both change   *)
(* the sentences of the rule and of all that mention it.                   *)
RECURSIVE KeepsRepeat(_, _)
KeepsRepeat(r, reserved) ==
  /\ ~IsTokenCall(r)
  /\ \/ reserved /\ r.t = "repeat"
     \/ \E i \in DOMAIN Kids(r) : KeepsRepeat(Kids(r)[i], reserved \/ r.t = "reserved")
Dropping == {n \in RuleNames : KeepsRepeat(ParseRule(RuleFor(n)), FALSE)}
Overwritten ==
  {grammar.variables[p[1]].name : p \in {q \in (DOMAIN grammar.variables) \X (DOMAIN grammar.variables) :
     q[1] # q[2] /\ grammar.variables[q[1]].name = grammar.variables[q[2]].name}}

RECURSIVE Mentioning(_)
Mentioning(names) ==
  LET next == names \cup {n \in RuleNames : Referenced(ParseRule(RuleFor(n)), FALSE) \cap names # {}}
  IN  IF next = names THEN names ELSE Mentioning(next)

(* Every pass hands on the sentences each rule was written with: dropping  *)
(* unused rules, giving tokens indices of their own and moving the         *)
(* others', trees for repetitions, productions, inlining, and (where       *)
(* nothing is aliased) the derivation rules the fuzzer generates from.     *)
(* From flatten_grammar on that leaves out what mentions a repetition      *)
(* under RESERVED, and in the derivation rules what mentions a rule that   *)
(* has the name of a repetition.  In a grammar flatten_grammar accepts     *)
(* nothing that is used in a production derives the empty sentence.        *)
Kept(name, sentences, lost) == name \in DOMAIN meaning \ lost => sentences = meaning[name]
LanguageKept ==
  /\ stage \in {"validate", "intern"} =>
       LET now == NameSentences
       IN  \A x \in DOMAIN now : Kept(x.name, now[x], {})
  /\ stage \in {"extract", "repeats", "flatten", "tokens", "convert"} =>
       LET now  == SymbolSentences
           lost == IF stage \in {"tokens", "convert"} THEN Mentioning(Dropping) ELSE {}
       IN  /\ \A i \in DOMAIN grammar.variables :
                (\A j \in 1 .. i - 1 : grammar.variables[j].name # grammar.variables[i].name)
                  => Kept(grammar.variables[i].name, now[NonTerminal(i)], lost)
           /\ stage = "tokens" =>
                \A x \in UNION {SymbolsOf(p) : p \in AllProductions} :
                  x \in DOMAIN now => <<>> \notin now[x]
  /\ stage = "mine" /\ Unaliased =>
       LET now  == DerivedSentences
           lost == Mentioning(Dropping \cup Overwritten)
       IN  \A n \in DOMAIN rules : Kept(n, now[Expand(n)], lost)

(* Each start state of the automaton accepts the texts of its lexical rule *)
(* after any separators, without them if the token is immediate, and no    *)
(* other text.  A repetition {n,} counts as {n}, since the loop after the  *)
(* n rounds is never entered (expand_regex), and a rule whose parts are    *)
(* joined to the wrong state is left out (Skewed).                         *)
TextsUpTo(n) == UNION {[1 .. k -> Alphabet] : k \in 0 .. n}
TokensLexed ==
  stage = "aliases" =>
    LET separator == SeparatorRule(separators)
        between   == Texts(ChoiceOf(<<AsCounted(separator), Blank>>))
    IN  \A k \in DOMAIN lexical :
          LET rule == lexical[k].rule
              own  == Texts(AsCounted(rule))
          IN  ~Skewed(rule) /\ (IsImmediate(rule) \/ ~Skewed(separator)) =>
                {t \in TextsUpTo(MaxText) : Accepts(nfa, starts[k], k, t)}
                  = IF IsImmediate(rule) THEN {t \in own : Len(t) <= MaxText}
                    ELSE Concat(between, own, MaxText)

(* Default aliases change nobody's name: a step is shown under the same    *)
(* alias before and after, and an extra under none.                        *)
Shown(g, defaults) ==
  [i \in DOMAIN g.variables |-> [p \in DOMAIN g.variables[i].productions |->
     [j \in DOMAIN g.variables[i].productions[p] |->
        LET step == g.variables[i].productions[p][j]
        IN  IF step.alias # NoAlias THEN step.alias ELSE DefaultOf(defaults, step.symbol)]]]
AliasesKept ==
  [][stage = "aliases" => /\ Shown(grammar', aliases') = Shown(grammar, <<>>)
                          /\ Elements(grammar.extras) \cap DOMAIN aliases' = {}]_vars

(* Where nothing is aliased, what NamedNodeGenerator makes of the rules,   *)
(* falling back on fragments at its depth limit, is a sentence of the      *)
(* grammar; unless the start rule mentions a repetition under RESERVED, or *)
(* a rule has the name made up for a repetition or a token.                *)
GeneratedInLanguage ==
  text # NothingText /\ Unaliased =>
    LET start == grammar.variables[1].name
        made  == {v.name : v \in {w \in Elements(lexical) : w.kind = "auxiliary"}} IN
    \/ text \in meaning[start]
    \/ start \in Mentioning(Dropping)
    \/ Overwritten # {} \/ RuleNames \cap made # {}
=============================================================================
