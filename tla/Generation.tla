------------------------------ MODULE Generation ------------------------------
(***************************************************************************)
(* text_document/generation.rs over the fragments that Fragments mines: a  *)
(* GrammarContext holds derivation rules and mined fragments, a            *)
(* NamedNodeGenerator derives text from them for the seeds of a campaign   *)
(* (LspInputGenerator) and for the nodes a mutator replaces                *)
(* (node_generators.rs).                                                   *)
(*                                                                         *)
(* The recursion of generate_recursively is the sequence "todo" of symbols *)
(* still to be derived, each with the recursion limit it is derived under. *)
(***************************************************************************)
EXTENDS Fragments

CONSTANTS
  Rules,        (* derivation_rules: kind -> sequence of symbol sequences  *)
  StartSymbol,  (* Grammar::start_symbol                                   *)
  NodeKinds,    (* the kinds of the nodes mutators pick                    *)
  RecursionLimit, (* DEFAULT_REDURSION_LIMIT                               *)
  Quarter,      (* MAX_DOCUMENT_SIZE / 4                                   *)
  MaxSteered    (* bound on what RuleUsageSteer selects of one kind        *)

Symbol(type, name) == [type |-> type, name |-> name]

RuleSymbols ==
  UNION {UNION {Range(Rules[k][r]) : r \in DOMAIN Rules[k]} : k \in DOMAIN Rules}
Derivable ==
  DOMAIN Rules \cup NodeKinds \cup {StartSymbol}
    \cup {sym.name : sym \in {s \in RuleSymbols : s.type = "nonterminal"}}

ASSUME GenerationAssumption ==
  /\ RecursionLimit \in Nat /\ Quarter \in Nat /\ MaxSteered \in Nat
  /\ \A k \in DOMAIN Rules : Rules[k] \in Seq(Seq(RuleSymbols)) \ {<<>>}
  /\ \A sym \in RuleSymbols :
       /\ sym = Symbol(sym.type, sym.name)
       /\ sym.type \in {"nonterminal", "terminal", "immediate", "eof"}

VARIABLES
  gpc,       (* "idle", "deriving", "generated", "skipped"                 *)
  purpose,   (* who asked: [user, strategy, kind]                          *)
  todo,      (* symbols to derive, with their limits                       *)
  out,       (* the pieces derived                                         *)
  usage      (* RuleUsageStats: kind -> uses of each of its rules          *)

generation == <<gpc, purpose, todo, out, usage>>

NoPurpose == [user |-> "nobody", strategy |-> "random", kind |-> StartSymbol]

GInit ==
  /\ Init
  /\ gpc = "idle" /\ purpose = NoPurpose /\ todo = <<>> /\ out = <<>>
  /\ usage = [k \in {} |-> <<>>]

-----------------------------------------------------------------------------
(* RuleSelectionStrategy.                                                  *)

Due(sym, limit) == [symbol |-> sym, limit |-> limit]

(* A piece of text is a mined fragment of the kind it is named for, or a   *)
(* literal of the grammar, which its name stands for.                      *)
Fragment(kind, text) == [mined |-> TRUE, name |-> kind, text |-> text]
Literal(name)        == [mined |-> FALSE, name |-> name, text |-> <<>>]

FragmentsOf(kind) == Range(Texts(kind))

SelectFragment(kind) ==
  {text \in FragmentsOf(kind) : purpose.strategy = "steer" => Len(text) < Quarter}

(* Variant with a defect, used by no specification: a rule weighs as much  *)
(* as it has been used.                                                    *)
WeightByUsage(stats, i) == stats[i] + 1

(* The distance from the most used rule of the kind, at least from one.    *)
Weight(stats, i) ==
  LET bound == CHOOSE b \in {1} \cup {stats[j] : j \in DOMAIN stats} :
                 \A j \in DOMAIN stats : b >= stats[j] /\ b >= 1
  IN  bound - stats[i]

Stats(kind) ==
  IF kind \in DOMAIN usage THEN usage[kind] ELSE [i \in DOMAIN Rules[kind] |-> 0]

(* The rules that may be selected; 0 stands for None.  The metadata entry  *)
(* is inserted even if nothing can be chosen.                              *)
SelectRule(kind) ==
  IF kind \notin DOMAIN Rules THEN {0}
  ELSE IF purpose.strategy = "random" THEN DOMAIN Rules[kind]
  ELSE LET likely == {i \in DOMAIN Rules[kind] : Weight(Stats(kind), i) > 0}
       IN  IF likely = {} THEN {0} ELSE likely

Record(kind, rule) ==
  IF purpose.strategy = "random" \/ kind \notin DOMAIN Rules THEN usage
  ELSE [k \in DOMAIN usage \cup {kind} |->
          IF k # kind THEN usage[k]
          ELSE [i \in DOMAIN Rules[k] |-> Stats(k)[i] + IF i = rule THEN 1 ELSE 0]]

Selected(kind) == FoldFunction(+, 0, Stats(kind))

-----------------------------------------------------------------------------
(* Who asks for a derivation.                                              *)

Begin(user, strategy, kind) ==
  /\ mpc = "done" /\ gpc = "idle"
  /\ gpc' = "deriving"
  /\ purpose' = [user |-> user, strategy |-> strategy, kind |-> kind]
  /\ todo' = <<Due(Symbol("nonterminal", kind), RecursionLimit)>>
  /\ out' = <<>>
  /\ UNCHANGED <<vars, usage>>

(* LspInputGenerator::generate.                                            *)
GenerateSeed == Begin("seed", "random", StartSymbol)

(* NodeGenerator::generate_node: the kind of the node picked, or the kind  *)
(* of some rule that is not that of the node.                              *)
ExpandGrammar  == \E kind \in NodeKinds : Begin("node", "random", kind)
MismatchedNode ==
  \E node \in NodeKinds, kind \in DOMAIN Rules :
    kind # node /\ Begin("node", "random", kind)

(* NamedNodeGenerator with the other strategy of the library.              *)
GenerateSteered == \E kind \in NodeKinds : Begin("node", "steer", kind)

(* ChooseFromDerivations: a fragment of the kind, nothing derived.         *)
ChooseFromDerivations ==
  /\ mpc = "done" /\ gpc = "idle"
  /\ \E kind \in NodeKinds :
       /\ purpose' = [user |-> "fragment", strategy |-> "random", kind |-> kind]
       /\ \/ \E text \in FragmentsOf(kind) :
               gpc' = "generated" /\ out' = <<Fragment(kind, text)>>
          \/ FragmentsOf(kind) = {} /\ gpc' = "skipped" /\ out' = <<>>
  /\ UNCHANGED <<vars, todo, usage>>

-----------------------------------------------------------------------------
(* generate_recursively.                                                   *)

Deriving(type) == gpc = "deriving" /\ todo # <<>> /\ Head(todo).symbol.type = type

(* The seed generator tries again until it succeeds; a mutator is skipped. *)
Fail ==
  /\ out' = <<>>
  /\ IF purpose.user = "seed"
     THEN gpc' = "deriving"
          /\ todo' = <<Due(Symbol("nonterminal", purpose.kind), RecursionLimit)>>
     ELSE gpc' = "skipped" /\ todo' = <<>>

UseFragment(kind) ==
  \/ \E text \in SelectFragment(kind) :
       /\ out' = Append(out, Fragment(kind, text))
       /\ todo' = Tail(todo)
       /\ UNCHANGED gpc
  \/ SelectFragment(kind) = {} /\ Fail

(* Variant: the symbols of a rule wait until the rest is derived.          *)
ExpansionLast(kind, rule, limit) ==
  Tail(todo) \o [i \in DOMAIN Rules[kind][rule] |-> Due(Rules[kind][rule][i], limit)]

Expansion(kind, rule, limit) ==
  [i \in DOMAIN Rules[kind][rule] |-> Due(Rules[kind][rule][i], limit)] \o Tail(todo)

(* The rule is selected, and counted, before the limit is looked at.       *)
DeriveNonTerminal ==
  /\ Deriving("nonterminal")
  /\ LET kind == Head(todo).symbol.name
         limit == Head(todo).limit
     IN  \E rule \in SelectRule(kind) :
           /\ rule # 0 /\ purpose.strategy = "steer" => Selected(kind) < MaxSteered
           /\ usage' = Record(kind, rule)
           /\ IF rule # 0 /\ limit > 0
              THEN todo' = Expansion(kind, rule, limit - 1) /\ UNCHANGED <<gpc, out>>
              ELSE UseFragment(kind)
  /\ UNCHANGED <<vars, purpose>>

(* generate_terminal: a named or auxiliary token.                          *)
DeriveTerminal ==
  /\ Deriving("terminal")
  /\ UseFragment(Head(todo).symbol.name)
  /\ UNCHANGED <<vars, purpose, usage>>

(* Terminal::Immediate gives its content, Eof nothing.                     *)
DeriveImmediate ==
  /\ \/ /\ Deriving("immediate")
        /\ out' = Append(out, Literal(Head(todo).symbol.name))
     \/ Deriving("eof") /\ UNCHANGED out
  /\ todo' = Tail(todo)
  /\ UNCHANGED <<vars, gpc, purpose, usage>>

Derived ==
  /\ gpc = "deriving" /\ todo = <<>>
  /\ gpc' = "generated"
  /\ UNCHANGED <<vars, purpose, todo, out, usage>>

(* What was derived is spliced into a document: Document.                  *)
Handled ==
  /\ gpc \in {"generated", "skipped"}
  /\ gpc' = "idle" /\ purpose' = NoPurpose /\ out' = <<>>
  /\ UNCHANGED <<vars, todo, usage>>

Derive == DeriveNonTerminal \/ DeriveTerminal \/ DeriveImmediate \/ Derived

GNext ==
  \/ Next /\ UNCHANGED generation
  \/ GenerateSeed \/ ExpandGrammar \/ MismatchedNode \/ GenerateSteered
  \/ ChooseFromDerivations
  \/ Derive \/ Handled

GSpec == GInit /\ [][GNext]_<<vars, generation>>

-----------------------------------------------------------------------------

(* What the rules allow: the sequences of pieces a kind derives within n   *)
(* expansions.  The steer may at any time find no rule to select.          *)
Shape(piece) == [mined |-> piece.mined, name |-> piece.name, text |-> <<>>]
Own(kind)    == <<Fragment(kind, <<>>)>>

Concatenations(sets) ==
  LET c[i \in 0 .. Len(sets)] ==
        IF i = 0 THEN {<<>>} ELSE {a \o b : a \in c[i - 1], b \in sets[i]}
  IN  c[Len(sets)]

(* What a symbol derives if a nonterminal derives what "lower" says.       *)
Derives(sym, lower) ==
  CASE sym.type = "nonterminal" -> lower[sym.name]
    [] sym.type = "terminal"    -> {Own(sym.name)}
    [] sym.type = "immediate"   -> {<<Literal(sym.name)>>}
    [] sym.type = "eof"         -> {<<>>}

Applied(rule, lower) == Concatenations([i \in DOMAIN rule |-> Derives(rule[i], lower)])

Language(strategy) ==
  LET f[n \in 0 .. RecursionLimit] ==
        [k \in Derivable |->
           IF n = 0 \/ k \notin DOMAIN Rules THEN {Own(k)}
           ELSE (UNION {Applied(Rules[k][r], f[n - 1]) : r \in DOMAIN Rules[k]})
                  \cup IF strategy = "steer" THEN {Own(k)} ELSE {}]
  IN  f

(* Text generated for a kind is a derivation of that kind by the rules, no *)
(* deeper than the limit, whatever was retried, and whatever the steer had *)
(* exhausted, on the way; and what stands in it for a kind is text a node  *)
(* of that kind had in one of the files that were mined, wherever joining  *)
(* and sorting the files put it (NamedNodeGenerator::generate,             *)
(* GrammarContext::node_fragments).                                        *)
GeneratedFaithfully ==
  /\ gpc = "generated" =>
       [i \in DOMAIN out |-> Shape(out[i])]
         \in IF purpose.user = "fragment" THEN {Own(purpose.kind)}
            ELSE Language(purpose.strategy)[RecursionLimit][purpose.kind]
  /\ \A i \in DOMAIN out : out[i].mined => out[i].text \in TextsOf(out[i].name)

(* RuleUsageSteer selects no rule again before every other rule of its     *)
(* kind has had its turn.                                                  *)
NoFavourite ==
  \A k \in DOMAIN usage : \A i, j \in DOMAIN usage[k] : usage[k][i] <= usage[k][j] + 1
=============================================================================
