------------------------------ MODULE TokenNfa ------------------------------
(***************************************************************************)
(* The automaton expand_tokens builds for the lexical rules                *)
(* (prepare_grammar/expand_tokens.rs, nfa.rs), the texts it accepts, and   *)
(* the texts a lexical rule stands for.                                    *)
(*                                                                         *)
(* A pattern is what the regex parser makes of it, a tree of records with  *)
(* the kind in `h` and the parts in `of`; character sets are sets.         *)
(* Precedences, which choose among tokens, are left out.                   *)
(***************************************************************************)
EXTENDS GrammarRules

CONSTANT MaxText    \* bound on the length of the texts compared
ASSUME NfaAssumption == MaxText \in Nat

Unbounded == -1     \* the max of a repetition without one

Accept(i)              == [s |-> "accept", variable |-> i]
Advance(cs, to, isSep) == [s |-> "advance", chars |-> cs, to |-> to, sep |-> isSep]
Split(left, right)     == [s |-> "split", left |-> left, right |-> right]

(* What NfaBuilder's methods leave: the states, and whether any was pushed.*)
Built(nfa, pushed) == [nfa |-> nfa, pushed |-> pushed]
Placeholder        == Accept(1)

PushSplit(nfa, to) == Append(nfa, Split(to, Len(nfa)))

(* A text backwards, each character leading to what follows it.            *)
PushText(nfa, text, next, isSep) ==
  FoldRight(LAMBDA c, acc : [nfa |-> Append(acc.nfa, Advance({c}, acc.next, isSep)),
                             next |-> Len(acc.nfa) + 1],
            text, [nfa |-> nfa, next |-> next]).nfa

(* The splits after the last alternative.                                  *)
PushSplits(nfa, alternatives) ==
  FoldLeft(PushSplit, nfa, SetToSortSeq(alternatives \ {Len(nfa)}, <))

-----------------------------------------------------------------------------
(* Variants of definitions below with a defect; no specification uses      *)
(* them.                                                                   *)

(* The loop of a repetition leads back to its own state.                   *)
LoopToItself(nfa, hole, next) == [nfa EXCEPT ![hole] = Split(hole, next)]

-----------------------------------------------------------------------------
Loop(nfa, hole, next) == [nfa EXCEPT ![hole] = Split(Len(nfa), next)]

RECURSIVE ExpandRegex(_, _, _, _)
RECURSIVE ExpandCount(_, _, _, _, _)

ExpandOneOrMore(h, next, nfa, isSep) ==
  LET hole == Len(nfa) + 1
      body == ExpandRegex(h, hole, Append(nfa, Placeholder), isSep)
  IN  IF body.pushed THEN Built(Loop(body.nfa, hole, next), TRUE)
      ELSE Built(Front(body.nfa), FALSE)

ExpandZeroOrOne(h, next, nfa, isSep) ==
  LET body == ExpandRegex(h, next, nfa, isSep)
  IN  IF body.pushed THEN Built(PushSplit(body.nfa, next), TRUE) ELSE body

ExpandZeroOrMore(h, next, nfa, isSep) ==
  LET body == ExpandOneOrMore(h, next, nfa, isSep)
  IN  IF body.pushed THEN Built(PushSplit(body.nfa, next), TRUE) ELSE body

ExpandCount(h, count, next, nfa, isSep) ==
  IF count = 0 THEN Built(nfa, FALSE)
  ELSE LET one  == ExpandRegex(h, next, nfa, isSep)
           rest == ExpandCount(h, count - 1, IF one.pushed THEN Len(one.nfa) ELSE next,
                               one.nfa, isSep)
       IN  Built(rest.nfa, one.pushed \/ rest.pushed)

(* The optional rest of a repetition with a maximum.                       *)
RECURSIVE ExpandUpTo(_, _, _, _, _)
ExpandUpTo(h, count, next, built, isSep) ==
  IF count = 0 THEN built
  ELSE LET to  == IF built.pushed THEN Len(built.nfa) ELSE next
           one == ExpandZeroOrOne(h, to, built.nfa, isSep)
       IN  ExpandUpTo(h, count - 1, to, Built(one.nfa, built.pushed \/ one.pushed), isSep)

(* A repetition {min,} gets a loop and min copies, each leading to `next`. *)
ExpandRepetition(h, next, nfa, isSep) ==
  LET sub == h.of[1] IN
  CASE h.min = 0 /\ h.max = 1         -> ExpandZeroOrOne(sub, next, nfa, isSep)
    [] h.min = 1 /\ h.max = Unbounded -> ExpandOneOrMore(sub, next, nfa, isSep)
    [] h.min = 0 /\ h.max = Unbounded -> ExpandZeroOrMore(sub, next, nfa, isSep)
    [] h.min > 1 /\ h.max = Unbounded ->
         LET star == ExpandZeroOrMore(sub, next, nfa, isSep)
         IN  IF star.pushed THEN ExpandCount(sub, h.min, next, star.nfa, isSep) ELSE star
    [] OTHER ->
         ExpandUpTo(sub, h.max - h.min, next, ExpandCount(sub, h.min, next, nfa, isSep), isSep)

ExpandRegex(h, next, nfa, isSep) ==
  CASE h.h = "empty"      -> Built(nfa, FALSE)
    [] h.h = "literal"    -> Built(PushText(nfa, h.chars, next, isSep), TRUE)
    [] h.h = "class"      -> Built(Append(nfa, Advance(h.set, next, isSep)), TRUE)
    [] h.h = "repetition" -> ExpandRepetition(h, next, nfa, isSep)
    [] h.h = "capture"    -> ExpandRegex(h.of[1], next, nfa, isSep)
    [] h.h = "concat" ->
         LET all == FoldRight(LAMBDA e, acc :
                      LET x == ExpandRegex(e, acc.next, acc.nfa, isSep) IN
                      [nfa |-> x.nfa, pushed |-> acc.pushed \/ x.pushed,
                       next |-> IF x.pushed THEN Len(x.nfa) ELSE acc.next],
                    h.of, [nfa |-> nfa, pushed |-> FALSE, next |-> next])
         IN  Built(all.nfa, all.pushed)
    [] h.h = "alternation" ->
         LET all == FoldLeft(LAMBDA acc, e :
                      LET x == ExpandRegex(e, next, acc.nfa, isSep) IN
                      [nfa |-> x.nfa,
                       ends |-> acc.ends \cup {IF x.pushed THEN Len(x.nfa) ELSE next}],
                    [nfa |-> nfa, ends |-> {}], h.of)
         IN  Built(PushSplits(all.nfa, all.ends), TRUE)

(* expand_rule.  A sequence goes on from the last state even if its member *)
(* pushed none; a repetition of nothing leaves its placeholder.            *)
RECURSIVE ExpandRule(_, _, _, _)
ExpandRule(r, next, nfa, isSep) ==
  CASE r.t = "blank"    -> Built(nfa, FALSE)
    [] r.t = "pattern"  -> ExpandRegex(r.regex, next, nfa, isSep)
    [] r.t = "string"   -> Built(PushText(nfa, Spelling[r.string], next, isSep), r.string # "")
    [] r.t = "metadata" -> ExpandRule(r.of[1], next, nfa, isSep)
    [] r.t = "choice" ->
         LET all == FoldLeft(LAMBDA acc, e :
                      LET x == ExpandRule(e, next, acc.nfa, isSep) IN
                      [nfa |-> x.nfa,
                       ends |-> acc.ends \cup {IF x.pushed THEN Len(x.nfa) ELSE next}],
                    [nfa |-> nfa, ends |-> {}], r.of)
         IN  Built(PushSplits(all.nfa, all.ends), TRUE)
    [] r.t = "seq" ->
         LET all == FoldRight(LAMBDA e, acc :
                      LET x == ExpandRule(e, acc.next, acc.nfa, isSep) IN
                      [nfa |-> x.nfa, pushed |-> acc.pushed \/ x.pushed, next |-> Len(x.nfa)],
                    r.of, [nfa |-> nfa, pushed |-> FALSE, next |-> next])
         IN  Built(all.nfa, all.pushed)
    [] r.t = "repeat" ->
         LET hole == Len(nfa) + 1
             body == ExpandRule(r.of[1], hole, Append(nfa, Placeholder), isSep)
         IN  IF body.pushed THEN Built(Loop(body.nfa, hole, next), TRUE) ELSE body

(* A symbol in a token and an assertion in a pattern are errors.           *)
RECURSIVE HasLook(_)
HasLook(h) == h.h = "look" \/ \E i \in DOMAIN Kids(h) : HasLook(h.of[i])
Unexpandable(r) ==
  \E x \in Subrules(r) : \/ x.t \in {"named", "symbol", "reserved"}
                         \/ x.t = "pattern" /\ HasLook(x.regex)

(* The separators are repeated, and may be left out.                       *)
SeparatorRule(separators) ==
  IF separators = <<>> THEN Blank ELSE Repeat(ChoiceOf(Append(separators, Blank)))

(* The automaton with one more variable; its start is the last state.      *)
IsImmediate(r) == r.t = "metadata" /\ r.params.main
ExpandVariable(nfa, i, r, separator) ==
  LET token == ExpandRule(r, Len(nfa) + 1, Append(nfa, Accept(i)), FALSE).nfa
  IN  IF IsImmediate(r) THEN token ELSE ExpandRule(separator, Len(token), token, TRUE).nfa

-----------------------------------------------------------------------------
(* What an automaton accepts (NfaCursor).                                  *)

RECURSIVE Closure(_, _)
Closure(nfa, states) ==
  LET splits == {q \in states : nfa[q].s = "split"}
      next == states \cup {nfa[q].left : q \in splits} \cup {nfa[q].right : q \in splits}
  IN  IF next = states THEN states ELSE Closure(nfa, next)

Reset(nfa, states) == {q \in Closure(nfa, states) : nfa[q].s # "split"}

Read(nfa, states, c) ==
  Reset(nfa, {nfa[q].to : q \in {p \in states : nfa[p].s = "advance" /\ c \in nfa[p].chars}})

Accepts(nfa, start, i, text) ==
  \E q \in FoldLeft(LAMBDA acc, c : Read(nfa, acc, c), Reset(nfa, {start}), text) :
    nfa[q] = Accept(i)

-----------------------------------------------------------------------------
(* The texts of a pattern and of a lexical rule.                           *)

Power(S, n) == FoldLeft(LAMBDA acc, k : Concat(acc, S, MaxText), {<<>>}, [k \in 1 .. n |-> k])
Star(S)     == Plus({<<>>}, S, MaxText)

RECURSIVE RegexTexts(_)
RegexTexts(h) ==
  LET of == [i \in DOMAIN Kids(h) |-> RegexTexts(h.of[i])] IN
  CASE h.h = "empty"       -> {<<>>}
    [] h.h = "literal"     -> {h.chars}
    [] h.h = "class"       -> {<<c>> : c \in h.set}
    [] h.h = "capture"     -> of[1]
    [] h.h = "concat"      -> FoldLeft(LAMBDA S, T : Concat(S, T, MaxText), {<<>>}, of)
    [] h.h = "alternation" -> UNION {of[i] : i \in DOMAIN of}
    [] h.h = "repetition" /\ h.max = Unbounded -> Concat(Power(of[1], h.min), Star(of[1]), MaxText)
    [] h.h = "repetition" /\ h.max # Unbounded -> UNION {Power(of[1], n) : n \in h.min .. h.max}

RECURSIVE Texts(_)
Texts(r) ==
  LET of == [i \in DOMAIN Kids(r) |-> Texts(r.of[i])] IN
  CASE r.t = "blank"    -> {<<>>}
    [] r.t = "string"   -> {Spelling[r.string]}
    [] r.t = "pattern"  -> RegexTexts(r.regex)
    [] r.t = "metadata" -> of[1]
    [] r.t = "choice"   -> UNION {of[i] : i \in DOMAIN of}
    [] r.t = "seq"      -> FoldLeft(LAMBDA S, T : Concat(S, T, MaxText), {<<>>}, of)
    [] r.t = "repeat"   -> Concat(of[1], Star(of[1]), MaxText)

(* A rule with every {n,}, n > 1, made {n}.                                *)
RECURSIVE Counted(_)
Counted(h) ==
  LET inner == IF "of" \in DOMAIN h THEN [h EXCEPT !.of = [i \in DOMAIN @ |-> Counted(@[i])]] ELSE h
  IN  IF h.h = "repetition" /\ h.max = Unbounded /\ h.min > 1
      THEN [inner EXCEPT !.max = h.min] ELSE inner

PatternsIn(r) == {x \in Subrules(r) : x.t = "pattern"}
AsCounted(r)  == Subst(r, [x \in PatternsIn(r) |-> Pattern(Counted(x.regex))])

(* A part that can only be empty pushes no state.  A sequence that ends    *)
(* with one, and a choice of nothing else, then goes on from the last      *)
(* state there is, which below a choice may be another alternative's       *)
(* (expand_rule, Seq and Choice); a repetition of nothing leaves its       *)
(* placeholder, which accepts the first token.                             *)
Nothing(r) == Texts(r) = {<<>>}

RECURSIVE Alternations(_)
Alternations(h) ==
  (IF h.h = "alternation" THEN {h} ELSE {}) \cup UNION {Alternations(Kids(h)[i]) : i \in DOMAIN Kids(h)}

Skewed(r) ==
  \/ \E x \in Subrules(r) : x.t = "repeat" /\ Nothing(x)
  \/ \E c \in {d \in Subrules(r) : d.t = "choice"} : \E x \in Subrules(c) \ {c} :
       \/ x.t = "choice" /\ Nothing(x)
       \/ x.t = "seq" /\ x.of # <<>> /\ Nothing(Last(x.of))
  \/ \E x \in PatternsIn(r) : \E h \in Alternations(x.regex) : RegexTexts(h) = {<<>>}
=============================================================================
