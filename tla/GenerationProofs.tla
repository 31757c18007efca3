--------------------------- MODULE GenerationProofs ---------------------------
(***************************************************************************)
(* Theorems of Fragments and Generation, for any source files, rules,      *)
(* recursion limit and number of files.                                    *)
(*                                                                         *)
(* Mining: the invariant FInv says, of every state, which texts the ranges *)
(* kept so far denote in the text joined so far.  It rests on lemmas about *)
(* slices of a concatenation (SliceKept, SliceMoved), about ranges listed  *)
(* in an order (ListedInOrder) and about the order of texts (TextLessTotal *)
(* and the two after it): sorting brings equal texts together (Grouped),   *)
(* so that dropping equal neighbours keeps each once (SortedGroups,        *)
(* DedupKeepsOne).                                                         *)
(*                                                                         *)
(* Generation: the invariant GInv says, of a derivation under way, that    *)
(* what is derived, completed by anything that the symbols still to be     *)
(* derived derive, is a derivation of the kind asked for.  It rests on     *)
(* Concatenations being a homomorphism (ConcatenationsOfTwo) and on the    *)
(* equations of Language (LanguageSolves), whose recursions over an        *)
(* interval are shown to have a solution (Recursion).                      *)
(***************************************************************************)
EXTENDS Generation, SequenceTheorems, FiniteSetTheorems, WellFoundedInduction, TLAPS

Bytes(n)          == {r \in Nat \X Nat : r[1] <= r[2] /\ r[2] <= n}
Denoted(text, rs) == {Slice(text, rs[i]) : i \in DOMAIN rs}
Kind              == {n.kind : n \in UNION {src.nodes : src \in Source}}

FTypeOK ==
  /\ mpc \in {"parsing", "merging", "dedup", "done", "failed"}
  /\ files \in [File -> Source] /\ result \in [File -> {Pending, Skipped, Extracted}]
  /\ merged \in 0 .. FileCount /\ code \in Seq(Nat)
  /\ fragments \in [DOMAIN fragments -> Seq(Bytes(Len(code)))] /\ DOMAIN fragments \subseteq Kind
  /\ unsorted \subseteq DOMAIN fragments

(* The ranges of a kind denote the texts of the files merged so far, also  *)
(* while they are sorted and deduplicated; each kind handled has each text *)
(* once.                                                                   *)
Counted(k) ==
  UNION {TextsIn(files[f], k) : f \in {g \in File : g <= merged /\ result[g] = Extracted}}

Joining ==
  /\ mpc = "parsing" => merged = 0
  /\ mpc = "merging" => \A f \in File : result[f] # Pending
  /\ mpc \in {"dedup", "done"} => merged = FileCount
  /\ \A k \in Kind : Denoted(code, Ranges(k)) = Counted(k)

Once ==
  mpc \in {"dedup", "done"} =>
    \A k \in DOMAIN fragments \ unsorted : \A i, j \in DOMAIN fragments[k] :
      Slice(code, fragments[k][i]) = Slice(code, fragments[k][j]) => i = j

FInv == FTypeOK /\ Joining /\ Once /\ (mpc = "done" => unsorted = {})

(* What derivations are made of, and what is left of one: what has been    *)
(* derived, followed by anything the symbols still to be derived derive,   *)
(* is a derivation of the kind asked for.                                  *)
Names    == Derivable \cup {sym.name : sym \in RuleSymbols}
Outlines == {Fragment(n, <<>>) : n \in Names} \cup {Literal(n) : n \in Names}
Piece    == (UNION {{Fragment(n, text) : text \in TextsOf(n)} : n \in Names})
              \cup {Literal(n) : n \in Names}
Symbols  == RuleSymbols \cup {Symbol("nonterminal", k) : k \in Derivable}
Deferred == [symbol : Symbols, limit : 0 .. RecursionLimit]
Lower    == [Derivable -> SUBSET Seq(Outlines)]

Outline(pieces) == [i \in DOMAIN pieces |-> Shape(pieces[i])]
Owed(strategy, due) ==
  [i \in DOMAIN due |-> Derives(due[i].symbol, Language(strategy)[due[i].limit])]

GTypeOK ==
  /\ gpc \in {"idle", "deriving", "generated", "skipped"}
  /\ purpose.strategy \in {"random", "steer"} /\ purpose.kind \in Derivable
  /\ todo \in Seq(Deferred) /\ out \in Seq(Piece)
  /\ gpc # "idle" => mpc = "done"
  /\ gpc = "idle" => out = <<>>
  /\ gpc = "deriving" => purpose.user # "fragment"

Completed(strategy, kind, due, pieces) ==
  \A w \in Concatenations(Owed(strategy, due)) :
    Outline(pieces) \o w \in Language(strategy)[RecursionLimit][kind]

Completes ==
  gpc = "deriving" => Completed(purpose.strategy, purpose.kind, todo, out)

Allowed ==
  gpc = "generated" =>
    Outline(out) \in IF purpose.user = "fragment" THEN {Own(purpose.kind)}
                    ELSE Language(purpose.strategy)[RecursionLimit][purpose.kind]

UsageTypeOK ==
  /\ DOMAIN usage \subseteq DOMAIN Rules
  /\ \A k \in DOMAIN usage : usage[k] \in [DOMAIN Rules[k] -> Nat]

GInv == FInv /\ GTypeOK /\ Completes /\ Allowed
UInv == UsageTypeOK /\ NoFavourite

-----------------------------------------------------------------------------
(* Induction over the naturals, as facts about sets: a set of naturals has *)
(* a least element, and a recursion over an interval has a solution.       *)

LEMMA Least ==
  ASSUME NEW T, T \subseteq Nat, T # {}
  PROVE  \E x \in T : \A y \in T : x <= y
<1> DEFINE R == OpToRel(<, Nat)
<1>1. IsWellFoundedOn(R, Nat)  BY NatLessThanWellFounded
<1>2. \A x, y \in Nat : <<y, x>> \in R <=> y < x  BY DEF OpToRel
<1> HIDE DEF R
<1>3. PICK x \in T : \A y \in T : ~(<<y, x>> \in R)  BY <1>1, WFMin
<1>4. ASSUME NEW y \in T  PROVE x <= y
  <2>1. x \in Nat /\ y \in Nat  OBVIOUS
  <2>2. ~(y < x)  BY <1>2, <1>3, <2>1
  <2> QED  BY <2>1, <2>2
<1> QED  BY <1>4

(* The least number up to N at which something fails: not the first, and   *)
(* not after one at which it holds.                                        *)
LEMMA UpTo ==
  ASSUME NEW N \in Nat, NEW P, 0 \in P, \A n \in 1 .. N : n - 1 \in P => n \in P
  PROVE  \A n \in 0 .. N : n \in P
<1> DEFINE T == {n \in 0 .. N : n \notin P}
<1> SUFFICES ASSUME T # {} PROVE FALSE  OBVIOUS
<1>0. T \subseteq Nat  OBVIOUS
<1>1. PICK n \in T : \A y \in T : n <= y  BY <1>0, Least
<1>2. n \in 0 .. N /\ n \notin P /\ n # 0  OBVIOUS
<1>3. n \in 1 .. N /\ n - 1 \in 0 .. N /\ ~(n <= n - 1)  BY <1>2
<1>4. n - 1 \in P  BY <1>1, <1>3
<1> QED  BY <1>2, <1>3, <1>4

Solvable(X, base, N, step) ==
  \E f \in [0 .. N -> X] : f[0] = base /\ \A n \in 1 .. N : f[n] = step[n][f[n - 1]]

LEMMA Recursion ==
  ASSUME NEW X, NEW base \in X, NEW N \in Nat, NEW step \in [1 .. N -> [X -> X]]
  PROVE  Solvable(X, base, N, step)
<1> DEFINE Solves(f, n) == f[0] = base /\ \A i \in 1 .. n : f[i] = step[i][f[i - 1]]
           P == {n \in 0 .. N : \E f \in [0 .. n -> X] : Solves(f, n)}
<1>1. 0 \in P
  <2> DEFINE f == [i \in 0 .. 0 |-> base]
  <2>1. f \in [0 .. 0 -> X] /\ Solves(f, 0)  OBVIOUS
  <2> HIDE DEF f
  <2> QED  BY <2>1
<1>2. ASSUME NEW n \in 1 .. N, n - 1 \in P  PROVE n \in P
  <2>1. PICK g \in [0 .. n - 1 -> X] : Solves(g, n - 1)  BY <1>2
  <2> DEFINE f == [i \in 0 .. n |-> IF i = n THEN step[n][g[n - 1]] ELSE g[i]]
  <2>2. /\ n \in Nat /\ n - 1 \in 0 .. n - 1 /\ 0 \in 0 .. n - 1
        /\ \A i \in 0 .. n : i # n => i \in 0 .. n - 1
        /\ \A i \in 1 .. n : i \in 0 .. n /\ i - 1 \in 0 .. n - 1 /\ i - 1 # n /\ i - 1 \in 0 .. n
    OBVIOUS
  <2>3. g[n - 1] \in X /\ step[n] \in [X -> X]  BY <2>2
  <2>4. f \in [0 .. n -> X]  BY <2>2, <2>3
  <2>5. f[0] = base  BY <2>1, <2>2
  <2>6. ASSUME NEW i \in 1 .. n  PROVE f[i] = step[i][f[i - 1]]
    <3>1. f[i - 1] = g[i - 1]  BY <2>2
    <3>2. CASE i = n  BY <2>2, <3>1, <3>2
    <3>3. CASE i # n
      <4>1. i \in 1 .. n - 1  BY <3>3
      <4>2. f[i] = g[i]  BY <2>2, <3>3
      <4> QED  BY <2>1, <3>1, <4>1, <4>2
    <3> QED  BY <3>2, <3>3
  <2> HIDE DEF f
  <2>7. Solves(f, n)  BY <2>5, <2>6
  <2> QED  BY <2>4, <2>7
<1> HIDE DEF P
<1>3. \A n \in 0 .. N : n \in P
  <2>1. \A n \in 1 .. N : n - 1 \in P => n \in P  BY <1>2
  <2> QED  BY <1>1, <2>1, UpTo
<1>4. N \in P  BY <1>3
<1> QED  BY <1>4 DEF P, Solvable

-----------------------------------------------------------------------------
(* What Listed promises: every element once, in the order.                 *)

LEMMA ListedInOrder ==
  ASSUME NEW S, IsFiniteSet(S), NEW R,
         \A x \in S : <<x, x>> \notin R,
         \A x, y \in S : x = y \/ <<x, y>> \in R \/ <<y, x>> \in R,
         \A x, y, z \in S : <<x, y>> \in R /\ <<y, z>> \in R => <<x, z>> \in R
  PROVE  /\ Cardinality(S) \in Nat
         /\ Listed(S, R) \in [1 .. Cardinality(S) -> S]
         /\ \A x \in S : \E n \in 1 .. Cardinality(S) : Listed(S, R)[n] = x
         /\ \A m, n \in 1 .. Cardinality(S) :
              m < n => <<Listed(S, R)[m], Listed(S, R)[n]>> \in R
<1> DEFINE N    == Cardinality(S)
           P(x) == {y \in S : <<y, x>> \in R}
           r(x) == Cardinality(P(x))
<1>1. N \in Nat  BY FS_CardinalityType
<1>2. ASSUME NEW x \in S  PROVE IsFiniteSet(P(x)) /\ r(x) \in 0 .. N - 1
  <2>1. P(x) \in SUBSET (S \ {x}) /\ P(x) \in SUBSET S  OBVIOUS
  <2>2. IsFiniteSet(S \ {x}) /\ Cardinality(S \ {x}) = N - 1  BY FS_RemoveElement
  <2> HIDE DEF P
  <2>3. IsFiniteSet(P(x)) /\ r(x) <= N - 1  BY <2>1, <2>2, FS_Subset
  <2>4. r(x) \in Nat  BY <2>3, FS_CardinalityType
  <2> QED  BY <1>1, <2>3, <2>4
<1>3. ASSUME NEW x \in S, NEW y \in S, <<x, y>> \in R  PROVE r(x) < r(y)
  <2>1. P(x) \in SUBSET P(y) /\ x \in P(y) /\ x \notin P(x)  BY <1>3
  <2>2. IsFiniteSet(P(x)) /\ IsFiniteSet(P(y))  BY <1>2
  <2> HIDE DEF P
  <2>3. r(x) <= r(y) /\ (r(x) = r(y) => P(x) = P(y))  BY <2>1, <2>2, FS_Subset
  <2>4. r(x) \in Nat /\ r(y) \in Nat  BY <2>2, FS_CardinalityType
  <2>5. P(x) # P(y)  BY <2>1
  <2> QED  BY <2>3, <2>4, <2>5
<1> HIDE DEF N
<1> DEFINE f == [x \in S |-> r(x) + 1]
<1>4. f \in Injection(S, 1 .. N)
  <2>1. ASSUME NEW x \in S  PROVE r(x) + 1 \in 1 .. N  BY <1>1, <1>2
  <2>2. f \in [S -> 1 .. N]  BY <2>1
  <2>3. ASSUME NEW x \in S, NEW y \in S, f[x] = f[y]  PROVE x = y
    <3>1. r(x) \in Int /\ r(y) \in Int  BY <1>1, <1>2
    <3>2. r(x) = r(y)  BY <2>3, <3>1
    <3>3. ~(r(x) < r(y)) /\ ~(r(y) < r(x))  BY <3>1, <3>2
    <3>4. <<x, y>> \notin R /\ <<y, x>> \notin R  BY <1>3, <3>3
    <3> QED  BY <3>4
  <2>4. IsInjective(f)
    <3>1. DOMAIN f = S  OBVIOUS
    <3> HIDE DEF f
    <3> QED  BY <2>3, <3>1 DEF IsInjective
  <2> HIDE DEF f
  <2> QED  BY <2>2, <2>4 DEF Injection
<1>5. f \in Surjection(S, 1 .. N)
  <2>1. IsFiniteSet(1 .. N) /\ Cardinality(1 .. N) = N  BY <1>1, FS_Interval
  <2> HIDE DEF f
  <2> QED  BY <1>4, <2>1, FS_Injection DEF N
<1>6. ASSUME NEW n \in 1 .. N  PROVE \E x \in S : r(x) = n - 1
  <2>1. PICK x \in S : f[x] = n
    <3> HIDE DEF f
    <3> QED  BY <1>5 DEF Surjection
  <2>2. r(x) \in Int /\ f[x] = r(x) + 1  BY <1>1, <1>2
  <2> HIDE DEF f, r
  <2> QED  BY <1>1, <2>1, <2>2
<1> DEFINE L == Listed(S, R)
<1>7. L = [n \in 1 .. N |-> CHOOSE x \in S : r(x) = n - 1]  BY DEF Listed, N
<1> HIDE DEF L, r, f
<1>8. ASSUME NEW n \in 1 .. N  PROVE L[n] \in S /\ r(L[n]) = n - 1  BY <1>6, <1>7
<1>9. L \in [1 .. N -> S]  BY <1>7, <1>8
<1>10. ASSUME NEW x \in S  PROVE \E n \in 1 .. N : L[n] = x
  <2>1. PICK q \in 0 .. N - 1 : r(x) = q  BY <1>2
  <2>2. PICK n \in 1 .. N : q = n - 1  BY <1>1
  <2>3. L[n] \in S /\ r(L[n]) = q  BY <1>8, <2>2
  <2>4. ~(r(x) < r(L[n])) /\ ~(r(L[n]) < r(x))  BY <2>1, <2>3
  <2>5. <<x, L[n]>> \notin R /\ <<L[n], x>> \notin R  BY <1>3, <2>3, <2>4
  <2> QED  BY <2>3, <2>5
<1>11. ASSUME NEW m \in 1 .. N, NEW n \in 1 .. N, m < n  PROVE <<L[m], L[n]>> \in R
  <2>1. L[m] \in S /\ L[n] \in S /\ r(L[m]) = m - 1 /\ r(L[n]) = n - 1  BY <1>8
  <2>2. m - 1 < n - 1 /\ m - 1 \in Int /\ n - 1 \in Int  BY <1>1, <1>11
  <2>3. L[m] # L[n]  BY <2>1, <2>2
  <2>4. <<L[n], L[m]>> \notin R  BY <1>3, <2>1, <2>2
  <2> QED  BY <2>1, <2>3, <2>4
<1> QED  BY <1>1, <1>9, <1>10, <1>11 DEF N, L

-----------------------------------------------------------------------------
(* The order of byte strings is a strict total order.                      *)

LEMMA TextLessTotal ==
  ASSUME NEW s \in Seq(Nat), NEW t \in Seq(Nat)
  PROVE  s = t \/ TextLess(s, t) \/ TextLess(t, s)
<1> DEFINE D == {i \in Nat : ~(i < Len(s) /\ i < Len(t) /\ s[i + 1] = t[i + 1])}
<1>1. /\ Len(s) \in Nat /\ Len(t) \in Nat
      /\ \A i \in 1 .. Len(s) : s[i] \in Nat
      /\ \A i \in 1 .. Len(t) : t[i] \in Nat
  OBVIOUS
<1>2. Len(s) \in D /\ D \subseteq Nat  BY <1>1
<1>3. PICK i \in D : \A j \in D : i <= j  BY <1>2, Least
<1>4. i \in Nat /\ i <= Len(s) /\ i <= Len(t)
  <2>1. Len(t) \in D  BY <1>1
  <2> QED  BY <1>2, <1>3, <2>1
<1>5. ASSUME NEW j \in 1 .. i  PROVE s[j] = t[j]
  <2>1. PICK k \in Nat : j = k + 1 /\ ~(i <= k)  BY <1>4
  <2>2. k \notin D  BY <1>3, <2>1
  <2> QED  BY <2>1, <2>2
<1>6. ~(i < Len(s) /\ i < Len(t) /\ s[i + 1] = t[i + 1])  OBVIOUS
<1> HIDE DEF D
<1>7. CASE i < Len(s) /\ i < Len(t)
  <2>1. s[i + 1] \in Nat /\ t[i + 1] \in Nat /\ s[i + 1] # t[i + 1]  BY <1>1, <1>4, <1>6, <1>7
  <2>2. i \in 0 .. Len(s) /\ i \in 0 .. Len(t)  BY <1>1, <1>4
  <2>3. CASE s[i + 1] < t[i + 1]  BY <1>5, <1>7, <2>2, <2>3 DEF TextLess
  <2>4. CASE t[i + 1] < s[i + 1]  BY <1>5, <1>7, <2>2, <2>4 DEF TextLess
  <2> QED  BY <2>1, <2>3, <2>4
<1>8. CASE i = Len(s) /\ i < Len(t)
  <2>1. i \in 0 .. Len(s)  BY <1>1, <1>8
  <2> QED  BY <1>5, <1>8, <2>1 DEF TextLess
<1>9. CASE i = Len(t) /\ i < Len(s)
  <2>1. i \in 0 .. Len(t)  BY <1>1, <1>9
  <2> QED  BY <1>5, <1>9, <2>1 DEF TextLess
<1>10. CASE i = Len(s) /\ i = Len(t)
  <2>1. Len(s) = Len(t) /\ \A j \in 1 .. Len(s) : s[j] = t[j]  BY <1>5, <1>10
  <2> QED  BY <2>1, SeqEqual
<1> QED  BY <1>1, <1>4, <1>7, <1>8, <1>9, <1>10

LEMMA TextLessIrreflexive ==
  ASSUME NEW s \in Seq(Nat)
  PROVE  ~TextLess(s, s)
<1> SUFFICES ASSUME NEW i \in 0 .. Len(s), i < Len(s), i = Len(s) \/ s[i + 1] < s[i + 1]
             PROVE  FALSE
  BY DEF TextLess
<1>1. Len(s) \in Nat  OBVIOUS
<1>2. i + 1 \in 1 .. Len(s)  BY <1>1
<1>3. s[i + 1] \in Nat  BY <1>2
<1> QED  BY <1>1, <1>3

LEMMA TextLessTransitive ==
  ASSUME NEW s \in Seq(Nat), NEW t \in Seq(Nat), NEW u \in Seq(Nat),
         TextLess(s, t), TextLess(t, u)
  PROVE  TextLess(s, u)
<1>1. /\ Len(s) \in Nat /\ Len(t) \in Nat /\ Len(u) \in Nat
      /\ \A i \in 1 .. Len(s) : s[i] \in Nat
      /\ \A i \in 1 .. Len(t) : t[i] \in Nat
      /\ \A i \in 1 .. Len(u) : u[i] \in Nat
  OBVIOUS
<1>2. PICK a \in 0 .. Len(s) :
        /\ a < Len(t) /\ \A j \in 1 .. a : s[j] = t[j]
        /\ a = Len(s) \/ s[a + 1] < t[a + 1]
  BY DEF TextLess
<1>3. PICK b \in 0 .. Len(t) :
        /\ b < Len(u) /\ \A j \in 1 .. b : t[j] = u[j]
        /\ b = Len(t) \/ t[b + 1] < u[b + 1]
  BY DEF TextLess
<1>4. a \in Nat /\ b \in Nat  BY <1>1
<1>5. CASE a < b
  <2>1. a < Len(u) /\ \A j \in 1 .. a : s[j] = u[j]  BY <1>1, <1>2, <1>3, <1>4, <1>5
  <2>2. a + 1 \in 1 .. b  BY <1>4, <1>5
  <2>3. t[a + 1] = u[a + 1]  BY <1>3, <2>2
  <2> QED  BY <1>2, <2>1, <2>3 DEF TextLess
<1>6. CASE a = b
  <2>1. \A j \in 1 .. a : s[j] = u[j]  BY <1>2, <1>3, <1>6
  <2>2. t[a + 1] < u[a + 1]  BY <1>1, <1>2, <1>3, <1>6
  <2>3. a + 1 \in 1 .. Len(t) /\ a + 1 \in 1 .. Len(u)
    BY <1>1, <1>2, <1>3, <1>4, <1>6
  <2>4. a = Len(s) \/ s[a + 1] < u[a + 1]
    <3>1. CASE a # Len(s)
      <4>1. a + 1 \in 1 .. Len(s)  BY <1>1, <1>4, <3>1
      <4>2. s[a + 1] \in Nat /\ t[a + 1] \in Nat /\ u[a + 1] \in Nat  BY <1>1, <2>3, <4>1
      <4>3. s[a + 1] < t[a + 1]  BY <1>2, <3>1
      <4>4. \A x, y, z \in Nat : x < y /\ y < z => x < z  OBVIOUS
      <4> QED  BY <2>2, <4>2, <4>3, <4>4
    <3> QED  BY <3>1
  <2> QED  BY <1>3, <1>6, <2>1, <2>4 DEF TextLess
<1>7. CASE b < a
  <2>0. b < Len(s) /\ b < Len(t) /\ \A j \in 1 .. b : j \in 1 .. a
    <3>1. a <= Len(s)  BY <1>1, <1>4
    <3>2. a < Len(t)  BY <1>2
    <3> QED  BY <1>1, <1>4, <1>7, <3>1, <3>2
  <2>1. b < Len(s) /\ b < Len(t) /\ \A j \in 1 .. b : s[j] = u[j]
    BY <1>2, <1>3, <2>0
  <2>2. b + 1 \in 1 .. a /\ b \in 0 .. Len(s)  BY <1>1, <1>4, <1>7, <2>1
  <2>3. s[b + 1] = t[b + 1] /\ t[b + 1] < u[b + 1]  BY <1>1, <1>2, <1>3, <2>1, <2>2
  <2>4. s[b + 1] < u[b + 1]  BY <2>3
  <2> QED  BY <1>3, <2>1, <2>2, <2>4 DEF TextLess
<1> QED  BY <1>4, <1>5, <1>6, <1>7

-----------------------------------------------------------------------------
(* sort_by_key brings what is equal together; dedup_by_key then leaves one *)
(* of each.                                                                *)

Grouped(rs) ==
  \A i, j, k \in DOMAIN rs :
    i <= k /\ k <= j /\ Slice(code, rs[i]) = Slice(code, rs[j])
      => Slice(code, rs[k]) = Slice(code, rs[j])

LEMMA SliceText ==
  ASSUME NEW text \in Seq(Nat), NEW r \in Bytes(Len(text))
  PROVE  /\ Slice(text, r) \in Seq(Nat) /\ Len(Slice(text, r)) = r[2] - r[1]
         /\ \A i \in 1 .. r[2] - r[1] : Slice(text, r)[i] = text[r[1] + i]
<1>1. /\ Len(text) \in Nat /\ r[1] \in Nat /\ r[2] \in Nat
      /\ r[1] <= r[2] /\ r[2] <= Len(text)
  BY DEF Bytes
<1>2. \A i \in r[1] + 1 .. r[2] : text[i] \in Nat  BY <1>1
<1>3. r[1] + 1 \in Int /\ r[2] \in Int  BY <1>1
<1> DEFINE q == SubSeq(text, r[1] + 1, r[2])
<1>4. /\ q \in Seq(Nat) /\ Len(q) = IF r[1] + 1 <= r[2] THEN r[2] - (r[1] + 1) + 1 ELSE 0
      /\ \A i \in 1 .. r[2] - (r[1] + 1) + 1 : q[i] = text[r[1] + 1 + i - 1]
  BY <1>2, <1>3, SubSeqProperties
<1>5. q = Slice(text, r)  BY DEF Slice
<1> HIDE DEF q
<1>6. r[2] - (r[1] + 1) + 1 = r[2] - r[1]  BY <1>1
<1>7. Len(q) = r[2] - r[1]  BY <1>1, <1>4
<1>8. ASSUME NEW i \in 1 .. r[2] - r[1]  PROVE q[i] = text[r[1] + i]
  <2>1. r[1] + 1 + i - 1 = r[1] + i  BY <1>1
  <2> QED  BY <1>4, <1>6, <2>1
<1> QED  BY <1>4, <1>5, <1>7, <1>8

LEMMA SortedGroups ==
  ASSUME code \in Seq(Nat), NEW rs \in Seq(Bytes(Len(code)))
  PROVE  /\ Sorted(rs) \in Seq(Bytes(Len(code)))
         /\ Denoted(code, Sorted(rs)) = Denoted(code, rs) /\ Grouped(Sorted(rs))
<1>0. Len(rs) \in Nat /\ DOMAIN rs = 1 .. Len(rs)  OBVIOUS
<1> DEFINE N    == Len(rs)
           S    == DOMAIN rs
           T(i) == Slice(code, rs[i])
           R    == {p \in S \X S : TextLess(T(p[1]), T(p[2]))
                                    \/ (T(p[1]) = T(p[2]) /\ p[1] < p[2])}
           L    == Listed(S, R)
           q    == [i \in S |-> rs[L[i]]]
<1>1. N \in Nat /\ S = 1 .. N /\ IsFiniteSet(S) /\ Cardinality(S) = N
  <2>1. N \in Nat /\ S = 1 .. N  BY <1>0
  <2> HIDE DEF N, S
  <2>2. IsFiniteSet(1 .. N) /\ Cardinality(1 .. N) = N  BY <2>1, FS_Interval
  <2> QED  BY <2>1, <2>2
<1>2. Sorted(rs) = q  BY DEF Sorted
<1>3. ASSUME NEW i \in S  PROVE T(i) \in Seq(Nat) /\ rs[i] \in Bytes(Len(code))
  <2>1. rs[i] \in Bytes(Len(code))  OBVIOUS
  <2> QED  BY <2>1, SliceText
<1> HIDE DEF S, N, T
<1>4. \A i, j \in S : <<i, j>> \in R <=> TextLess(T(i), T(j)) \/ (T(i) = T(j) /\ i < j)
  OBVIOUS
<1> HIDE DEF R
<1>5. ASSUME NEW i \in S  PROVE <<i, i>> \notin R /\ i \in Nat
  <2>1. i \in Nat /\ ~(i < i)  BY <1>1
  <2> QED  BY <1>3, <1>4, <2>1, TextLessIrreflexive
<1>6. ASSUME NEW i \in S, NEW j \in S  PROVE i = j \/ <<i, j>> \in R \/ <<j, i>> \in R
  <2>0. i \in Nat /\ j \in Nat  BY <1>5
  <2>1. i = j \/ i < j \/ j < i  BY <2>0
  <2>2. T(i) = T(j) \/ TextLess(T(i), T(j)) \/ TextLess(T(j), T(i))  BY <1>3, TextLessTotal
  <2> QED  BY <1>4, <2>1, <2>2
<1>7. ASSUME NEW i \in S, NEW j \in S, NEW k \in S, <<i, j>> \in R, <<j, k>> \in R
      PROVE  <<i, k>> \in R
  <2>1. i \in Nat /\ j \in Nat /\ k \in Nat  BY <1>5
  <2>2. CASE T(i) = T(j) /\ i < j
    <3>1. CASE T(j) = T(k) /\ j < k
      <4>1. i < k /\ T(i) = T(k)  BY <2>1, <2>2, <3>1
      <4> QED  BY <1>4, <4>1
    <3>2. CASE TextLess(T(j), T(k))  BY <1>4, <2>2, <3>2
    <3> QED  BY <1>4, <1>7, <3>1, <3>2
  <2>3. CASE TextLess(T(i), T(j))
    <3>1. CASE T(j) = T(k)  BY <1>4, <2>3, <3>1
    <3>2. CASE TextLess(T(j), T(k))
      <4>1. TextLess(T(i), T(k))  BY <1>3, <2>3, <3>2, TextLessTransitive
      <4> QED  BY <1>4, <4>1
    <3> QED  BY <1>4, <1>7, <3>1, <3>2
  <2> QED  BY <1>4, <1>7, <2>2, <2>3
<1>8. /\ L \in [1 .. N -> S]
      /\ \A x \in S : \E n \in 1 .. N : L[n] = x
      /\ \A m, n \in 1 .. N : m < n => <<L[m], L[n]>> \in R
  BY <1>1, <1>5, <1>6, <1>7, ListedInOrder
<1> HIDE DEF L
<1>9. q \in Seq(Bytes(Len(code))) /\ DOMAIN q = S
  <2>1. \A i \in 1 .. N : rs[L[i]] \in Bytes(Len(code))  BY <1>3, <1>8
  <2>2. q = [i \in 1 .. N |-> rs[L[i]]]  BY <1>1
  <2> QED  BY <1>1, <2>1, <2>2
<1>10. \A i \in S : L[i] \in S /\ Slice(code, q[i]) = T(L[i])  BY <1>1, <1>8 DEF T
<1> HIDE DEF q
<1>11. Denoted(code, q) = Denoted(code, rs)
  <2>1. \A x : x \in Denoted(code, rs) <=> \E i \in S : x = T(i)  BY DEF Denoted, T, S
  <2>2. \A x : x \in Denoted(code, q) <=> \E i \in S : x = T(L[i])
    <3>1. DOMAIN q = S  BY <1>1, <1>9
    <3> HIDE DEF T
    <3> QED  BY <1>10, <3>1 DEF Denoted
  <2>3. \A i \in S : \E j \in S : L[j] = i  BY <1>1, <1>8
  <2>4. \A i \in S : L[i] \in S  BY <1>10
  <2> HIDE DEF T, S
  <2>5. \A x : x \in Denoted(code, q) <=> x \in Denoted(code, rs)  BY <2>1, <2>2, <2>3, <2>4
  <2> DEFINE X == Denoted(code, q)
             Y == Denoted(code, rs)
  <2>6. X \subseteq Y /\ Y \subseteq X
    <3> HIDE DEF X, Y
    <3> QED  BY <2>5 DEF X, Y
  <2> QED  BY <2>6
<1>12. Grouped(q)
  <2> SUFFICES ASSUME NEW i \in S, NEW j \in S, NEW k \in S, i <= k, k <= j, T(L[i]) = T(L[j])
               PROVE  T(L[k]) = T(L[j])
    BY <1>9, <1>10 DEF Grouped
  <2>1. i \in Nat /\ j \in Nat /\ k \in Nat /\ i \in 1 .. N /\ j \in 1 .. N /\ k \in 1 .. N
    BY <1>1
  <2> DEFINE a == T(L[i])
             b == T(L[k])
             c == T(L[j])
  <2>2. a \in Seq(Nat) /\ b \in Seq(Nat) /\ c \in Seq(Nat)  BY <1>3, <1>10
  <2>3. a = b \/ TextLess(a, b)
    <3>1. CASE i = k  BY <3>1
    <3>2. CASE i < k
      <4>1. <<L[i], L[k]>> \in R  BY <1>8, <2>1, <3>2
      <4> QED  BY <1>4, <1>10, <4>1
    <3> QED  BY <2>1, <3>1, <3>2
  <2>4. b = c \/ TextLess(b, c)
    <3>1. CASE k = j  BY <3>1
    <3>2. CASE k < j
      <4>1. <<L[k], L[j]>> \in R  BY <1>8, <2>1, <3>2
      <4> QED  BY <1>4, <1>10, <4>1
    <3> QED  BY <2>1, <3>1, <3>2
  <2>5. a = c  OBVIOUS
  <2> HIDE DEF a, b, c
  <2>6. b = c
    <3>1. CASE TextLess(a, b) /\ TextLess(b, c)
      <4>1. TextLess(a, c)  BY <2>2, <3>1, TextLessTransitive
      <4> QED  BY <2>2, <2>5, <4>1, TextLessIrreflexive
    <3> QED  BY <2>3, <2>4, <2>5, <3>1
  <2> QED  BY <2>6 DEF b, c
<1> QED  BY <1>2, <1>9, <1>11, <1>12

LEMMA DedupKeepsOne ==
  ASSUME code \in Seq(Nat), NEW rs \in Seq(Bytes(Len(code))), Grouped(rs)
  PROVE  /\ Dedup(rs) \in Seq(Bytes(Len(code)))
         /\ Denoted(code, Dedup(rs)) = Denoted(code, rs)
         /\ \A i, j \in DOMAIN Dedup(rs) :
              Slice(code, Dedup(rs)[i]) = Slice(code, Dedup(rs)[j]) => i = j
<1> DEFINE T(i) == Slice(code, rs[i])
           K    == {i \in DOMAIN rs : i > 1 => T(i - 1) # T(i)}
           R    == {p \in K \X K : p[1] < p[2]}
           L    == Listed(K, R)
           N    == Cardinality(K)
           q    == [n \in DOMAIN L |-> rs[L[n]]]
<1>1. Len(rs) \in Nat /\ DOMAIN rs = 1 .. Len(rs)  OBVIOUS
<1>2. K \in SUBSET (1 .. Len(rs)) /\ \A i \in K : i \in Nat  BY <1>1
<1>3. IsFiniteSet(K)
  <2>1. IsFiniteSet(1 .. Len(rs))  BY <1>1, FS_Interval
  <2> QED  BY <1>2, <2>1, FS_Subset
<1>4. Dedup(rs) = q  BY DEF Dedup
<1>5. \A i \in DOMAIN rs : i \in K <=> (i > 1 => T(i - 1) # T(i))  OBVIOUS
<1> HIDE DEF K, T
<1>6. \A i, j \in K : <<i, j>> \in R <=> i < j  OBVIOUS
<1> HIDE DEF R
<1>7. /\ \A i \in K : <<i, i>> \notin R
      /\ \A i, j \in K : i = j \/ <<i, j>> \in R \/ <<j, i>> \in R
      /\ \A i, j, k \in K : <<i, j>> \in R /\ <<j, k>> \in R => <<i, k>> \in R
  BY <1>2, <1>6
<1>8. /\ N \in Nat /\ L \in [1 .. N -> K]
      /\ \A x \in K : \E n \in 1 .. N : L[n] = x
      /\ \A m, n \in 1 .. N : m < n => <<L[m], L[n]>> \in R
  BY <1>3, <1>7, ListedInOrder
<1> HIDE DEF L, N
<1>9. q \in Seq(Bytes(Len(code))) /\ DOMAIN q = 1 .. N
  <2>0. \A j \in 1 .. Len(rs) : rs[j] \in Bytes(Len(code))  OBVIOUS
  <2>1. \A i \in 1 .. N : rs[L[i]] \in Bytes(Len(code))
    <3> SUFFICES ASSUME NEW i \in 1 .. N PROVE rs[L[i]] \in Bytes(Len(code))  OBVIOUS
    <3>1. L[i] \in 1 .. Len(rs)  BY <1>2, <1>8
    <3> QED  BY <2>0, <3>1
  <2>2. q = [n \in 1 .. N |-> rs[L[n]]]  BY <1>8
  <2> QED  BY <1>8, <2>1, <2>2
<1>10. \A n \in 1 .. N : L[n] \in K /\ L[n] \in DOMAIN rs /\ Slice(code, q[n]) = T(L[n])
  BY <1>1, <1>2, <1>8 DEF T
<1> HIDE DEF q
<1>11. Denoted(code, q) = Denoted(code, rs)
  <2>1. \A x : x \in Denoted(code, rs) <=> \E i \in DOMAIN rs : x = T(i)  BY DEF Denoted, T
  <2>2. \A x : x \in Denoted(code, q) <=> \E n \in 1 .. N : x = T(L[n])
    BY <1>9, <1>10 DEF Denoted
  <2>3. ASSUME NEW i \in DOMAIN rs  PROVE \E n \in 1 .. N : T(i) = T(L[n])
    <3> DEFINE E == {j \in DOMAIN rs : T(j) = T(i)}
    <3>1. E \subseteq Nat /\ E # {}  BY <1>1
    <3>2. PICK j \in E : \A k \in E : j <= k  BY <3>1, Least
    <3>3. j \in DOMAIN rs /\ T(j) = T(i)  OBVIOUS
    <3>4. j \in K
      <4> SUFFICES ASSUME j > 1, T(j - 1) = T(j) PROVE FALSE  BY <1>5, <3>3
      <4>1. PICK k \in DOMAIN rs : k = j - 1 /\ ~(j <= k)  BY <1>1, <3>3
      <4>2. k \in E  BY <3>3, <4>1
      <4> QED  BY <3>2, <4>1, <4>2
    <3> QED  BY <1>8, <3>3, <3>4
  <2> QED  BY <1>10, <2>1, <2>2, <2>3
<1>12. ASSUME NEW m \in 1 .. N, NEW n \in 1 .. N, m < n  PROVE T(L[m]) # T(L[n])
  <2>1. L[m] \in K /\ L[n] \in K /\ L[m] < L[n]  BY <1>6, <1>8, <1>12
  <2>2. PICK i \in 1 .. Len(rs), j \in 1 .. Len(rs) : i = L[m] /\ j = L[n] /\ i < j /\ j \in K
    BY <1>2, <2>1
  <2>3. PICK k \in 1 .. Len(rs) : k = j - 1 /\ i <= k /\ k <= j /\ j > 1
    <3>1. j - 1 \in 1 .. Len(rs) /\ i <= j - 1 /\ j - 1 <= j /\ j > 1  BY <2>2
    <3> QED  BY <3>1
  <2>4. T(k) # T(j)  BY <1>1, <1>5, <2>2, <2>3
  <2>5. T(i) = T(j) => T(k) = T(j)  BY <1>1, <2>3 DEF Grouped, T
  <2> QED  BY <2>2, <2>4, <2>5
<1>13. ASSUME NEW m \in 1 .. N, NEW n \in 1 .. N, Slice(code, q[m]) = Slice(code, q[n])
       PROVE  m = n
  <2>1. T(L[m]) = T(L[n])  BY <1>10, <1>13
  <2>2. ~(m < n) /\ ~(n < m)  BY <1>12, <2>1
  <2> QED  BY <1>8, <2>2
<1> QED  BY <1>4, <1>9, <1>11, <1>13

-----------------------------------------------------------------------------
(* What is extracted from a file, and where it lies in the joined text.    *)

LEMMA RangesOfNodes ==
  ASSUME NEW nodes, IsFiniteSet(nodes), NEW n \in Nat, NEW k,
         \A m \in nodes : m.from \in Nat /\ m.to \in m.from .. n
  PROVE  /\ RangesOf(nodes, k) \in Seq(Bytes(n))
         /\ \A r : (\E i \in DOMAIN RangesOf(nodes, k) : RangesOf(nodes, k)[i] = r)
                  <=> \E m \in nodes : m.kind = k /\ r = <<m.from, m.to>>
<1> DEFINE M == {m \in nodes : m.kind = k}
           f == [m \in M |-> <<m.from, m.to>>]
           S == {<<m.from, m.to>> : m \in M}
           R == {p \in S \X S : p[1][1] < p[2][1] \/ (p[1][1] = p[2][1] /\ p[1][2] > p[2][2])}
           N == Cardinality(S)
           L == Listed(S, R)
<1>1. IsFiniteSet(S)
  <2>1. M \in SUBSET nodes  OBVIOUS
  <2>2. IsFiniteSet(M)  BY <2>1, FS_Subset
  <2>3. f \in Surjection(M, S)
    <3>1. f \in [M -> S] /\ \A x \in S : \E m \in M : f[m] = x  OBVIOUS
    <3> HIDE DEF f, M, S
    <3> QED  BY <3>1 DEF Surjection
  <2> HIDE DEF M, S, f
  <2> QED  BY <2>2, <2>3, FS_Surjection
<1>2. ASSUME NEW x \in S  PROVE x \in Bytes(n) /\ x[1] \in Nat /\ x[2] \in Nat
                               /\ x = <<x[1], x[2]>>
  <2>1. PICK m \in nodes : x = <<m.from, m.to>>  OBVIOUS
  <2>2. m.from \in Nat /\ m.to \in m.from .. n  OBVIOUS
  <2>3. m.to \in Nat /\ m.from <= m.to /\ m.to <= n  BY <2>2
  <2> QED  BY <2>1, <2>2, <2>3 DEF Bytes
<1>3. \A r : r \in S <=> \E m \in nodes : m.kind = k /\ r = <<m.from, m.to>>  OBVIOUS
<1>4. RangesOf(nodes, k) = L  BY DEF RangesOf
<1> HIDE DEF S
<1>5. \A x, y \in S : <<x, y>> \in R <=> x[1] < y[1] \/ (x[1] = y[1] /\ x[2] > y[2])
  <2> SUFFICES ASSUME NEW x \in S, NEW y \in S
               PROVE  <<x, y>> \in R <=> x[1] < y[1] \/ (x[1] = y[1] /\ x[2] > y[2])
    OBVIOUS
  <2> DEFINE p == <<x, y>>
  <2>1. p \in S \X S /\ p[1] = x /\ p[2] = y  OBVIOUS
  <2> HIDE DEF p
  <2>2. p \in R <=> p[1][1] < p[2][1] \/ (p[1][1] = p[2][1] /\ p[1][2] > p[2][2])  BY <2>1
  <2> QED  BY <2>1, <2>2 DEF p
<1> HIDE DEF R
<1>6. ASSUME NEW x \in S  PROVE <<x, x>> \notin R  BY <1>2, <1>5
<1>7. ASSUME NEW x \in S, NEW y \in S  PROVE x = y \/ <<x, y>> \in R \/ <<y, x>> \in R
  <2>1. /\ x[1] \in Nat /\ x[2] \in Nat /\ y[1] \in Nat /\ y[2] \in Nat
        /\ x = <<x[1], x[2]>> /\ y = <<y[1], y[2]>>
    BY <1>2
  <2>2. x[1] < y[1] \/ x[1] = y[1] \/ y[1] < x[1]  BY <2>1
  <2>3. x[2] < y[2] \/ x[2] = y[2] \/ y[2] < x[2]  BY <2>1
  <2> QED  BY <1>5, <2>1, <2>2, <2>3
<1>8. ASSUME NEW x \in S, NEW y \in S, NEW z \in S, <<x, y>> \in R, <<y, z>> \in R
      PROVE  <<x, z>> \in R
  <2>1. /\ x[1] \in Nat /\ x[2] \in Nat /\ y[1] \in Nat /\ y[2] \in Nat
        /\ z[1] \in Nat /\ z[2] \in Nat
    BY <1>2
  <2>2. x[1] < z[1] \/ (x[1] = z[1] /\ x[2] > z[2])  BY <1>5, <1>8, <2>1
  <2> QED  BY <1>5, <2>2
<1>9. N \in Nat /\ L \in [1 .. N -> S] /\ \A x \in S : \E i \in 1 .. N : L[i] = x
  BY <1>1, <1>6, <1>7, <1>8, ListedInOrder
<1> HIDE DEF L, N
<1>10. L \in Seq(Bytes(n)) /\ DOMAIN L = 1 .. N
  <2>1. L \in [1 .. N -> Bytes(n)]  BY <1>2, <1>9
  <2> QED  BY <1>9, <2>1
<1> QED  BY <1>3, <1>4, <1>9, <1>10

LEMMA Extracts ==
  ASSUME NEW src \in Source, NEW k
  PROVE  /\ k \in DOMAIN Extract(src) =>
              /\ Extract(src)[k] \in Seq(Bytes(Len(src.text)))
              /\ Denoted(src.text, Extract(src)[k]) = TextsIn(src, k)
              /\ \E n \in src.nodes : n.kind = k
         /\ k \notin DOMAIN Extract(src) => TextsIn(src, k) = {}
<1> DEFINE A == FromTree(src)
           B == FromGraph(src)
           a == RangesOf(A, k)
           b == RangesOf(B, k)
           n == Len(src.text)
<1>1. /\ src.text \in Seq(Nat) /\ IsFiniteSet(src.nodes)
      /\ \A m \in src.nodes : m.from \in Nat /\ m.to \in m.from .. n
  BY FragmentsAssumption DEF FragmentsAssumption
<1>2. n \in Nat  BY <1>1
<1>3. A \in SUBSET src.nodes /\ B \in SUBSET src.nodes  BY DEF FromTree, FromGraph
<1>4. IsFiniteSet(A) /\ IsFiniteSet(B)  BY <1>1, <1>3, FS_Subset
<1>5. /\ DOMAIN Extract(src) = {m.kind : m \in A \cup B}
      /\ k \in DOMAIN Extract(src) => Extract(src)[k] = a \o b
  BY DEF Extract
<1>6. TextsIn(src, k) = {Slice(src.text, <<m.from, m.to>>) : m \in {x \in A \cup B : x.kind = k}}
  BY DEF TextsIn
<1> HIDE DEF A, B, n
<1>7. /\ a \in Seq(Bytes(n))
      /\ \A r : (\E i \in DOMAIN a : a[i] = r) <=> \E m \in A : m.kind = k /\ r = <<m.from, m.to>>
  BY <1>1, <1>2, <1>3, <1>4, RangesOfNodes
<1>8. /\ b \in Seq(Bytes(n))
      /\ \A r : (\E i \in DOMAIN b : b[i] = r) <=> \E m \in B : m.kind = k /\ r = <<m.from, m.to>>
  BY <1>1, <1>2, <1>3, <1>4, RangesOfNodes
<1> HIDE DEF a, b
<1> DEFINE c == a \o b
<1>9. /\ c \in Seq(Bytes(n)) /\ DOMAIN c = 1 .. Len(a) + Len(b)
      /\ DOMAIN a = 1 .. Len(a) /\ DOMAIN b = 1 .. Len(b) /\ Len(a) \in Nat /\ Len(b) \in Nat
      /\ \A i \in 1 .. Len(a) + Len(b) : c[i] = IF i <= Len(a) THEN a[i] ELSE b[i - Len(a)]
  BY <1>7, <1>8, ConcatProperties, LenProperties
<1> HIDE DEF c
<1>10. ASSUME NEW r
       PROVE  (\E i \in DOMAIN c : c[i] = r) <=> \E m \in A \cup B : m.kind = k /\ r = <<m.from, m.to>>
  <2>1. ASSUME NEW i \in DOMAIN c  PROVE \/ \E j \in DOMAIN a : a[j] = c[i]
                                         \/ \E j \in DOMAIN b : b[j] = c[i]
    <3>1. CASE i <= Len(a)  BY <1>9, <3>1
    <3>2. CASE ~(i <= Len(a))
      <4>1. PICK j \in 1 .. Len(b) : j = i - Len(a)  BY <1>9, <3>2
      <4> QED  BY <1>9, <3>2, <4>1
    <3> QED  BY <3>1, <3>2
  <2>2. ASSUME NEW j \in DOMAIN a  PROVE \E i \in DOMAIN c : c[i] = a[j]
    <3>1. j \in 1 .. Len(a) + Len(b) /\ j <= Len(a)  BY <1>9
    <3> QED  BY <1>9, <3>1
  <2>3. ASSUME NEW j \in DOMAIN b  PROVE \E i \in DOMAIN c : c[i] = b[j]
    <3> DEFINE i == j + Len(a)
    <3>1. Len(a) \in Nat /\ Len(b) \in Nat /\ j \in 1 .. Len(b)  BY <1>9
    <3>2. i \in 1 .. Len(a) + Len(b) /\ ~(i <= Len(a)) /\ i - Len(a) = j  BY <3>1
    <3> HIDE DEF i
    <3> QED  BY <1>9, <3>2
  <2> QED  BY <1>7, <1>8, <2>1, <2>2, <2>3
<1>11. Denoted(src.text, c) = TextsIn(src, k)
  <2>1. \A x : x \in Denoted(src.text, c) <=> \E r : (\E i \in DOMAIN c : c[i] = r) /\ x = Slice(src.text, r)
    BY DEF Denoted
  <2>2. \A x : x \in TextsIn(src, k) <=> \E m \in A \cup B : m.kind = k /\ x = Slice(src.text, <<m.from, m.to>>)
    BY <1>6
  <2> QED  BY <1>10, <2>1, <2>2
<1>12. k \in DOMAIN Extract(src) => \E m \in src.nodes : m.kind = k  BY <1>3, <1>5
<1>13. k \notin DOMAIN Extract(src) => TextsIn(src, k) = {}  BY <1>5, <1>6
<1> QED  BY <1>5, <1>9, <1>11, <1>12, <1>13 DEF c, n

LEMMA SliceKept ==
  ASSUME NEW s \in Seq(Nat), NEW t \in Seq(Nat), NEW r \in Bytes(Len(s))
  PROVE  r \in Bytes(Len(s \o t)) /\ Slice(s \o t, r) = Slice(s, r)
<1> DEFINE st == s \o t
<1>1. /\ st \in Seq(Nat) /\ Len(st) = Len(s) + Len(t) /\ Len(s) \in Nat /\ Len(t) \in Nat
      /\ \A i \in 1 .. Len(s) + Len(t) : st[i] = IF i <= Len(s) THEN s[i] ELSE t[i - Len(s)]
  BY ConcatProperties, LenProperties
<1>2. r[1] \in Nat /\ r[2] \in Nat /\ r[1] <= r[2] /\ r[2] <= Len(s)  BY DEF Bytes
<1> HIDE DEF st
<1>3. r \in Bytes(Len(st))  BY <1>1, <1>2 DEF Bytes
<1> DEFINE a == Slice(st, r)
           b == Slice(s, r)
           n == r[2] - r[1]
<1>4. /\ a \in Seq(Nat) /\ Len(a) = n /\ \A i \in 1 .. n : a[i] = st[r[1] + i]
      /\ b \in Seq(Nat) /\ Len(b) = n /\ \A i \in 1 .. n : b[i] = s[r[1] + i]
  BY <1>1, <1>3, SliceText
<1> HIDE DEF a, b
<1>5. ASSUME NEW i \in 1 .. n  PROVE a[i] = b[i]
  <2>0. /\ i \in Nat /\ i >= 1 /\ i <= r[2] - r[1]  BY <1>2
  <2>1. PICK k \in Nat : k = r[1] + i  BY <1>2, <2>0
  <2>2. k \in 1 .. Len(s) + Len(t) /\ k <= Len(s)
    <3>1. Len(s) \in Nat /\ Len(t) \in Nat  BY <1>1
    <3>2. k <= r[2] /\ k >= 1  BY <1>2, <2>0, <2>1
    <3> QED  BY <1>2, <2>1, <3>1, <3>2
  <2> QED  BY <1>1, <1>4, <2>1, <2>2
<1> HIDE DEF n
<1>6. a = b  BY <1>4, <1>5, SeqEqual
<1> QED  BY <1>3, <1>6 DEF a, b, st

LEMMA SliceMoved ==
  ASSUME NEW s \in Seq(Nat), NEW t \in Seq(Nat), NEW r \in Bytes(Len(t)),
         NEW m, m = <<r[1] + Len(s), r[2] + Len(s)>>
  PROVE  m \in Bytes(Len(s \o t)) /\ Slice(s \o t, m) = Slice(t, r)
<1> DEFINE st == s \o t
<1>1. /\ st \in Seq(Nat) /\ Len(st) = Len(s) + Len(t) /\ Len(s) \in Nat /\ Len(t) \in Nat
      /\ \A i \in 1 .. Len(s) + Len(t) : st[i] = IF i <= Len(s) THEN s[i] ELSE t[i - Len(s)]
  BY ConcatProperties, LenProperties
<1>2. r[1] \in Nat /\ r[2] \in Nat /\ r[1] <= r[2] /\ r[2] <= Len(t)  BY DEF Bytes
<1> HIDE DEF st
<1>3. /\ m[1] = r[1] + Len(s) /\ m[2] = r[2] + Len(s) /\ m[1] \in Nat /\ m[2] \in Nat
      /\ m \in Nat \X Nat
  BY <1>1, <1>2
<1>4. m \in Bytes(Len(st)) /\ m[2] - m[1] = r[2] - r[1]  BY <1>1, <1>2, <1>3 DEF Bytes
<1> DEFINE a == Slice(st, m)
           b == Slice(t, r)
           n == r[2] - r[1]
<1>5. /\ a \in Seq(Nat) /\ Len(a) = n /\ \A i \in 1 .. n : a[i] = st[m[1] + i]
      /\ b \in Seq(Nat) /\ Len(b) = n /\ \A i \in 1 .. n : b[i] = t[r[1] + i]
  BY <1>1, <1>4, SliceText
<1> HIDE DEF a, b
<1>6. ASSUME NEW i \in 1 .. n  PROVE a[i] = b[i]
  <2>0. /\ i \in Nat /\ i >= 1 /\ i <= r[2] - r[1]  BY <1>2
  <2>1. PICK p \in Nat, l \in Nat, u \in Nat : p = r[1] /\ l = Len(s) /\ u = Len(t)
    BY <1>1, <1>2
  <2>2. PICK k \in Nat : k = m[1] + i  BY <1>3, <2>0
  <2>3. m[1] = p + l /\ i <= u - p
    <3>1. r[2] \in Nat /\ r[2] <= u /\ i <= r[2] - p  BY <1>2, <2>0, <2>1
    <3> QED  BY <1>3, <2>0, <2>1, <3>1
  <2>4. k = (p + l) + i  BY <2>2, <2>3
  <2>5. k \in 1 .. l + u /\ ~(k <= l) /\ k - l = p + i  BY <2>0, <2>3, <2>4
  <2>6. st[k] = t[k - l]  BY <1>1, <2>1, <2>5
  <2>7. a[i] = st[k] /\ b[i] = t[p + i]  BY <1>5, <2>1, <2>2
  <2> QED  BY <2>5, <2>6, <2>7
<1> HIDE DEF n
<1>7. a = b  BY <1>5, <1>6, SeqEqual
<1> QED  BY <1>4, <1>7 DEF a, b, st

LEMMA Joined ==
  ASSUME NEW s \in Seq(Nat), NEW t \in Seq(Nat),
         NEW a \in Seq(Bytes(Len(s))), NEW b \in Seq(Bytes(Len(t)))
  PROVE  LET c == a \o Move(b, Len(s)) IN
         c \in Seq(Bytes(Len(s \o t))) /\ Denoted(s \o t, c) = Denoted(s, a) \cup Denoted(t, b)
<1> DEFINE st == s \o t
           B  == Bytes(Len(st))
           m  == Move(b, Len(s))
           c  == a \o m
<1>1. /\ Len(a) \in Nat /\ DOMAIN a = 1 .. Len(a) /\ \A i \in 1 .. Len(a) : a[i] \in Bytes(Len(s))
      /\ Len(b) \in Nat /\ DOMAIN b = 1 .. Len(b) /\ \A i \in 1 .. Len(b) : b[i] \in Bytes(Len(t))
  BY LenProperties, ElementOfSeq
<1>2. m = [i \in 1 .. Len(b) |-> <<b[i][1] + Len(s), b[i][2] + Len(s)>>]  BY <1>1 DEF Move
<1>3. \A i \in 1 .. Len(a) : a[i] \in B /\ Slice(st, a[i]) = Slice(s, a[i])
  BY <1>1, SliceKept
<1>4. \A i \in 1 .. Len(b) : m[i] \in B /\ Slice(st, m[i]) = Slice(t, b[i])
  <2> SUFFICES ASSUME NEW i \in 1 .. Len(b) PROVE m[i] \in B /\ Slice(st, m[i]) = Slice(t, b[i])
    OBVIOUS
  <2>1. b[i] \in Bytes(Len(t)) /\ m[i] = <<b[i][1] + Len(s), b[i][2] + Len(s)>>  BY <1>1, <1>2
  <2> HIDE DEF m
  <2> QED  BY <2>1, SliceMoved
<1> HIDE DEF st, m, B
<1>5. a \in Seq(B) /\ m \in Seq(B) /\ Len(m) = Len(b)
  <2>1. m \in Seq(B) /\ Len(m) = Len(b)
    <3>1. m = [i \in 1 .. Len(b) |-> m[i]]  BY <1>2
    <3>2. [i \in 1 .. Len(b) |-> m[i]] \in Seq(B)  BY <1>1, <1>4
    <3>3. Len([i \in 1 .. Len(b) |-> m[i]]) = Len(b)  BY <1>1
    <3> QED  BY <3>1, <3>2, <3>3
  <2>2. a \in Seq(B)
    <3>1. a = [i \in 1 .. Len(a) |-> a[i]]  BY <1>1
    <3>2. [i \in 1 .. Len(a) |-> a[i]] \in Seq(B)  BY <1>1, <1>3
    <3> QED  BY <3>1, <3>2
  <2> QED  BY <2>1, <2>2
<1>6. /\ c \in Seq(B) /\ DOMAIN c = 1 .. Len(a) + Len(b)
      /\ \A i \in 1 .. Len(a) + Len(b) : c[i] = IF i <= Len(a) THEN a[i] ELSE m[i - Len(a)]
  <2>1. /\ c \in Seq(B) /\ Len(c) = Len(a) + Len(m)
        /\ \A i \in 1 .. Len(a) + Len(m) : c[i] = IF i <= Len(a) THEN a[i] ELSE m[i - Len(a)]
    BY <1>5, ConcatProperties
  <2> QED  BY <1>5, <2>1, LenProperties
<1> HIDE DEF c
<1>7. \A x : x \in Denoted(st, c) <=> \E i \in DOMAIN c : x = Slice(st, c[i])  BY DEF Denoted
<1>8. \A x : x \in Denoted(s, a) <=> \E i \in 1 .. Len(a) : x = Slice(s, a[i])  BY <1>1 DEF Denoted
<1>9. \A x : x \in Denoted(t, b) <=> \E i \in 1 .. Len(b) : x = Slice(t, b[i])  BY <1>1 DEF Denoted
<1>10. ASSUME NEW x \in Denoted(st, c)  PROVE x \in Denoted(s, a) \cup Denoted(t, b)
  <2>1. PICK i \in 1 .. Len(a) + Len(b) : x = Slice(st, c[i])  BY <1>6, <1>7
  <2>2. CASE i <= Len(a)
    <3>1. i \in 1 .. Len(a) /\ c[i] = a[i]  BY <1>1, <1>6, <2>2
    <3> QED  BY <1>3, <1>8, <2>1, <3>1
  <2>3. CASE ~(i <= Len(a))
    <3>0. Len(a) \in Nat /\ Len(b) \in Nat  BY <1>1
    <3> DEFINE j == i - Len(a)
    <3>1. j \in Int /\ j = i - Len(a)  BY <3>0
    <3> HIDE DEF j
    <3>2. j \in 1 .. Len(b)  BY <2>3, <3>0, <3>1
    <3>3. c[i] = m[j]  BY <1>6, <2>3, <3>1
    <3> QED  BY <1>4, <1>9, <2>1, <3>2, <3>3
  <2> QED  BY <2>2, <2>3
<1>11. ASSUME NEW x \in Denoted(s, a)  PROVE x \in Denoted(st, c)
  <2>1. PICK i \in 1 .. Len(a) : x = Slice(s, a[i])  BY <1>8
  <2>2. i \in 1 .. Len(a) + Len(b) /\ i <= Len(a)  BY <1>1
  <2> QED  BY <1>3, <1>6, <1>7, <2>1, <2>2
<1>12. ASSUME NEW x \in Denoted(t, b)  PROVE x \in Denoted(st, c)
  <2>1. PICK j \in 1 .. Len(b) : x = Slice(t, b[j])  BY <1>9
  <2>0. Len(a) \in Nat /\ Len(b) \in Nat  BY <1>1
  <2>2. PICK i \in Nat : i = j + Len(a)  BY <2>0
  <2>3. i \in 1 .. Len(a) + Len(b) /\ ~(i <= Len(a)) /\ i - Len(a) = j  BY <2>0, <2>2
  <2>4. c[i] = m[j]  BY <1>6, <2>3
  <2> QED  BY <1>4, <1>6, <1>7, <2>1, <2>3, <2>4
<1>13. Denoted(st, c) = Denoted(s, a) \cup Denoted(t, b)  BY <1>10, <1>11, <1>12
<1> QED  BY <1>6, <1>13 DEF c, m, st, B

-----------------------------------------------------------------------------
(* The steps of mining.                                                    *)

LEMMA ParseKeeps ==
  ASSUME FInv, NEW f \in File, Parse(f) \/ ParseFails(f)
  PROVE  FInv'
<1> USE DEF FInv
<1>1. /\ mpc = "parsing" /\ mpc' \in {"parsing", "failed"} /\ merged = 0
      /\ result' \in [File -> {Pending, Skipped, Extracted}]
      /\ UNCHANGED <<files, merged, code, fragments, unsorted>>
  BY DEF Parse, ParseFails, FTypeOK, Joining
<1>2. FTypeOK'  BY <1>1 DEF FTypeOK
<1>3. \A k : Counted(k) = {} /\ Counted(k)' = {}
  <2>1. \A g \in File : ~(g <= 0)  BY DEF File
  <2> QED  BY <1>1, <2>1 DEF Counted
<1>4. Joining'
  <2>1. \A k : Ranges(k)' = Ranges(k)  BY <1>1 DEF Ranges
  <2>2. \A k \in Kind : Denoted(code, Ranges(k))' = Counted(k)'
    BY <1>1, <1>3, <2>1 DEF Joining, Denoted
  <2> QED  BY <1>1, <2>2 DEF Joining
<1>5. Once'  BY <1>1 DEF Once
<1> QED  BY <1>1, <1>2, <1>4, <1>5

(* One file more: its text is appended, and its ranges are moved there.    *)
LEMMA MergeKeeps ==
  ASSUME FInv, Merge
  PROVE  FInv'
<1> USE DEF FInv
<1>1. /\ mpc = "merging" /\ merged < FileCount /\ merged' = merged + 1
      /\ merged \in Nat /\ merged + 1 \in File /\ FileCount \in Nat
      /\ UNCHANGED <<mpc, files, result, unsorted>>
      /\ \A f \in File : result[f] # Pending
  BY FragmentsAssumption DEF Merge, FTypeOK, Joining, File, FragmentsAssumption
<1> DEFINE m == merged + 1
           src == files[m]
<1>2. src \in Source /\ src.text \in Seq(Nat)
  BY <1>1, FragmentsAssumption DEF FTypeOK, FragmentsAssumption
<1>3. ASSUME NEW k  PROVE Counted(k)' = IF result[m] = Extracted THEN Counted(k) \cup TextsIn(src, k)
                                                                ELSE Counted(k)
  <2>1. \A g \in File : g <= merged + 1 <=> (g <= merged \/ g = m)  BY <1>1 DEF File
  <2> QED  BY <1>1, <2>1 DEF Counted
<1>4. CASE result[m] = Skipped
  <2>1. UNCHANGED <<code, fragments>>  BY <1>1, <1>4 DEF Merge
  <2>2. result[m] # Extracted  BY <1>4 DEF Skipped, Extracted
  <2>3. FTypeOK'  BY <1>1, <2>1 DEF FTypeOK, File
  <2>4. \A k : Ranges(k)' = Ranges(k)  BY <2>1 DEF Ranges
  <2>5. \A k \in Kind : Denoted(code, Ranges(k))' = Counted(k)'
    BY <1>3, <2>1, <2>2, <2>4 DEF Joining, Denoted
  <2>6. Joining'  BY <1>1, <2>5 DEF Joining
  <2>7. Once'  BY <1>1 DEF Once
  <2> QED  BY <1>1, <2>3, <2>6, <2>7
<1>5. CASE result[m] # Skipped
  <2>1. result[m] = Extracted
    <3>1. result[m] \in {Pending, Skipped, Extracted} /\ result[m] # Pending  BY <1>1 DEF FTypeOK
    <3> QED  BY <1>5, <3>1
  <2> DEFINE found == Extract(src)
             new(k) == IF k \in DOMAIN found THEN Move(found[k], Len(code)) ELSE <<>>
             D      == DOMAIN fragments \cup DOMAIN found
  <2>2. /\ code' = code \o src.text
        /\ fragments' = [k \in D |-> Ranges(k) \o new(k)]
    BY <1>1, <1>5 DEF Merge, Ranges
  <2>3. code \in Seq(Nat) /\ code' \in Seq(Nat)  BY <1>2, <2>2, ConcatProperties DEF FTypeOK
  <2>4. DOMAIN found \subseteq Kind
    <3>1. \A k \in DOMAIN found : \E n \in src.nodes : n.kind = k  BY <1>2, Extracts
    <3> HIDE DEF found
    <3> QED  BY <1>2, <3>1 DEF Kind
  <2>5. ASSUME NEW k
        PROVE  /\ Ranges(k) \o new(k) \in Seq(Bytes(Len(code')))
               /\ Denoted(code', Ranges(k) \o new(k)) = Denoted(code, Ranges(k)) \cup TextsIn(src, k)
    <3> DEFINE b == IF k \in DOMAIN found THEN found[k] ELSE <<>>
    <3>1. Ranges(k) \in Seq(Bytes(Len(code)))  BY EmptySeq DEF Ranges, FTypeOK
    <3>2. b \in Seq(Bytes(Len(src.text))) /\ Denoted(src.text, b) = TextsIn(src, k)
      <4>1. CASE k \in DOMAIN found  BY <1>2, <4>1, Extracts
      <4>2. CASE k \notin DOMAIN found
        <5>1. b = <<>> /\ TextsIn(src, k) = {}  BY <1>2, <4>2, Extracts
        <5>2. Denoted(src.text, <<>>) = {}  BY DEF Denoted
        <5> QED  BY <5>1, <5>2, EmptySeq
      <4> QED  BY <4>1, <4>2
    <3>3. new(k) = Move(b, Len(code))
      <4>1. Move(<<>>, Len(code)) = <<>>  BY DEF Move
      <4> QED  BY <4>1
    <3> HIDE DEF b, new
    <3> DEFINE a == Ranges(k)
               t == src.text
               c == a \o Move(b, Len(code))
    <3>4. t \in Seq(Nat) /\ a \in Seq(Bytes(Len(code))) /\ b \in Seq(Bytes(Len(t)))
      BY <1>2, <3>1, <3>2
    <3>5. code' = code \o t /\ Ranges(k) \o new(k) = c  BY <2>2, <3>3
    <3> HIDE DEF a, t
    <3>6. c \in Seq(Bytes(Len(code \o t))) /\ Denoted(code \o t, c) = Denoted(code, a) \cup Denoted(t, b)
      BY <2>3, <3>4, Joined
    <3> QED  BY <3>2, <3>5, <3>6 DEF a, t
  <2> HIDE DEF new, found
  <2>6. \A k : Ranges(k)' = Ranges(k) \o new(k)
    <3> SUFFICES ASSUME NEW k PROVE Ranges(k)' = Ranges(k) \o new(k)  OBVIOUS
    <3>1. CASE k \in D  BY <2>2, <3>1 DEF Ranges
    <3>2. CASE k \notin D
      <4>1. Ranges(k) = <<>> /\ new(k) = <<>>  BY <3>2 DEF Ranges, new
      <4>2. Ranges(k)' = <<>>  BY <2>2, <3>2 DEF Ranges
      <4> QED  BY <4>1, <4>2
    <3> QED  BY <3>1, <3>2
  <2>7. FTypeOK'
    <3>1. /\ DOMAIN fragments' = D /\ D \subseteq Kind
          /\ fragments' \in [D -> Seq(Bytes(Len(code')))]
      BY <2>2, <2>4, <2>5 DEF FTypeOK
    <3>2. merged' \in 0 .. FileCount /\ unsorted' \subseteq D  BY <1>1 DEF FTypeOK
    <3> QED  BY <1>1, <2>3, <3>1, <3>2 DEF FTypeOK
  <2>8. \A k \in Kind : Denoted(code', Ranges(k)') = Counted(k)'
    BY <1>3, <2>1, <2>5, <2>6 DEF Joining
  <2>9. Joining'
    <3>1. \A k \in Kind : Denoted(code, Ranges(k))' = Counted(k)'  BY <2>8 DEF Denoted
    <3> QED  BY <1>1, <3>1 DEF Joining
  <2>10. Once'  BY <1>1 DEF Once
  <2> QED  BY <1>1, <2>7, <2>9, <2>10
<1> QED  BY <1>4, <1>5

(* A kind is sorted and deduplicated: the same texts, each of them once.   *)
LEMMA DeduplicateKeeps ==
  ASSUME FInv, NEW k \in unsorted, Deduplicate(k)
  PROVE  FInv'
<1> USE DEF FInv
<1> DEFINE rs == fragments[k]
           ds == Dedup(Sorted(rs))
<1>1. /\ mpc = "dedup" /\ k \in DOMAIN fragments /\ code \in Seq(Nat)
      /\ rs \in Seq(Bytes(Len(code)))
      /\ fragments' = [fragments EXCEPT ![k] = ds] /\ unsorted' = unsorted \ {k}
      /\ UNCHANGED <<mpc, files, result, merged, code>>
  BY DEF Deduplicate, FTypeOK
<1>2. /\ ds \in Seq(Bytes(Len(code))) /\ Denoted(code, ds) = Denoted(code, rs)
      /\ \A i, j \in DOMAIN ds : Slice(code, ds[i]) = Slice(code, ds[j]) => i = j
  <2> HIDE DEF rs
  <2>1. /\ Sorted(rs) \in Seq(Bytes(Len(code)))
        /\ Denoted(code, Sorted(rs)) = Denoted(code, rs) /\ Grouped(Sorted(rs))
    BY <1>1, SortedGroups
  <2> QED  BY <1>1, <2>1, DedupKeepsOne
<1> HIDE DEF ds
<1>3. FTypeOK'  BY <1>1, <1>2 DEF FTypeOK
<1>4. \A l : Denoted(code', Ranges(l)') = Denoted(code, Ranges(l))
  <2> SUFFICES ASSUME NEW l PROVE Denoted(code', Ranges(l)') = Denoted(code, Ranges(l))  OBVIOUS
  <2>1. DOMAIN fragments' = DOMAIN fragments  BY <1>1
  <2>2. CASE l = k
    <3>1. Ranges(l)' = ds /\ Ranges(l) = rs  BY <1>1, <2>1, <2>2 DEF Ranges, FTypeOK
    <3> QED  BY <1>1, <1>2, <3>1
  <2>3. CASE l # k
    <3>1. Ranges(l)' = Ranges(l)  BY <1>1, <2>1, <2>3 DEF Ranges, FTypeOK
    <3> QED  BY <1>1, <3>1
  <2> QED  BY <2>2, <2>3
<1>5. Joining'
  <2>1. \A l : Counted(l)' = Counted(l)  BY <1>1 DEF Counted
  <2>2. \A l \in Kind : Denoted(code, Ranges(l))' = Counted(l)'
    BY <1>4, <2>1 DEF Joining, Denoted
  <2> QED  BY <1>1, <2>2 DEF Joining
<1>6. Once'
  <2> SUFFICES ASSUME NEW l \in DOMAIN fragments' \ unsorted',
                      NEW i \in DOMAIN fragments'[l], NEW j \in DOMAIN fragments'[l],
                      Slice(code', fragments'[l][i]) = Slice(code', fragments'[l][j])
               PROVE  i = j
    BY DEF Once
  <2>1. DOMAIN fragments' = DOMAIN fragments  BY <1>1
  <2>2. CASE l = k
    <3>1. fragments'[l] = ds  BY <1>1, <2>2 DEF FTypeOK
    <3> QED  BY <1>1, <1>2, <3>1
  <2>3. CASE l # k
    <3>1. l \in DOMAIN fragments \ unsorted /\ fragments'[l] = fragments[l]
      BY <1>1, <2>1, <2>3 DEF FTypeOK
    <3> QED  BY <1>1, <3>1 DEF Once
  <2> QED  BY <2>2, <2>3
<1> QED  BY <1>1, <1>3, <1>5, <1>6

LEMMA PhaseKeeps ==
  ASSUME FInv, ParsingDone \/ MergingDone \/ WriteOutput
  PROVE  FInv'
<1> USE DEF FInv
<1>1. /\ UNCHANGED <<files, result, merged, code, fragments>>
      /\ \/ /\ mpc = "parsing" /\ mpc' = "merging" /\ unsorted' = unsorted
            /\ \A f \in File : result[f] # Pending
         \/ mpc = "merging" /\ mpc' = "dedup" /\ merged = FileCount /\ unsorted' = DOMAIN fragments
         \/ mpc = "dedup" /\ mpc' \in {"done", "failed"} /\ unsorted = {} /\ unsorted' = {}
  BY DEF ParsingDone, MergingDone, WriteOutput
<1>2. FTypeOK'  BY <1>1 DEF FTypeOK
<1>3. Joining'
  <2>1. \A k : Ranges(k)' = Ranges(k) /\ Counted(k)' = Counted(k)  BY <1>1 DEF Ranges, Counted
  <2>2. \A k \in Kind : Denoted(code, Ranges(k))' = Counted(k)'
    BY <1>1, <2>1 DEF Joining, Denoted
  <2> QED  BY <1>1, <2>2 DEF Joining
<1>4. Once'  BY <1>1 DEF Once
<1> QED  BY <1>1, <1>2, <1>3, <1>4

LEMMA InitFInv == Init => FInv
<1> SUFFICES ASSUME Init PROVE FInv  OBVIOUS
<1>1. /\ mpc = "parsing" /\ files \in [File -> Source] /\ result = [f \in File |-> Pending]
      /\ merged = 0 /\ code = <<>> /\ fragments = <<>> /\ unsorted = {}
  BY DEF Init
<1>2. FTypeOK
  <2>1. merged \in 0 .. FileCount  BY <1>1, FragmentsAssumption DEF FragmentsAssumption
  <2>2. DOMAIN fragments = {} /\ fragments \in [DOMAIN fragments -> Seq(Bytes(Len(code)))]
    BY <1>1
  <2> QED  BY <1>1, <2>1, <2>2 DEF FTypeOK
<1>3. Joining
  <2>1. \A f \in File : ~(f <= 0)  BY DEF File
  <2>2. \A k : Counted(k) = {}  BY <1>1, <2>1 DEF Counted
  <2>3. \A k : Denoted(code, Ranges(k)) = {}  BY <1>1 DEF Denoted, Ranges
  <2> QED  BY <1>1, <2>2, <2>3 DEF Joining
<1>4. Once  BY <1>1 DEF Once
<1> QED  BY <1>1, <1>2, <1>3, <1>4 DEF FInv

LEMMA NextFInv == FInv /\ [Next]_vars => FInv'
<1> SUFFICES ASSUME FInv, [Next]_vars PROVE FInv'  OBVIOUS
<1>1. CASE UNCHANGED vars
  <2>1. UNCHANGED <<mpc, files, result, merged, code, fragments, unsorted>>  BY <1>1 DEF vars
  <2>2. \A k : Ranges(k)' = Ranges(k) /\ Counted(k)' = Counted(k)  BY <2>1 DEF Ranges, Counted
  <2>3. Joining'
    <3>1. \A k \in Kind : Denoted(code, Ranges(k))' = Counted(k)'
      BY <2>1, <2>2 DEF FInv, Joining, Denoted
    <3> QED  BY <2>1, <3>1 DEF FInv, Joining
  <2>4. FTypeOK'  BY <2>1 DEF FInv, FTypeOK
  <2>5. Once'  BY <2>1 DEF FInv, Once
  <2> QED  BY <2>1, <2>3, <2>4, <2>5 DEF FInv
<1>2. CASE Ended  BY <1>1, <1>2 DEF Ended
<1> QED  BY <1>1, <1>2, ParseKeeps, MergeKeeps, DeduplicateKeeps, PhaseKeeps DEF Next

-----------------------------------------------------------------------------
(* What mining leaves is what the files had: generation changes nothing of *)
(* it.                                                                     *)

LEMMA GenerationMines ==
  [GNext]_<<vars, generation>> => [Next]_vars
<1> SUFFICES ASSUME [GNext]_<<vars, generation>> PROVE [Next]_vars  OBVIOUS
<1> HIDE DEF vars, Next
<1>1. CASE UNCHANGED <<vars, generation>>  BY <1>1
<1>2. CASE Next  BY <1>2
<1>3. CASE GenerateSeed  BY <1>3 DEF GenerateSeed, Begin
<1>4. CASE ExpandGrammar  BY <1>4 DEF ExpandGrammar, Begin
<1>5. CASE MismatchedNode  BY <1>5 DEF MismatchedNode, Begin
<1>6. CASE GenerateSteered  BY <1>6 DEF GenerateSteered, Begin
<1>7. CASE ChooseFromDerivations  BY <1>7 DEF ChooseFromDerivations
<1>8. CASE Derive
  BY <1>8 DEF Derive, DeriveNonTerminal, DeriveTerminal, DeriveImmediate, Derived
<1>9. CASE Handled  BY <1>9 DEF Handled
<1> QED  BY <1>1, <1>2, <1>3, <1>4, <1>5, <1>6, <1>7, <1>8, <1>9 DEF GNext

LEMMA FragmentsAreTexts ==
  ASSUME FInv, mpc = "done"
  PROVE  \A k : FragmentsOf(k) = TextsOf(k)
<1> SUFFICES ASSUME NEW k PROVE FragmentsOf(k) = TextsOf(k)  OBVIOUS
<1>1. FragmentsOf(k) = Denoted(code, Ranges(k))  BY DEF FragmentsOf, Texts, Range, Denoted
<1>2. CASE k \in Kind
  <2>1. merged = FileCount /\ FileCount \in Nat
    BY FragmentsAssumption DEF FragmentsAssumption, FInv, Joining
  <2>2. \A g \in File : g <= merged  BY <2>1 DEF File
  <2>3. Counted(k) = TextsOf(k)  BY <2>2 DEF Counted, TextsOf
  <2> QED  BY <1>1, <1>2, <2>3 DEF FInv, Joining
<1>3. CASE k \notin Kind
  <2>1. Denoted(code, Ranges(k)) = {}  BY <1>3 DEF FInv, FTypeOK, Ranges, Denoted
  <2>2. ASSUME NEW f \in File  PROVE TextsIn(files[f], k) = {}
    <3>1. files[f] \in Source  BY DEF FInv, FTypeOK
    <3>2. \A n \in FromTree(files[f]) \cup FromGraph(files[f]) : n \in files[f].nodes
      BY DEF FromTree, FromGraph
    <3>3. \A n \in FromTree(files[f]) \cup FromGraph(files[f]) : n.kind # k
      BY <1>3, <3>1, <3>2 DEF Kind
    <3> QED  BY <3>3 DEF TextsIn
  <2>3. TextsOf(k) = {}  BY <2>2 DEF TextsOf
  <2> QED  BY <1>1, <2>1, <2>3
<1> QED  BY <1>2, <1>3

LEMMA FInvMines == FInv => MinedFaithfully
<1> SUFFICES ASSUME FInv, mpc = "done", NEW k
             PROVE  Range(Texts(k)) = TextsOf(k) /\ IsInjective(Texts(k))
  BY DEF MinedFaithfully
<1>1. Range(Texts(k)) = TextsOf(k)  BY FragmentsAreTexts DEF FragmentsOf
<1>2. IsInjective(Texts(k))
  <2> SUFFICES ASSUME NEW i \in DOMAIN Ranges(k), NEW j \in DOMAIN Ranges(k),
                      Slice(code, Ranges(k)[i]) = Slice(code, Ranges(k)[j])
               PROVE  i = j
    BY DEF IsInjective, Texts
  <2>1. CASE k \in DOMAIN fragments  BY <2>1 DEF FInv, Once, Ranges
  <2>2. CASE k \notin DOMAIN fragments  BY <2>2 DEF Ranges
  <2> QED  BY <2>1, <2>2
<1> QED  BY <1>1, <1>2

(* In every state of a campaign's generation the ranges kept are ranges of *)
(* the joined text, denote what the files merged so far hold of each kind, *)
(* and are distinct texts once deduplicated (MineCodeFragments::run).      *)
THEOREM MiningInvariant == GSpec => []FInv
<1>1. GInit => FInv  BY InitFInv DEF GInit
<1>2. FInv /\ [GNext]_<<vars, generation>> => FInv'  BY GenerationMines, NextFInv
<1> QED  BY <1>1, <1>2, PTL DEF GSpec

(* What is mined is, for each kind, the texts its nodes had in their own   *)
(* files, each once, in whatever order files are parsed and kinds sorted   *)
(* (MineCodeFragments::run, extract_derivation_fragments).                 *)
THEOREM MinedFaithfullyHolds == GSpec => []MinedFaithfully
BY MiningInvariant, FInvMines, PTL

-----------------------------------------------------------------------------
(* The steer.  The bound a weight is measured from is the most used rule's *)
(* count, or one.                                                          *)

LEMMA WeightBound ==
  ASSUME NEW N \in Nat, NEW stats \in [1 .. N -> Nat]
  PROVE  \E b \in Nat :
           /\ b >= 1 /\ \A j \in 1 .. N : b >= stats[j]
           /\ b = 1 \/ \E j \in 1 .. N : b = stats[j]
           /\ \A i : Weight(stats, i) = b - stats[i]
<1> DEFINE B    == {1} \cup {stats[j] : j \in DOMAIN stats}
           Q(b, n) == b >= 1 /\ \A j \in 1 .. n : b >= stats[j]
           P    == {n \in 0 .. N : \E b \in B : Q(b, n)}
<1>0. /\ \A b \in B : b \in Nat /\ (b = 1 \/ \E j \in 1 .. N : b = stats[j])
      /\ 1 \in B /\ \A j \in 1 .. N : stats[j] \in B
  OBVIOUS
<1> HIDE DEF B
<1>1. 0 \in P
  <2>1. Q(1, 0) /\ 0 \in 0 .. N  OBVIOUS
  <2> HIDE DEF Q
  <2> QED  BY <1>0, <2>1
<1>2. ASSUME NEW n \in 1 .. N, n - 1 \in P  PROVE n \in P
  <2>1. PICK b \in B : Q(b, n - 1)  BY <1>2
  <2>2. b \in Nat /\ stats[n] \in Nat /\ n \in Nat /\ n \in 0 .. N  BY <1>0
  <2>3. \A j \in 1 .. n : j = n \/ j \in 1 .. n - 1  BY <2>2
  <2>4. \A j \in 1 .. n : j \in 1 .. N /\ stats[j] \in Nat  BY <2>2
  <2>5. CASE b >= stats[n]
    <3>1. Q(b, n)  BY <2>1, <2>3, <2>5
    <3> HIDE DEF Q
    <3> QED  BY <2>2, <3>1
  <2>6. CASE ~(b >= stats[n])
    <3>1. Q(stats[n], n)  BY <2>1, <2>2, <2>3, <2>4, <2>6
    <3> HIDE DEF Q
    <3> QED  BY <1>0, <2>2, <3>1
  <2> QED  BY <2>5, <2>6
<1> HIDE DEF P
<1>3. \A n \in 0 .. N : n \in P
  <2>1. \A n \in 1 .. N : n - 1 \in P => n \in P  BY <1>2
  <2> QED  BY <1>1, <2>1, UpTo
<1>4. \E b \in B : Q(b, N)
  <2>1. N \in P  BY <1>3
  <2> QED  BY <2>1 DEF P
<1> DEFINE M(b) == \A j \in DOMAIN stats : b >= stats[j] /\ b >= 1
           c    == CHOOSE b \in B : M(b)
<1>5. DOMAIN stats = 1 .. N  OBVIOUS
<1>6. \E b \in B : M(b)  BY <1>4, <1>5
<1>7. c \in B /\ M(c)
  <2> HIDE DEF M
  <2> QED  BY <1>6
<1>8. \A i : Weight(stats, i) = c - stats[i]  BY DEF Weight, B
<1> HIDE DEF c
<1>9. c \in Nat /\ (c = 1 \/ \E j \in 1 .. N : c = stats[j])  BY <1>0, <1>7
<1>10. c >= 1
  <2>1. ASSUME NEW j \in 1 .. N, c = stats[j]  PROVE c >= 1  BY <1>5, <1>7
  <2> QED  BY <1>9, <2>1
<1> QED  BY <1>5, <1>7, <1>8, <1>9, <1>10

(* A rule that can be selected has not been used more than any other.      *)
Fair(N, stats) ==
  stats \in [1 .. N -> Nat] /\ \A i, j \in 1 .. N : stats[i] <= stats[j] + 1

LEMMA LikelyKeeps ==
  ASSUME NEW N \in Nat, NEW stats, Fair(N, stats),
         NEW rule, rule = 0 \/ (rule \in 1 .. N /\ Weight(stats, rule) > 0),
         NEW next, next = [i \in 1 .. N |-> stats[i] + IF i = rule THEN 1 ELSE 0]
  PROVE  Fair(N, next)
<1>0. stats \in [1 .. N -> Nat] /\ \A i, j \in 1 .. N : stats[i] <= stats[j] + 1  BY DEF Fair
<1>1. PICK b \in Nat :
        /\ b >= 1 /\ \A j \in 1 .. N : b >= stats[j]
        /\ b = 1 \/ \E j \in 1 .. N : b = stats[j]
        /\ \A i : Weight(stats, i) = b - stats[i]
  BY <1>0, WeightBound
<1>2. \A j \in 1 .. N : stats[j] \in Nat  BY <1>0
<1>3. \A j \in 1 .. N : b <= stats[j] + 1  BY <1>0, <1>1, <1>2
<1>4. rule \in 1 .. N => stats[rule] + 1 <= b
  <2> SUFFICES ASSUME rule \in 1 .. N PROVE stats[rule] + 1 <= b  OBVIOUS
  <2>1. rule # 0  OBVIOUS
  <2>2. b - stats[rule] > 0  BY <1>1, <2>1
  <2> QED  BY <1>2, <2>2
<1>5. next \in [1 .. N -> Nat]  BY <1>2
<1>6. ASSUME NEW i \in 1 .. N, NEW j \in 1 .. N  PROVE next[i] <= next[j] + 1
  <2>1. stats[i] \in Nat /\ stats[j] \in Nat /\ stats[i] <= stats[j] + 1  BY <1>0, <1>2
  <2>2. next[j] = stats[j] \/ next[j] = stats[j] + 1  BY <2>1
  <2>3. CASE i = rule
    <3>1. next[i] = stats[i] + 1  BY <2>3
    <3>2. stats[i] + 1 <= b /\ b <= stats[j] + 1  BY <1>3, <1>4, <2>3
    <3> QED  BY <2>1, <2>2, <3>1, <3>2
  <2>4. CASE i # rule
    <3>1. next[i] = stats[i]  BY <2>1, <2>4
    <3> QED  BY <2>1, <2>2, <3>1
  <2> QED  BY <2>3, <2>4
<1> QED  BY <1>5, <1>6 DEF Fair

LEMMA RecordKeeps ==
  ASSUME UInv, NEW kind, NEW rule \in SelectRule(kind), usage' = Record(kind, rule)
  PROVE  UInv'
<1>1. CASE purpose.strategy = "random" \/ kind \notin DOMAIN Rules
  <2>1. usage' = usage  BY <1>1 DEF Record
  <2> QED  BY <2>1 DEF UInv, UsageTypeOK, NoFavourite
<1>2. CASE purpose.strategy # "random" /\ kind \in DOMAIN Rules
  <2> DEFINE N == Len(Rules[kind])
             stats == Stats(kind)
             next  == [i \in DOMAIN Rules[kind] |-> stats[i] + IF i = rule THEN 1 ELSE 0]
  <2>1. N \in Nat /\ DOMAIN Rules[kind] = 1 .. N
    BY <1>2, GenerationAssumption DEF GenerationAssumption
  <2>2. stats \in [1 .. N -> Nat] /\ \A i, j \in 1 .. N : stats[i] <= stats[j] + 1
    <3>1. CASE kind \in DOMAIN usage
      <4>1. stats = usage[kind] /\ stats \in [1 .. N -> Nat]
        BY <2>1, <3>1 DEF Stats, UInv, UsageTypeOK
      <4>2. \A i, j \in DOMAIN usage[kind] : usage[kind][i] <= usage[kind][j] + 1
        BY <3>1 DEF UInv, NoFavourite
      <4> QED  BY <4>1, <4>2
    <3>2. CASE kind \notin DOMAIN usage
      <4>1. stats = [i \in 1 .. N |-> 0]  BY <2>1, <3>2 DEF Stats
      <4> HIDE DEF stats
      <4> QED  BY <4>1
    <3> QED  BY <3>1, <3>2
  <2>3. rule = 0 \/ (rule \in 1 .. N /\ Weight(stats, rule) > 0)
    <3> DEFINE likely == {i \in DOMAIN Rules[kind] : Weight(stats, i) > 0}
    <3>1. SelectRule(kind) = IF likely = {} THEN {0} ELSE likely  BY <1>2 DEF SelectRule
    <3> HIDE DEF stats, N
    <3>2. \A i \in likely : i \in 1 .. N /\ Weight(stats, i) > 0  BY <2>1
    <3> HIDE DEF likely
    <3>3. rule = 0 \/ rule \in likely
      <4>1. rule \in SelectRule(kind)  OBVIOUS
      <4>2. CASE likely = {}  BY <3>1, <4>1, <4>2
      <4>3. CASE likely # {}  BY <3>1, <4>1, <4>3
      <4> QED  BY <4>2, <4>3
    <3> QED  BY <3>2, <3>3
  <2>4. usage' = [k \in DOMAIN usage \cup {kind} |-> IF k # kind THEN usage[k] ELSE next]
    BY <1>2 DEF Record
  <2>5. next = [i \in 1 .. N |-> stats[i] + IF i = rule THEN 1 ELSE 0]  BY <2>1
  <2> HIDE DEF N, stats, next
  <2>6. next \in [1 .. N -> Nat] /\ \A i, j \in 1 .. N : next[i] <= next[j] + 1
    <3>1. Fair(N, stats)  BY <2>2 DEF Fair
    <3>2. Fair(N, next)  BY <2>1, <2>3, <2>5, <3>1, LikelyKeeps
    <3> QED  BY <3>2 DEF Fair
  <2>7. UsageTypeOK'
    <3>1. DOMAIN usage' \subseteq DOMAIN Rules  BY <1>2, <2>4 DEF UInv, UsageTypeOK
    <3>2. ASSUME NEW k \in DOMAIN usage'  PROVE usage'[k] \in [DOMAIN Rules[k] -> Nat]
      <4>1. CASE k = kind  BY <2>1, <2>4, <2>6, <4>1
      <4>2. CASE k # kind
        <5>1. k \in DOMAIN usage /\ usage'[k] = usage[k]  BY <2>4, <4>2
        <5> QED  BY <5>1 DEF UInv, UsageTypeOK
      <4> QED  BY <4>1, <4>2
    <3> QED  BY <3>1, <3>2 DEF UsageTypeOK
  <2>8. NoFavourite'
    <3> SUFFICES ASSUME NEW k \in DOMAIN usage', NEW i \in DOMAIN usage'[k], NEW j \in DOMAIN usage'[k]
                 PROVE  usage'[k][i] <= usage'[k][j] + 1
      BY DEF NoFavourite
    <3>1. CASE k = kind
      <4>1. usage'[k] = next /\ DOMAIN next = 1 .. N  BY <2>4, <2>6, <3>1
      <4> QED  BY <2>6, <4>1
    <3>2. CASE k # kind
      <4>1. k \in DOMAIN usage /\ usage'[k] = usage[k]  BY <2>4, <3>2
      <4> QED  BY <4>1 DEF UInv, NoFavourite
    <3> QED  BY <3>1, <3>2
  <2> QED  BY <2>7, <2>8 DEF UInv
<1> QED  BY <1>1, <1>2

LEMMA NextUInv == UInv /\ [GNext]_<<vars, generation>> => UInv'
<1> SUFFICES ASSUME UInv, [GNext]_<<vars, generation>> PROVE UInv'  OBVIOUS
<1>1. CASE usage' = usage  BY <1>1 DEF UInv, UsageTypeOK, NoFavourite
<1>2. CASE DeriveNonTerminal
  <2>1. PICK rule \in SelectRule(Head(todo).symbol.name) :
          usage' = Record(Head(todo).symbol.name, rule)
    BY <1>2 DEF DeriveNonTerminal
  <2> QED  BY <2>1, RecordKeeps
<1>3. usage' = usage \/ DeriveNonTerminal
  BY DEF GNext, generation, GenerateSeed, ExpandGrammar, MismatchedNode, GenerateSteered, Begin,
         ChooseFromDerivations, Derive, DeriveTerminal, DeriveImmediate, Derived, Handled
<1> QED  BY <1>1, <1>2, <1>3

(* The steer gives every rule of a kind its turn before one is selected    *)
(* again (RuleUsageSteer::select_rule).                                    *)
THEOREM NoFavouriteHolds == GSpec => []NoFavourite
<1>1. GInit => UInv  BY DEF GInit, UInv, UsageTypeOK, NoFavourite
<1>2. UInv => NoFavourite  BY DEF UInv
<1> QED  BY <1>1, <1>2, NextUInv, PTL DEF GSpec

-----------------------------------------------------------------------------
(* Concatenations: of no set, of one more, and of two sequences of sets.   *)

Join(X, Y) == {a \o b : a \in X, b \in Y}

LEMMA InJoin ==
  \A P, Q, w : w \in Join(P, Q) <=> \E a \in P, b \in Q : w = a \o b
BY DEF Join

LEMMA JoinType ==
  ASSUME NEW A, NEW X, NEW Y, X \subseteq Seq(A), Y \subseteq Seq(A)
  PROVE  Join(X, Y) \subseteq Seq(A)
<1> SUFFICES ASSUME NEW w \in Join(X, Y) PROVE w \in Seq(A)  OBVIOUS
<1>1. PICK a \in X, b \in Y : w = a \o b  BY DEF Join
<1>2. a \in Seq(A) /\ b \in Seq(A)  OBVIOUS
<1> QED  BY <1>1, <1>2, ConcatProperties

LEMMA ConcatenationsSolve ==
  ASSUME NEW A, NEW sets \in Seq(SUBSET Seq(A))
  PROVE  \E c \in [0 .. Len(sets) -> SUBSET Seq(A)] :
           /\ c[0] = {<<>>} /\ \A i \in 1 .. Len(sets) : c[i] = Join(c[i - 1], sets[i])
           /\ Concatenations(sets) = c[Len(sets)]
<1> DEFINE N    == Len(sets)
           X    == SUBSET Seq(A)
           e    == {<<>>}
           step == [i \in 1 .. N |-> [x \in X |-> Join(x, sets[i])]]
           D(c) == [i \in 0 .. N |-> IF i = 0 THEN e ELSE Join(c[i - 1], sets[i])]
<1>0. N \in Nat  OBVIOUS
<1>1. \A i \in 1 .. N : sets[i] \in X  BY LenProperties, ElementOfSeq
<1>2. e \in X  BY EmptySeq
<1>3. step \in [1 .. N -> [X -> X]]
  <2>1. ASSUME NEW i \in 1 .. N, NEW x \in X  PROVE Join(x, sets[i]) \in X
    <3>1. x \subseteq Seq(A) /\ sets[i] \subseteq Seq(A)  BY <1>1
    <3> QED  BY <3>1, JoinType
  <2> HIDE DEF X
  <2> QED  BY <2>1
<1>4. \A i \in 1 .. N, x \in X : step[i][x] = Join(x, sets[i])  OBVIOUS
<1>5. \A i \in 1 .. N : i \in 0 .. N /\ i # 0 /\ i - 1 \in 0 .. N  BY <1>0
<1> HIDE DEF N, X, step, e
<1>6. Solvable(X, e, N, step)  BY <1>0, <1>2, <1>3, Recursion
<1>7. PICK f \in [0 .. N -> X] : f[0] = e /\ \A i \in 1 .. N : f[i] = step[i][f[i - 1]]
  BY <1>6 DEF Solvable
<1>8. f = D(f)
  <2>1. \A i \in 1 .. N : f[i] = Join(f[i - 1], sets[i])  BY <1>4, <1>5, <1>7
  <2>2. \A i \in 0 .. N : i = 0 \/ i \in 1 .. N  BY <1>0
  <2>3. \A i \in 0 .. N : f[i] = IF i = 0 THEN e ELSE Join(f[i - 1], sets[i])
    BY <1>7, <2>1, <2>2
  <2> QED  BY <1>7, <2>3
<1> DEFINE c == CHOOSE c : c = D(c)
<1>9. c = D(c)  BY <1>8
<1>10. Concatenations(sets) = c[N]  BY DEF Concatenations, Join, N, e
<1> HIDE DEF c
<1>11. \A i \in 0 .. N : c[i] = IF i = 0 THEN e ELSE Join(c[i - 1], sets[i])  BY <1>9
<1>12. c[0] = e /\ \A i \in 1 .. N : c[i] = Join(c[i - 1], sets[i])
  BY <1>0, <1>5, <1>11
<1>13. \A i \in 0 .. N : c[i] \in X
  <2> DEFINE P == {i \in 0 .. N : c[i] \in X}
  <2>1. 0 \in P  BY <1>0, <1>2, <1>12
  <2>2. ASSUME NEW i \in 1 .. N, i - 1 \in P  PROVE i \in P
    <3>1. c[i - 1] \in X /\ step[i][c[i - 1]] = c[i]  BY <1>4, <1>12, <2>2
    <3>2. step[i] \in [X -> X]  BY <1>3
    <3>3. c[i] \in X  BY <3>1, <3>2
    <3> QED  BY <1>5, <3>3
  <2> HIDE DEF P
  <2>3. \A i \in 1 .. N : i - 1 \in P => i \in P  BY <2>2
  <2>4. \A i \in 0 .. N : i \in P  BY <1>0, <2>1, <2>3, UpTo
  <2> QED  BY <2>4 DEF P
<1>14. c \in [0 .. N -> X]
  <2>1. c = [i \in 0 .. N |-> c[i]]  BY <1>9
  <2> QED  BY <1>13, <2>1
<1> QED  BY <1>10, <1>12, <1>14 DEF N, X, e

(* How far two sequences of sets agree, their concatenations do.           *)
LEMMA ConcatenationsPrefix ==
  ASSUME NEW A, NEW s \in Seq(SUBSET Seq(A)), NEW t \in SUBSET Seq(A)
  PROVE  /\ Concatenations(s) \subseteq Seq(A)
         /\ Concatenations(<<>>) = {<<>>}
         /\ Concatenations(Append(s, t)) = Join(Concatenations(s), t)
<1> DEFINE S == SUBSET Seq(A)
           u == Append(s, t)
           N == Len(s)
<1>0. N \in Nat /\ Len(u) \in Nat /\ Len(u) = N + 1
  OBVIOUS
<1>1. N \in Nat /\ u \in Seq(S) /\ Len(u) = N + 1 /\ u[N + 1] = t /\ \A i \in 1 .. N : u[i] = s[i]
  OBVIOUS
<1>2. PICK c \in [0 .. N -> S] :
        /\ c[0] = {<<>>} /\ \A i \in 1 .. N : c[i] = Join(c[i - 1], s[i])
        /\ Concatenations(s) = c[N]
  BY ConcatenationsSolve
<1> HIDE DEF u
<1>3. PICK d \in [0 .. Len(u) -> S] :
        /\ d[0] = {<<>>} /\ \A i \in 1 .. Len(u) : d[i] = Join(d[i - 1], u[i])
        /\ Concatenations(u) = d[Len(u)]
  BY <1>1, ConcatenationsSolve
<1>4. Concatenations(<<>>) = {<<>>}
  <2>1. <<>> \in Seq(S) /\ Len(<<>>) = 0  BY EmptySeq
  <2>2. PICK e \in [0 .. Len(<<>>) -> S] : e[0] = {<<>>} /\ Concatenations(<<>>) = e[Len(<<>>)]
    BY <2>1, ConcatenationsSolve
  <2> QED  BY <2>1, <2>2
<1> HIDE DEF N
<1>5. d[N] = c[N]
  <2> DEFINE P == {i \in 0 .. N : d[i] = c[i]}
  <2>0. 0 \in 0 .. N  BY <1>0
  <2>1. 0 \in P  BY <1>2, <1>3, <2>0
  <2>2. ASSUME NEW i \in 1 .. N, i - 1 \in P  PROVE i \in P
    <3>1. i \in 0 .. N /\ i \in 1 .. Len(u)  BY <1>0
    <3>2. d[i] = Join(d[i - 1], s[i]) /\ c[i] = Join(c[i - 1], s[i])  BY <1>1, <1>2, <1>3, <3>1
    <3> QED  BY <2>2, <3>1, <3>2
  <2> HIDE DEF P
  <2>3. \A i \in 1 .. N : i - 1 \in P => i \in P  BY <2>2
  <2>4. \A i \in 0 .. N : i \in P  BY <1>0, <2>1, <2>3, UpTo
  <2>5. N \in 0 .. N  BY <1>0
  <2> QED  BY <2>4, <2>5 DEF P
<1>6. Concatenations(u) = Join(d[N], t)
  <2> DEFINE m == N + 1
  <2>1. m \in 1 .. Len(u) /\ m - 1 = N /\ Len(u) = m /\ u[m] = t  BY <1>0, <1>1
  <2> HIDE DEF m
  <2>2. d[m] = Join(d[m - 1], u[m])  BY <1>3, <2>1
  <2> QED  BY <1>3, <2>1, <2>2
<1>7. c[N] \in S
  <2>1. N \in 0 .. N  BY <1>0
  <2> QED  BY <1>2, <2>1
<1> QED  BY <1>2, <1>4, <1>5, <1>6, <1>7 DEF u

LEMMA AppendLast ==
  ASSUME NEW S, NEW s \in Seq(S), NEW t \in Seq(S), NEW e \in S
  PROVE  s \o Append(t, e) = Append(s \o t, e)
<1>1. <<e>> \in Seq(S)  OBVIOUS
<1>2. s \o (t \o <<e>>) = (s \o t) \o <<e>>  BY <1>1, ConcatAssociative
<1>3. s \o t \in Seq(S)  BY ConcatProperties
<1> QED  BY <1>2, <1>3, AppendIsConcat

LEMMA JoinAssociative ==
  ASSUME NEW A, NEW X, NEW Y, NEW Z, X \subseteq Seq(A), Y \subseteq Seq(A), Z \subseteq Seq(A)
  PROVE  Join(X, Join(Y, Z)) = Join(Join(X, Y), Z)
<1>1. ASSUME NEW a \in X, NEW b \in Y, NEW c \in Z  PROVE a \o (b \o c) = (a \o b) \o c
  <2>1. a \in Seq(A) /\ b \in Seq(A) /\ c \in Seq(A)  OBVIOUS
  <2>2. (a \o b) \o c = a \o (b \o c)  BY <2>1, ConcatAssociative
  <2> QED  BY <2>2
<1> DEFINE YZ == Join(Y, Z)
<1>2. \A w : w \in YZ <=> \E a \in Y, b \in Z : w = a \o b  BY DEF Join
<1> DEFINE XY == Join(X, Y)
<1>3. \A w : w \in XY <=> \E a \in X, b \in Y : w = a \o b  BY DEF Join
<1> HIDE DEF XY, YZ
<1> DEFINE L == Join(X, YZ)
           R == Join(XY, Z)
<1>4. \A w : w \in L <=> \E a \in X, b \in YZ : w = a \o b  BY DEF Join
<1>5. \A w : w \in R <=> \E a \in XY, b \in Z : w = a \o b  BY DEF Join
<1> HIDE DEF L, R
<1>6. ASSUME NEW w \in L  PROVE w \in R
  <2>1. PICK a \in X, v \in YZ : w = a \o v  BY <1>4
  <2>2. PICK b \in Y, c \in Z : v = b \o c  BY <1>2
  <2>3. a \o b \in XY  BY <1>3
  <2>4. w = (a \o b) \o c  BY <1>1, <2>1, <2>2
  <2> QED  BY <1>5, <2>3, <2>4
<1>7. ASSUME NEW w \in R  PROVE w \in L
  <2>1. PICK v \in XY, c \in Z : w = v \o c  BY <1>5
  <2>2. PICK a \in X, b \in Y : v = a \o b  BY <1>3
  <2>3. b \o c \in YZ  BY <1>2
  <2>4. w = a \o (b \o c)  BY <1>1, <2>1, <2>2
  <2> QED  BY <1>4, <2>3, <2>4
<1>8. L = R  BY <1>6, <1>7
<1> QED  BY <1>8 DEF L, R, XY, YZ

LEMMA ConcatenationsOfTwo ==
  ASSUME NEW A, NEW s \in Seq(SUBSET Seq(A)), NEW t \in Seq(SUBSET Seq(A))
  PROVE  Concatenations(s \o t) = Join(Concatenations(s), Concatenations(t))
<1> DEFINE S    == SUBSET Seq(A)
           N    == Len(t)
           p(i) == SubSeq(t, 1, i)
           P    == {i \in 0 .. N : Concatenations(s \o p(i)) = Join(Concatenations(s), Concatenations(p(i)))}
<1>1. N \in Nat /\ p(N) = t  BY SubSeqFull
<1>2. ASSUME NEW i \in 0 .. N  PROVE p(i) \in Seq(S)
  <2>1. i \in Int /\ 1 \in Int /\ \A j \in 1 .. i : t[j] \in S  BY <1>1, ElementOfSeq
  <2> HIDE DEF S
  <2> QED  BY <2>1, SubSeqProperties
<1>3. Concatenations(s) \subseteq Seq(A)  BY ConcatenationsPrefix
<1>4. 0 \in P
  <2>1. p(0) = <<>>  BY SubSeqEmpty
  <2>2. s \o <<>> = s  BY ConcatEmptySeq
  <2>3. Concatenations(<<>>) = {<<>>}  BY ConcatenationsPrefix
  <2> DEFINE C == Concatenations(s)
  <2>4. \A a \in C : a \o <<>> = a  BY <1>3, ConcatEmptySeq
  <2> HIDE DEF C
  <2>5. Join(C, {<<>>}) = C
    <3> DEFINE E == {<<>>}
               D == Join(C, E)
    <3> HIDE DEF E
    <3>1. \A w : w \in D <=> \E a \in C, b \in E : w = a \o b  BY InJoin
    <3> HIDE DEF D
    <3> USE DEF E
    <3>2. \A w : w \in D <=> \E a \in C : w = a \o <<>>  BY <3>1
    <3>3. \A w : w \in D <=> w \in C
      <4> HIDE DEF E
      <4> QED  BY <2>4, <3>2
    <3>4. D = C  BY <3>3
    <3> QED  BY <3>4 DEF D, E
  <2>6. Concatenations(s \o p(0)) = Join(Concatenations(s), Concatenations(p(0)))
    <3> HIDE DEF p
    <3> QED  BY <2>1, <2>2, <2>3, <2>5 DEF C
  <2>7. 0 \in 0 .. N  BY <1>1
  <2> HIDE DEF p, N
  <2> QED  BY <2>6, <2>7
<1>5. ASSUME NEW i \in 1 .. N, i - 1 \in P  PROVE i \in P
  <2> DEFINE x == s \o p(i - 1)
             y == p(i - 1)
             e == t[i]
  <2>1. i \in 0 .. N /\ i - 1 \in 0 .. N /\ e \in S  BY <1>1, ElementOfSeq
  <2>2. x \in Seq(S) /\ y \in Seq(S)  BY <1>2, <2>1, ConcatProperties
  <2>3. p(i) = Append(y, e)
    <3>1. 1 \in 1 .. N /\ i \in 1 .. N  BY <1>1
    <3>2. p(i) = y \o <<e>>  BY <3>1, SubSeqRecursiveSecond
    <3>3. y \o <<e>> = Append(y, e)
      <4> HIDE DEF y, e, S
      <4> QED  BY <2>1, <2>2, AppendIsConcat
    <3> QED  BY <3>2, <3>3
  <2>4. s \o p(i) = Append(x, e)
    <3> HIDE DEF e, S
    <3>1. s \o Append(y, e) = Append(s \o y, e)
      <4> HIDE DEF y
      <4>1. s \in Seq(S)  BY DEF S
      <4> QED  BY <2>1, <2>2, <4>1, AppendLast
    <3> QED  BY <2>3, <3>1
  <2>5. Concatenations(x) = Join(Concatenations(s), Concatenations(y))  BY <1>5
  <2> HIDE DEF x, y, e, p
  <2>6. /\ Concatenations(Append(x, e)) = Join(Concatenations(x), e)
        /\ Concatenations(Append(y, e)) = Join(Concatenations(y), e)
        /\ Concatenations(y) \subseteq Seq(A)
    BY <2>1, <2>2, ConcatenationsPrefix
  <2>7. Join(Join(Concatenations(s), Concatenations(y)), e)
          = Join(Concatenations(s), Join(Concatenations(y), e))
    BY <1>3, <2>1, <2>6, JoinAssociative
  <2> QED  BY <2>1, <2>3, <2>4, <2>5, <2>6, <2>7
<1> HIDE DEF P
<1>6. \A i \in 0 .. N : i \in P
  <2>1. \A i \in 1 .. N : i - 1 \in P => i \in P  BY <1>5
  <2> QED  BY <1>1, <1>4, <2>1, UpTo
<1>7. N \in P  BY <1>1, <1>6
<1> QED  BY <1>1, <1>7 DEF P

-----------------------------------------------------------------------------
(* The language of the rules.                                              *)

LEMMA SymbolType ==
  ASSUME NEW sym \in Symbols
  PROVE  /\ sym.type \in {"nonterminal", "terminal", "immediate", "eof"}
         /\ sym.name \in Names
         /\ sym.type = "nonterminal" => sym.name \in Derivable
<1>1. CASE sym \in RuleSymbols
  BY <1>1, GenerationAssumption DEF GenerationAssumption, Names, Derivable
<1>2. CASE sym \in {Symbol("nonterminal", k) : k \in Derivable}
  BY <1>2 DEF Symbol, Names
<1> QED  BY <1>1, <1>2 DEF Symbols

LEMMA OwnType ==
  ASSUME NEW n \in Names
  PROVE  {Own(n)} \in SUBSET Seq(Outlines) /\ {<<Literal(n)>>} \in SUBSET Seq(Outlines)
<1>1. Fragment(n, <<>>) \in Outlines /\ Literal(n) \in Outlines  BY DEF Outlines
<1> HIDE DEF Fragment, Literal
<1>2. Own(n) \in Seq(Outlines) /\ <<Literal(n)>> \in Seq(Outlines)  BY <1>1 DEF Own
<1> QED  BY <1>2

LEMMA DerivesType ==
  ASSUME NEW sym \in Symbols, NEW lower \in Lower
  PROVE  /\ Derives(sym, lower) \in SUBSET Seq(Outlines)
         /\ sym.type = "nonterminal" => Derives(sym, lower) = lower[sym.name]
         /\ sym.type = "terminal" => Derives(sym, lower) = {Own(sym.name)}
         /\ sym.type = "immediate" => Derives(sym, lower) = {<<Literal(sym.name)>>}
         /\ sym.type = "eof" => Derives(sym, lower) = {<<>>}
<1>1. CASE sym.type = "nonterminal"
  <2>1. Derives(sym, lower) = lower[sym.name]  BY <1>1 DEF Derives
  <2>2. lower[sym.name] \in SUBSET Seq(Outlines)  BY <1>1, SymbolType DEF Lower
  <2> QED  BY <1>1, <2>1, <2>2
<1>2. CASE sym.type = "terminal"
  <2>1. Derives(sym, lower) = {Own(sym.name)}  BY <1>2 DEF Derives
  <2>2. {Own(sym.name)} \in SUBSET Seq(Outlines)  BY SymbolType, OwnType
  <2> QED  BY <1>2, <2>1, <2>2
<1>3. CASE sym.type = "immediate"
  <2>1. Derives(sym, lower) = {<<Literal(sym.name)>>}  BY <1>3 DEF Derives
  <2>2. {<<Literal(sym.name)>>} \in SUBSET Seq(Outlines)  BY SymbolType, OwnType
  <2> QED  BY <1>3, <2>1, <2>2
<1>4. CASE sym.type = "eof"
  <2>1. Derives(sym, lower) = {<<>>}  BY <1>4 DEF Derives
  <2>2. {<<>>} \in SUBSET Seq(Outlines)  BY EmptySeq
  <2> QED  BY <1>4, <2>1, <2>2
<1> QED  BY <1>1, <1>2, <1>3, <1>4, SymbolType

LEMMA AppliedType ==
  ASSUME NEW rule \in Seq(Symbols), NEW lower \in Lower
  PROVE  Applied(rule, lower) \in SUBSET Seq(Outlines)
<1> DEFINE A    == SUBSET Seq(Outlines)
           sets == [i \in DOMAIN rule |-> Derives(rule[i], lower)]
<1>1. Len(rule) \in Nat /\ DOMAIN rule = 1 .. Len(rule)  OBVIOUS
<1>2. ASSUME NEW i \in 1 .. Len(rule)  PROVE Derives(rule[i], lower) \in A
  <2>1. rule[i] \in Symbols  BY ElementOfSeq
  <2> QED  BY <2>1, DerivesType
<1> HIDE DEF A
<1>3. sets \in Seq(A)  BY <1>1, <1>2
<1>4. Applied(rule, lower) = Concatenations(sets)  BY DEF Applied
<1> HIDE DEF sets
<1> QED  BY <1>3, <1>4, ConcatenationsPrefix DEF A

(* What a kind derives within n expansions, from what its rules' symbols   *)
(* derive within one less.                                                 *)
Deeper(strategy, k, lower) ==
  IF k \notin DOMAIN Rules THEN {Own(k)}
  ELSE (UNION {Applied(Rules[k][r], lower) : r \in DOMAIN Rules[k]})
         \cup IF strategy = "steer" THEN {Own(k)} ELSE {}

LEMMA RuleType ==
  ASSUME NEW k \in DOMAIN Rules
  PROVE  /\ Len(Rules[k]) \in Nat /\ DOMAIN Rules[k] = 1 .. Len(Rules[k])
         /\ \A r \in DOMAIN Rules[k] : Rules[k][r] \in Seq(RuleSymbols) /\ Rules[k][r] \in Seq(Symbols)
<1>1. Rules[k] \in Seq(Seq(RuleSymbols))  BY GenerationAssumption DEF GenerationAssumption
<1> DEFINE Q == Seq(RuleSymbols)
<1>2. Q \subseteq Seq(Symbols)  BY DEF Symbols
<1>3. Len(Rules[k]) \in Nat /\ DOMAIN Rules[k] = 1 .. Len(Rules[k])  BY <1>1
<1> HIDE DEF Q
<1>4. \A r \in 1 .. Len(Rules[k]) : Rules[k][r] \in Q  BY <1>1, ElementOfSeq DEF Q
<1> QED  BY <1>2, <1>3, <1>4 DEF Q

LEMMA DeeperType ==
  ASSUME NEW st, NEW k \in Derivable, NEW lower \in Lower
  PROVE  Deeper(st, k, lower) \in SUBSET Seq(Outlines)
<1>1. {Own(k)} \in SUBSET Seq(Outlines)  BY OwnType DEF Names
<1>2. \A r : k \in DOMAIN Rules /\ r \in DOMAIN Rules[k] =>
               Applied(Rules[k][r], lower) \in SUBSET Seq(Outlines)
  BY RuleType, AppliedType
<1> DEFINE T == Seq(Outlines)
<1> HIDE DEF T
<1>3. CASE k \notin DOMAIN Rules  BY <1>1, <1>3 DEF Deeper
<1>4. CASE k \in DOMAIN Rules
  <2>1. \A r \in DOMAIN Rules[k] : Applied(Rules[k][r], lower) \subseteq T  BY <1>2, <1>4 DEF T
  <2>2. UNION {Applied(Rules[k][r], lower) : r \in DOMAIN Rules[k]} \subseteq T  BY <2>1
  <2>3. {Own(k)} \subseteq T  BY <1>1 DEF T
  <2> DEFINE U == UNION {Applied(Rules[k][r], lower) : r \in DOMAIN Rules[k]}
             V == IF st = "steer" THEN {Own(k)} ELSE {}
  <2>4. Deeper(st, k, lower) = U \cup V  BY <1>4 DEF Deeper
  <2>5. V \subseteq T  BY <2>3
  <2> HIDE DEF U, V
  <2>6. Deeper(st, k, lower) \subseteq T  BY <2>2, <2>4, <2>5 DEF U
  <2> QED  BY <2>6 DEF T
<1> QED  BY <1>3, <1>4

LEMMA LanguageSolves ==
  ASSUME NEW st
  PROVE  /\ Language(st) \in [0 .. RecursionLimit -> Lower]
         /\ \A k \in Derivable : Language(st)[0][k] = {Own(k)}
         /\ \A n \in 1 .. RecursionLimit : \A k \in Derivable :
              Language(st)[n][k] = Deeper(st, k, Language(st)[n - 1])
<1> DEFINE N    == RecursionLimit
           base == [k \in Derivable |-> {Own(k)}]
           next(lower) == [k \in Derivable |-> Deeper(st, k, lower)]
           step == [i \in 1 .. N |-> [lower \in Lower |-> next(lower)]]
           D(f) == [n \in 0 .. N |->
                      [k \in Derivable |->
                         IF n = 0 \/ k \notin DOMAIN Rules THEN {Own(k)}
                         ELSE (UNION {Applied(Rules[k][r], f[n - 1]) : r \in DOMAIN Rules[k]})
                                \cup IF st = "steer" THEN {Own(k)} ELSE {}]]
<1>0. N \in Nat  BY GenerationAssumption DEF GenerationAssumption
<1>1. base \in Lower
  <2>1. \A k \in Derivable : {Own(k)} \in SUBSET Seq(Outlines)  BY OwnType DEF Names
  <2> QED  BY <2>1 DEF Lower
<1>2. \A lower \in Lower : next(lower) \in Lower
  <2>1. \A lower \in Lower : \A k \in Derivable : Deeper(st, k, lower) \in SUBSET Seq(Outlines)
    BY DeeperType
  <2> QED  BY <2>1 DEF Lower
<1>3. \A n \in 0 .. N : n = 0 \/ n \in 1 .. N  BY <1>0
<1>4. \A i \in 1 .. N : i \in 0 .. N /\ i # 0 /\ i - 1 \in 0 .. N  BY <1>0
<1>5. 0 \in 0 .. N  BY <1>0
<1> DEFINE E(f) == [n \in 0 .. N |-> IF n = 0 THEN base ELSE next(f[n - 1])]
<1>6. \A f : D(f) = E(f)
  <2> SUFFICES ASSUME NEW f PROVE D(f) = E(f)  OBVIOUS
  <2>1. ASSUME NEW n \in 0 .. N  PROVE D(f)[n] = E(f)[n]
    <3>1. CASE n = 0  BY <3>1
    <3>2. CASE n # 0  BY <3>2 DEF Deeper
    <3> QED  BY <3>1, <3>2
  <2> QED  BY <2>1
<1> DEFINE c == CHOOSE f : f = D(f)
<1>7. Language(st) = c  BY DEF Language, N
<1> HIDE DEF D, next, base
<1>8. \A i \in 1 .. N, x \in Lower : step[i][x] = next(x)  OBVIOUS
<1>9. step \in [1 .. N -> [Lower -> Lower]]  BY <1>2
<1> HIDE DEF step, N
<1>solvable. Solvable(Lower, base, N, step)  BY <1>0, <1>1, <1>9, Recursion
<1>10. PICK f \in [0 .. N -> Lower] : f[0] = base /\ \A i \in 1 .. N : f[i] = step[i][f[i - 1]]
  BY <1>solvable DEF Solvable
<1>11. f = E(f)
  <2>1. \A n \in 0 .. N : f[n] = IF n = 0 THEN base ELSE next(f[n - 1])
    BY <1>3, <1>4, <1>8, <1>10
  <2> QED  BY <1>10, <2>1
<1>12. c = D(c)
  <2>1. f = D(f)  BY <1>6, <1>11
  <2> QED  BY <2>1
<1> HIDE DEF c
<1>13. c = E(c)  BY <1>6, <1>12
<1>14. c[0] = base /\ \A n \in 1 .. N : c[n] = next(c[n - 1])
  BY <1>4, <1>5, <1>13
<1>15. \A n \in 0 .. N : c[n] \in Lower
  <2> DEFINE P == {n \in 0 .. N : c[n] \in Lower}
  <2>1. 0 \in P  BY <1>1, <1>5, <1>14
  <2>2. \A n \in 1 .. N : n - 1 \in P => n \in P  BY <1>2, <1>4, <1>14
  <2> HIDE DEF P
  <2>3. \A n \in 0 .. N : n \in P  BY <1>0, <2>1, <2>2, UpTo
  <2> QED  BY <2>3 DEF P
<1>16. c \in [0 .. N -> Lower]
  <2>1. c = [n \in 0 .. N |-> c[n]]  BY <1>13
  <2> QED  BY <1>15, <2>1
<1>17. \A k \in Derivable : c[0][k] = {Own(k)}  BY <1>14 DEF base
<1>18. \A n \in 1 .. N : \A k \in Derivable : c[n][k] = Deeper(st, k, c[n - 1])
  BY <1>14 DEF next
<1> QED  BY <1>7, <1>16, <1>17, <1>18 DEF N

-----------------------------------------------------------------------------
(* What is owed: the symbols still to be derived, each under its limit.    *)

LEMMA ConcatenationsOne ==
  ASSUME NEW A, NEW t \in SUBSET Seq(A)
  PROVE  Concatenations(<<t>>) = t
<1> DEFINE S == SUBSET Seq(A)
           E == {<<>>}
<1>1. <<>> \in Seq(S) /\ Append(<<>>, t) = <<t>>  OBVIOUS
<1>2. Concatenations(<<t>>) = Join(E, t)
  <2>1. Concatenations(Append(<<>>, t)) = Join(Concatenations(<<>>), t) /\ Concatenations(<<>>) = {<<>>}
    BY <1>1, ConcatenationsPrefix
  <2> QED  BY <1>1, <2>1
<1>3. \A b \in t : <<>> \o b = b  BY ConcatEmptySeq
<1>4. \A w : w \in Join(E, t) <=> \E b \in t : w = <<>> \o b  BY DEF Join
<1>5. Join(E, t) = t
  <2> HIDE DEF E
  <2>1. \A w : w \in Join(E, t) <=> w \in t  BY <1>3, <1>4
  <2> QED  BY <2>1
<1> QED  BY <1>2, <1>5

LEMMA DeferredType ==
  ASSUME NEW st, NEW d \in Deferred
  PROVE  /\ d.symbol \in Symbols /\ d.limit \in 0 .. RecursionLimit
         /\ Language(st)[d.limit] \in Lower
         /\ Derives(d.symbol, Language(st)[d.limit]) \in SUBSET Seq(Outlines)
<1>1. d.symbol \in Symbols /\ d.limit \in 0 .. RecursionLimit  BY DEF Deferred
<1>2. Language(st)[d.limit] \in Lower  BY <1>1, LanguageSolves
<1> QED  BY <1>1, <1>2, DerivesType

LEMMA OwedType ==
  ASSUME NEW st, NEW due \in Seq(Deferred)
  PROVE  /\ Owed(st, due) \in Seq(SUBSET Seq(Outlines))
         /\ Len(Owed(st, due)) = Len(due)
         /\ \A i \in 1 .. Len(due) :
              Owed(st, due)[i] = Derives(due[i].symbol, Language(st)[due[i].limit])
<1> DEFINE A == SUBSET Seq(Outlines)
<1>1. Len(due) \in Nat /\ DOMAIN due = 1 .. Len(due)  OBVIOUS
<1>2. ASSUME NEW i \in 1 .. Len(due)
      PROVE  Derives(due[i].symbol, Language(st)[due[i].limit]) \in A
  <2>1. due[i] \in Deferred  BY ElementOfSeq
  <2> QED  BY <2>1, DeferredType
<1> HIDE DEF A
<1>3. Owed(st, due) = [i \in 1 .. Len(due) |-> Derives(due[i].symbol, Language(st)[due[i].limit])]
  BY <1>1 DEF Owed
<1>4. Owed(st, due) \in [1 .. Len(due) -> A]  BY <1>2, <1>3
<1>5. Owed(st, due) \in Seq(A) /\ Len(Owed(st, due)) = Len(due)  BY <1>1, <1>4
<1> QED  BY <1>3, <1>5 DEF A

LEMMA OwedOfTwo ==
  ASSUME NEW st, NEW s \in Seq(Deferred), NEW t \in Seq(Deferred)
  PROVE  Concatenations(Owed(st, s \o t))
           = Join(Concatenations(Owed(st, s)), Concatenations(Owed(st, t)))
<1> DEFINE A == SUBSET Seq(Outlines)
           S == Owed(st, s)
           T == Owed(st, t)
           B == Owed(st, s \o t)
           v == s \o t
<1>1. /\ v \in Seq(Deferred) /\ Len(v) = Len(s) + Len(t)
      /\ \A i \in 1 .. Len(s) + Len(t) : v[i] = IF i <= Len(s) THEN s[i] ELSE t[i - Len(s)]
  BY ConcatProperties
<1>2. Len(s) \in Nat /\ Len(t) \in Nat  OBVIOUS
<1>3. S \in Seq(A) /\ T \in Seq(A) /\ Len(S) = Len(s) /\ Len(T) = Len(t)
  BY OwedType
<1>4. B \in Seq(A) /\ Len(B) = Len(v)  BY <1>1, OwedType
<1>5. \A i \in 1 .. Len(v) : B[i] = Derives(v[i].symbol, Language(st)[v[i].limit])
  BY <1>1, OwedType
<1>6. \A i \in 1 .. Len(s) : S[i] = Derives(s[i].symbol, Language(st)[s[i].limit])
  BY OwedType
<1>7. \A i \in 1 .. Len(t) : T[i] = Derives(t[i].symbol, Language(st)[t[i].limit])
  BY OwedType
<1> HIDE DEF A, S, T, B, v
<1> DEFINE C == S \o T
<1>8. /\ C \in Seq(A) /\ Len(C) = Len(S) + Len(T)
      /\ \A i \in 1 .. Len(S) + Len(T) : C[i] = IF i <= Len(S) THEN S[i] ELSE T[i - Len(S)]
  BY <1>3, ConcatProperties
<1> HIDE DEF C
<1>9. ASSUME NEW i \in 1 .. Len(B)  PROVE B[i] = C[i]
  <2>1. i \in 1 .. Len(s) + Len(t) /\ i \in 1 .. Len(S) + Len(T) /\ i \in 1 .. Len(v)
    BY <1>1, <1>3, <1>4
  <2>2. CASE i <= Len(s)
    <3>1. i \in 1 .. Len(s)  BY <1>2, <2>1, <2>2
    <3>2. v[i] = s[i] /\ C[i] = S[i]  BY <1>1, <1>3, <1>8, <2>1, <2>2
    <3> QED  BY <1>5, <1>6, <2>1, <3>1, <3>2
  <2>3. CASE ~(i <= Len(s))
    <3> DEFINE j == i - Len(s)
    <3>1. j \in 1 .. Len(t)  BY <1>2, <2>1, <2>3
    <3>2. v[i] = t[j] /\ C[i] = T[j]  BY <1>1, <1>3, <1>8, <2>1, <2>3
    <3> HIDE DEF j
    <3> QED  BY <1>5, <1>7, <2>1, <3>1, <3>2
  <2> QED  BY <2>2, <2>3
<1>10. B = C
  <2>1. Len(B) = Len(C)  BY <1>1, <1>3, <1>4, <1>8
  <2> QED  BY <1>4, <1>8, <1>9, <2>1, SeqEqual
<1>11. Concatenations(C) = Join(Concatenations(S), Concatenations(T))
  BY <1>3, ConcatenationsOfTwo DEF A, C
<1> QED  BY <1>10, <1>11 DEF B, S, T, v

LEMMA OwedOne ==
  ASSUME NEW st, NEW d \in Deferred
  PROVE  Concatenations(Owed(st, <<d>>)) = Derives(d.symbol, Language(st)[d.limit])
<1> DEFINE D == Derives(d.symbol, Language(st)[d.limit])
<1>1. Owed(st, <<d>>) = <<D>>  BY DEF Owed
<1>2. D \in SUBSET Seq(Outlines)  BY DeferredType
<1> HIDE DEF D
<1>3. Concatenations(<<D>>) = D  BY <1>2, ConcatenationsOne
<1> QED  BY <1>1, <1>3 DEF D

LEMMA OwedNone ==
  ASSUME NEW st
  PROVE  Concatenations(Owed(st, <<>>)) = {<<>>}
<1>1. Owed(st, <<>>) = <<>>  BY DEF Owed
<1>2. <<>> \in Seq(SUBSET Seq(Outlines)) /\ {} \in SUBSET Seq(Outlines)  OBVIOUS
<1>3. Concatenations(<<>>) = {<<>>}  BY <1>2, ConcatenationsPrefix
<1> QED  BY <1>1, <1>3

(* The first symbol may be replaced by what derives no more than it does.  *)
LEMMA Replaced ==
  ASSUME NEW st, NEW due \in Seq(Deferred), due # <<>>, NEW front \in Seq(Deferred),
         Concatenations(Owed(st, front))
           \subseteq Derives(Head(due).symbol, Language(st)[Head(due).limit])
  PROVE  /\ front \o Tail(due) \in Seq(Deferred)
         /\ Concatenations(Owed(st, front \o Tail(due))) \subseteq Concatenations(Owed(st, due))
<1> DEFINE d    == Head(due)
           rest == Tail(due)
           F    == Concatenations(Owed(st, front))
           D    == Derives(d.symbol, Language(st)[d.limit])
           R    == Concatenations(Owed(st, rest))
<1>1. d \in Deferred /\ rest \in Seq(Deferred) /\ due = <<d>> \o rest  BY HeadTailProperties
<1> HIDE DEF rest, d
<1>2. <<d>> \in Seq(Deferred) /\ front \o rest \in Seq(Deferred)  BY <1>1, ConcatProperties
<1>3. Concatenations(Owed(st, due)) = Join(D, R)
  <2>1. Concatenations(Owed(st, <<d>> \o rest)) = Join(Concatenations(Owed(st, <<d>>)), R)
    BY <1>1, <1>2, OwedOfTwo
  <2>2. Concatenations(Owed(st, <<d>>)) = D  BY <1>1, OwedOne
  <2> QED  BY <1>1, <2>1, <2>2
<1>4. Concatenations(Owed(st, front \o rest)) = Join(F, R)  BY <1>1, OwedOfTwo
<1>5. F \subseteq D  BY DEF d
<1> HIDE DEF F, D, R
<1>6. Join(F, R) \subseteq Join(D, R)  BY <1>5 DEF Join
<1> QED  BY <1>2, <1>3, <1>4, <1>6 DEF d, rest

LEMMA OwedHead ==
  ASSUME NEW st, NEW due \in Seq(Deferred), due # <<>>
  PROVE  /\ Head(due) \in Deferred /\ Tail(due) \in Seq(Deferred)
         /\ Concatenations(Owed(st, due))
              = Join(Derives(Head(due).symbol, Language(st)[Head(due).limit]),
                     Concatenations(Owed(st, Tail(due))))
         /\ Concatenations(Owed(st, Tail(due))) \subseteq Seq(Outlines)
<1> DEFINE d    == Head(due)
           rest == Tail(due)
           D    == Derives(d.symbol, Language(st)[d.limit])
           R    == Concatenations(Owed(st, rest))
<1>1. d \in Deferred /\ rest \in Seq(Deferred) /\ due = <<d>> \o rest  BY HeadTailProperties
<1> HIDE DEF rest, d
<1>2. <<d>> \in Seq(Deferred)  BY <1>1
<1>3. Concatenations(Owed(st, <<d>> \o rest)) = Join(Concatenations(Owed(st, <<d>>)), R)
  BY <1>1, <1>2, OwedOfTwo
<1>4. Concatenations(Owed(st, <<d>>)) = D  BY <1>1, OwedOne
<1>5. R \subseteq Seq(Outlines)
  <2>1. Owed(st, rest) \in Seq(SUBSET Seq(Outlines))  BY <1>1, OwedType
  <2>2. {} \in SUBSET Seq(Outlines)  OBVIOUS
  <2> QED  BY <2>1, <2>2, ConcatenationsPrefix
<1>6. Concatenations(Owed(st, due)) = Join(D, R)  BY <1>1, <1>3, <1>4
<1> QED  BY <1>1, <1>5, <1>6 DEF d, rest

LEMMA PieceShape ==
  ASSUME NEW p \in Piece
  PROVE  Shape(p) \in Outlines /\ (p.mined => p.text \in TextsOf(p.name))
<1>1. CASE \E n \in Names : \E text \in TextsOf(n) : p = Fragment(n, text)
  <2>0. PICK n \in Names : \E text \in TextsOf(n) : p = Fragment(n, text)  BY <1>1
  <2>1. PICK text \in TextsOf(n) : p = Fragment(n, text)  BY <2>0
  <2>2. Shape(Fragment(n, text)) = Fragment(n, <<>>)  BY DEF Shape, Fragment
  <2>3. p.text = text /\ p.name = n  BY <2>1 DEF Fragment
  <2> HIDE DEF Fragment, Shape
  <2>4. Fragment(n, <<>>) \in Outlines  BY <2>1 DEF Outlines
  <2> QED  BY <2>1, <2>2, <2>3, <2>4
<1>2. CASE \E n \in Names : p = Literal(n)
  <2>1. PICK n \in Names : p = Literal(n)  BY <1>2
  <2>2. Shape(Literal(n)) = Literal(n)  BY DEF Shape, Literal
  <2>3. ~p.mined  BY <2>1 DEF Literal
  <2>4. Literal(n) \in Outlines  BY <2>1 DEF Outlines
  <2> QED  BY <2>1, <2>2, <2>3, <2>4
<1> QED  BY <1>1, <1>2 DEF Piece

LEMMA OutlineType ==
  ASSUME NEW pieces \in Seq(Piece)
  PROVE  /\ Outline(pieces) \in Seq(Outlines)
         /\ \A p \in Piece : Outline(Append(pieces, p)) = Outline(pieces) \o <<Shape(p)>>
<1> DEFINE O == Outline(pieces)
<1>1. Len(pieces) \in Nat /\ DOMAIN pieces = 1 .. Len(pieces)  OBVIOUS
<1>2. \A i \in 1 .. Len(pieces) : Shape(pieces[i]) \in Outlines  BY PieceShape, ElementOfSeq
<1>3. O = [i \in 1 .. Len(pieces) |-> Shape(pieces[i])]  BY <1>1 DEF Outline
<1>4. O \in Seq(Outlines) /\ Len(O) = Len(pieces)  BY <1>1, <1>2, <1>3
<1>5. ASSUME NEW p \in Piece  PROVE Outline(Append(pieces, p)) = O \o <<Shape(p)>>
  <2> DEFINE q == Append(pieces, p)
             N == Len(pieces)
             Q == Outline(q)
             e == Shape(p)
  <2>1. /\ q \in Seq(Piece) /\ Len(q) = N + 1 /\ DOMAIN q = 1 .. N + 1
        /\ \A i \in 1 .. N : q[i] = pieces[i]
        /\ q[N + 1] = p
    BY AppendProperties
  <2>2. Q = [i \in 1 .. N + 1 |-> Shape(q[i])]  BY <2>1 DEF Outline
  <2>3. e \in Outlines  BY PieceShape
  <2> HIDE DEF q, N, Q, e
  <2>4. N \in Nat  BY DEF N
  <2>5. \A i \in 1 .. N + 1 : i = N + 1 \/ i \in 1 .. N  BY <2>4
  <2>6. N + 1 \in 1 .. N + 1 /\ \A i \in 1 .. N : i \in 1 .. N + 1  BY <2>4
  <2>7. Q[N + 1] = e /\ \A i \in 1 .. N : Q[i] = O[i]
    BY <1>3, <2>1, <2>2, <2>6 DEF N, e
  <2> HIDE DEF O
  <2>8. O \in Seq(Outlines) /\ Len(O) = N  BY <1>4 DEF N
  <2> DEFINE B == Append(O, e)
  <2>9. /\ B \in Seq(Outlines) /\ Len(B) = N + 1
        /\ \A i \in 1 .. N : B[i] = O[i]
        /\ B[N + 1] = e
    BY <2>3, <2>8, AppendProperties
  <2>10. B = O \o <<e>>  BY <2>3, <2>8, AppendIsConcat
  <2> HIDE DEF B
  <2>11. \A i \in 1 .. N + 1 : Q[i] = B[i]  BY <2>5, <2>7, <2>9
  <2>12. \A i \in 1 .. N + 1 : B[i] \in Outlines  BY <2>9, ElementOfSeq
  <2>13. Q \in Seq(Outlines) /\ Len(Q) = N + 1
    <3>1. Q \in [1 .. N + 1 -> Outlines]  BY <2>2, <2>11, <2>12
    <3>2. N + 1 \in Nat  BY <2>4
    <3> QED  BY <3>1, <3>2
  <2>14. Q = B  BY <2>9, <2>11, <2>13, SeqEqual
  <2> QED  BY <2>10, <2>14 DEF Q, q, e
<1> QED  BY <1>4, <1>5

LEMMA CompletedPiece ==
  ASSUME NEW st, NEW kind, NEW due \in Seq(Deferred), due # <<>>, NEW pieces \in Seq(Piece),
         NEW p \in Piece, Completed(st, kind, due, pieces),
         <<Shape(p)>> \in Derives(Head(due).symbol, Language(st)[Head(due).limit])
  PROVE  Completed(st, kind, Tail(due), Append(pieces, p))
<1> DEFINE o == Outline(pieces)
           e == <<Shape(p)>>
           D == Derives(Head(due).symbol, Language(st)[Head(due).limit])
           R == Concatenations(Owed(st, Tail(due)))
           J == Join(D, R)
           G == Language(st)[RecursionLimit][kind]
<1>1. R \subseteq Seq(Outlines) /\ Concatenations(Owed(st, due)) = J  BY OwedHead
<1>2. o \in Seq(Outlines) /\ Outline(Append(pieces, p)) = o \o e  BY OutlineType
<1>3. e \in Seq(Outlines)
  <2>1. Shape(p) \in Outlines  BY PieceShape
  <2> HIDE DEF Shape
  <2> QED  BY <2>1
<1>4. \A w \in J : o \o w \in G  BY <1>1 DEF Completed
<1>5. e \in D  OBVIOUS
<1> HIDE DEF o, e, D, R, G
<1>6. ASSUME NEW w \in R  PROVE (o \o e) \o w \in G
  <2>1. e \o w \in J  BY <1>5 DEF Join
  <2>2. o \in Seq(Outlines) /\ e \in Seq(Outlines) /\ w \in Seq(Outlines)
    BY <1>1, <1>2, <1>3
  <2>3. (o \o e) \o w = o \o (e \o w)  BY <2>2, ConcatAssociative
  <2> HIDE DEF J
  <2> QED  BY <1>4, <2>1, <2>3
<1> QED  BY <1>2, <1>6 DEF Completed, R, G

LEMMA CompletedStart ==
  ASSUME NEW st, NEW kind \in Derivable
  PROVE  /\ <<Due(Symbol("nonterminal", kind), RecursionLimit)>> \in Seq(Deferred)
         /\ Completed(st, kind, <<Due(Symbol("nonterminal", kind), RecursionLimit)>>, <<>>)
<1> DEFINE y == Symbol("nonterminal", kind)
           d == Due(y, RecursionLimit)
           G == Language(st)[RecursionLimit][kind]
<1>1. y \in Symbols /\ y.type = "nonterminal" /\ y.name = kind  BY DEF Symbols, Symbol
<1> HIDE DEF y
<1>2. RecursionLimit \in 0 .. RecursionLimit  BY GenerationAssumption DEF GenerationAssumption
<1>3. d \in Deferred /\ d.symbol = y /\ d.limit = RecursionLimit  BY <1>1, <1>2 DEF Due, Deferred
<1> HIDE DEF d
<1>4. <<d>> \in Seq(Deferred)  BY <1>3
<1>5. Language(st)[RecursionLimit] \in Lower  BY <1>2, LanguageSolves
<1>6. Concatenations(Owed(st, <<d>>)) = G
  <2>1. Concatenations(Owed(st, <<d>>)) = Derives(y, Language(st)[RecursionLimit])
    BY <1>3, OwedOne
  <2>2. Derives(y, Language(st)[RecursionLimit]) = G  BY <1>1, <1>5, DerivesType
  <2> QED  BY <2>1, <2>2
<1>7. G \in SUBSET Seq(Outlines)  BY <1>5 DEF Lower
<1>8. Outline(<<>>) = <<>>  BY DEF Outline
<1>9. \A w \in G : <<>> \o w = w  BY <1>7, ConcatEmptySeq
<1>10. Completed(st, kind, <<d>>, <<>>)
  <2> HIDE DEF G
  <2>1. \A w \in G : Outline(<<>>) \o w \in G  BY <1>8, <1>9
  <2> QED  BY <1>6, <2>1 DEF Completed, G
<1> QED  BY <1>4, <1>10 DEF d, y

LEMMA CompletedEnd ==
  ASSUME NEW st, NEW kind, NEW pieces \in Seq(Piece), Completed(st, kind, <<>>, pieces)
  PROVE  Outline(pieces) \in Language(st)[RecursionLimit][kind]
<1>1. Outline(pieces) \in Seq(Outlines)  BY OutlineType
<1>2. Outline(pieces) \o <<>> = Outline(pieces)  BY <1>1, ConcatEmptySeq
<1>3. <<>> \in Concatenations(Owed(st, <<>>))  BY OwedNone
<1>4. Outline(pieces) \o <<>> \in Language(st)[RecursionLimit][kind]  BY <1>3 DEF Completed
<1> QED  BY <1>2, <1>4

(* A rule applied under one limit derives what its kind does under the next. *)
LEMMA RuleWithin ==
  ASSUME NEW st, NEW kind \in DOMAIN Rules, NEW r \in DOMAIN Rules[kind],
         NEW limit \in 1 .. RecursionLimit,
         NEW front, front = [i \in DOMAIN Rules[kind][r] |-> Due(Rules[kind][r][i], limit - 1)]
  PROVE  /\ front \in Seq(Deferred)
         /\ Concatenations(Owed(st, front)) \subseteq Language(st)[limit][kind]
<1> DEFINE rule  == Rules[kind][r]
           lower == Language(st)[limit - 1]
<1>1. rule \in Seq(Symbols)  BY RuleType
<1>2. Len(rule) \in Nat /\ DOMAIN rule = 1 .. Len(rule) /\ \A i \in 1 .. Len(rule) : rule[i] \in Symbols
  BY <1>1, ElementOfSeq
<1>3. RecursionLimit \in Nat  BY GenerationAssumption DEF GenerationAssumption
<1>4. limit - 1 \in 0 .. RecursionLimit  BY <1>3
<1> HIDE DEF rule
<1>5. front = [i \in 1 .. Len(rule) |-> Due(rule[i], limit - 1)]  BY <1>2 DEF rule
<1>6. front \in Seq(Deferred)
  <2>1. \A i \in 1 .. Len(rule) : Due(rule[i], limit - 1) \in Deferred
    BY <1>2, <1>4 DEF Due, Deferred
  <2> HIDE DEF Due
  <2> QED  BY <1>2, <1>5, <2>1
<1>7. Owed(st, front) = [i \in DOMAIN rule |-> Derives(rule[i], lower)]
  BY <1>2, <1>5 DEF Owed, Due
<1>8. Concatenations(Owed(st, front)) = Applied(rule, lower)  BY <1>7 DEF Applied
<1>9. Language(st)[limit][kind] = Deeper(st, kind, lower)  BY LanguageSolves DEF Derivable
<1>10. Applied(rule, lower) \subseteq Deeper(st, kind, lower)
  <2> HIDE DEF lower
  <2> QED  BY DEF Deeper, rule
<1> QED  BY <1>6, <1>8, <1>9, <1>10

(* A kind derives its own fragment at the limit, without a rule, and       *)
(* whenever the steer finds none.                                          *)
LEMMA OwnWithin ==
  ASSUME NEW st, NEW kind \in Derivable, NEW limit \in 0 .. RecursionLimit,
         limit = 0 \/ kind \notin DOMAIN Rules \/ st = "steer"
  PROVE  Own(kind) \in Language(st)[limit][kind]
<1>1. CASE limit = 0  BY <1>1, LanguageSolves
<1>2. CASE limit # 0
  <2>1. limit \in 1 .. RecursionLimit  BY <1>2
  <2>2. Language(st)[limit][kind] = Deeper(st, kind, Language(st)[limit - 1])
    BY <2>1, LanguageSolves
  <2>3. Own(kind) \in Deeper(st, kind, Language(st)[limit - 1])  BY <1>2 DEF Deeper
  <2> QED  BY <2>2, <2>3
<1> QED  BY <1>1, <1>2

-----------------------------------------------------------------------------
(* The invariant of generation.                                            *)

LEMMA Unmoved ==
  ASSUME FInv, UNCHANGED vars
  PROVE  FInv' /\ Piece' = Piece /\ mpc' = mpc
<1>1. FInv'  BY NextFInv
<1>2. files' = files /\ result' = result /\ mpc' = mpc  BY DEF vars
<1>3. \A k : TextsOf(k)' = TextsOf(k)  BY <1>2 DEF TextsOf
<1> QED  BY <1>1, <1>2, <1>3 DEF Piece

LEMMA InitGInv == GInit => GInv
<1> SUFFICES ASSUME GInit PROVE GInv  OBVIOUS
<1>1. FInv  BY InitFInv DEF GInit
<1>2. gpc = "idle" /\ purpose = NoPurpose /\ todo = <<>> /\ out = <<>>  BY DEF GInit
<1>3. StartSymbol \in Derivable  BY DEF Derivable
<1>4. GTypeOK  BY <1>2, <1>3 DEF GTypeOK, NoPurpose
<1> QED  BY <1>1, <1>2, <1>4 DEF GInv, Completes, Allowed

(* Mining goes on only while nothing is generated.                         *)
LEMMA MiningKeeps ==
  ASSUME GInv, Next \/ UNCHANGED vars, UNCHANGED generation
  PROVE  GInv'
<1>1. UNCHANGED <<gpc, purpose, todo, out, usage>>  BY DEF generation
<1>2. FInv'  BY NextFInv DEF GInv
<1>3. CASE gpc = "idle"
  <2>1. out' = <<>>  BY <1>1, <1>3 DEF GInv, GTypeOK
  <2>2. GTypeOK'  BY <1>1, <1>3, <2>1 DEF GInv, GTypeOK
  <2> QED  BY <1>1, <1>2, <1>3, <2>2 DEF GInv, Completes, Allowed
<1>4. CASE gpc # "idle"
  <2>1. mpc = "done"  BY <1>4 DEF GInv, GTypeOK
  <2>2. UNCHANGED vars
    BY <2>1 DEF Next, Parse, ParseFails, ParsingDone, Merge, MergingDone, Deduplicate,
                WriteOutput, Ended
  <2>3. Piece' = Piece /\ mpc' = mpc  BY <2>2, Unmoved DEF GInv
  <2>4. GTypeOK'  BY <1>1, <2>3 DEF GInv, GTypeOK
  <2>5. Completes' /\ Allowed'
    BY <1>1 DEF GInv, Completes, Allowed, Completed, Owed, Outline
  <2> QED  BY <1>2, <2>4, <2>5 DEF GInv
<1> QED  BY <1>3, <1>4

LEMMA BeginKeeps ==
  ASSUME GInv, NEW user, user # "fragment", NEW st \in {"random", "steer"}, NEW kind \in Derivable,
         Begin(user, st, kind)
  PROVE  GInv'
<1>1. /\ mpc = "done" /\ gpc' = "deriving"
      /\ purpose' = [user |-> user, strategy |-> st, kind |-> kind]
      /\ todo' = <<Due(Symbol("nonterminal", kind), RecursionLimit)>> /\ out' = <<>>
      /\ UNCHANGED vars
  BY DEF Begin
<1>2. FInv' /\ mpc' = "done"  BY <1>1, Unmoved DEF GInv
<1>3. purpose'.user = user /\ purpose'.strategy = st /\ purpose'.kind = kind  BY <1>1
<1>4. todo' \in Seq(Deferred) /\ Completed(st, kind, todo', out')
  BY <1>1, CompletedStart
<1>5. GTypeOK'
  <2>1. out' \in Seq(Piece')  BY <1>1
  <2> QED  BY <1>1, <1>2, <1>3, <1>4, <2>1 DEF GTypeOK
<1>6. Completes'  BY <1>3, <1>4 DEF Completes
<1>7. Allowed'  BY <1>1 DEF Allowed
<1> QED  BY <1>2, <1>5, <1>6, <1>7 DEF GInv

LEMMA ChooseKeeps == GInv /\ ChooseFromDerivations => GInv'
<1> SUFFICES ASSUME GInv, ChooseFromDerivations PROVE GInv'  OBVIOUS
<1>1. PICK kind \in NodeKinds :
        /\ purpose' = [user |-> "fragment", strategy |-> "random", kind |-> kind]
        /\ \/ \E text \in FragmentsOf(kind) : gpc' = "generated" /\ out' = <<Fragment(kind, text)>>
           \/ gpc' = "skipped" /\ out' = <<>>
  BY DEF ChooseFromDerivations
<1>2. mpc = "done" /\ UNCHANGED vars /\ todo' = todo  BY DEF ChooseFromDerivations
<1>3. FInv /\ FInv' /\ Piece' = Piece /\ mpc' = "done"  BY <1>2, Unmoved DEF GInv
<1>4. kind \in Derivable /\ kind \in Names  BY DEF Derivable, Names
<1>5. purpose'.user = "fragment" /\ purpose'.strategy = "random" /\ purpose'.kind = kind
  BY <1>1
<1>6. CASE gpc' = "skipped" /\ out' = <<>>
  <2>1. out' \in Seq(Piece')  BY <1>6
  <2>2. GTypeOK'  BY <1>2, <1>3, <1>4, <1>5, <1>6, <2>1 DEF GInv, GTypeOK
  <2> QED  BY <1>3, <1>6, <2>2 DEF GInv, Completes, Allowed
<1>7. CASE \E text \in FragmentsOf(kind) : gpc' = "generated" /\ out' = <<Fragment(kind, text)>>
  <2>1. PICK text \in FragmentsOf(kind) : gpc' = "generated" /\ out' = <<Fragment(kind, text)>>
    BY <1>7
  <2> DEFINE p == Fragment(kind, text)
  <2>2. text \in TextsOf(kind)  BY <1>2, <1>3, FragmentsAreTexts
  <2>3. p \in Piece  BY <1>4, <2>2 DEF Piece
  <2>4. Shape(p) = Fragment(kind, <<>>)  BY DEF Shape, Fragment
  <2> HIDE DEF p
  <2>5. out' = <<p>>  BY <2>1 DEF p
  <2>6. out' \in Seq(Piece')  BY <1>3, <2>3, <2>5
  <2>7. GTypeOK'  BY <1>2, <1>3, <1>4, <1>5, <2>1, <2>6 DEF GInv, GTypeOK
  <2>8. Outline(out') = Own(kind)  BY <2>4, <2>5 DEF Outline, Own
  <2>9. Allowed'  BY <1>5, <2>8 DEF Allowed
  <2> QED  BY <1>3, <2>1, <2>7, <2>9 DEF GInv, Completes
<1> QED  BY <1>1, <1>6, <1>7

(* A piece that the first symbol derives takes its place.                  *)
LEMMA PieceKeeps ==
  ASSUME GInv, gpc = "deriving", todo # <<>>, UNCHANGED <<vars, purpose, gpc>>,
         NEW p \in Piece,
         <<Shape(p)>> \in Derives(Head(todo).symbol, Language(purpose.strategy)[Head(todo).limit]),
         out' = Append(out, p), todo' = Tail(todo)
  PROVE  GInv'
<1>1. FInv' /\ Piece' = Piece /\ mpc' = mpc  BY Unmoved DEF GInv
<1>2. todo \in Seq(Deferred) /\ out \in Seq(Piece)  BY DEF GInv, GTypeOK
<1>3. todo' \in Seq(Deferred) /\ out' \in Seq(Piece)
  BY <1>2, HeadTailProperties, AppendProperties
<1>4. Completed(purpose.strategy, purpose.kind, todo, out)  BY DEF GInv, Completes
<1>5. Completed(purpose.strategy, purpose.kind, todo', out')
  BY <1>2, <1>4, CompletedPiece
<1>6. GTypeOK'  BY <1>1, <1>3 DEF GInv, GTypeOK
<1>7. Completes'  BY <1>5 DEF Completes
<1> QED  BY <1>1, <1>6, <1>7 DEF GInv, Allowed

LEMMA FailKeeps ==
  ASSUME GInv, gpc = "deriving", UNCHANGED <<vars, purpose>>, Fail
  PROVE  GInv'
<1>1. FInv' /\ Piece' = Piece /\ mpc' = mpc  BY Unmoved DEF GInv
<1>2. out' \in Seq(Piece') /\ out' = <<>>  BY DEF Fail
<1>3. purpose' = purpose /\ purpose.kind \in Derivable  BY DEF GInv, GTypeOK
<1>4. CASE purpose.user = "seed"
  <2>1. gpc' = "deriving" /\ todo' = <<Due(Symbol("nonterminal", purpose.kind), RecursionLimit)>>
    BY <1>4 DEF Fail
  <2>2. todo' \in Seq(Deferred) /\ Completed(purpose.strategy, purpose.kind, todo', out')
    BY <1>2, <1>3, <2>1, CompletedStart
  <2>3. GTypeOK'  BY <1>1, <1>2, <1>3, <2>1, <2>2 DEF GInv, GTypeOK
  <2>4. Completes'  BY <1>3, <2>2 DEF Completes
  <2> QED  BY <1>1, <2>1, <2>3, <2>4 DEF GInv, Allowed
<1>5. CASE purpose.user # "seed"
  <2>1. gpc' = "skipped" /\ todo' = <<>>  BY <1>5 DEF Fail
  <2>2. GTypeOK'  BY <1>1, <1>2, <1>3, <2>1 DEF GInv, GTypeOK
  <2> QED  BY <1>1, <2>1, <2>2 DEF GInv, Completes, Allowed
<1> QED  BY <1>4, <1>5

LEMMA UseFragmentKeeps ==
  ASSUME GInv, gpc = "deriving", todo # <<>>, UNCHANGED <<vars, purpose>>, NEW kind \in Names,
         Own(kind) \in Derives(Head(todo).symbol, Language(purpose.strategy)[Head(todo).limit]),
         UseFragment(kind)
  PROVE  GInv'
<1>1. CASE Fail  BY <1>1, FailKeeps
<1>2. CASE ~Fail
  <2>1. PICK text \in SelectFragment(kind) :
          out' = Append(out, Fragment(kind, text)) /\ todo' = Tail(todo) /\ gpc' = gpc
    BY <1>2 DEF UseFragment
  <2> DEFINE p == Fragment(kind, text)
  <2>2. mpc = "done" /\ FInv  BY DEF GInv, GTypeOK
  <2>3. text \in TextsOf(kind)  BY <2>2, FragmentsAreTexts DEF SelectFragment
  <2>4. p \in Piece  BY <2>3 DEF Piece
  <2>5. Shape(p) = Fragment(kind, <<>>)  BY DEF Shape, Fragment
  <2> HIDE DEF p
  <2>6. <<Shape(p)>> = Own(kind)  BY <2>5 DEF Own
  <2>7. out' = Append(out, p) /\ UNCHANGED <<vars, purpose, gpc>>  BY <2>1 DEF p
  <2> QED  BY <2>1, <2>4, <2>6, <2>7, PieceKeeps
<1> QED  BY <1>1, <1>2

(* The first symbol is replaced by symbols that derive no more.            *)
LEMMA ReplaceKeeps ==
  ASSUME GInv, gpc = "deriving", todo # <<>>, UNCHANGED <<vars, purpose, gpc, out>>,
         NEW front \in Seq(Deferred),
         Concatenations(Owed(purpose.strategy, front))
           \subseteq Derives(Head(todo).symbol, Language(purpose.strategy)[Head(todo).limit]),
         todo' = front \o Tail(todo)
  PROVE  GInv'
<1>1. FInv' /\ Piece' = Piece /\ mpc' = mpc  BY Unmoved DEF GInv
<1>2. todo \in Seq(Deferred)  BY DEF GInv, GTypeOK
<1>3. /\ todo' \in Seq(Deferred)
      /\ Concatenations(Owed(purpose.strategy, todo')) \subseteq Concatenations(Owed(purpose.strategy, todo))
  BY <1>2, Replaced
<1>4. Completed(purpose.strategy, purpose.kind, todo, out)  BY DEF GInv, Completes
<1>5. Completed(purpose.strategy, purpose.kind, todo', out)  BY <1>3, <1>4 DEF Completed
<1>6. GTypeOK'  BY <1>1, <1>3 DEF GInv, GTypeOK
<1>7. Completes'  BY <1>5 DEF Completes
<1> QED  BY <1>1, <1>6, <1>7 DEF GInv, Allowed

(* The symbol about to be derived, and what it derives.                    *)
LEMMA FirstDue ==
  ASSUME GInv, todo # <<>>
  PROVE  LET symbol == Head(todo).symbol
             limit  == Head(todo).limit
             lower  == Language(purpose.strategy)[limit]
         IN  /\ todo \in Seq(Deferred) /\ symbol \in Symbols
             /\ limit \in 0 .. RecursionLimit /\ symbol.name \in Names
             /\ symbol.type = "nonterminal" =>
                  symbol.name \in Derivable /\ Derives(symbol, lower) = lower[symbol.name]
             /\ symbol.type = "terminal" => Derives(symbol, lower) = {Own(symbol.name)}
             /\ symbol.type = "immediate" => Derives(symbol, lower) = {<<Literal(symbol.name)>>}
             /\ symbol.type = "eof" => Derives(symbol, lower) = {<<>>}
<1> DEFINE d == Head(todo)
<1>1. todo \in Seq(Deferred)  BY DEF GInv, GTypeOK
<1>2. d \in Deferred  BY <1>1, HeadTailProperties
<1>3. d.symbol \in Symbols /\ d.limit \in 0 .. RecursionLimit
      /\ Language(purpose.strategy)[d.limit] \in Lower
  BY <1>2, DeferredType
<1> HIDE DEF d
<1>4. /\ d.symbol.name \in Names
      /\ d.symbol.type = "nonterminal" => d.symbol.name \in Derivable
  BY <1>3, SymbolType
<1> QED  BY <1>1, <1>3, <1>4, DerivesType DEF d

LEMMA NonTerminalKeeps == GInv /\ DeriveNonTerminal => GInv'
<1> SUFFICES ASSUME GInv, DeriveNonTerminal PROVE GInv'  OBVIOUS
<1> DEFINE kind  == Head(todo).symbol.name
           limit == Head(todo).limit
           L     == Language(purpose.strategy)
           D     == Derives(Head(todo).symbol, L[limit])
<1>1. /\ gpc = "deriving" /\ todo # <<>> /\ Head(todo).symbol.type = "nonterminal"
      /\ UNCHANGED <<vars, purpose>>
  BY DEF DeriveNonTerminal, Deriving
<1>2. /\ todo \in Seq(Deferred) /\ limit \in 0 .. RecursionLimit /\ kind \in Derivable
      /\ kind \in Names /\ D = L[limit][kind]
  BY <1>1, FirstDue
<1>3. PICK rule \in SelectRule(kind) :
        IF rule # 0 /\ limit > 0
        THEN todo' = Expansion(kind, rule, limit - 1) /\ UNCHANGED <<gpc, out>>
        ELSE UseFragment(kind)
  BY DEF DeriveNonTerminal
<1>4. RecursionLimit \in Nat  BY GenerationAssumption DEF GenerationAssumption
<1> HIDE DEF kind, limit, L, D
<1>5. /\ kind \notin DOMAIN Rules => rule = 0
      /\ kind \in DOMAIN Rules => rule \in DOMAIN Rules[kind] \/ rule = 0
      /\ kind \in DOMAIN Rules /\ rule = 0 => purpose.strategy # "random"
  <2>1. rule \in SelectRule(kind)  BY <1>3
  <2>2. CASE kind \notin DOMAIN Rules  BY <2>1, <2>2 DEF SelectRule
  <2>3. CASE kind \in DOMAIN Rules /\ purpose.strategy = "random"
    <3>1. rule \in DOMAIN Rules[kind]  BY <2>1, <2>3 DEF SelectRule
    <3>2. DOMAIN Rules[kind] = 1 .. Len(Rules[kind]) /\ Len(Rules[kind]) \in Nat
      BY <2>3, RuleType
    <3>3. rule # 0  BY <3>1, <3>2
    <3> QED  BY <2>3, <3>1, <3>3
  <2>4. CASE kind \in DOMAIN Rules /\ purpose.strategy # "random"
    <3> DEFINE likely == {i \in DOMAIN Rules[kind] : Weight(Stats(kind), i) > 0}
    <3>1. SelectRule(kind) = IF likely = {} THEN {0} ELSE likely  BY <2>4 DEF SelectRule
    <3>2. likely \subseteq DOMAIN Rules[kind]  OBVIOUS
    <3> HIDE DEF likely
    <3>3. rule = 0 \/ rule \in likely
      <4>1. CASE likely = {}  BY <2>1, <3>1, <4>1
      <4>2. CASE likely # {}  BY <2>1, <3>1, <4>2
      <4> QED  BY <4>1, <4>2
    <3> QED  BY <2>4, <3>2, <3>3
  <2> QED  BY <2>2, <2>3, <2>4
<1>6. CASE rule # 0 /\ limit > 0
  <2> DEFINE front == [i \in DOMAIN Rules[kind][rule] |-> Due(Rules[kind][rule][i], limit - 1)]
  <2>1. kind \in DOMAIN Rules /\ rule \in DOMAIN Rules[kind]  BY <1>5, <1>6
  <2>2. limit \in 1 .. RecursionLimit  BY <1>2, <1>4, <1>6
  <2>3. todo' = front \o Tail(todo) /\ UNCHANGED <<gpc, out>>  BY <1>3, <1>6 DEF Expansion
  <2>4. /\ front \in Seq(Deferred)
        /\ Concatenations(Owed(purpose.strategy, front)) \subseteq L[limit][kind]
    BY <2>1, <2>2, RuleWithin DEF L
  <2> HIDE DEF front
  <2>5. Concatenations(Owed(purpose.strategy, front)) \subseteq D  BY <1>2, <2>4
  <2> QED  BY <1>1, <2>3, <2>4, <2>5, ReplaceKeeps DEF D, L, limit
<1>7. CASE ~(rule # 0 /\ limit > 0)
  <2>1. UseFragment(kind)  BY <1>3, <1>7
  <2>2. purpose.strategy \in {"random", "steer"}  BY DEF GInv, GTypeOK
  <2>3. limit = 0 \/ kind \notin DOMAIN Rules \/ purpose.strategy = "steer"
    BY <1>2, <1>4, <1>5, <1>7, <2>2
  <2>4. Own(kind) \in L[limit][kind]  BY <1>2, <2>3, OwnWithin DEF L
  <2>5. Own(kind) \in D  BY <1>2, <2>4
  <2> QED  BY <1>1, <1>2, <2>1, <2>5, UseFragmentKeeps DEF D, L, limit
<1> QED  BY <1>6, <1>7

LEMMA TerminalKeeps == GInv /\ DeriveTerminal => GInv'
<1> SUFFICES ASSUME GInv, DeriveTerminal PROVE GInv'  OBVIOUS
<1> DEFINE kind == Head(todo).symbol.name
           D    == Derives(Head(todo).symbol, Language(purpose.strategy)[Head(todo).limit])
<1>1. /\ gpc = "deriving" /\ todo # <<>> /\ Head(todo).symbol.type = "terminal"
      /\ UNCHANGED <<vars, purpose>> /\ UseFragment(kind)
  BY DEF DeriveTerminal, Deriving
<1>2. kind \in Names /\ D = {Own(kind)}  BY <1>1, FirstDue
<1>3. Own(kind) \in D  BY <1>2
<1> QED  BY <1>1, <1>2, <1>3, UseFragmentKeeps

LEMMA ImmediateKeeps == GInv /\ DeriveImmediate => GInv'
<1> SUFFICES ASSUME GInv, DeriveImmediate PROVE GInv'  OBVIOUS
<1> DEFINE D == Derives(Head(todo).symbol, Language(purpose.strategy)[Head(todo).limit])
<1>1. /\ gpc = "deriving" /\ todo # <<>> /\ UNCHANGED <<vars, purpose, gpc>>
      /\ todo' = Tail(todo)
  BY DEF DeriveImmediate, Deriving
<1>2. CASE Head(todo).symbol.type = "immediate" /\ out' = Append(out, Literal(Head(todo).symbol.name))
  <2> DEFINE p == Literal(Head(todo).symbol.name)
  <2>1. Head(todo).symbol.name \in Names /\ D = {<<p>>}  BY <1>1, <1>2, FirstDue
  <2>2. p \in Piece  BY <2>1 DEF Piece
  <2>3. Shape(p) = p  BY DEF Shape, Literal
  <2> HIDE DEF p, D
  <2>4. <<Shape(p)>> \in D  BY <2>1, <2>3
  <2> QED  BY <1>1, <1>2, <2>2, <2>4, PieceKeeps DEF p, D
<1>3. CASE Head(todo).symbol.type = "eof" /\ UNCHANGED out
  <2>1. D = {<<>>} /\ todo \in Seq(Deferred)  BY <1>1, <1>3, FirstDue
  <2>2. Tail(todo) \in Seq(Deferred)  BY <1>1, <2>1, HeadTailProperties
  <2>3. <<>> \o Tail(todo) = Tail(todo)  BY <2>2, ConcatEmptySeq
  <2>4. <<>> \in Seq(Deferred)  OBVIOUS
  <2>5. Concatenations(Owed(purpose.strategy, <<>>)) \subseteq D  BY <2>1, OwedNone
  <2>6. todo' = <<>> \o Tail(todo)  BY <1>1, <2>3
  <2> HIDE DEF D
  <2> QED  BY <1>1, <1>3, <2>4, <2>5, <2>6, ReplaceKeeps DEF D
<1> QED  BY <1>2, <1>3 DEF DeriveImmediate, Deriving

LEMMA DerivedKeeps == GInv /\ Derived => GInv'
<1> SUFFICES ASSUME GInv, Derived PROVE GInv'  OBVIOUS
<1>1. gpc = "deriving" /\ todo = <<>> /\ gpc' = "generated" /\ UNCHANGED <<vars, purpose, todo, out>>
  BY DEF Derived
<1>2. FInv' /\ Piece' = Piece /\ mpc' = mpc  BY <1>1, Unmoved DEF GInv
<1>3. out \in Seq(Piece) /\ purpose.user # "fragment"  BY <1>1 DEF GInv, GTypeOK
<1>4. Completed(purpose.strategy, purpose.kind, <<>>, out)  BY <1>1 DEF GInv, Completes
<1>5. Outline(out) \in Language(purpose.strategy)[RecursionLimit][purpose.kind]
  BY <1>3, <1>4, CompletedEnd
<1>6. GTypeOK'  BY <1>1, <1>2 DEF GInv, GTypeOK
<1>7. purpose' = purpose /\ out' = out  BY <1>1
<1>8. Allowed'  BY <1>3, <1>5, <1>7 DEF Allowed
<1> QED  BY <1>1, <1>2, <1>6, <1>8 DEF GInv, Completes

LEMMA HandledKeeps == GInv /\ Handled => GInv'
<1> SUFFICES ASSUME GInv, Handled PROVE GInv'  OBVIOUS
<1>1. gpc' = "idle" /\ purpose' = NoPurpose /\ out' = <<>> /\ todo' = todo /\ UNCHANGED vars
  BY DEF Handled
<1>2. FInv'  BY <1>1, Unmoved DEF GInv
<1>3. StartSymbol \in Derivable  BY DEF Derivable
<1>4. GTypeOK'  BY <1>1, <1>3 DEF GInv, GTypeOK, NoPurpose
<1> QED  BY <1>1, <1>2, <1>4 DEF GInv, Completes, Allowed

LEMMA NextGInv == GInv /\ [GNext]_<<vars, generation>> => GInv'
<1> SUFFICES ASSUME GInv, [GNext]_<<vars, generation>> PROVE GInv'  OBVIOUS
<1>0. NodeKinds \subseteq Derivable /\ DOMAIN Rules \subseteq Derivable /\ StartSymbol \in Derivable
  BY DEF Derivable
<1>1. CASE UNCHANGED <<vars, generation>>  BY <1>1, MiningKeeps
<1>2. CASE Next /\ UNCHANGED generation  BY <1>2, MiningKeeps
<1>3. CASE GenerateSeed  BY <1>0, <1>3, BeginKeeps DEF GenerateSeed
<1>4. CASE ExpandGrammar
  <2>1. PICK kind \in NodeKinds : Begin("node", "random", kind)  BY <1>4 DEF ExpandGrammar
  <2> QED  BY <1>0, <2>1, BeginKeeps
<1>5. CASE MismatchedNode
  <2>1. PICK kind \in DOMAIN Rules : Begin("node", "random", kind)  BY <1>5 DEF MismatchedNode
  <2> QED  BY <1>0, <2>1, BeginKeeps
<1>6. CASE GenerateSteered
  <2>1. PICK kind \in NodeKinds : Begin("node", "steer", kind)  BY <1>6 DEF GenerateSteered
  <2> QED  BY <1>0, <2>1, BeginKeeps
<1>7. CASE ChooseFromDerivations  BY <1>7, ChooseKeeps
<1>8. CASE Derive
  BY <1>8, NonTerminalKeeps, TerminalKeeps, ImmediateKeeps, DerivedKeeps DEF Derive
<1>9. CASE Handled  BY <1>9, HandledKeeps
<1> QED  BY <1>1, <1>2, <1>3, <1>4, <1>5, <1>6, <1>7, <1>8, <1>9 DEF GNext

LEMMA GInvGenerates == GInv => GeneratedFaithfully
<1> SUFFICES ASSUME GInv PROVE GeneratedFaithfully  OBVIOUS
<1>1. out \in Seq(Piece)  BY DEF GInv, GTypeOK
<1>2. \A i \in DOMAIN out : out[i] \in Piece  BY <1>1
<1>3. \A i \in DOMAIN out : out[i].mined => out[i].text \in TextsOf(out[i].name)
  BY <1>2, PieceShape
<1> QED  BY <1>3 DEF GInv, Allowed, Outline, GeneratedFaithfully

(* Mining, generation and usage statistics keep their types: what is still *)
(* to be derived are symbols of the rules under limits within the bound,   *)
(* and nothing is derived before mining is done.                           *)
THEOREM GenerationTypeCorrect == GSpec => [](FTypeOK /\ GTypeOK /\ UsageTypeOK)
<1>1. GInit => UInv  BY DEF GInit, UInv, UsageTypeOK, NoFavourite
<1>2. GInv /\ UInv => FTypeOK /\ GTypeOK /\ UsageTypeOK  BY DEF GInv, FInv, UInv
<1> QED  BY <1>1, <1>2, InitGInv, NextGInv, NextUInv, PTL DEF GSpec

(* Text generated is a derivation of the kind asked for, no deeper than    *)
(* the limit, made of mined fragments of the kinds it has, for every set   *)
(* of rules and files (NamedNodeGenerator::generate).                      *)
THEOREM GeneratedFaithfullyHolds == GSpec => []GeneratedFaithfully
BY InitGInv, NextGInv, GInvGenerates, PTL DEF GSpec
=============================================================================
