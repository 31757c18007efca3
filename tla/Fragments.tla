------------------------------ MODULE Fragments ------------------------------
(***************************************************************************)
(* MineCodeFragments::run (cli/mine_code_fragments.rs) with                *)
(* extract_derivation_fragments (grammar/fragment_extraction.rs): source   *)
(* files are parsed in parallel, each into the ranges of its nodes by      *)
(* kind; the files are then joined into one text, the ranges moved by what *)
(* lies before them, and sorted and deduplicated by the text they denote.  *)
(*                                                                         *)
(* A node is a record [kind, from, to, named, error, leaf, hidden]: bytes  *)
(* from .. to-1 of its file, counted from 0.  A hidden node is a leaf of   *)
(* the parse tree proper that only the dot graph shows.                    *)
(***************************************************************************)
EXTENDS Integers, Sequences, FiniteSets, Functions

CONSTANTS
  Source,     (* source files: [text, nodes]; text a sequence of numbers   *)
  FileCount   (* files below the search directory                          *)

(* A tree has finitely many nodes, and the bytes of a node are bytes of    *)
(* its file.                                                               *)
ASSUME FragmentsAssumption ==
  /\ FileCount \in Nat
  /\ \A src \in Source :
       /\ src.text \in Seq(Nat) /\ IsFiniteSet(src.nodes)
       /\ \A n \in src.nodes : n.from \in Nat /\ n.to \in n.from .. Len(src.text)

File == 1 .. FileCount

VARIABLES
  mpc,        (* "parsing", "merging", "dedup", "done", "failed"           *)
  files,      (* the files, in the order of the walk                       *)
  result,     (* what extract_fragments made of each file                  *)
  merged,     (* files merged so far, skipped ones included                *)
  code,       (* the joined text                                           *)
  fragments,  (* node kind -> its ranges, in order                         *)
  unsorted    (* kinds not yet sorted and deduplicated                     *)

vars == <<mpc, files, result, merged, code, fragments, unsorted>>

Pending   == "pending"
Skipped   == "skipped"      (* the dot graph did not parse                 *)
Extracted == "extracted"

(* The elements of a finite set in the strict total order a set of pairs   *)
(* gives: each stands at the place after those that precede it.            *)
Listed(S, order) ==
  [n \in 1 .. Cardinality(S) |->
     CHOOSE x \in S : Cardinality({y \in S : <<y, x>> \in order}) = n - 1]

Init ==
  /\ mpc = "parsing"
  /\ files \in [File -> Source]
  /\ result = [f \in File |-> Pending]
  /\ merged = 0 /\ code = <<>> /\ fragments = <<>> /\ unsorted = {}

-----------------------------------------------------------------------------
(* The extraction from one file.                                           *)

(* Named nodes that are no errors come from the tree; the leaves of the    *)
(* dot graph are added unless their name is that of an unnamed node or of  *)
(* an error.                                                               *)
Blacklist(src) == {n.kind : n \in {m \in src.nodes : ~m.named /\ ~m.hidden}}
FromTree(src)  == {n \in src.nodes : n.named /\ ~n.error /\ ~n.hidden}
FromGraph(src) == {n \in src.nodes : n.leaf /\ ~n.error /\ n.kind \notin Blacklist(src)}

(* into_group_map of the two, in that order: a named leaf is there twice.  *)
RangesOf(nodes, kind) ==
  LET ranges == {<<n.from, n.to>> : n \in {m \in nodes : m.kind = kind}}
  IN  Listed(ranges, {p \in ranges \X ranges :
                        \/ p[1][1] < p[2][1]
                        \/ p[1][1] = p[2][1] /\ p[1][2] > p[2][2]})
Extract(src) ==
  LET kinds == {n.kind : n \in FromTree(src) \cup FromGraph(src)} IN
  [k \in kinds |-> RangesOf(FromTree(src), k) \o RangesOf(FromGraph(src), k)]

-----------------------------------------------------------------------------
(* Variant of Sorted with a defect, used by no specification: the          *)
(* duplicates are removed without having been brought together.            *)
SortedNot(rs) == rs

-----------------------------------------------------------------------------

Slice(text, r)  == SubSeq(text, r[1] + 1, r[2])
TextLess(s, t) == \* byte strings in lexicographic order
  \E i \in 0 .. Len(s) :
    /\ i < Len(t) /\ \A j \in 1 .. i : s[j] = t[j]
    /\ i = Len(s) \/ s[i + 1] < t[i + 1]

Move(rs, offset) ==
  [i \in DOMAIN rs |-> <<rs[i][1] + offset, rs[i][2] + offset>>]

(* sort_by_key, which is stable.                                           *)
Sorted(rs) ==
  LET before == {p \in (DOMAIN rs) \X (DOMAIN rs) :
                   LET s == Slice(code, rs[p[1]])
                       t == Slice(code, rs[p[2]])
                   IN  TextLess(s, t) \/ (s = t /\ p[1] < p[2])}
  IN  [i \in DOMAIN rs |-> rs[Listed(DOMAIN rs, before)[i]]]

(* dedup_by_key: of neighbours that are equal the first is kept.           *)
Dedup(rs) ==
  LET kept  == {i \in DOMAIN rs : i > 1 => Slice(code, rs[i - 1]) # Slice(code, rs[i])}
      order == Listed(kept, {p \in kept \X kept : p[1] < p[2]})
  IN  [n \in DOMAIN order |-> rs[order[n]]]

-----------------------------------------------------------------------------
(* The workers finish in any order; their results keep the order of the    *)
(* files.                                                                  *)

Parse(f) ==
  /\ mpc = "parsing" /\ result[f] = Pending
  /\ \E r \in {Extracted, Skipped} : result' = [result EXCEPT ![f] = r]
  /\ UNCHANGED <<mpc, files, merged, code, fragments, unsorted>>

(* A file that cannot be read or parsed, or a graph of another form, fails *)
(* the whole command.                                                      *)
ParseFails(f) ==
  /\ mpc = "parsing" /\ result[f] = Pending
  /\ mpc' = "failed"
  /\ UNCHANGED <<files, result, merged, code, fragments, unsorted>>

ParsingDone ==
  /\ mpc = "parsing" /\ \A f \in File : result[f] # Pending
  /\ mpc' = "merging"
  /\ UNCHANGED <<files, result, merged, code, fragments, unsorted>>

Merge ==
  /\ mpc = "merging" /\ merged < FileCount
  /\ merged' = merged + 1
  /\ IF result[merged'] = Skipped THEN UNCHANGED <<code, fragments>>
     ELSE LET src   == files[merged']
              found == Extract(src)
              at(k) == IF k \in DOMAIN fragments THEN fragments[k] ELSE <<>>
              new(k) == IF k \in DOMAIN found
                        THEN Move(found[k], Len(code)) ELSE <<>>
          IN  /\ code' = code \o src.text
              /\ fragments' = [k \in DOMAIN fragments \cup DOMAIN found |->
                                 at(k) \o new(k)]
  /\ UNCHANGED <<mpc, files, result, unsorted>>

MergingDone ==
  /\ mpc = "merging" /\ merged = FileCount
  /\ mpc' = "dedup" /\ unsorted' = DOMAIN fragments
  /\ UNCHANGED <<files, result, merged, code, fragments>>

(* The kinds are sorted and deduplicated in parallel, over the same text.  *)
Deduplicate(k) ==
  /\ mpc = "dedup" /\ k \in unsorted
  /\ fragments' = [fragments EXCEPT ![k] = Dedup(Sorted(@))]
  /\ unsorted' = unsorted \ {k}
  /\ UNCHANGED <<mpc, files, result, merged, code>>

(* DerivationFragments is serialised, or writing it fails.                 *)
WriteOutput ==
  /\ mpc = "dedup" /\ unsorted = {}
  /\ mpc' \in {"done", "failed"}
  /\ UNCHANGED <<files, result, merged, code, fragments, unsorted>>

Ended == mpc \in {"done", "failed"} /\ UNCHANGED vars

Next ==
  \/ \E f \in File : Parse(f) \/ ParseFails(f)
  \/ ParsingDone \/ Merge \/ MergingDone
  \/ \E k \in unsorted : Deduplicate(k)
  \/ WriteOutput \/ Ended

Spec == Init /\ [][Next]_vars

-----------------------------------------------------------------------------

(* The texts a kind's nodes have in the files that were not skipped.       *)
TextsIn(src, k) ==
  {Slice(src.text, <<n.from, n.to>>) :
     n \in {m \in FromTree(src) \cup FromGraph(src) : m.kind = k}}
TextsOf(k) == UNION {TextsIn(files[f], k) : f \in {g \in File : result[g] = Extracted}}

Ranges(k) == IF k \in DOMAIN fragments THEN fragments[k] ELSE <<>>
Texts(k)  == [i \in DOMAIN Ranges(k) |-> Slice(code, Ranges(k)[i])]

(* What is written denotes, in the joined text, exactly the texts the      *)
(* nodes of each kind had in their own files, and each of them once, no    *)
(* matter in which order files are parsed and kinds are sorted             *)
(* (MineCodeFragments::run).                                               *)
MinedFaithfully ==
  mpc = "done" =>
    \A k \in {n.kind : n \in UNION {files[f].nodes : f \in File}} :
      Range(Texts(k)) = TextsOf(k) /\ IsInjective(Texts(k))
=============================================================================
