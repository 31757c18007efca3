----------------------------- MODULE MCGeneration -----------------------------
(* Generation for TLC: files of up to two bytes under a named root; every  *)
(* byte is a leaf: an identifier, a keyword, a hidden token or an error.   *)
(* A root is an identifier, or a root, a separator and a keyword.          *)
EXTENDS Generation

Node(k, a, b, named, error, leaf, hidden) ==
  [kind |-> k, from |-> a, to |-> b, named |-> named, error |-> error,
   leaf |-> leaf, hidden |-> hidden]
Leaf(shape, i) ==
  CASE shape = "ident"   -> Node("ident", i, i + 1, TRUE,  FALSE, TRUE, FALSE)
    [] shape = "keyword" -> Node("kw",    i, i + 1, FALSE, FALSE, TRUE, FALSE)
    [] shape = "token"   -> Node("kw",    i, i + 1, TRUE,  FALSE, TRUE, TRUE)
    [] shape = "error"   -> Node("ERROR", i, i + 1, TRUE,  TRUE,  TRUE, FALSE)
Shapes == {"ident", "keyword", "token", "error"}
OfLength(n) ==
  {[text |-> t, nodes |-> {Node("root", 0, n, TRUE, FALSE, n = 0, FALSE)}
                           \cup {Leaf(s[i], i - 1) : i \in 1 .. n}]
     : t \in [1 .. n -> {1, 2}], s \in [1 .. n -> Shapes]}
Sources == OfLength(0) \cup OfLength(1) \cup
           {src \in OfLength(2) : Cardinality({n.kind : n \in src.nodes}) = 2 \/ src.text = <<1, 2>>}

Kinds == {"root", "ident", "kw"}
MCRules ==
  [k \in {"root"} |->
     <<<<Symbol("nonterminal", "ident"), Symbol("eof", "")>>,
       <<Symbol("nonterminal", "root"), Symbol("immediate", ","), Symbol("terminal", "kw")>>>>]
=============================================================================
