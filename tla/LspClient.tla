----------------------------- MODULE LspClient -----------------------------
(***************************************************************************)
(* What a language server may expect of its client over one session: the   *)
(* order of the lifecycle messages, and documents opened before they are   *)
(* asked about.                                                            *)
(***************************************************************************)
EXTENDS Naturals

CONSTANT Document     (* URIs of the documents the session opens           *)

VARIABLES
  stage,    (* "down", "starting", "running", "closing", "over"            *)
  opened,   (* documents opened so far                                     *)
  sent      (* messages sent so far                                        *)

vars == <<stage, opened, sent>>

Init == stage = "down" /\ opened = {} /\ sent = 0

Send(from, to) == stage = from /\ stage' = to /\ sent' = sent + 1

Initialize  == Send("down", "starting") /\ UNCHANGED opened
Initialized == Send("starting", "running") /\ UNCHANGED opened

Open(d) == Send("running", "running") /\ d \notin opened /\ opened' = opened \cup {d}

(* Anything else comes only once every document is open.                   *)
Ask      == Send("running", "running") /\ opened = Document /\ UNCHANGED opened
Shutdown == Send("running", "closing") /\ opened = Document /\ UNCHANGED opened
Exit     == Send("closing", "over") /\ UNCHANGED opened

Next ==
  Initialize \/ Initialized \/ (\E d \in Document : Open(d)) \/ Ask \/ Shutdown \/ Exit

Spec == Init /\ [][Next]_vars
=============================================================================
