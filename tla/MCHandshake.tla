---------------------------- MODULE MCHandshake -----------------------------
(* Small instances of Handshake for TLC.                                   *)
EXTENDS Handshake

(* Targets of this version with every combination of options and values    *)
(* around each limit; targets of other versions, and with errors.          *)
Flags == {0, 1, 2, 3, 2048, 2049, 2050, 2051, 4, 2055}
Speaking ==
  [hello : {MAGIC + 1}, flags : Flags, map : {-5, 0, 2, 3, 4}, dict : {-1, 1, 2, 3, 4},
   final : {MAGIC + 1, MAGIC}]
Other ==
  {[hello |-> h, flags |-> f, map |-> 2, dict |-> 2, final |-> h] :
     h \in {MAGIC, MAGIC + 2, MAGIC + 255, MAGIC + 256, 0, -268566527}, f \in {0, 3}}
AnyTarget == Speaking \cup Other

=============================================================================
