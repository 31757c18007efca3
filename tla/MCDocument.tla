----------------------------- MODULE MCDocument -----------------------------
(* Instances of Document for TLC.                                          *)
EXTENDS Document
=============================================================================
