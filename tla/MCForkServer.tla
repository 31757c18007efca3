---------------------------- MODULE MCForkServer ----------------------------
(* ForkServer for TLC: the configurations give every constant its value.   *)
EXTENDS ForkServer
=============================================================================
