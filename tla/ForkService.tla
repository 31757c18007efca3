---------------------------- MODULE ForkService ----------------------------
(***************************************************************************)
(* What NeoForkServer::run_child promises its caller, with no pipes, no    *)
(* fork server and no processes: one request at a time; the answer is      *)
(* either what the target did with this input or "timeout"; a failure is   *)
(* final, the caller can only close the service.                           *)
(***************************************************************************)
VARIABLES
  phase,    (* "ready", "busy", "failed" or "closed"                       *)
  fate,     (* what the target did with the current input, "none" so far   *)
  answer    (* the status of the last completed run                        *)

vars == <<phase, fate, answer>>

Fates == {"exited", "crashed", "stopped"}

Init ==
  /\ phase = "ready"
  /\ fate = "none"
  /\ answer = "none"

Request ==
  /\ phase = "ready"
  /\ phase' = "busy"
  /\ fate' = "none"
  /\ UNCHANGED answer

(* The target may end after the caller gave up on a failed service.        *)
TargetEnds ==
  /\ phase # "ready"
  /\ fate = "none"
  /\ fate' \in Fates
  /\ UNCHANGED <<phase, answer>>

Answer ==
  /\ phase = "busy"
  /\ fate # "none"
  /\ answer' = fate
  /\ phase' = "ready"
  /\ UNCHANGED fate

(* A timeout may be answered although the target has just ended.           *)
GiveUp ==
  /\ phase = "busy"
  /\ answer' = "timeout"
  /\ phase' = "ready"
  /\ UNCHANGED fate

Fail ==
  /\ phase \in {"ready", "busy"}
  /\ phase' = "failed"
  /\ UNCHANGED <<fate, answer>>

Close ==
  /\ phase \in {"ready", "failed"}
  /\ phase' = "closed"
  /\ UNCHANGED <<fate, answer>>

Next == Request \/ TargetEnds \/ Answer \/ GiveUp \/ Fail \/ Close

Spec == Init /\ [][Next]_vars
=============================================================================
