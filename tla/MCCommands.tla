----------------------------- MODULE MCCommands -----------------------------
(* Campaign and Reproduce for TLC: a process of the command line runs one  *)
(* command, known from its start (cli/mod.rs); the variables of the other  *)
(* stay as they are.  The solutions replayed are any solutions, not those  *)
(* of the campaign beside it.                                              *)
EXTENDS Campaign, Reproduce

(* Of a dictionary's bytes 3 is the one that is not UTF-8: an empty token, *)
(* one that is not UTF-8 before a good one, one cut short; a good one and  *)
(* one of which only the size is left.                                     *)
Dictionaries == {<<0, 1, 3, 1, 1, 2, 1>>, <<1, 0, 3>>}

(* Messages with every fate each.                                          *)
AnyFate  == {"silent", "answer", "exit", "fail", "abort", "signal"}
AllFates == <<AnyFate, AnyFate, AnyFate, AnyFate>>

VARIABLE command
all == <<vars, rvars, command>>

FuzzNext      == command = "fuzz" /\ Next /\ UNCHANGED <<rvars, command>>
ReproduceNext == command = "reproduce_all" /\ RNext /\ UNCHANGED <<vars, command>>

CommandsInit == Init /\ RInit /\ command \in {"fuzz", "reproduce_all"}
CommandsNext == FuzzNext \/ ReproduceNext
CommandsSpec ==
  /\ CommandsInit /\ [][CommandsNext]_all
  /\ command = "fuzz" => WF_vars(Fuzz)
  /\ command = "reproduce_all" => Fairness

(* A process that replays solutions ends as ReproductionEnds says.         *)
ReplayEnds == command = "reproduce_all" => ReproductionEnds
=============================================================================
