----------------------------- MODULE MCExecutor -----------------------------
(* Small instances of Executor for TLC.                                    *)
EXTENDS Executor, TLC

Symmetry == Permutations(Workspace \ Oversized) \cup Permutations(Pid)

(* exit(-1) and exit(255) are one status to the kernel.                    *)
ExitArgs == {0, 1, -1}
MinusOne == -1

Alone == [neighbour |-> FALSE, leftovers |-> FALSE]
AloneOrShared == {Alone, [neighbour |-> TRUE, leftovers |-> TRUE]}
OnlyAlone == {Alone}
=============================================================================
