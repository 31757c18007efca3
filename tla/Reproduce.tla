------------------------------ MODULE Reproduce ------------------------------
(***************************************************************************)
(* ReproduceAll::run and ReproduceOne::run with reproduce() and            *)
(* find_crashing_request() (cli/reproduce): every solution is replayed     *)
(* against a target of its own over pipes, message by message, and the     *)
(* crash is blamed on the message before the poll that sees it.            *)
(*                                                                         *)
(* Time is abstracted to one question: had the target come to rest when a  *)
(* fixed sleep ended?  `late` remembers a sleep that was too short.        *)
(***************************************************************************)
EXTENDS Integers, Sequences

CONSTANTS
  Inputs,      (* number of solutions to replay                            *)
  Messages,    (* length of each input's message_sequence                  *)
  Fates,       (* what handling each message may do to a target            *)
  OutCap,      (* answers the target's stdout pipe holds                   *)
  InCap        (* messages its stdin pipe holds                            *)

ASSUME ReproduceAssumption ==
  /\ Inputs \in Nat /\ Messages \in Nat /\ OutCap \in Nat /\ InCap \in Nat \ {0}
  /\ Fates \in [1 .. Messages ->
                  SUBSET {"silent", "answer", "exit", "fail", "abort", "signal"}]

VARIABLES
  rpc,      (* the next step of reproduce()                                *)
  job,      (* the input being replayed                                    *)
  idx,      (* messages written so far                                     *)
  crashing, (* crashing_request: the blamed message, 0 for None            *)
  infos,    (* the ReproductionInfos collected, in order                   *)
  stdin,    (* messages in the target's stdin pipe                         *)
  stdout,   (* answers in its stdout pipe: nobody reads them               *)
  target,   (* what the target is doing, or how it ended                   *)
  fate,     (* what the message in hand does to the target                 *)
  log,      (* the sanitizer's log of this child: "none", "begun", "whole" *)
  (* history, read by properties only                                      *)
  handled,  (* messages the target has taken from its stdin                *)
  late      (* did a sleep end before the target came to rest?             *)

parent == <<rpc, job, idx, crashing, infos>>
child  == <<stdout, target, fate, log>>
rvars  == <<parent, stdin, child, handled, late>>

Success == "exited"
Dead    == {Success, "failed", "signalled", "killed"}

(* An attempt at the next solution starts from a fresh directory, pipes    *)
(* and process.                                                            *)
Fresh ==
  /\ idx' = 0 /\ crashing' = 0 /\ stdin' = <<>> /\ stdout' = 0
  /\ target' = "up" /\ fate' = "silent" /\ log' = "none" /\ handled' = 0 /\ late' = FALSE

RInit ==
  /\ rpc = "spawn" /\ job = 1 /\ idx = 0 /\ crashing = 0 /\ infos = <<>>
  /\ stdin = <<>> /\ stdout = 0 /\ target = "up" /\ fate = "silent" /\ log = "none"
  /\ handled = 0 /\ late = FALSE

-----------------------------------------------------------------------------
(* Variants of the definitions below with a defect; no specification uses  *)
(* them.                                                                   *)

(* Polling first and sleeping afterwards.                                  *)
SleepSkipped ==
  /\ rpc = "sleep" /\ rpc' = "poll"
  /\ UNCHANGED <<job, idx, crashing, infos, stdin, child, handled, late>>

(* Only a request that is found is followed by the kill.                   *)
GraceWithoutKill ==
  /\ rpc = "grace" /\ rpc' = "wait"
  /\ UNCHANGED <<job, idx, crashing, infos, stdin, child, handled, late>>

-----------------------------------------------------------------------------
(* The target: it takes messages one at a time and may block on its own    *)
(* stdout.                                                                 *)

Take ==
  /\ target = "up" /\ stdin # <<>>
  /\ stdin' = Tail(stdin) /\ handled' = handled + 1
  /\ fate' \in Fates[Head(stdin)] /\ target' = "busy"
  /\ UNCHANGED <<parent, stdout, log, late>>

(* A sanitizer opens its log before the process dies of an error, or of a  *)
(* leak found at exit, and takes its time to fill it (symbolize=1).        *)
BeginLog ==
  /\ target = "busy" /\ fate \in {"abort", "fail"}
  /\ target' = "reporting" /\ log' = "begun"
  /\ UNCHANGED <<parent, stdin, stdout, fate, handled, late>>

EndLog ==
  /\ target = "reporting" /\ log = "begun"
  /\ log' = "whole"
  /\ UNCHANGED <<parent, stdin, stdout, target, fate, handled, late>>

(* A request is answered when the pipe has room.  With a log the process   *)
(* aborts (abort_on_error=1), or fails when the log is of a leak; it may   *)
(* fail, or die of a signal, without one.                                  *)
Finish ==
  /\ \/ /\ target = "busy"
        /\ \/ fate = "silent" /\ target' = "up" /\ UNCHANGED stdout
           \/ fate = "answer" /\ stdout < OutCap /\ stdout' = stdout + 1 /\ target' = "up"
           \/ fate = "exit" /\ target' = Success /\ UNCHANGED stdout
           \/ fate = "fail" /\ target' = "failed" /\ UNCHANGED stdout
           \/ fate = "signal" /\ target' = "signalled" /\ UNCHANGED stdout
     \/ /\ target = "reporting" /\ log = "whole"
        /\ target' = IF fate = "abort" THEN "signalled" ELSE "failed"
        /\ UNCHANGED stdout
  /\ UNCHANGED <<parent, stdin, fate, log, handled, late>>

Target == Take \/ BeginLog \/ EndLog \/ Finish

(* Blocked on a pipe nobody reads counts as rest: no sleep ends it.        *)
Blocked == target = "busy" /\ fate = "answer" /\ stdout >= OutCap
AtRest  == \/ target \in Dead \/ Blocked
           \/ target = "up" /\ stdin = <<>>

-----------------------------------------------------------------------------
(* reproduce() and find_crashing_request().                                *)

(* The workspace and the process are set up.                               *)
Spawn ==
  /\ rpc = "spawn"
  /\ rpc' = IF Messages > 0 THEN "send" ELSE "grace"
  /\ UNCHANGED <<job, idx, crashing, infos, stdin, child, handled, late>>

(* write_all: a broken pipe is ignored, a full one is waited for.          *)
Send ==
  /\ rpc = "send"
  /\ \/ target \in Dead /\ UNCHANGED stdin
     \/ /\ target \notin Dead /\ Len(stdin) < InCap
        /\ stdin' = Append(stdin, idx + 1)
  /\ idx' = idx + 1 /\ rpc' = "sleep"
  /\ UNCHANGED <<job, crashing, infos, child, handled, late>>

Sleep ==
  /\ rpc = "sleep" /\ rpc' = "poll"
  /\ late' = (late \/ ~AtRest)
  /\ UNCHANGED <<job, idx, crashing, infos, stdin, child, handled>>

(* try_wait: an end that is not a success is blamed on the last message.   *)
Poll ==
  /\ rpc = "poll"
  /\ crashing' = IF target \in Dead \ {Success} THEN idx ELSE crashing
  /\ rpc' = CASE target \in Dead \ {Success} -> "wait"
              [] target = Success -> "grace"
              [] OTHER -> IF idx < Messages THEN "send" ELSE "grace"
  /\ UNCHANGED <<job, idx, infos, stdin, child, handled, late>>

(* No request was found: thirty more seconds, then the target is killed,   *)
(* in the middle of a report if it has come to that; one that has ended is *)
(* left as it is.                                                          *)
GraceThenKill ==
  /\ rpc = "grace" /\ rpc' = "wait"
  /\ target' = IF target \in Dead THEN target ELSE "killed"
  /\ UNCHANGED <<job, idx, crashing, infos, stdin, stdout, fate, log, handled, late>>

(* child.wait, then the log named after the child's pid, as far as it was  *)
(* written: without one there is nothing to report.                        *)
ReportCrash ==
  /\ rpc = "wait" /\ target \in Dead
  /\ \/ /\ target # Success /\ log # "none"
        /\ infos' = Append(infos, [input |-> job, request |-> crashing,
                                   died |-> handled, by |-> target,
                                   whole |-> log = "whole", late |-> late])
        /\ rpc' = "next"
     \/ (target = Success \/ log = "none") /\ rpc' = "next" /\ UNCHANGED infos
  /\ UNCHANGED <<job, idx, crashing, stdin, child, handled, late>>

(* Setting up, writing, waiting, killing, reading or parsing the log fails *)
(* with `?`; ReproduceAll unwraps, so that one failure ends the command    *)
(* without an output.                                                      *)
ReplayFault ==
  /\ rpc \notin {"sleep", "next", "done", "failed"}
  /\ rpc' = "failed"
  /\ UNCHANGED <<job, idx, crashing, infos, stdin, child, handled, late>>

NextInput ==
  /\ rpc = "next"
  /\ IF job < Inputs
     THEN job' = job + 1 /\ rpc' = "spawn" /\ Fresh
     ELSE rpc' = "done" /\ UNCHANGED <<job, idx, crashing, stdin, child, handled, late>>
  /\ UNCHANGED infos

ReplayEnded == rpc \in {"done", "failed"} /\ UNCHANGED rvars

RNext ==
  \/ Spawn \/ Send \/ Sleep \/ Poll \/ GraceThenKill \/ ReportCrash \/ NextInput \/ ReplayFault
  \/ Target
  \/ ReplayEnded

(* The tool runs on by itself.  Of the targets nothing is assumed: one may *)
(* stop reading, answering or reporting for ever.                          *)
Fairness ==
  WF_rvars(Spawn \/ Send \/ Sleep \/ Poll \/ GraceThenKill \/ ReportCrash \/ NextInput)

RSpec == RInit /\ [][RNext]_rvars /\ Fairness

-----------------------------------------------------------------------------

(* A blamed request had been written, and the target, which was not killed *)
(* and has left a whole log, died on it or on one before it; when every    *)
(* sleep was long enough it died on exactly that request.  A report        *)
(* without a request means that a sleep was too short, and only such a     *)
(* report may be of a target the tool has killed, whose log may be cut     *)
(* short (find_crashing_request, reproduce).                               *)
Blame ==
  \A i \in DOMAIN infos :
    LET r == infos[i] IN
    /\ r.request # 0 => /\ r.whole /\ r.by # "killed" /\ r.died <= r.request
                        /\ ~r.late => r.died = r.request
    /\ r.request = 0 => r.late
    /\ ~r.whole => r.by = "killed"

(* The command ends, although targets may hang: one that still lives after *)
(* the last message is killed.  The exception is write_all, which has no   *)
(* timeout: a target that has stopped reading and whose stdin is full      *)
(* holds it for ever (find_crashing_request).                              *)
ReproductionEnds ==
  \/ <>(rpc \in {"done", "failed"})
  \/ <>[](rpc = "send" /\ target \notin Dead /\ Len(stdin) = InCap)
=============================================================================
