------------------------------ MODULE Executor ------------------------------
(***************************************************************************)
(* LspExecutor::run_target (execution/mod.rs) with the observers around it *)
(* (workspace_observer.rs, responses.rs), as LibAFL's evaluation calls     *)
(* them: pre_exec_all, run_target, post_exec_all.  The fork server is      *)
(* ForkService, which ForkServer implements.  Everything an evaluation     *)
(* shares with the rest of the machine is here: the workspace directory    *)
(* named after the workspace's hash, the input in shared memory, the       *)
(* output capture file, the sanitizer's log named after the child's pid.   *)
(*                                                                         *)
(* Data is tagged with the number of the evaluation it belongs to.         *)
(***************************************************************************)
EXTENDS Integers, Sequences

CONSTANTS
  Workspace,      (* workspace contents, one hash each                     *)
  Oversized,      (* those whose input does not fit the shared memory      *)
  Pid,            (* pids of the children                                  *)
  ExitArg,        (* what a target passes to exit()                        *)
  CrashExitCode,  (* crash_exit_code: an i8, or NoCode                     *)
  NoCode,
  AsanEnabled,    (* is there an asan_observer?                            *)
  Setting,        (* the machines to look at, see ExecutorAssumption       *)
  MaxEvals,       (* bound on evaluations                                  *)
  MaxOutput,      (* bound on the messages a run prints                    *)
  Nobody          (* the neighbour works on no workspace                   *)

ASSUME ExecutorAssumption ==
  /\ Oversized \subseteq Workspace
  /\ ExitArg \subseteq Int
  /\ CrashExitCode \in (-128 .. 127) \cup {NoCode}
  /\ NoCode \notin Int
  /\ AsanEnabled \in BOOLEAN
  /\ Setting \subseteq [neighbour : BOOLEAN,    (* another fuzzer shares temp_dir and /tmp *)
                       leftovers : BOOLEAN]    (* an earlier campaign left its files      *)
  /\ MaxEvals \in Nat /\ MaxOutput \in Nat
  /\ Nobody \notin Workspace

VARIABLES
  epc,        (* the next step of the evaluation                           *)
  ws,         (* workspace of the current input                            *)
  evals,      (* evaluations started; the number of the current one        *)
  kind,       (* ExitKind of the last run                                  *)
  executions, (* HasExecutions::executions                                 *)
  responses,  (* LspOutputObserver::captured_messages                      *)
  report,     (* evaluation whose log asan_observer last parsed            *)
  input,      (* evaluation whose input the shared memory holds            *)
  capture,    (* output_capture_file: the messages printed to it           *)
  dir,        (* temp_dir: what lsp-fuzz-workspace_<hash> holds            *)
  log,        (* /tmp/asan.<pid>: the evaluation that wrote it             *)
  pid,        (* the child of the current run                              *)
  exitArg,    (* what the child passed to exit()                           *)
  phase, fate, answer,  (* the fork service                                *)
  setting,    (* the machine; nothing changes it                           *)
  other,      (* workspace the neighbour works on                          *)
  (* history, read by properties only                                      *)
  mishap,     (* has anything outside the executor failed or interfered?   *)
  cleaned,    (* workspaces whose evaluation has gone through post_exec    *)
  reported,   (* last evaluation whose target wrote a sanitizer report     *)
  timedOut    (* evaluations run_child gave up on                          *)

Service == INSTANCE ForkService

observed == <<kind, executions, responses, report>>
files    == <<input, capture, dir, log>>
target   == <<pid, exitArg>>
service  == <<phase, fate, answer>>
history  == <<mishap, cleaned, reported, timedOut>>
vars == <<epc, ws, evals, observed, files, target, service, setting, other, history>>

NoLog   == 0
Foreign == -1     (* a log no evaluation of this campaign wrote            *)

Evaluating == {"write", "send", "clear", "run", "await", "collect", "teardown"}
Content    == {{}, {"dir"}, {"dir", "own"}, {"dir", "stray"}, {"dir", "own", "stray"}}

Init ==
  /\ epc = "idle"
  /\ ws \in Workspace
  /\ evals = 0
  /\ kind = "none" /\ executions = 0 /\ responses = <<>> /\ report = NoLog
  /\ input = 0 /\ capture = <<>>
  /\ setting \in Setting
  /\ IF setting.leftovers
     THEN dir \in [Workspace -> Content] /\ log \in [Pid -> {NoLog, Foreign}]
     ELSE dir = [w \in Workspace |-> {}] /\ log = [p \in Pid |-> NoLog]
  /\ pid \in Pid /\ exitArg = 0
  /\ Service!Init
  /\ other = Nobody
  /\ mishap = FALSE
  /\ cleaned = {}
  /\ reported = 0
  /\ timedOut = {}

-----------------------------------------------------------------------------
(* The executor and its observers.                                         *)

(* An error leaves run_target or an observer through `?`.                  *)
Fail == epc' = "failed"

(* An I/O error, at any step that does I/O.                                *)
Fault == Fail /\ mishap' = TRUE

-----------------------------------------------------------------------------
(* Variants of the definitions below with a defect; no specification uses  *)
(* them.                                                                   *)

(* The directory is expected to be there.                                  *)
PreExecAssumesDir(w) ==
  /\ epc = "idle" /\ evals < MaxEvals
  /\ ws' = w /\ evals' = evals + 1 /\ epc' = "write"
  /\ responses' = <<>>
  /\ UNCHANGED <<kind, executions, report, files, target, service, setting, other, history>>

(* The capture file is rewound but not truncated.                          *)
ClearCaptureNoTruncate ==
  /\ epc = "clear" /\ epc' = "run"
  /\ UNCHANGED <<ws, evals, observed, files, target, service, setting, other, history>>

(* run_child is called without a timeout.                                  *)
ReturnedNoTimeout ==
  /\ epc = "await" /\ epc' = "collect"
  /\ Service!Answer
  /\ kind' = IF answer' = "crashed" THEN "Crash" ELSE "Ok"
  /\ UNCHANGED <<ws, evals, executions, responses, report, files, target, setting, other, history>>

(* The log of a crash is read and left on the disk.                        *)
CollectLogKeepsFile ==
  /\ kind = "Crash"
  /\ report' = IF AsanEnabled /\ log[pid] # NoLog THEN log[pid] ELSE report
  /\ UNCHANGED <<responses, log>>

(* The workspace of a crash is kept for inspection.                        *)
PostExecKeepsCrashes ==
  /\ epc = "teardown" /\ epc' = "idle"
  /\ dir' = IF kind = "Crash" THEN dir ELSE [dir EXCEPT ![ws] = {}]
  /\ cleaned' = cleaned \cup {ws}
  /\ UNCHANGED <<ws, evals, observed, input, capture, log, target, service, setting, other,
                 mishap, reported, timedOut>>

-----------------------------------------------------------------------------
(* pre_exec_all, run_target, post_exec_all, step by step.                  *)

(* pre_exec_all: the responses are cleared, then the workspace observer,   *)
(* and write_to_fs once more, create the directory.                        *)
PreExec(w) ==
  /\ epc = "idle"
  /\ evals < MaxEvals
  /\ ws' = w
  /\ evals' = evals + 1
  /\ responses' = <<>>
  /\ \/ dir' = [dir EXCEPT ![w] = @ \cup {"dir"}] /\ epc' = "write" /\ UNCHANGED mishap
     \/ Fault /\ UNCHANGED dir
  /\ UNCHANGED <<kind, executions, report, input, capture, log, target, service,
                 setting, other, cleaned, reported, timedOut>>

(* write_to_fs writes every file of the workspace.  In a directory that    *)
(* has been removed a file cannot be written, and a subdirectory brings    *)
(* the directory back without the rest.                                    *)
SetupWorkspace ==
  /\ epc = "write"
  /\ \/ /\ dir[ws] # {}
        /\ dir' = [dir EXCEPT ![ws] = @ \cup {"own"}]
        /\ epc' = "send" /\ UNCHANGED mishap
     \/ dir[ws] = {} /\ Fail /\ UNCHANGED <<dir, mishap>>
     \/ /\ dir[ws] = {}
        /\ dir' = [dir EXCEPT ![ws] = {"dir"}]
        /\ epc' = "send" /\ UNCHANGED mishap
     \/ Fault /\ UNCHANGED dir
  /\ UNCHANGED <<ws, evals, observed, input, capture, log, target, service, setting, other, cleaned, reported, timedOut>>

(* An input that does not fit the shared memory, or whose length does not  *)
(* fit its header, is an error.                                            *)
Send ==
  /\ epc = "send"
  /\ \/ ws \notin Oversized /\ input' = evals /\ epc' = "clear" /\ UNCHANGED mishap
     \/ ws \in Oversized /\ Fail /\ UNCHANGED <<input, mishap>>
     \/ Fault /\ UNCHANGED input
  /\ UNCHANGED <<ws, evals, observed, capture, dir, log, target, service, setting, other, cleaned, reported, timedOut>>

ClearCapture ==
  /\ epc = "clear"
  /\ \/ capture' = <<>> /\ epc' = "run" /\ UNCHANGED mishap
     \/ Fault /\ UNCHANGED capture
  /\ UNCHANGED <<ws, evals, observed, input, dir, log, target, service, setting, other, cleaned, reported, timedOut>>

(* The call of run_child; the child's pid comes back with the status.      *)
RunChild ==
  /\ epc = "run"
  /\ Service!Request
  /\ pid' \in Pid
  /\ exitArg' = 0
  /\ epc' = "await"
  /\ UNCHANGED <<ws, evals, observed, files, setting, other, history>>

(* WEXITSTATUS(status) == i32::from(crash_exit_code)                       *)
IsCrashExit == CrashExitCode # NoCode /\ exitArg % 256 = CrashExitCode

ExitKind(status) ==
  CASE status = "timeout" -> "Timeout"
    [] status = "crashed" -> "Crash"
    [] status = "exited" /\ IsCrashExit -> "Crash"
    [] OTHER -> "Ok"

(* The return of run_child, and the exit kind.                             *)
Returned ==
  /\ epc = "await"
  /\ \/ /\ Service!Answer \/ Service!GiveUp
        /\ kind' = ExitKind(answer')
        /\ timedOut' = timedOut \cup {n \in {evals} : answer' = "timeout"}
        /\ epc' = "collect"
        /\ UNCHANGED mishap
     \/ Service!Fail /\ Fault /\ UNCHANGED <<kind, timedOut>>
  /\ UNCHANGED <<ws, evals, executions, responses, report, files, target, setting, other, cleaned, reported>>

(* What capture_stdout_content takes from the file: it stops at the first  *)
(* payload that does not decode.                                           *)
StopsAfter(m, n) ==
  /\ \A i \in 1 .. n : m[i].decodes
  /\ n < Len(m) => ~m[n + 1].decodes
Decoded(m) == {SubSeq(m, 1, n) : n \in {k \in 0 .. Len(m) : StopsAfter(m, k)}}

(* After an Ok run the output is read back.                                *)
CollectOutput ==
  /\ kind = "Ok"
  /\ \E taken \in Decoded(capture) : responses' = responses \o taken
  /\ UNCHANGED <<report, log>>

(* After a crash read_asan_log takes the log of the child's pid, if any,   *)
(* and removes it.                                                         *)
CollectLog ==
  /\ kind = "Crash"
  /\ IF AsanEnabled /\ log[pid] # NoLog
     THEN report' = log[pid] /\ log' = [log EXCEPT ![pid] = NoLog]
     ELSE UNCHANGED <<report, log>>
  /\ UNCHANGED responses

CollectNothing == kind = "Timeout" /\ UNCHANGED <<responses, report, log>>

(* The rest of run_target.                                                 *)
Collect ==
  /\ epc = "collect"
  /\ \/ /\ CollectOutput \/ CollectLog \/ CollectNothing
        /\ executions' = executions + 1
        /\ epc' = "teardown" /\ UNCHANGED mishap
     \/ /\ kind # "Timeout" /\ Fault
        /\ UNCHANGED <<executions, responses, report, log>>
  /\ UNCHANGED <<ws, evals, kind, input, capture, dir, target, service, setting, other, cleaned, reported, timedOut>>

(* post_exec_all: the workspace observer removes the directory; one that   *)
(* is not there any more is an error.                                      *)
PostExec ==
  /\ epc = "teardown"
  /\ \/ /\ dir[ws] # {}
        /\ dir' = [dir EXCEPT ![ws] = {}]
        /\ cleaned' = cleaned \cup {ws}
        /\ epc' = "idle" /\ UNCHANGED mishap
     \/ dir[ws] = {} /\ Fail /\ UNCHANGED <<dir, cleaned, mishap>>
     \/ Fault /\ UNCHANGED <<dir, cleaned>>
  /\ UNCHANGED <<ws, evals, observed, input, capture, log, target, service, setting, other, reported, timedOut>>

(* The executor is dropped: the fuzz loop ended, on a stop event or on an  *)
(* error.                                                                  *)
Shutdown ==
  /\ epc \in {"idle", "failed"}
  /\ Service!Close
  /\ epc' = "closed"
  /\ UNCHANGED <<ws, evals, observed, files, target, setting, other, history>>

RunTarget == Send \/ ClearCapture \/ RunChild \/ Returned \/ Collect
Evaluate  == (\E w \in Workspace : PreExec(w)) \/ SetupWorkspace \/ RunTarget \/ PostExec

-----------------------------------------------------------------------------
(* The target (external).  It runs from the request until it has ended or  *)
(* run_child has given up on it; after a failure it runs on until it is    *)
(* killed.                                                                 *)
Running == phase \in {"busy", "failed"} /\ epc # "idle" /\ evals > 0 /\ fate = "none"

TargetPrints ==
  /\ Running /\ Len(capture) < MaxOutput
  /\ \E d \in BOOLEAN : capture' = Append(capture, [of |-> evals, decodes |-> d])
  /\ UNCHANGED <<epc, ws, evals, observed, input, dir, log, target, service, setting,
                 other, history>>

(* It leaves files of its own in the workspace, an index or a cache.       *)
TargetWritesFiles ==
  /\ Running /\ dir[ws] # {}
  /\ dir' = [dir EXCEPT ![ws] = @ \cup {"stray"}]
  /\ UNCHANGED <<epc, ws, evals, observed, input, capture, log, target, service, setting,
                 other, history>>

(* The sanitizer truncates the log and writes its report; abort_on_error   *)
(* then ends the process.                                                  *)
TargetReports ==
  /\ Running
  /\ log' = [log EXCEPT ![pid] = evals]
  /\ reported' = evals
  /\ UNCHANGED <<epc, ws, evals, observed, input, capture, dir, target, service, setting, other,
                 mishap, cleaned, timedOut>>

TargetEnds ==
  /\ Running
  /\ Service!TargetEnds
  /\ log[pid] = evals => fate' = "crashed"
  /\ IF fate' = "exited" THEN exitArg' \in ExitArg ELSE UNCHANGED exitArg
  /\ UNCHANGED <<epc, ws, evals, observed, files, pid, setting, other, history>>

Target == TargetPrints \/ TargetWritesFiles \/ TargetReports \/ TargetEnds

-----------------------------------------------------------------------------
(* Another fuzzer with the same temp_dir (external): it creates and        *)
(* removes directories of the same names, and its children leave logs.     *)
NeighbourSetsUp ==
  /\ setting.neighbour /\ other = Nobody
  /\ other' \in Workspace
  /\ dir' = [dir EXCEPT ![other'] = @ \cup {"dir", "own"}]
  /\ UNCHANGED <<epc, ws, evals, observed, input, capture, log, target, service,
                 setting, history>>

NeighbourCleansUp ==
  /\ other \in Workspace
  /\ other' = Nobody
  /\ dir' = [dir EXCEPT ![other] = {}]
  /\ mishap' = (mishap \/ (other = ws /\ epc \in Evaluating))
  /\ UNCHANGED <<epc, ws, evals, observed, input, capture, log, target, service, setting, cleaned, reported, timedOut>>

(* No child of ours has that pid now.                                      *)
NeighbourReports(p) ==
  /\ setting.neighbour
  /\ ~(p = pid /\ Running)
  /\ log[p] # Foreign
  /\ log' = [log EXCEPT ![p] = Foreign]
  /\ mishap' = (mishap \/ (p = pid /\ epc \in {"await", "collect"}))
  /\ UNCHANGED <<epc, ws, evals, observed, input, capture, dir, target, service,
                 setting, other, cleaned, reported, timedOut>>

Environment ==
  NeighbourSetsUp \/ NeighbourCleansUp \/ (\E p \in Pid : NeighbourReports(p))

-----------------------------------------------------------------------------
(* The campaign is over.                                                   *)
Over == epc = "closed" /\ UNCHANGED vars

Next == Evaluate \/ Shutdown \/ Target \/ Environment \/ Over

Spec == Init /\ [][Next]_vars

(* The fuzzer is a running thread, and run_child returns, whatever the     *)
(* target does (RunReturns of ForkServer).                                 *)
FairSpec == Spec /\ WF_vars(Evaluate)

-----------------------------------------------------------------------------
Message == [of : Nat, decodes : BOOLEAN]

(* The values the executor's state, its files and its history range over.  *)
TypeOK ==
  /\ epc \in Evaluating \cup {"idle", "failed", "closed"}
  /\ ws \in Workspace /\ evals \in Nat /\ executions \in Nat
  /\ kind \in {"none", "Ok", "Crash", "Timeout"}
  /\ responses \in Seq(Message) /\ capture \in Seq(Message)
  /\ report \in Int /\ log \in [Pid -> Int]
  /\ input \in Nat /\ reported \in Nat
  /\ dir \in [Workspace -> Content]
  /\ pid \in Pid /\ exitArg \in Int
  /\ phase \in {"ready", "busy", "failed", "closed"}
  /\ fate \in Service!Fates \cup {"none"}
  /\ answer \in Service!Fates \cup {"none", "timeout"}
  /\ setting \in Setting /\ other \in Workspace \cup {Nobody}
  /\ mishap \in BOOLEAN /\ cleaned \subseteq Workspace /\ timedOut \subseteq Nat

(* What a running target reads and writes is its own evaluation's: the     *)
(* input in shared memory, the capture file, the files of its workspace,   *)
(* the last unless another fuzzer has removed them; and it starts with     *)
(* nothing an earlier run left in its workspace, except in a directory an  *)
(* earlier campaign abandoned or another fuzzer uses.                      *)
Isolation ==
  /\ phase = "busy" =>
       /\ input = evals
       /\ \A i \in 1 .. Len(capture) : capture[i].of = evals
       /\ ~mishap => "own" \in dir[ws]
  /\ epc = "run" /\ ~mishap /\ ~setting.neighbour
     /\ (setting.leftovers => ws \in cleaned) => dir[ws] = {"dir", "own"}

(* What is recorded of a run is what that run's target did.                *)

(* The captured messages are what it printed before its first undecodable  *)
(* payload; none after a crash or a timeout.                               *)
ResponsesGenuine ==
  /\ \A i \in 1 .. Len(responses) : responses[i].of = evals /\ responses[i].decodes
  /\ kind # "Ok" => responses = <<>>
  /\ kind = "Ok" => \/ responses = capture
                    \/ /\ Len(responses) < Len(capture)
                       /\ ~capture[Len(responses) + 1].decodes

(* If it wrote a sanitizer report and crashed, that report, and no other,  *)
(* is in the observer and off the disk, although pids recycle.  A crash    *)
(* without a report may be given what lies at its pid; but no log of a     *)
(* crash that was read is ever left there for it: what lies on the disk is *)
(* a log of a run that timed out, or of another program.                   *)
ReportGenuine ==
  AsanEnabled /\ ~mishap =>
    /\ report = evals <=> (kind = "Crash" /\ reported = evals)
    /\ \A p \in Pid : log[p] \in timedOut \cup {NoLog, Foreign}
    /\ evals \in timedOut <=> kind = "Timeout"

(* Its input is called crashing exactly when it died of a signal, or       *)
(* exited with the configured code as the kernel truncates it, before      *)
(* run_child gave up on it.                                                *)
VerdictGenuine ==
  /\ kind = "Timeout" <=> answer = "timeout"
  /\ kind = "Crash" <=>
       /\ answer # "timeout"
       /\ \/ fate = "crashed"
          \/ fate = "exited" /\ CrashExitCode # NoCode /\ exitArg % 256 = CrashExitCode % 256

(* `capture_stdout_content` is documented to capture every complete        *)
(* payload its reader has: after an Ok run, every message that decodes.    *)
EveryPayloadCaptured ==
  epc = "teardown" /\ kind = "Ok" =>
    responses = SelectSeq(capture, LAMBDA m : m.decodes)

(* When run_target is through: the three of them.                          *)
Genuine == epc = "teardown" => ResponsesGenuine /\ ReportGenuine /\ VerdictGenuine

(* `crash_exit_code` is documented as the exit code that indicates a       *)
(* crash: a target that exits with it has crashed.                         *)
CrashExitCodeCounts ==
  epc = "teardown" /\ fate = "exited" /\ exitArg = CrashExitCode /\ answer # "timeout"
    => kind = "Crash"

(* The fuzz loop ends in an error only if something outside the executor   *)
(* failed or interfered, or on an input too large to be sent: no sequence  *)
(* of runs makes it trip over itself.                                      *)
Blameless == epc = "failed" => mishap \/ ws \in Oversized

(* No evaluation that went through leaves its workspace directory behind.  *)
NoLeftovers ==
  \A w \in cleaned :
    dir[w] = {} \/ other = w \/ (w = ws /\ epc # "idle")

(* Every evaluation comes to an end, whatever the target does.             *)
EvaluationEnds == epc \in Evaluating ~> epc \in {"idle", "failed", "closed"}

=============================================================================
