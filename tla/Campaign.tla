------------------------------ MODULE Campaign ------------------------------
(***************************************************************************)
(* FuzzCommand::run (cli/fuzz.rs) from its setup to its return, with the   *)
(* stages that end it (stages/stop.rs, fuzzing/common.rs), the statistics  *)
(* (stages/stats.rs), the objective, the file names of the corpus          *)
(* (corpus.rs) and the tokens read from the target (utf8/mod.rs).          *)
(*                                                                         *)
(* Two more actors run beside the fuzzer: the thread of the Control-C      *)
(* handler, and the clock.  One evaluation is one step: Executor says what *)
(* it may return.  LibAFL's fuzz loop is modelled from its use: a cycle    *)
(* runs the stages in order; the Stop events fired meanwhile are handled   *)
(* at its end and make fuzz_loop return ShuttingDown.                      *)
(***************************************************************************)
EXTENDS Integers, Sequences, FiniteSets, Functions

CONSTANTS
  AsanEnabled,   (* asan_enabled                                           *)
  Report,        (* hashes of sanitizer reports                            *)
  NoReport,
  Payload,       (* auto dictionaries a target may send                    *)
  Seeds,         (* generate_seeds                                         *)
  Budget,        (* time_budget                                            *)
  MaxTime,       (* bound on the clock                                     *)
  MaxCycles,     (* bound on the cycles of the fuzz loop                   *)
  MaxExecs,      (* bound on the executions of one stage                   *)
  Invalid        (* a byte no UTF-8 text holds                             *)

ASSUME CampaignAssumption ==
  /\ AsanEnabled \in BOOLEAN /\ NoReport \notin Report
  /\ Payload \subseteq Seq(0 .. 255)
  /\ Seeds \in Nat /\ Budget \in Nat /\ MaxTime \in Nat
  /\ MaxCycles \in Nat /\ MaxExecs \in Nat \ {0}

VARIABLES
  cpc,       (* the next step of the command; then the stage of the cycle  *)
  quota,     (* executions left in the current stage                       *)
  tokens,    (* UTF8Tokens, then the metadata of the state                 *)
  at,        (* the place of parse_auto_dict in the payload                *)
  executions, corpus, solutions,
  seen,      (* NewHashFeedback's hashes                                   *)
  report,    (* the hash the sanitizer observer last parsed                *)
  rows,      (* the statistics written: <<executions, corpus, solutions>>  *)
  clock, started,
  handler,   (* "none", "ready", "pressed", "dead": the Control-C handler  *)
  chan,      (* messages in the mpsc channel                               *)
  stops,     (* Stop events fired and not yet handled                      *)
  exit,      (* how the process ended                                      *)
  (* history, read by properties only                                      *)
  payload,   (* the auto dictionary the target sent                        *)
  crashes,   (* hashes of the reports of crashing evaluations              *)
  reruns,    (* hashes of the reports of crashing calibration runs         *)
  cycles,    (* cycles begun                                               *)
  pressedAt, (* cycles begun when Control-C was first pressed, -1 before   *)
  fault      (* has anything failed?                                       *)

found == <<executions, corpus, solutions, seen, report, crashes, reruns>>
dict  == <<tokens, at>>
stop  == <<handler, chan, stops>>
time  == <<clock, started>>
vars  == <<cpc, quota, dict, found, rows, time, stop, exit,
           payload, cycles, pressedAt, fault>>

Over   == exit # "none"

Init ==
  /\ cpc = "setup" /\ quota = 0 /\ tokens = {} /\ at = 1 /\ payload \in Payload
  /\ executions = 0 /\ corpus = <<>> /\ solutions = <<>>
  /\ seen = {} /\ report = NoReport /\ crashes = {} /\ reruns = {}
  /\ rows = <<>> /\ clock = 0 /\ started = 0
  /\ handler = "none" /\ chan = 0 /\ stops = 0
  /\ exit = "none" /\ cycles = 0 /\ pressedAt = -1 /\ fault = FALSE

Utf8(s) == \A i \in DOMAIN s : s[i] # Invalid

-----------------------------------------------------------------------------
(* Variants of the definitions below with a defect; no specification uses  *)
(* them.                                                                   *)

(* The bytes of a token that is not UTF-8 are left in the payload.         *)
TakeTokenPutsBack(p) ==
  LET end   == IF p + payload[p] < Len(payload) THEN p + payload[p] ELSE Len(payload)
      token == SubSeq(payload, p + 1, end)
  IN  [token |-> token, at |-> IF Utf8(token) THEN end + 1 ELSE p + 1]

(* A hash that was seen before counts again.                               *)
HashesNever(kind) == kind = "Crash" /\ report' # NoReport

(* The stage runs in one cycle in two, and the message is gone by then.    *)
TriggerStopDeaf ==
  /\ cpc = "trigger_stop" /\ cpc' = "end"
  /\ chan' = 0
  /\ stops' = IF chan > 0 /\ cycles % 2 = 0 THEN stops + 1 ELSE stops
  /\ UNCHANGED <<quota, dict, found, rows, time, handler, exit, payload, cycles,
                 pressedAt, fault>>

(* The events of a cycle are dropped instead of handled.                   *)
EndCycleForgets ==
  /\ cpc = "end" /\ cpc' = "cycle" /\ stops' = 0
  /\ UNCHANGED <<quota, dict, found, rows, time, handler, chan, exit, payload, cycles,
                 pressedAt, fault>>

-----------------------------------------------------------------------------
(* UTF8Tokens::parse_auto_dict: a size byte, then a token of that many     *)
(* bytes, or of what is left; a token that is not UTF-8 is consumed and    *)
(* dropped.                                                                *)
TakeToken(p) ==
  LET end == IF p + payload[p] < Len(payload) THEN p + payload[p] ELSE Len(payload)
  IN  [token |-> SubSeq(payload, p + 1, end), at |-> end + 1]

(* TestCaseFileNameFeedback: the next free id, the time and the number of  *)
(* executions.                                                             *)
FileName(saved) ==
  <<Len(saved), IF clock >= started THEN clock - started ELSE 0, executions'>>

(* objective: a crash whose sanitizer report has a new hash, or any crash  *)
(* without the sanitizer.                                                  *)
IsSolution(kind) ==
  /\ kind = "Crash"
  /\ ~AsanEnabled \/ (report' # NoReport /\ report' \notin seen)

-----------------------------------------------------------------------------
(* The command.                                                            *)

Returns(code) == cpc' = "returned" /\ exit' = code

(* Everything up to the stages: directories, shared memory, the binary,    *)
(* the grammars, the statistics file, corpora, and the state, whose start  *)
(* time is now.                                                            *)
Setup ==
  /\ cpc = "setup"
  /\ cpc' = "stages" /\ started' = clock
  /\ UNCHANGED <<quota, dict, found, rows, clock, stop, exit, payload, cycles,
                 pressedAt, fault>>

(* The Control-C handler is installed with its stage.                      *)
BuildStages ==
  /\ cpc = "stages"
  /\ cpc' = "start" /\ handler' = "ready"
  /\ UNCHANGED <<quota, dict, found, rows, time, chan, stops, exit, payload, cycles,
                 pressedAt, fault>>

(* LspExecutor::start reads the target's dictionary.                       *)
StartExecutor ==
  /\ cpc = "start" /\ cpc' = "tokens"
  /\ UNCHANGED <<quota, dict, found, rows, time, stop, exit, payload, cycles,
                 pressedAt, fault>>

(* One turn of the loop of parse_auto_dict.                                *)
ParseAutoDict ==
  /\ cpc = "tokens" /\ at <= Len(payload)
  /\ LET next == TakeToken(at) IN
       /\ tokens' = IF payload[at] > 0 /\ Utf8(next.token)
                    THEN tokens \cup {next.token} ELSE tokens
       /\ at' = next.at
  /\ UNCHANGED <<cpc, quota, found, rows, time, stop, exit, payload, cycles,
                 pressedAt, fault>>

(* The corpus of a new state is empty, so seeds are generated.             *)
ProcessTokens ==
  /\ cpc = "tokens" /\ at > Len(payload)
  /\ cpc' = "seed" /\ quota' = Seeds
  /\ UNCHANGED <<dict, found, rows, time, stop, exit, payload, cycles, pressedAt, fault>>

(* Any step that does I/O may fail and ends the command with an error.     *)
Fault ==
  /\ ~Over /\ cpc \in {"setup", "stages", "start", "seed", "calibrate", "mutate", "stats"}
  /\ Returns("error") /\ fault' = TRUE
  /\ UNCHANGED <<quota, dict, found, rows, time, stop, payload, cycles, pressedAt>>

(* One evaluation: a crash may leave a report, which the observer keeps    *)
(* until the next one.  A solution is saved as such, anything else that is *)
(* interesting, and every other seed, in the corpus.                       *)
Evaluate ==
  /\ cpc \in {"seed", "mutate"} /\ quota > 0
  /\ quota' = quota - 1 /\ executions' = executions + 1
  /\ \E kind \in {"Ok", "Crash", "Timeout"}, interesting \in BOOLEAN :
       \E r \in IF kind = "Crash" /\ AsanEnabled THEN Report \cup {NoReport} ELSE {NoReport} :
         /\ report' = IF r = NoReport THEN report ELSE r
         /\ crashes' = IF r = NoReport THEN crashes ELSE crashes \cup {r}
         /\ seen' = IF AsanEnabled /\ kind = "Crash" /\ report' # NoReport
                    THEN seen \cup {report'} ELSE seen
         /\ IF IsSolution(kind)
            THEN /\ solutions' = Append(solutions, [name |-> FileName(solutions), hash |-> report'])
                 /\ corpus' = IF cpc = "seed" /\ interesting THEN Append(corpus, FileName(corpus)) ELSE corpus
            ELSE /\ corpus' = IF interesting \/ cpc = "seed"
                              THEN Append(corpus, FileName(corpus)) ELSE corpus
                 /\ UNCHANGED solutions
  /\ UNCHANGED <<cpc, dict, reruns, rows, time, stop, exit, payload, cycles, pressedAt, fault>>

(* Without a seed there is nothing to schedule.                            *)
Seeded ==
  /\ cpc = "seed" /\ quota = 0
  /\ cpc' = "cycle"
  /\ UNCHANGED <<quota, dict, found, rows, time, stop, exit, payload, cycles,
                 pressedAt, fault>>

BeginCycle ==
  /\ cpc = "cycle" /\ cycles < MaxCycles
  /\ IF corpus = <<>> THEN Returns("error") /\ fault' = TRUE /\ UNCHANGED <<quota, cycles>>
     ELSE /\ cpc' = "calibrate" /\ cycles' = cycles + 1
          /\ quota' \in 0 .. MaxExecs /\ UNCHANGED <<exit, fault>>
  /\ UNCHANGED <<dict, found, rows, time, stop, payload, pressedAt>>

(* CalibrationStage runs the entry again and saves nothing; a run that     *)
(* crashes leaves its report in the observer, and asks no objective.       *)
Calibrate ==
  /\ cpc = "calibrate"
  /\ executions' = executions + quota
  /\ \E r \in {NoReport} \cup {h \in Report : AsanEnabled /\ quota > 0} :
       /\ report' = IF r = NoReport THEN report ELSE r
       /\ reruns' = reruns \cup ({r} \ {NoReport})
  /\ cpc' = "mutate" /\ quota' \in 1 .. MaxExecs
  /\ UNCHANGED <<dict, corpus, solutions, seen, crashes, rows, time, stop, exit,
                 payload, cycles, pressedAt, fault>>

MutationDone ==
  /\ cpc = "mutate" /\ quota = 0
  /\ cpc' = "stats"
  /\ UNCHANGED <<quota, dict, found, rows, time, stop, exit, payload, cycles,
                 pressedAt, fault>>

Stats ==
  /\ cpc = "stats" /\ cpc' = "timeout_stop"
  /\ rows' = Append(rows, <<executions, Len(corpus), Len(solutions)>>)
  /\ UNCHANGED <<quota, dict, found, time, stop, exit, payload, cycles, pressedAt, fault>>

(* TimeoutStopStage: only when the budget is exceeded.                     *)
TimeoutStop ==
  /\ cpc = "timeout_stop" /\ cpc' = "trigger_stop"
  /\ stops' = IF clock >= started /\ clock - started > Budget THEN stops + 1 ELSE stops
  /\ UNCHANGED <<quota, dict, found, rows, time, handler, chan, exit, payload,
                 cycles, pressedAt, fault>>

(* StopOnReceived: one message of the channel, without waiting for one.    *)
TriggerStop ==
  /\ cpc = "trigger_stop" /\ cpc' = "end"
  /\ IF chan > 0 THEN chan' = chan - 1 /\ stops' = stops + 1 ELSE UNCHANGED <<chan, stops>>
  /\ UNCHANGED <<quota, dict, found, rows, time, handler, exit, payload, cycles,
                 pressedAt, fault>>

(* The end of fuzz_one: events are handled; ShuttingDown becomes Ok.       *)
EndCycle ==
  /\ cpc = "end"
  /\ IF stops > 0 THEN stops' = 0 /\ cpc' = "unwind" ELSE cpc' = "cycle" /\ UNCHANGED stops
  /\ UNCHANGED <<quota, dict, found, rows, time, handler, chan, exit, payload, cycles,
                 pressedAt, fault>>

(* The stages, and with them the receiver, are dropped before the process  *)
(* ends.                                                                   *)
Unwind ==
  /\ cpc = "unwind"
  /\ Returns("ok")
  /\ UNCHANGED <<quota, dict, found, rows, time, stop, payload, cycles, pressedAt, fault>>

-----------------------------------------------------------------------------
(* The handler's thread: the first press sends, the second ends the        *)
(* process; sending to a dropped receiver panics, and kills the thread     *)
(* only.                                                                   *)
ControlC ==
  /\ ~Over
  /\ \/ /\ handler = "ready" /\ cpc # "unwind"
        /\ handler' = "pressed" /\ chan' = chan + 1 /\ pressedAt' = cycles
        /\ UNCHANGED exit
     \/ /\ handler = "ready" /\ cpc = "unwind"
        /\ handler' = "dead" /\ UNCHANGED <<chan, pressedAt, exit>>
     \/ /\ handler = "pressed"
        /\ exit' = "130" /\ UNCHANGED <<handler, chan, pressedAt>>
     \/ /\ handler = "none"    (* the default action of SIGINT             *)
        /\ exit' = "killed" /\ UNCHANGED <<handler, chan, pressedAt>>
  /\ UNCHANGED <<cpc, quota, dict, found, rows, time, stops, payload, cycles, fault>>

Tick ==
  /\ ~Over /\ clock < MaxTime
  /\ clock' = clock + 1
  /\ UNCHANGED <<cpc, quota, dict, found, rows, started, stop, exit, payload, cycles,
                 pressedAt, fault>>

Ended == (Over \/ (cpc = "cycle" /\ cycles = MaxCycles)) /\ UNCHANGED vars

Fuzz ==
  /\ ~Over
  /\ \/ Setup \/ BuildStages \/ StartExecutor \/ ParseAutoDict \/ ProcessTokens
     \/ Evaluate \/ Seeded \/ BeginCycle \/ Calibrate \/ MutationDone \/ Stats \/ TimeoutStop \/ TriggerStop
     \/ EndCycle \/ Unwind

Next == Fuzz \/ Fault \/ ControlC \/ Tick \/ Ended

Spec == Init /\ [][Next]_vars /\ WF_vars(Fuzz)

-----------------------------------------------------------------------------

(* "Control-C pressed. The fuzzer will stop after this cycle."             *)
(* (common.rs:134): after a press at most the cycle under way and, when    *)
(* its last stage has already looked, one more is run.  The command        *)
(* succeeds only when it was asked to stop or its budget was used up,      *)
(* fails only when something failed, and the process is cut short only by  *)
(* a press (FuzzCommand::run, trigger_stop_stage).                         *)
EndsForAReason ==
  /\ pressedAt >= 0 => cycles <= pressedAt + 1
  /\ exit = "ok" => pressedAt >= 0 \/ clock - started > Budget
  /\ exit = "error" => fault
  /\ exit = "130" => pressedAt >= 0

(* A press that reaches the handler and a budget that is used up end the   *)
(* campaign (StopOnReceived, TimeoutStopStage); asked of the states from   *)
(* which the bound leaves a cycle to see it in.                            *)
StopHonoured ==
  /\ cycles < MaxCycles
  /\ pressedAt >= 0 \/ (cpc \notin {"setup", "stages"} /\ clock - started > Budget)
  ~> Over

(* Solutions differ: no two share a hash, and no two files of a directory  *)
(* share a name.  No reported crash is without a solution of its hash; and *)
(* a solution of another hash, one no evaluation reported, is a crash that *)
(* left no report and was judged by what a calibration run had left in the *)
(* observer (objective, run_target, TestCaseFileNameFeedback).             *)
SolutionsDistinct ==
  LET hashes == {solutions[i].hash : i \in DOMAIN solutions} IN
  /\ IsInjective([i \in DOMAIN solutions |-> solutions[i].name]) /\ IsInjective(corpus)
  /\ AsanEnabled => /\ IsInjective([i \in DOMAIN solutions |-> solutions[i].hash])
                    /\ crashes \subseteq hashes /\ hashes \subseteq crashes \cup reruns

(* The frames of a dictionary: where a token's size byte stands.           *)
After(p) == p + payload[p] + 1
Frames ==
  {p \in DOMAIN payload :
     \E s \in SUBSET (1 .. p) :
       /\ {1, p} \subseteq s
       /\ \A q \in s \ {p} : /\ After(q) \in s
                             /\ (q + 1 .. After(q) - 1) \cap s = {}}
TokenAt(p) ==
  [i \in 1 .. (IF After(p) > Len(payload) THEN Len(payload) - p ELSE payload[p])
     |-> payload[p + i]]

(* The tokens are the texts of the dictionary's frames, whatever lies      *)
(* between them: one that is empty, not UTF-8 or cut short does not move   *)
(* the frames after it (parse_auto_dict, process_tokens).                  *)
TokensFramed ==
  cpc \in {"seed", "cycle"} =>
    tokens = {t \in {TokenAt(p) : p \in {q \in Frames : payload[q] > 0}} : Utf8(t)}
=============================================================================
