--------------------------- MODULE ExecutorProofs ---------------------------
(***************************************************************************)
(* Theorems about Executor, for every set of workspaces and pids, setting, *)
(* output and number of evaluations.                                       *)
(***************************************************************************)
EXTENDS Executor, SequenceTheorems, TLAPS

(* Where the fork service is while the executor is in each of its places.  *)
Phases ==
  /\ phase = CASE epc = "await"  -> "busy"
              [] epc = "closed" -> "closed"
              [] epc = "failed" -> phase
              [] OTHER          -> "ready"
  /\ epc = "failed" => phase \in {"ready", "failed"}
  /\ epc \notin {"idle", "failed", "closed"} => evals > 0

(* The input and the output are of this evaluation.                        *)
OwnData ==
  /\ epc \in {"clear", "run", "await"} => input = evals
  /\ epc = "run" => capture = <<>>
  /\ epc \in {"await", "collect", "teardown"} =>
       \A i \in 1 .. Len(capture) : capture[i].of = evals
  /\ epc \in {"write", "send", "clear", "run", "await", "collect"} => responses = <<>>

(* The directory of the workspace stays as long as nobody interferes.      *)
OwnFiles ==
  /\ ~mishap /\ epc \in Evaluating => "dir" \in dir[ws]
  /\ ~mishap /\ epc \in Evaluating \ {"write"} => "own" \in dir[ws]

(* A workspace nobody else has ever touched holds what this evaluation has *)
(* put there.                                                              *)
Untouched(w) == ~mishap /\ ~setting.neighbour /\ (setting.leftovers => w \in cleaned)
Pristine ==
  /\ ~setting.neighbour => other = Nobody
  /\ \A w \in Workspace : Untouched(w) =>
       /\ dir[w] # {} => w = ws /\ epc # "idle"
       /\ w = ws /\ epc = "write" => dir[w] = {"dir"}
       /\ w = ws /\ epc \in {"send", "clear", "run"} => dir[w] = {"dir", "own"}

(* The verdict, from the moment run_child has returned.                    *)
Judged ==
  epc \in {"collect", "teardown"} =>
    /\ answer \in {fate, "timeout"} /\ answer # "none"
    /\ kind = ExitKind(answer)

(* The evaluations that timed out are those whose verdict says so.         *)
TimedOut ==
  /\ timedOut \subseteq 0 .. evals
  /\ epc \in {"write", "send", "clear", "run", "await"} => evals \notin timedOut
  /\ epc \in {"collect", "teardown"} => (evals \in timedOut <=> kind = "Timeout")

(* What lies on the disk, besides the log of the running evaluation: a log *)
(* its own crash would have had read is not there.                         *)
LeftLogs ==
  /\ epc \in {"await", "collect"} /\ log[pid] = evals => fate \in {"none", "crashed"}
  /\ AsanEnabled /\ ~mishap =>
       \A p \in Pid : \/ log[p] \in timedOut \cup {NoLog, Foreign}
                      \/ log[p] = evals /\ epc \in {"await", "collect", "failed", "closed"}

(* No log and no report is of a later evaluation; until this one's target  *)
(* runs there is none of this one; then there is one at its pid at most.   *)
Logs ==
  /\ report <= evals /\ reported <= evals /\ \A p \in Pid : log[p] <= evals
  /\ epc \in {"write", "send", "clear", "run"} =>
       report # evals /\ reported # evals /\ \A p \in Pid : log[p] # evals
  /\ epc \in {"await", "collect"} =>
       /\ report # evals
       /\ \A p \in Pid : log[p] = evals => p = pid /\ reported = evals
       /\ reported = evals /\ ~mishap => log[pid] = evals
  /\ epc = "teardown" => ReportGenuine

Collected == epc = "teardown" => ResponsesGenuine

IInv ==
  /\ TypeOK /\ Phases /\ OwnData /\ OwnFiles /\ Pristine
  /\ Judged /\ TimedOut /\ LeftLogs /\ Logs /\ Collected /\ Blameless /\ NoLeftovers

-----------------------------------------------------------------------------
LEMMA StepCases ==
  [Next]_vars =>
    \/ \E w \in Workspace : PreExec(w)
    \/ SetupWorkspace \/ Send \/ ClearCapture \/ RunChild \/ Returned \/ Collect
    \/ PostExec \/ Shutdown
    \/ TargetPrints \/ TargetWritesFiles \/ TargetReports \/ TargetEnds
    \/ NeighbourSetsUp \/ NeighbourCleansUp \/ (\E p \in Pid : NeighbourReports(p))
    \/ UNCHANGED vars
BY DEF Next, Evaluate, RunTarget, Target, Environment, Over

LEMMA ContentClosed ==
  /\ {} \in Content /\ {"dir"} \in Content
  /\ \A c \in Content :
       /\ c \cup {"dir"} \in Content /\ c \cup {"dir", "own"} \in Content
       /\ c # {} => c \cup {"own"} \in Content /\ c \cup {"stray"} \in Content
<1>1. /\ {} \cup {"dir"} = {"dir"} /\ {} \cup {"dir", "own"} = {"dir", "own"}
      /\ \A c : c \cup {"dir", "own"} = (c \cup {"dir"}) \cup {"own"}
      /\ {"dir"} \cup {"dir"} = {"dir"} /\ {"dir", "own"} \cup {"dir"} = {"dir", "own"}
  OBVIOUS
<1>2. QED
  BY <1>1 DEF Content

(* What is taken from the output is a part of it, in order.                *)
LEMMA DecodedPrefix ==
  ASSUME NEW m \in Seq(Message), NEW d \in Decoded(m)
  PROVE  /\ d \in Seq(Message) /\ Len(d) <= Len(m)
         /\ \A i \in 1 .. Len(d) : d[i] = m[i] /\ d[i].decodes
         /\ Len(d) < Len(m) => ~m[Len(d) + 1].decodes
<1>1. PICK n \in 0 .. Len(m) : StopsAfter(m, n) /\ d = SubSeq(m, 1, n)
  BY DEF Decoded
<1>2. /\ d \in Seq(Message) /\ Len(d) = n
      /\ \A i \in 1 .. n : d[i] = m[i]
  BY <1>1
<1>3. QED
  BY <1>1, <1>2 DEF StopsAfter

LEMMA TypeStep == IInv /\ [Next]_vars => TypeOK'
<1> SUFFICES ASSUME IInv, [Next]_vars PROVE TypeOK'
  OBVIOUS
<1> USE ExecutorAssumption DEF IInv, TypeOK, Phases, observed, files, target, service,
   history, Evaluating, Service!Fates
<1>1. ASSUME NEW w \in Workspace, PreExec(w) PROVE TypeOK'
  <2>1. dir' \in [Workspace -> Content]
    <3>1. dir[w] \cup {"dir"} \in Content
      BY ContentClosed
    <3>2. dir' = [dir EXCEPT ![w] = dir[w] \cup {"dir"}] \/ dir' = dir
      BY <1>1 DEF PreExec
    <3>3. dir \in [Workspace -> Content]
      OBVIOUS
    <3>4. QED
      BY ONLY <3>1, <3>2, <3>3
  <2>2. responses' = <<>> /\ responses' \in Seq(Message)
    BY <1>1 DEF PreExec
  <2>3. /\ ws' \in Workspace /\ evals' \in Nat /\ epc' \in {"write", "failed"}
        /\ mishap' = mishap \/ mishap' = TRUE
    BY <1>1 DEF PreExec, Fault, Fail
  <2>4. mishap' \in BOOLEAN
    <3>1. mishap \in BOOLEAN
      OBVIOUS
    <3>2. mishap' = mishap \/ mishap' = TRUE
      BY <2>3
    <3>3. QED
      BY ONLY <3>1, <3>2
  <2>5. UNCHANGED <<kind, executions, report, input, capture, log, pid, exitArg, phase, fate, answer,
                    setting, other, cleaned, reported, timedOut>>
    BY <1>1 DEF PreExec
  <2>6. QED
    <3>1. /\ executions' \in Nat /\ kind' \in {"none", "Ok", "Crash", "Timeout"}
          /\ capture' \in Seq(Message) /\ report' \in Int /\ log' \in [Pid -> Int]
          /\ input' \in Nat /\ reported' \in Nat /\ pid' \in Pid /\ exitArg' \in Int
      BY <2>5
    <3>2. /\ phase' \in {"ready", "busy", "failed", "closed"}
          /\ fate' \in {"exited", "crashed", "stopped", "none"}
          /\ answer' \in {"exited", "crashed", "stopped", "none", "timeout"}
          /\ setting' \in Setting /\ other' \in Workspace \cup {Nobody} /\ cleaned' \subseteq Workspace
          /\ timedOut' \subseteq Nat
      BY <2>5
    <3>3. QED
      BY <2>1, <2>2, <2>3, <2>4, <3>1, <3>2
<1>2. CASE SetupWorkspace
  <2>1. dir' \in [Workspace -> Content]
    <3>1. /\ {"dir"} \in Content
          /\ dir[ws] # {} => dir[ws] \cup {"own"} \in Content
      BY ContentClosed
    <3>2. \/ dir[ws] # {} /\ dir' = [dir EXCEPT ![ws] = dir[ws] \cup {"own"}]
          \/ dir' = [dir EXCEPT ![ws] = {"dir"}]
          \/ dir' = dir
      BY <1>2 DEF SetupWorkspace
    <3>3. dir \in [Workspace -> Content] /\ ws \in Workspace
      OBVIOUS
    <3>4. QED
      BY ONLY <3>1, <3>2, <3>3
  <2>2. mishap' \in BOOLEAN
    <3>1. mishap \in BOOLEAN /\ (mishap' = mishap \/ mishap' = TRUE)
      BY <1>2 DEF SetupWorkspace, Fault, Fail
    <3>2. QED
      BY ONLY <3>1
  <2>3. epc' \in {"send", "failed"}
    BY <1>2 DEF SetupWorkspace, Fault, Fail
  <2>4. /\ UNCHANGED <<ws, evals, kind, executions, responses, report>>
        /\ UNCHANGED <<input, capture, log, pid, exitArg>>
        /\ UNCHANGED <<phase, fate, answer, setting, other, cleaned, reported, timedOut>>
    BY <1>2 DEF SetupWorkspace
  <2>5. QED
    BY ONLY IInv, <2>1, <2>2, <2>3, <2>4
<1>3. CASE Send
  <2>1. mishap' \in BOOLEAN
    <3>1. mishap \in BOOLEAN /\ (mishap' = mishap \/ mishap' = TRUE)
      BY <1>3 DEF Send, Fault, Fail
    <3>2. QED
      BY ONLY <3>1
  <2>2. epc' \in {"clear", "failed"} /\ input' \in Nat
    BY <1>3 DEF Send, Fault, Fail
  <2>3. /\ UNCHANGED <<ws, evals, kind, executions, responses, report>>
        /\ UNCHANGED <<dir, capture, log, pid, exitArg>>
        /\ UNCHANGED <<phase, fate, answer, setting, other, cleaned, reported, timedOut>>
    BY <1>3 DEF Send
  <2>4. QED
    BY ONLY IInv, <2>1, <2>2, <2>3
<1>4. CASE ClearCapture
  <2>1. capture' = <<>> \/ capture' = capture
    BY <1>4 DEF ClearCapture
  <2>2. capture' \in Seq(Message)
    <3>1. CASE capture' = <<>>
      BY <3>1
    <3>2. CASE capture' = capture
      BY <3>2
    <3>3. QED
      BY <2>1, <3>1, <3>2
  <2>3. QED
    BY <1>4, <2>2 DEF ClearCapture, Fault, Fail
<1>5. CASE RunChild
  BY <1>5 DEF RunChild, Service!Request
<1>6. CASE Returned
  <2>1. kind' \in {"none", "Ok", "Crash", "Timeout"}
    BY <1>6 DEF ExitKind, Returned, Fault, Fail, Service!Answer, Service!GiveUp,
       Service!Fail
  <2>2. QED
    BY <1>6, <2>1 DEF Returned, Fault, Fail, Service!Answer, Service!GiveUp, Service!Fail
<1>7. CASE Collect
  <2>1. responses' \in Seq(Message)
    <3>1. ASSUME NEW taken \in Decoded(capture) PROVE responses \o taken \in Seq(Message)
      BY <3>1, DecodedPrefix
    <3>2. \/ responses' = responses
          \/ \E taken \in Decoded(capture) : responses' = responses \o taken
      BY <1>7 DEF Collect, CollectOutput, CollectLog, CollectNothing
    <3>3. responses \in Seq(Message)
      OBVIOUS
    <3>4. QED
      BY ONLY <3>1, <3>2, <3>3
  <2>2. log' \in [Pid -> Int] /\ report' \in Int
    BY <1>7 DEF NoLog, Collect, CollectOutput, CollectLog, CollectNothing, Fault, Fail
  <2>3. executions' \in Nat /\ epc' \in {"teardown", "failed"}
    BY <1>7 DEF Collect, Fault, Fail
  <2>4. mishap' = mishap \/ mishap' = TRUE
    BY <1>7 DEF Collect, Fault, Fail
  <2>5. UNCHANGED <<ws, evals, kind, input, capture, dir, pid, exitArg, phase, fate, answer,
                    setting, other, cleaned, reported, timedOut>>
    BY <1>7 DEF Collect
  <2>6. mishap' \in BOOLEAN
    <3>1. mishap \in BOOLEAN
      OBVIOUS
    <3>2. QED
      BY ONLY <2>4, <3>1
  <2>7. QED
    <3>1. /\ ws' \in Workspace /\ evals' \in Nat /\ kind' \in {"none", "Ok", "Crash", "Timeout"}
          /\ capture' \in Seq(Message) /\ input' \in Nat /\ reported' \in Nat
          /\ dir' \in [Workspace -> Content] /\ pid' \in Pid /\ exitArg' \in Int
      BY <2>5
    <3>2. /\ phase' \in {"ready", "busy", "failed", "closed"}
          /\ fate' \in {"exited", "crashed", "stopped", "none"}
          /\ answer' \in {"exited", "crashed", "stopped", "none", "timeout"}
          /\ setting' \in Setting /\ other' \in Workspace \cup {Nobody} /\ cleaned' \subseteq Workspace
          /\ timedOut' \subseteq Nat
      BY <2>5
    <3>3. QED
      BY <2>1, <2>2, <2>3, <2>6, <3>1, <3>2
<1>8. CASE PostExec
  <2>1. dir' \in [Workspace -> Content]
    BY <1>8, ContentClosed DEF PostExec, Fault, Fail
  <2>2. mishap' \in BOOLEAN
    <3>1. mishap \in BOOLEAN /\ (mishap' = mishap \/ mishap' = TRUE)
      BY <1>8 DEF PostExec, Fault, Fail
    <3>2. QED
      BY ONLY <3>1
  <2>3. epc' \in {"idle", "failed"} /\ cleaned' \subseteq Workspace
    BY <1>8 DEF PostExec, Fault, Fail
  <2>4. /\ UNCHANGED <<ws, evals, kind, executions, responses, report>>
        /\ UNCHANGED <<input, capture, log, pid, exitArg>>
        /\ UNCHANGED <<phase, fate, answer, setting, other, reported, timedOut>>
    BY <1>8 DEF PostExec
  <2>5. QED
    BY ONLY IInv, <2>1, <2>2, <2>3, <2>4
<1>9. CASE Shutdown
  BY <1>9 DEF Shutdown, Service!Close
<1>10. CASE TargetPrints
  <2>1. \A d \in BOOLEAN : [of |-> evals, decodes |-> d] \in Message
    BY DEF Message
  <2>2. capture' \in Seq(Message)
    BY <1>10, <2>1 DEF TargetPrints
  <2>3. QED
    BY <1>10, <2>2 DEF TargetPrints
<1>11. CASE TargetWritesFiles
  <2>1. dir' \in [Workspace -> Content]
    BY <1>11, ContentClosed DEF TargetWritesFiles, Running
  <2>2. QED
    BY <1>11, <2>1 DEF TargetWritesFiles, Running
<1>12. CASE TargetReports
  BY <1>12 DEF TargetReports, Running
<1>13. CASE TargetEnds
  BY <1>13 DEF TargetEnds, Running, Service!TargetEnds
<1>14. CASE NeighbourSetsUp
  <2>1. dir' \in [Workspace -> Content]
    BY <1>14, ContentClosed DEF NeighbourSetsUp
  <2>2. QED
    BY <1>14, <2>1 DEF NeighbourSetsUp
<1>15. CASE NeighbourCleansUp
  <2>1. dir' \in [Workspace -> Content]
    BY <1>15, ContentClosed DEF NeighbourCleansUp
  <2>2. QED
    BY <1>15, <2>1 DEF NeighbourCleansUp
<1>16. ASSUME NEW p \in Pid, NeighbourReports(p) PROVE TypeOK'
  <2>1. log' \in [Pid -> Int]
    BY <1>16 DEF Foreign, NeighbourReports
  <2>2. QED
    BY <1>16, <2>1 DEF NeighbourReports
<1>17. CASE UNCHANGED vars
  BY <1>17 DEF vars
<1>18. QED
  BY <1>1, <1>2, <1>3, <1>4, <1>5, <1>6, <1>7, <1>8, <1>9, <1>10, <1>11, <1>12, <1>13,
     <1>14, <1>15, <1>16, <1>17, StepCases

LEMMA PhasesStep == IInv /\ [Next]_vars => Phases'
<1> SUFFICES ASSUME IInv, [Next]_vars PROVE Phases'
  OBVIOUS
<1> USE ExecutorAssumption DEF IInv, TypeOK, Phases, observed, files, target, service,
   history, Evaluating, Service!Fates
<1>1. ASSUME NEW w \in Workspace, PreExec(w) PROVE Phases'
  BY <1>1 DEF PreExec, Fault, Fail
<1>2. CASE SetupWorkspace
  BY <1>2 DEF SetupWorkspace, Fault, Fail
<1>3. CASE Send
  BY <1>3 DEF Send, Fault, Fail
<1>4. CASE ClearCapture
  BY <1>4 DEF ClearCapture, Fault, Fail
<1>5. CASE RunChild
  BY <1>5 DEF RunChild, Service!Request
<1>6. CASE Returned
  BY <1>6 DEF Returned, Fault, Fail, Service!Answer, Service!GiveUp, Service!Fail
<1>7. CASE Collect
  BY <1>7 DEF Collect, CollectOutput, CollectLog, CollectNothing, Fault, Fail
<1>8. CASE PostExec
  BY <1>8 DEF PostExec, Fault, Fail
<1>9. CASE Shutdown
  BY <1>9 DEF Shutdown, Service!Close
<1>10. CASE TargetPrints
  BY <1>10 DEF TargetPrints, Running
<1>11. CASE TargetWritesFiles
  BY <1>11 DEF TargetWritesFiles, Running
<1>12. CASE TargetReports
  BY <1>12 DEF TargetReports, Running
<1>13. CASE TargetEnds
  BY <1>13 DEF TargetEnds, Running, Service!TargetEnds
<1>14. CASE NeighbourSetsUp
  BY <1>14 DEF NeighbourSetsUp
<1>15. CASE NeighbourCleansUp
  BY <1>15 DEF NeighbourCleansUp
<1>16. ASSUME NEW p \in Pid, NeighbourReports(p) PROVE Phases'
  BY <1>16 DEF NeighbourReports, Running
<1>17. CASE UNCHANGED vars
  BY <1>17 DEF vars
<1>18. QED
  BY <1>1, <1>2, <1>3, <1>4, <1>5, <1>6, <1>7, <1>8, <1>9, <1>10, <1>11, <1>12, <1>13,
     <1>14, <1>15, <1>16, <1>17, StepCases

LEMMA OwnDataStep == IInv /\ [Next]_vars => OwnData'
<1> SUFFICES ASSUME IInv, [Next]_vars PROVE OwnData'
  OBVIOUS
<1> USE ExecutorAssumption DEF IInv, TypeOK, Phases, observed, files, target, service,
   history, Evaluating, Service!Fates, OwnData
<1>1. ASSUME NEW w \in Workspace, PreExec(w) PROVE OwnData'
  BY <1>1 DEF PreExec, Fault, Fail
<1>2. CASE SetupWorkspace
  BY <1>2 DEF SetupWorkspace, Fault, Fail
<1>3. CASE Send
  BY <1>3 DEF Send, Fault, Fail
<1>4. CASE ClearCapture
  BY <1>4 DEF ClearCapture, Fault, Fail
<1>5. CASE RunChild
  BY <1>5 DEF RunChild, Service!Request
<1>6. CASE Returned
  BY <1>6 DEF Returned, Fault, Fail, Service!Answer, Service!GiveUp, Service!Fail
<1>7. CASE Collect
  BY <1>7 DEF Collect, CollectOutput, CollectLog, CollectNothing, Fault, Fail
<1>8. CASE PostExec
  BY <1>8 DEF PostExec, Fault, Fail
<1>9. CASE Shutdown
  BY <1>9 DEF Shutdown, Service!Close
<1>10. CASE TargetPrints
  <2>1. epc \notin {"idle", "run"} /\ UNCHANGED <<epc, evals, input, responses>>
    BY <1>10 DEF TargetPrints, Running
  <2>2. PICK d \in BOOLEAN : capture' = Append(capture, [of |-> evals, decodes |-> d])
    BY <1>10 DEF TargetPrints
  <2>3. ASSUME \A i \in 1 .. Len(capture) : capture[i].of = evals
        PROVE  \A i \in 1 .. Len(capture') : capture'[i].of = evals
    <3>1. capture \in Seq(Message)
      OBVIOUS
    <3>2. QED
      BY ONLY <2>2, <2>3, <3>1
  <2>4. QED
    BY <2>1, <2>3
<1>11. CASE TargetWritesFiles
  BY <1>11 DEF TargetWritesFiles, Running
<1>12. CASE TargetReports
  BY <1>12 DEF TargetReports, Running
<1>13. CASE TargetEnds
  BY <1>13 DEF TargetEnds, Running, Service!TargetEnds
<1>14. CASE NeighbourSetsUp
  BY <1>14 DEF NeighbourSetsUp
<1>15. CASE NeighbourCleansUp
  BY <1>15 DEF NeighbourCleansUp
<1>16. ASSUME NEW p \in Pid, NeighbourReports(p) PROVE OwnData'
  BY <1>16 DEF NeighbourReports, Running
<1>17. CASE UNCHANGED vars
  BY <1>17 DEF vars
<1>18. QED
  BY <1>1, <1>2, <1>3, <1>4, <1>5, <1>6, <1>7, <1>8, <1>9, <1>10, <1>11, <1>12, <1>13,
     <1>14, <1>15, <1>16, <1>17, StepCases

LEMMA OwnFilesStep == IInv /\ [Next]_vars => OwnFiles'
<1> SUFFICES ASSUME IInv, [Next]_vars PROVE OwnFiles'
  OBVIOUS
<1> USE ExecutorAssumption DEF IInv, TypeOK, Phases, observed, files, target, service,
   history, Evaluating, Service!Fates, OwnFiles, Content
<1>1. ASSUME NEW w \in Workspace, PreExec(w) PROVE OwnFiles'
  BY <1>1 DEF PreExec, Fault, Fail
<1>2. CASE SetupWorkspace
  BY <1>2 DEF SetupWorkspace, Fault, Fail
<1>3. CASE Send
  BY <1>3 DEF Send, Fault, Fail
<1>4. CASE ClearCapture
  BY <1>4 DEF ClearCapture, Fault, Fail
<1>5. CASE RunChild
  BY <1>5 DEF RunChild, Service!Request
<1>6. CASE Returned
  BY <1>6 DEF Returned, Fault, Fail, Service!Answer, Service!GiveUp, Service!Fail
<1>7. CASE Collect
  BY <1>7 DEF Collect, CollectOutput, CollectLog, CollectNothing, Fault, Fail
<1>8. CASE PostExec
  BY <1>8 DEF PostExec, Fault, Fail
<1>9. CASE Shutdown
  BY <1>9 DEF Shutdown, Service!Close
<1>10. CASE TargetPrints
  BY <1>10 DEF TargetPrints, Running
<1>11. CASE TargetWritesFiles
  BY <1>11 DEF TargetWritesFiles, Running
<1>12. CASE TargetReports
  BY <1>12 DEF TargetReports, Running
<1>13. CASE TargetEnds
  BY <1>13 DEF TargetEnds, Running, Service!TargetEnds
<1>14. CASE NeighbourSetsUp
  BY <1>14 DEF NeighbourSetsUp
<1>15. CASE NeighbourCleansUp
  BY <1>15 DEF NeighbourCleansUp
<1>16. ASSUME NEW p \in Pid, NeighbourReports(p) PROVE OwnFiles'
  BY <1>16 DEF NeighbourReports, Running
<1>17. CASE UNCHANGED vars
  BY <1>17 DEF vars
<1>18. QED
  BY <1>1, <1>2, <1>3, <1>4, <1>5, <1>6, <1>7, <1>8, <1>9, <1>10, <1>11, <1>12, <1>13,
     <1>14, <1>15, <1>16, <1>17, StepCases

LEMMA PristineStep == IInv /\ [Next]_vars => Pristine'
<1> SUFFICES ASSUME IInv, [Next]_vars PROVE Pristine'
  OBVIOUS
<1> USE ExecutorAssumption DEF IInv, TypeOK, Phases, observed, files, target, service,
   history, Evaluating, Service!Fates, Pristine, Untouched, Content, OwnFiles
<1>1. ASSUME NEW w \in Workspace, PreExec(w) PROVE Pristine'
  BY <1>1 DEF PreExec, Fault, Fail
<1>2. CASE SetupWorkspace
  BY <1>2 DEF SetupWorkspace, Fault, Fail
<1>3. CASE Send
  BY <1>3 DEF Send, Fault, Fail
<1>4. CASE ClearCapture
  BY <1>4 DEF ClearCapture, Fault, Fail
<1>5. CASE RunChild
  BY <1>5 DEF RunChild, Service!Request
<1>6. CASE Returned
  BY <1>6 DEF Returned, Fault, Fail, Service!Answer, Service!GiveUp, Service!Fail
<1>7. CASE Collect
  BY <1>7 DEF Collect, CollectOutput, CollectLog, CollectNothing, Fault, Fail
<1>8. CASE PostExec
  BY <1>8 DEF PostExec, Fault, Fail
<1>9. CASE Shutdown
  BY <1>9 DEF Shutdown, Service!Close
<1>10. CASE TargetPrints
  BY <1>10 DEF TargetPrints, Running
<1>11. CASE TargetWritesFiles
  BY <1>11 DEF TargetWritesFiles, Running
<1>12. CASE TargetReports
  BY <1>12 DEF TargetReports, Running
<1>13. CASE TargetEnds
  BY <1>13 DEF TargetEnds, Running, Service!TargetEnds
<1>14. CASE NeighbourSetsUp
  BY <1>14 DEF NeighbourSetsUp
<1>15. CASE NeighbourCleansUp
  BY <1>15 DEF NeighbourCleansUp
<1>16. ASSUME NEW p \in Pid, NeighbourReports(p) PROVE Pristine'
  BY <1>16 DEF NeighbourReports, Running
<1>17. CASE UNCHANGED vars
  BY <1>17 DEF vars
<1>18. QED
  BY <1>1, <1>2, <1>3, <1>4, <1>5, <1>6, <1>7, <1>8, <1>9, <1>10, <1>11, <1>12, <1>13,
     <1>14, <1>15, <1>16, <1>17, StepCases

LEMMA JudgedStep == IInv /\ [Next]_vars => Judged'
<1> SUFFICES ASSUME IInv, [Next]_vars PROVE Judged'
  OBVIOUS
<1> USE ExecutorAssumption DEF IInv, TypeOK, Phases, observed, files, target, service,
   history, Evaluating, Service!Fates, Judged, ExitKind, IsCrashExit
<1>1. ASSUME NEW w \in Workspace, PreExec(w) PROVE Judged'
  BY <1>1 DEF PreExec, Fault, Fail
<1>2. CASE SetupWorkspace
  BY <1>2 DEF SetupWorkspace, Fault, Fail
<1>3. CASE Send
  BY <1>3 DEF Send, Fault, Fail
<1>4. CASE ClearCapture
  BY <1>4 DEF ClearCapture, Fault, Fail
<1>5. CASE RunChild
  BY <1>5 DEF RunChild, Service!Request
<1>6. CASE Returned
  BY <1>6 DEF Returned, Fault, Fail, Service!Answer, Service!GiveUp, Service!Fail
<1>7. CASE Collect
  BY <1>7 DEF Collect, CollectOutput, CollectLog, CollectNothing, Fault, Fail
<1>8. CASE PostExec
  BY <1>8 DEF PostExec, Fault, Fail
<1>9. CASE Shutdown
  BY <1>9 DEF Shutdown, Service!Close
<1>10. CASE TargetPrints
  BY <1>10 DEF TargetPrints, Running
<1>11. CASE TargetWritesFiles
  BY <1>11 DEF TargetWritesFiles, Running
<1>12. CASE TargetReports
  BY <1>12 DEF TargetReports, Running
<1>13. CASE TargetEnds
  BY <1>13 DEF TargetEnds, Running, Service!TargetEnds
<1>14. CASE NeighbourSetsUp
  BY <1>14 DEF NeighbourSetsUp
<1>15. CASE NeighbourCleansUp
  BY <1>15 DEF NeighbourCleansUp
<1>16. ASSUME NEW p \in Pid, NeighbourReports(p) PROVE Judged'
  BY <1>16 DEF NeighbourReports, Running
<1>17. CASE UNCHANGED vars
  BY <1>17 DEF vars
<1>18. QED
  BY <1>1, <1>2, <1>3, <1>4, <1>5, <1>6, <1>7, <1>8, <1>9, <1>10, <1>11, <1>12, <1>13,
     <1>14, <1>15, <1>16, <1>17, StepCases

LEMMA TimedOutStep == IInv /\ [Next]_vars => TimedOut'
<1> SUFFICES ASSUME IInv, [Next]_vars PROVE TimedOut'
  OBVIOUS
<1> USE ExecutorAssumption DEF IInv, TypeOK, Phases, observed, files, target, service,
   history, Evaluating, Service!Fates, TimedOut
<1>1. ASSUME NEW w \in Workspace, PreExec(w) PROVE TimedOut'
  BY <1>1 DEF PreExec, Fault, Fail
<1>2. CASE SetupWorkspace
  BY <1>2 DEF SetupWorkspace, Fault, Fail
<1>3. CASE Send
  BY <1>3 DEF Send, Fault, Fail
<1>4. CASE ClearCapture
  BY <1>4 DEF ClearCapture, Fault, Fail
<1>5. CASE RunChild
  BY <1>5 DEF RunChild, Service!Request
<1>6. CASE Returned
  <2>1. CASE epc' = "failed"
    BY <1>6, <2>1 DEF Returned, Fault, Fail
  <2>2. CASE epc' # "failed"
    <3>1. /\ epc = "await" /\ epc' = "collect" /\ UNCHANGED evals /\ kind' = ExitKind(answer')
          /\ timedOut' = timedOut \cup {n \in {evals} : answer' = "timeout"}
      BY <1>6, <2>2 DEF Returned, Fault, Fail
    <3>2. kind' = "Timeout" <=> answer' = "timeout"
      BY <3>1 DEF ExitKind
    <3>3. evals \notin timedOut /\ timedOut \subseteq 0 .. evals
      BY <3>1
    <3>4. QED
      BY <3>1, <3>2, <3>3
  <2>3. QED
    BY <2>1, <2>2
<1>7. CASE Collect
  BY <1>7 DEF Collect, CollectOutput, CollectLog, CollectNothing, Fault, Fail
<1>8. CASE PostExec
  BY <1>8 DEF PostExec, Fault, Fail
<1>9. CASE Shutdown
  BY <1>9 DEF Shutdown, Service!Close
<1>10. CASE TargetPrints
  BY <1>10 DEF TargetPrints, Running
<1>11. CASE TargetWritesFiles
  BY <1>11 DEF TargetWritesFiles, Running
<1>12. CASE TargetReports
  BY <1>12 DEF TargetReports, Running
<1>13. CASE TargetEnds
  BY <1>13 DEF TargetEnds, Running, Service!TargetEnds
<1>14. CASE NeighbourSetsUp
  BY <1>14 DEF NeighbourSetsUp
<1>15. CASE NeighbourCleansUp
  BY <1>15 DEF NeighbourCleansUp
<1>16. ASSUME NEW p \in Pid, NeighbourReports(p) PROVE TimedOut'
  BY <1>16 DEF NeighbourReports, Running
<1>17. CASE UNCHANGED vars
  BY <1>17 DEF vars
<1>18. QED
  BY <1>1, <1>2, <1>3, <1>4, <1>5, <1>6, <1>7, <1>8, <1>9, <1>10, <1>11, <1>12, <1>13,
     <1>14, <1>15, <1>16, <1>17, StepCases

LEMMA LeftLogsStep == IInv /\ [Next]_vars => LeftLogs'
<1> SUFFICES ASSUME IInv, [Next]_vars PROVE LeftLogs'
  OBVIOUS
<1> USE ExecutorAssumption DEF IInv, TypeOK, Phases, observed, files, target, service,
   history, Evaluating, Service!Fates, TimedOut, LeftLogs, Judged, Logs, ReportGenuine, NoLog, Foreign
<1>1. ASSUME NEW w \in Workspace, PreExec(w) PROVE LeftLogs'
  BY <1>1 DEF PreExec, Fault, Fail
<1>2. CASE SetupWorkspace
  BY <1>2 DEF SetupWorkspace, Fault, Fail
<1>3. CASE Send
  BY <1>3 DEF Send, Fault, Fail
<1>4. CASE ClearCapture
  BY <1>4 DEF ClearCapture, Fault, Fail
<1>5. CASE RunChild
  BY <1>5 DEF RunChild, Service!Request
<1>6. CASE Returned
  BY <1>6 DEF Returned, Fault, Fail, Service!Answer, Service!GiveUp, Service!Fail
<1>7. CASE Collect
  <2>1. /\ epc = "collect" /\ UNCHANGED <<evals, kind, pid, fate, answer, timedOut>>
        /\ epc' = "teardown" \/ (epc' = "failed" /\ mishap' = TRUE)
    BY <1>7 DEF Collect, Fault, Fail
  <2>2. CASE epc' = "failed"
    BY <2>1, <2>2
  <2>3. CASE epc' = "teardown"
    <3>1. mishap' = mishap /\ (CollectOutput \/ CollectLog \/ CollectNothing)
      BY <1>7, <2>3 DEF Collect, Fault, Fail
    <3>2. SUFFICES ASSUME AsanEnabled, ~mishap, NEW p \in Pid
                   PROVE  log'[p] \in timedOut \cup {NoLog, Foreign}
      BY <2>1, <2>3, <3>1
    <3>3. CASE log[p] # evals
      <4>1. log'[p] = log[p] \/ log'[p] = NoLog
        BY <3>1 DEF CollectOutput, CollectLog, CollectNothing
      <4>2. QED
        BY <2>1, <3>2, <3>3, <4>1
    <3>4. CASE log[p] = evals
      <4>1. p = pid /\ fate \in {"none", "crashed"} /\ evals # NoLog
        BY <2>1, <3>4
      <4>2. answer \in {"crashed", "timeout"} /\ kind = ExitKind(answer)
        BY <2>1, <4>1
      <4>3. CASE kind = "Timeout"
        <5>1. evals \in timedOut /\ log' = log
          BY <2>1, <3>1, <4>3 DEF CollectOutput, CollectLog, CollectNothing
        <5>2. QED
          BY <3>4, <5>1
      <4>4. CASE kind = "Crash"
        <5>1. log' = [log EXCEPT ![pid] = NoLog]
          BY <3>1, <3>2, <3>4, <4>1, <4>4 DEF CollectOutput, CollectLog, CollectNothing
        <5>2. QED
          BY <4>1, <5>1
      <4>5. QED
        BY <4>2, <4>3, <4>4 DEF ExitKind
    <3>5. QED
      BY <3>3, <3>4
  <2>4. QED
    BY <2>1, <2>2, <2>3
<1>8. CASE PostExec
  BY <1>8 DEF PostExec, Fault, Fail
<1>9. CASE Shutdown
  BY <1>9 DEF Shutdown, Service!Close
<1>10. CASE TargetPrints
  BY <1>10 DEF TargetPrints, Running
<1>11. CASE TargetWritesFiles
  BY <1>11 DEF TargetWritesFiles, Running
<1>12. CASE TargetReports
  BY <1>12 DEF TargetReports, Running
<1>13. CASE TargetEnds
  BY <1>13 DEF TargetEnds, Running, Service!TargetEnds
<1>14. CASE NeighbourSetsUp
  BY <1>14 DEF NeighbourSetsUp
<1>15. CASE NeighbourCleansUp
  BY <1>15 DEF NeighbourCleansUp
<1>16. ASSUME NEW p \in Pid, NeighbourReports(p) PROVE LeftLogs'
  BY <1>16 DEF NeighbourReports, Running
<1>17. CASE UNCHANGED vars
  BY <1>17 DEF vars
<1>18. QED
  BY <1>1, <1>2, <1>3, <1>4, <1>5, <1>6, <1>7, <1>8, <1>9, <1>10, <1>11, <1>12, <1>13,
     <1>14, <1>15, <1>16, <1>17, StepCases

LEMMA LogsStep == IInv /\ [Next]_vars => Logs'
<1> SUFFICES ASSUME IInv, [Next]_vars PROVE Logs'
  OBVIOUS
<1> USE ExecutorAssumption DEF IInv, TypeOK, Phases, observed, files, target, service,
   history, Evaluating, Service!Fates, Logs, ReportGenuine, NoLog, Foreign,
   TimedOut, LeftLogs
<1>1. ASSUME NEW w \in Workspace, PreExec(w) PROVE Logs'
  BY <1>1 DEF PreExec, Fault, Fail
<1>2. CASE SetupWorkspace
  BY <1>2 DEF SetupWorkspace, Fault, Fail
<1>3. CASE Send
  BY <1>3 DEF Send, Fault, Fail
<1>4. CASE ClearCapture
  BY <1>4 DEF ClearCapture, Fault, Fail
<1>5. CASE RunChild
  BY <1>5 DEF RunChild, Service!Request
<1>6. CASE Returned
  BY <1>6 DEF Returned, Fault, Fail, Service!Answer, Service!GiveUp, Service!Fail
<1>7. CASE Collect
  <2>1. CASE epc' = "failed"
    BY <1>7, <2>1 DEF Collect, CollectOutput, CollectLog, CollectNothing, Fault, Fail
  <2>2. CASE epc' = "teardown"
    <3>0. TimedOut' /\ LeftLogs'
      BY TimedOutStep, LeftLogsStep DEF TimedOut, LeftLogs
    <3>1. /\ epc = "collect" /\ evals > 0 /\ UNCHANGED <<evals, kind, pid, reported, mishap>>
          /\ CollectOutput \/ CollectLog \/ CollectNothing
      BY <1>7, <2>2 DEF Collect, Fault, Fail
    <3>2. CASE kind = "Crash" /\ AsanEnabled /\ log[pid] # NoLog
      <4>1. report' = log[pid] /\ log' = [log EXCEPT ![pid] = NoLog]
        BY <3>1, <3>2 DEF CollectOutput, CollectLog, CollectNothing
      <4>2. \A p \in Pid : log'[p] <= evals /\ log'[p] # evals
        BY <3>1, <4>1
      <4>3. QED
        BY <2>2, <3>0, <3>1, <3>2, <4>1, <4>2
    <3>3. CASE ~(kind = "Crash" /\ AsanEnabled /\ log[pid] # NoLog)
      <4>1. report' = report /\ log' = log
        BY <3>1, <3>3 DEF CollectOutput, CollectLog, CollectNothing
      <4>2. QED
        BY <2>2, <3>0, <3>1, <3>3, <4>1
    <3>4. QED
      BY <3>2, <3>3
  <2>3. QED
    BY <1>7, <2>1, <2>2 DEF Collect, Fault, Fail
<1>8. CASE PostExec
  BY <1>8 DEF PostExec, Fault, Fail
<1>9. CASE Shutdown
  BY <1>9 DEF Shutdown, Service!Close
<1>10. CASE TargetPrints
  BY <1>10 DEF TargetPrints, Running
<1>11. CASE TargetWritesFiles
  BY <1>11 DEF TargetWritesFiles, Running
<1>12. CASE TargetReports
  BY <1>12 DEF TargetReports, Running
<1>13. CASE TargetEnds
  BY <1>13 DEF TargetEnds, Running, Service!TargetEnds
<1>14. CASE NeighbourSetsUp
  BY <1>14 DEF NeighbourSetsUp
<1>15. CASE NeighbourCleansUp
  BY <1>15 DEF NeighbourCleansUp
<1>16. ASSUME NEW p \in Pid, NeighbourReports(p) PROVE Logs'
  BY <1>16 DEF NeighbourReports, Running
<1>17. CASE UNCHANGED vars
  BY <1>17 DEF vars
<1>18. QED
  BY <1>1, <1>2, <1>3, <1>4, <1>5, <1>6, <1>7, <1>8, <1>9, <1>10, <1>11, <1>12, <1>13,
     <1>14, <1>15, <1>16, <1>17, StepCases

LEMMA CollectedStep == IInv /\ [Next]_vars => Collected'
<1> SUFFICES ASSUME IInv, [Next]_vars PROVE Collected'
  OBVIOUS
<1> USE ExecutorAssumption DEF IInv, TypeOK, Phases, observed, files, target, service,
   history, Evaluating, Service!Fates, Collected, ResponsesGenuine, OwnData
<1>1. ASSUME NEW w \in Workspace, PreExec(w) PROVE Collected'
  BY <1>1 DEF PreExec, Fault, Fail
<1>2. CASE SetupWorkspace
  BY <1>2 DEF SetupWorkspace, Fault, Fail
<1>3. CASE Send
  BY <1>3 DEF Send, Fault, Fail
<1>4. CASE ClearCapture
  BY <1>4 DEF ClearCapture, Fault, Fail
<1>5. CASE RunChild
  BY <1>5 DEF RunChild, Service!Request
<1>6. CASE Returned
  BY <1>6 DEF Returned, Fault, Fail, Service!Answer, Service!GiveUp, Service!Fail
<1>7. CASE Collect
  <2>1. CASE epc' = "failed"
    BY <2>1
  <2>2. CASE epc' = "teardown"
    <3>1. /\ epc = "collect" /\ responses = <<>> /\ UNCHANGED <<evals, kind, capture>>
          /\ CollectOutput \/ CollectLog \/ CollectNothing
      BY <1>7, <2>2 DEF Collect, Fault, Fail
    <3>2. CASE kind = "Ok"
      <4>1. PICK taken \in Decoded(capture) : responses' = responses \o taken
        BY <3>1, <3>2 DEF CollectOutput, CollectLog, CollectNothing
      <4>2. taken \in Seq(Message) /\ responses' = taken
        BY <3>1, <4>1, DecodedPrefix
      <4>3. \A i \in 1 .. Len(taken) : taken[i] = capture[i] /\ taken[i].decodes /\ taken[i].of = evals
        BY <3>1, <4>1, DecodedPrefix
      <4>4. taken = capture \/ (Len(taken) < Len(capture) /\ ~capture[Len(taken) + 1].decodes)
        <5>1. CASE Len(taken) < Len(capture)
          BY <4>1, <5>1, DecodedPrefix
        <5>2. CASE Len(taken) >= Len(capture)
          <6>1. Len(taken) = Len(capture) /\ Len(taken) \in Nat
            BY <4>1, <5>2, DecodedPrefix
          <6>2. QED
            BY <4>2, <4>3, <6>1, SeqEqual
        <5>3. QED
          BY <4>2, <5>1, <5>2
      <4>5. QED
        BY <3>1, <3>2, <4>2, <4>3, <4>4
    <3>3. CASE kind # "Ok"
      <4>1. responses' = <<>>
        BY <3>1, <3>3 DEF CollectOutput, CollectLog, CollectNothing
      <4>2. QED
        BY <3>1, <3>3, <4>1
    <3>4. QED
      BY <3>2, <3>3
  <2>3. QED
    BY <1>7, <2>1, <2>2 DEF Collect, Fault, Fail
<1>8. CASE PostExec
  BY <1>8 DEF PostExec, Fault, Fail
<1>9. CASE Shutdown
  BY <1>9 DEF Shutdown, Service!Close
<1>10. CASE TargetPrints
  BY <1>10 DEF TargetPrints, Running
<1>11. CASE TargetWritesFiles
  BY <1>11 DEF TargetWritesFiles, Running
<1>12. CASE TargetReports
  BY <1>12 DEF TargetReports, Running
<1>13. CASE TargetEnds
  BY <1>13 DEF TargetEnds, Running, Service!TargetEnds
<1>14. CASE NeighbourSetsUp
  BY <1>14 DEF NeighbourSetsUp
<1>15. CASE NeighbourCleansUp
  BY <1>15 DEF NeighbourCleansUp
<1>16. ASSUME NEW p \in Pid, NeighbourReports(p) PROVE Collected'
  BY <1>16 DEF NeighbourReports, Running
<1>17. CASE UNCHANGED vars
  BY <1>17 DEF vars
<1>18. QED
  BY <1>1, <1>2, <1>3, <1>4, <1>5, <1>6, <1>7, <1>8, <1>9, <1>10, <1>11, <1>12, <1>13,
     <1>14, <1>15, <1>16, <1>17, StepCases

LEMMA BlamelessStep == IInv /\ [Next]_vars => Blameless'
<1> SUFFICES ASSUME IInv, [Next]_vars PROVE Blameless'
  OBVIOUS
<1> USE ExecutorAssumption DEF IInv, TypeOK, Phases, observed, files, target, service,
   history, Evaluating, Service!Fates, Blameless, OwnFiles
<1>1. ASSUME NEW w \in Workspace, PreExec(w) PROVE Blameless'
  BY <1>1 DEF PreExec, Fault, Fail
<1>2. CASE SetupWorkspace
  BY <1>2 DEF SetupWorkspace, Fault, Fail
<1>3. CASE Send
  BY <1>3 DEF Send, Fault, Fail
<1>4. CASE ClearCapture
  BY <1>4 DEF ClearCapture, Fault, Fail
<1>5. CASE RunChild
  BY <1>5 DEF RunChild, Service!Request
<1>6. CASE Returned
  BY <1>6 DEF Returned, Fault, Fail, Service!Answer, Service!GiveUp, Service!Fail
<1>7. CASE Collect
  BY <1>7 DEF Collect, CollectOutput, CollectLog, CollectNothing, Fault, Fail
<1>8. CASE PostExec
  BY <1>8 DEF PostExec, Fault, Fail
<1>9. CASE Shutdown
  BY <1>9 DEF Shutdown, Service!Close
<1>10. CASE TargetPrints
  BY <1>10 DEF TargetPrints, Running
<1>11. CASE TargetWritesFiles
  BY <1>11 DEF TargetWritesFiles, Running
<1>12. CASE TargetReports
  BY <1>12 DEF TargetReports, Running
<1>13. CASE TargetEnds
  BY <1>13 DEF TargetEnds, Running, Service!TargetEnds
<1>14. CASE NeighbourSetsUp
  BY <1>14 DEF NeighbourSetsUp
<1>15. CASE NeighbourCleansUp
  BY <1>15 DEF NeighbourCleansUp
<1>16. ASSUME NEW p \in Pid, NeighbourReports(p) PROVE Blameless'
  BY <1>16 DEF NeighbourReports, Running
<1>17. CASE UNCHANGED vars
  BY <1>17 DEF vars
<1>18. QED
  BY <1>1, <1>2, <1>3, <1>4, <1>5, <1>6, <1>7, <1>8, <1>9, <1>10, <1>11, <1>12, <1>13,
     <1>14, <1>15, <1>16, <1>17, StepCases

LEMMA NoLeftoversStep == IInv /\ [Next]_vars => NoLeftovers'
<1> SUFFICES ASSUME IInv, [Next]_vars PROVE NoLeftovers'
  OBVIOUS
<1> USE ExecutorAssumption DEF IInv, TypeOK, Phases, observed, files, target, service,
   history, Evaluating, Service!Fates, NoLeftovers
<1>1. ASSUME NEW w \in Workspace, PreExec(w) PROVE NoLeftovers'
  BY <1>1 DEF PreExec, Fault, Fail
<1>2. CASE SetupWorkspace
  BY <1>2 DEF SetupWorkspace, Fault, Fail
<1>3. CASE Send
  BY <1>3 DEF Send, Fault, Fail
<1>4. CASE ClearCapture
  BY <1>4 DEF ClearCapture, Fault, Fail
<1>5. CASE RunChild
  BY <1>5 DEF RunChild, Service!Request
<1>6. CASE Returned
  BY <1>6 DEF Returned, Fault, Fail, Service!Answer, Service!GiveUp, Service!Fail
<1>7. CASE Collect
  BY <1>7 DEF Collect, CollectOutput, CollectLog, CollectNothing, Fault, Fail
<1>8. CASE PostExec
  BY <1>8 DEF PostExec, Fault, Fail
<1>9. CASE Shutdown
  BY <1>9 DEF Shutdown, Service!Close
<1>10. CASE TargetPrints
  BY <1>10 DEF TargetPrints, Running
<1>11. CASE TargetWritesFiles
  BY <1>11 DEF TargetWritesFiles, Running
<1>12. CASE TargetReports
  BY <1>12 DEF TargetReports, Running
<1>13. CASE TargetEnds
  BY <1>13 DEF TargetEnds, Running, Service!TargetEnds
<1>14. CASE NeighbourSetsUp
  BY <1>14 DEF NeighbourSetsUp
<1>15. CASE NeighbourCleansUp
  BY <1>15 DEF NeighbourCleansUp
<1>16. ASSUME NEW p \in Pid, NeighbourReports(p) PROVE NoLeftovers'
  BY <1>16 DEF NeighbourReports, Running
<1>17. CASE UNCHANGED vars
  BY <1>17 DEF vars
<1>18. QED
  BY <1>1, <1>2, <1>3, <1>4, <1>5, <1>6, <1>7, <1>8, <1>9, <1>10, <1>11, <1>12, <1>13,
     <1>14, <1>15, <1>16, <1>17, StepCases

LEMMA IInvInit == Init => IInv
<1> SUFFICES ASSUME Init PROVE IInv
  OBVIOUS
<1> USE ExecutorAssumption DEF Init, Service!Init, NoLog, Foreign, Evaluating
<1>1. dir \in [Workspace -> Content] /\ log \in [Pid -> {NoLog, Foreign}]
  <2>1. {} \in Content
    BY DEF Content
  <2>2. CASE setting.leftovers
    BY <2>2
  <2>3. CASE ~setting.leftovers
    BY <2>1, <2>3
  <2>4. QED
    BY <2>2, <2>3
<1>2. TypeOK
  <2>1. responses \in Seq(Message) /\ capture \in Seq(Message)
    OBVIOUS
  <2>2. log \in [Pid -> Int] /\ mishap \in BOOLEAN /\ other \in Workspace \cup {Nobody}
    <3>1. {NoLog, Foreign} \subseteq Int
      OBVIOUS
    <3>2. log \in [Pid -> Int]
      BY <1>1, <3>1
    <3>3. mishap \in BOOLEAN /\ other \in Workspace \cup {Nobody}
      OBVIOUS
    <3>4. QED
      BY <3>2, <3>3
  <2>3. QED
    BY <1>1, <2>1, <2>2 DEF TypeOK, Service!Fates
<1>3. Phases /\ OwnData /\ OwnFiles /\ Judged /\ Collected /\ Blameless /\ NoLeftovers
  BY DEF Phases, OwnData, OwnFiles, Judged, Collected, Blameless, NoLeftovers
<1>4. Pristine
  BY DEF Pristine, Untouched
<1>5. Logs /\ TimedOut /\ LeftLogs
  BY <1>1 DEF Logs, TimedOut, LeftLogs
<1>6. QED
  BY <1>2, <1>3, <1>4, <1>5 DEF IInv

LEMMA IInvStep == IInv /\ [Next]_vars => IInv'
BY TypeStep, PhasesStep, OwnDataStep, OwnFilesStep, PristineStep, JudgedStep, TimedOutStep, LeftLogsStep, LogsStep,
   CollectedStep, BlamelessStep, NoLeftoversStep DEF IInv

LEMMA Inductive == Spec => []IInv
BY IInvInit, IInvStep, PTL DEF Spec

-----------------------------------------------------------------------------
(* Every variable keeps its type: what the executor, its files and the     *)
(* target's files hold are always values the code can have.                *)
THEOREM TypeCorrect == Spec => []TypeOK
<1>1. IInv => TypeOK
  BY DEF IInv
<1>2. QED
  BY <1>1, Inductive, PTL

(* A running target reads its own input, prints into an empty file, finds  *)
(* its own files in its workspace and nothing an earlier run left there,   *)
(* whatever runs, errors and neighbours there were before (run_target,     *)
(* clear_output_capture_file, WorkspaceObserver).                          *)
THEOREM IsolationHolds == Spec => []Isolation
<1>1. IInv => Isolation
  <2> SUFFICES ASSUME IInv PROVE Isolation
    OBVIOUS
  <2>1. phase = "busy" => epc = "await"
    BY DEF IInv, Phases, TypeOK
  <2>2. phase = "busy" =>
          /\ input = evals
          /\ \A i \in 1 .. Len(capture) : capture[i].of = evals
          /\ ~mishap => "own" \in dir[ws]
    BY <2>1 DEF IInv, OwnData, OwnFiles, Evaluating
  <2>3. epc = "run" /\ ~mishap /\ ~setting.neighbour
        /\ (setting.leftovers => ws \in cleaned) => dir[ws] = {"dir", "own"}
    BY DEF IInv, TypeOK, Pristine, Untouched
  <2>4. QED
    BY <2>2, <2>3 DEF Isolation
<1>2. QED
  BY <1>1, Inductive, PTL

(* What is recorded of a run is what its target did: its messages up to    *)
(* the first that does not decode, its sanitizer report and no other, its  *)
(* verdict.  The verdict needs a crash_exit_code that is not negative;     *)
(* with a negative one the run of CrashExitCodeCounts shows it wrong.      *)
THEOREM GenuineHolds ==
  ASSUME CrashExitCode \in Nat \cup {NoCode}
  PROVE  Spec => []Genuine
<1>1. IInv => Genuine
  <2> SUFFICES ASSUME IInv, epc = "teardown" PROVE ResponsesGenuine /\ ReportGenuine /\ VerdictGenuine
    BY DEF Genuine
  <2>1. ResponsesGenuine /\ ReportGenuine
    BY DEF IInv, Collected, Logs
  <2>2. VerdictGenuine
    <3>1. /\ answer \in {fate, "timeout"} /\ answer # "none" /\ kind = ExitKind(answer)
          /\ answer \in {"exited", "crashed", "stopped", "none", "timeout"}
          /\ exitArg \in Int
      BY DEF IInv, TypeOK, Judged, Service!Fates
    <3>2. CrashExitCode # NoCode => CrashExitCode % 256 = CrashExitCode
      BY ExecutorAssumption
    <3>3. IsCrashExit <=> CrashExitCode # NoCode /\ exitArg % 256 = CrashExitCode % 256
      BY <3>2 DEF IsCrashExit
    <3>4. QED
      BY <3>1, <3>3 DEF VerdictGenuine, ExitKind
  <2>3. QED
    BY <2>1, <2>2
<1>2. QED
  BY <1>1, Inductive, PTL

(* The fuzz loop does not trip over itself: it ends in an error only after *)
(* an I/O error, an interference, or an input that cannot be sent (`?` in  *)
(* run_target and in the observers).                                       *)
THEOREM BlamelessHolds == Spec => []Blameless
<1>1. IInv => Blameless
  BY DEF IInv
<1>2. QED
  BY <1>1, Inductive, PTL

(* An evaluation that went through leaves no directory in temp_dir         *)
(* (WorkspaceObserver::post_exec), whatever the target put there.          *)
THEOREM NoLeftoversHolds == Spec => []NoLeftovers
<1>1. IInv => NoLeftovers
  BY DEF IInv
<1>2. QED
  BY <1>1, Inductive, PTL

=============================================================================
