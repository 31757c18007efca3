----------------------------- MODULE ForkServer -----------------------------
(***************************************************************************)
(* NeoForkServer (execution/fork_server.rs): the fuzzer side of the AFL++  *)
(* fork server protocol, run_child and Drop, composed with what it talks   *)
(* to: the two pipes, the fork server inside the target (external), and    *)
(* the kernel's processes and signals (external).                          *)
(*                                                                         *)
(* The words on the pipes are bare integers.  The model tags each word of  *)
(* the status pipe with the run and the kind its writer meant; no action   *)
(* of the client looks at the tags, only properties do.                    *)
(***************************************************************************)
EXTENDS Naturals, Sequences, FiniteSets

CONSTANTS
  Pid,          (* process ids the kernel hands out to target children     *)
  NoPid,        (* no process: None, or a pid word that is not positive    *)
  KillSignal,   (* the kill signals a campaign may be configured with      *)
  Persistent,   (* is the target built for persistent mode?                *)
  MaxRuns       (* bound on the calls of run_child                         *)

ASSUME ForkServerAssumption ==
  /\ NoPid \notin Pid
  /\ KillSignal \subseteq {"SIGKILL", "SIGTERM"}
  /\ Persistent \in BOOLEAN
  /\ MaxRuns \in Nat

VARIABLES
  (* the client: NeoForkServer and the progress of its caller's call       *)
  cpc,             (* where the client is; "idle" between two runs         *)
  childPid,        (* child_pid                                            *)
  lastRunTimedOut, (* last_run_timed_out                                   *)
  reply,           (* what the last successful run_child returned          *)
  run,             (* number of runs started                               *)
  killSignal,      (* kill_signal; nothing changes it                      *)
  (* the pipes                                                             *)
  ctl,             (* control pipe: words written by the client            *)
  st,              (* status pipe: words written by the fork server        *)
  (* the fork server                                                       *)
  spc,             (* where it is, or what became of its process           *)
  srvRun,          (* the run it serves                                    *)
  srvChild,        (* the child it last forked                             *)
  childStopped,    (* does it hold a stopped persistent child?             *)
  stWord,          (* the wait status it is about to relay                 *)
  (* the kernel                                                            *)
  proc,            (* state of the process behind each pid                 *)
  doomed,          (* children with an undelivered kill signal             *)
  (* history, read by properties only                                      *)
  fate,            (* what the target itself did in the current run        *)
  told             (* children whose pid the client has read               *)

client == <<cpc, childPid, lastRunTimedOut, reply, run, killSignal>>
server == <<spc, srvRun, srvChild, childStopped, stWord>>
kernel == <<proc, doomed>>
vars == <<client, ctl, st, server, kernel, fate, told>>

InRun   == {"notify", "pid", "status", "kill", "ack"}
InDrop  == {"dropServer", "dropWait", "gone"}
Dead    == {"zombie", "reaped", "recycled"}      (* fork server process    *)
Active  == {"running", "stopped"}
Zombies == {"exited", "crashed", "killed"}       (* by their wait status   *)
Fates   == {"exited", "crashed", "stopped"}

Init ==
  /\ cpc = "idle"
  /\ childPid = NoPid
  /\ lastRunTimedOut = FALSE
  /\ reply = [pid |-> NoPid, status |-> "none"]
  /\ run = 0
  /\ killSignal \in KillSignal
  /\ ctl = <<>> /\ st = <<>>
  /\ spc = "read"
  /\ srvRun = 0
  /\ srvChild = NoPid
  /\ childStopped = FALSE
  /\ stWord = "none"
  /\ proc = [p \in Pid |-> "free"]
  /\ doomed = {}
  /\ fate = "none"
  /\ told = {}

-----------------------------------------------------------------------------
(* The client.                                                             *)

(* kill(p, kill_signal).  Nothing happens to a dead process; a recycled    *)
(* pid belongs to somebody else.                                           *)
Signal(p) ==
  doomed' = IF p \in Pid /\ proc[p] \in Active THEN doomed \cup {p} ELSE doomed

Fail == cpc' = "err"

(* run_child returns Ok((child_pid, s)).                                   *)
Return(s) ==
  /\ cpc' = "idle"
  /\ reply' = [pid |-> childPid, status |-> s]

Eof == st = <<>> /\ spc \in Dead

-----------------------------------------------------------------------------
(* Variants of the actions below with a defect; no specification uses      *)
(* them.                                                                   *)

(* The acknowledgement of a kill is not waited for.                        *)
ReadAckSkipped ==
  /\ cpc = "ack" /\ Return("timeout")
  /\ UNCHANGED <<killSignal, childPid, lastRunTimedOut, run, ctl, st, server, kernel, fate, told>>

(* last_run_timed_out is never set, so the fork server is not told.        *)
TimeoutForgotten ==
  /\ cpc = "status" /\ st = <<>> /\ ~Eof
  /\ cpc' = "kill"
  /\ UNCHANGED <<killSignal, childPid, lastRunTimedOut, reply, run, ctl, st, server, kernel,
                 fate, told>>

(* child_pid is cleared although the child has only stopped.               *)
ReadStatusForgetsStopped ==
  /\ cpc = "status"
  /\ \/ Eof /\ Fail /\ UNCHANGED <<childPid, lastRunTimedOut, reply, st>>
     \/ /\ st # <<>> /\ st' = Tail(st)
        /\ lastRunTimedOut' = FALSE
        /\ childPid' = NoPid
        /\ Return(Head(st).val)
  /\ UNCHANGED <<killSignal, run, ctl, server, kernel, fate, told>>

(* The failure of read_exact is ignored and the zeroed buffer returned.    *)
ReadStatusIgnoresEof ==
  /\ cpc = "status"
  /\ lastRunTimedOut' = FALSE
  /\ childPid' = NoPid
  /\ \/ Eof /\ Return("exited") /\ UNCHANGED st
     \/ st # <<>> /\ st' = Tail(st) /\ Return(Head(st).val)
  /\ UNCHANGED <<killSignal, run, ctl, server, kernel, fate, told>>

(* The timed-out child is not killed.                                      *)
TimeoutKillOmitted ==
  /\ cpc = "kill" /\ cpc' = "ack"
  /\ UNCHANGED <<killSignal, childPid, lastRunTimedOut, reply, run, ctl, st, server, kernel,
                 fate, told>>

-----------------------------------------------------------------------------
(* run_child, step by step.                                                *)

(* The loop over waitpid(None, WNOHANG) that opens run_child.  The fork    *)
(* server is the only child of the fuzzer: once it is dead the loop reaps  *)
(* it and the next call fails with ECHILD.                                 *)
Sweep ==
  /\ cpc = "idle" /\ run < MaxRuns
  /\ \/ /\ spc \notin Dead
        /\ cpc' = "notify"
        /\ run' = run + 1
        /\ fate' = "none"
        /\ UNCHANGED spc
     \/ /\ spc = "zombie"
        /\ Fail
        /\ spc' = "reaped"
        /\ UNCHANGED <<run, fate>>
  /\ UNCHANGED <<killSignal, childPid, lastRunTimedOut, reply, ctl, st, srvRun, srvChild,
                 childStopped, stWord, kernel, told>>

(* write_u32(last_run_timed_out); EPIPE once the fork server is dead.      *)
Notify ==
  /\ cpc = "notify"
  /\ IF spc \in Dead
       THEN Fail /\ UNCHANGED ctl
       ELSE /\ cpc' = "pid"
            /\ ctl' = Append(ctl, [run |-> run, killed |-> lastRunTimedOut])
  /\ UNCHANGED <<killSignal, childPid, lastRunTimedOut, reply, run, st, server, kernel,
                 fate, told>>

(* read_i32, the check of the pid, and child_pid = Some(pid).              *)
ReadPid ==
  /\ cpc = "pid"
  /\ \/ /\ Eof
        /\ Fail
        /\ UNCHANGED <<childPid, st, told>>
     \/ /\ st # <<>>
        /\ st' = Tail(st)
        /\ IF Head(st).val = NoPid
             THEN Fail /\ UNCHANGED <<childPid, told>>
             ELSE /\ cpc' = "status"
                  /\ childPid' = Head(st).val
                  /\ told' = told \cup {Head(st).val}
  /\ UNCHANGED <<killSignal, lastRunTimedOut, reply, run, ctl, server, kernel, fate>>

(* read_st_timed finds the pipe readable, and run_child returns.           *)
ReadStatus ==
  /\ cpc = "status"
  /\ \/ /\ Eof
        /\ Fail
        /\ UNCHANGED <<childPid, lastRunTimedOut, reply, st>>
     \/ /\ st # <<>>
        /\ st' = Tail(st)
        /\ lastRunTimedOut' = FALSE
        /\ childPid' = IF Head(st).val = "stopped" THEN childPid ELSE NoPid
        /\ Return(Head(st).val)
  /\ UNCHANGED <<killSignal, run, ctl, server, kernel, fate, told>>

(* pselect expires: nothing to read, and no end of file either.            *)
Timeout ==
  /\ cpc = "status" /\ st = <<>> /\ ~Eof
  /\ cpc' = "kill"
  /\ lastRunTimedOut' = TRUE
  /\ UNCHANGED <<killSignal, childPid, reply, run, ctl, st, server, kernel, fate, told>>

(* pselect itself fails: child_pid is set, last_run_timed_out is old.      *)
SelectFails ==
  /\ cpc = "status"
  /\ Fail
  /\ UNCHANGED <<killSignal, childPid, lastRunTimedOut, reply, run, ctl, st, server,
                 kernel, fate, told>>

(* kill(pid): ESRCH is success; EPERM, from somebody else's process, is an *)
(* error.                                                                  *)
TimeoutKill ==
  /\ cpc = "kill"
  /\ \/ Signal(childPid) /\ cpc' = "ack"
     \/ proc[childPid] = "recycled" /\ Fail /\ UNCHANGED doomed
  /\ UNCHANGED <<killSignal, childPid, lastRunTimedOut, reply, run, ctl, st, server, proc,
                 fate, told>>

(* The blocking read_u32 of the acknowledgement: whichever word is next.   *)
ReadAck ==
  /\ cpc = "ack"
  /\ \/ Eof /\ Fail /\ UNCHANGED <<st, reply>>
     \/ st # <<>> /\ st' = Tail(st) /\ Return("timeout")
  /\ UNCHANGED <<killSignal, childPid, lastRunTimedOut, run, ctl, server, kernel, fate, told>>

(* Drop: a caller that got an error, or has finished, drops the client.    *)
DropChild ==
  /\ cpc \in {"idle", "err"}
  /\ cpc' = "dropServer"
  /\ Signal(childPid)
  /\ UNCHANGED <<killSignal, childPid, lastRunTimedOut, reply, run, ctl, st, server, proc,
                 fate, told>>

(* fork_server_child.kill(): fails when the sweep has reaped the process,  *)
(* and hits a stranger when the pid was handed out again.                  *)
DropServer ==
  /\ cpc = "dropServer"
  /\ cpc' = IF spc = "reaped" THEN "gone" ELSE "dropWait"
  /\ spc' = IF spc \in Dead THEN spc ELSE "zombie"
  /\ UNCHANGED <<killSignal, childPid, lastRunTimedOut, reply, run, ctl, st, srvRun,
                 srvChild, childStopped, stWord, kernel, fate, told>>

(* fork_server_child.wait(); ECHILD if the pid is no child of the fuzzer.  *)
DropWait ==
  /\ cpc = "dropWait"
  /\ cpc' = "gone"
  /\ spc' = IF spc = "zombie" THEN "reaped" ELSE spc
  /\ UNCHANGED <<killSignal, childPid, lastRunTimedOut, reply, run, ctl, st, srvRun,
                 srvChild, childStopped, stWord, kernel, fate, told>>

Drop == DropChild \/ DropServer \/ DropWait

RunStep == Notify \/ ReadPid \/ ReadStatus \/ Timeout \/ TimeoutKill \/ ReadAck

-----------------------------------------------------------------------------
(* The fork server in the target (external).                               *)

Word(k, v) == [run |-> srvRun, kind |-> k, val |-> v]

ServerRead ==
  /\ spc = "read" /\ ctl # <<>>
  /\ ctl' = Tail(ctl)
  /\ srvRun' = Head(ctl).run
  /\ spc' = IF childStopped /\ Head(ctl).killed THEN "reapOld" ELSE "start"
  /\ UNCHANGED <<client, st, srvChild, childStopped, stWord, kernel, fate, told>>

(* The stopped child was signalled: wait for its death, fork a new one.    *)
ServerReapsOld ==
  /\ spc = "reapOld" /\ proc[srvChild] \in Zombies
  /\ proc' = [proc EXCEPT ![srvChild] = "free"]
  /\ childStopped' = FALSE
  /\ spc' = "start"
  /\ UNCHANGED <<client, ctl, st, srvRun, srvChild, stWord, doomed, fate, told>>

ServerForks ==
  /\ spc = "start" /\ ~childStopped
  /\ \E p \in Pid :
       /\ proc[p] = "free"
       /\ proc' = [proc EXCEPT ![p] = "running"]
       /\ srvChild' = p
       /\ told' = told \ {p}
  /\ spc' = "sendPid"
  /\ UNCHANGED <<client, ctl, st, srvRun, childStopped, stWord, doomed, fate>>

(* fork fails: the server exits, having reported a negative pid or not.    *)
ServerForkFails ==
  /\ spc = "start" /\ ~childStopped
  /\ st' \in {st, Append(st, Word("pid", NoPid))}
  /\ spc' = "zombie"
  /\ UNCHANGED <<client, ctl, srvRun, srvChild, childStopped, stWord, kernel,
                 fate, told>>

(* SIGCONT to the stopped persistent child; no effect on a zombie.         *)
ServerResumes ==
  /\ spc = "start" /\ childStopped
  /\ proc' = IF proc[srvChild] = "stopped"
               THEN [proc EXCEPT ![srvChild] = "running"] ELSE proc
  /\ childStopped' = FALSE
  /\ spc' = "sendPid"
  /\ UNCHANGED <<client, ctl, st, srvRun, srvChild, stWord, doomed, fate, told>>

ServerSendsPid ==
  /\ spc = "sendPid"
  /\ st' = Append(st, Word("pid", srvChild))
  /\ spc' = "wait"
  /\ UNCHANGED <<client, ctl, srvRun, srvChild, childStopped, stWord, kernel,
                 fate, told>>

(* waitpid(child): reaps a dead child; WUNTRACED in persistent mode.       *)
ServerWaits ==
  /\ spc = "wait"
  /\ \/ /\ proc[srvChild] \in Zombies
        /\ proc' = [proc EXCEPT ![srvChild] = "free"]
        /\ UNCHANGED childStopped
     \/ /\ proc[srvChild] = "stopped"
        /\ childStopped' = TRUE
        /\ UNCHANGED proc
  /\ stWord' = proc[srvChild]
  /\ spc' = "sendStatus"
  /\ UNCHANGED <<client, ctl, st, srvRun, srvChild, doomed, fate, told>>

ServerSendsStatus ==
  /\ spc = "sendStatus"
  /\ st' = Append(st, Word("status", stWord))
  /\ spc' = "read"
  /\ UNCHANGED <<client, ctl, srvRun, srvChild, childStopped, stWord, kernel,
                 fate, told>>

(* The fork server dies by itself (out of memory, a signal).               *)
ServerCrashes ==
  /\ spc \notin Dead
  /\ spc' = "zombie"
  /\ UNCHANGED <<client, ctl, st, srvRun, srvChild, childStopped, stWord,
                 kernel, fate, told>>

ServerStep ==
  \/ ServerRead \/ ServerReapsOld \/ ServerForks \/ ServerForkFails
  \/ ServerResumes \/ ServerSendsPid \/ ServerWaits \/ ServerSendsStatus

-----------------------------------------------------------------------------
(* The target's child and the kernel (external).                           *)

(* The child exits, crashes or, in persistent mode, stops itself.          *)
ChildEnds(p) ==
  /\ proc[p] = "running"
  /\ \E f \in (IF Persistent THEN Fates ELSE Fates \ {"stopped"}) :
       /\ proc' = [proc EXCEPT ![p] = f]
       /\ fate' = f
       /\ doomed' = IF f \in Zombies THEN doomed \ {p} ELSE doomed
  /\ UNCHANGED <<client, ctl, st, server, told>>

(* SIGKILL takes any child; another signal only one that is not stopped.   *)
SignalKills(p) ==
  /\ p \in doomed
  /\ proc[p] = "running" \/ killSignal = "SIGKILL"
  /\ proc' = [proc EXCEPT ![p] = "killed"]
  /\ doomed' = doomed \ {p}
  /\ UNCHANGED <<client, ctl, st, server, fate, told>>

(* The target ignores or handles a signal that is not SIGKILL.             *)
SignalIgnored(p) ==
  /\ p \in doomed /\ proc[p] = "running" /\ killSignal # "SIGKILL"
  /\ doomed' = doomed \ {p}
  /\ UNCHANGED <<client, ctl, st, server, proc, fate, told>>

(* A dead fork server's children are reaped by init.                       *)
OrphanReaped(p) ==
  /\ spc \in Dead /\ proc[p] \in Zombies
  /\ proc' = [proc EXCEPT ![p] = "free"]
  /\ UNCHANGED <<client, ctl, st, server, doomed, fate, told>>

(* The kernel gives a pid the target no longer uses to a stranger.         *)
PidRecycled(p) ==
  /\ proc[p] = "free"
  /\ proc' = [proc EXCEPT ![p] = "recycled"]
  /\ told' = told \ {p}
  /\ UNCHANGED <<client, ctl, st, server, doomed, fate>>

ServerPidRecycled ==
  /\ spc = "reaped"
  /\ spc' = "recycled"
  /\ UNCHANGED <<client, ctl, st, srvRun, srvChild, childStopped, stWord,
                 kernel, fate, told>>

Environment ==
  \/ \E p \in Pid : \/ ChildEnds(p) \/ SignalKills(p) \/ SignalIgnored(p)
                    \/ OrphanReaped(p) \/ PidRecycled(p)
  \/ ServerPidRecycled \/ ServerCrashes

(* The client is gone: the only state in which the system may rest.        *)
Terminated == cpc = "gone" /\ UNCHANGED vars

Next ==
  Sweep \/ RunStep \/ SelectFails \/ Drop \/ ServerStep \/ Environment \/ Terminated

Spec == Init /\ [][Next]_vars

(* The client is a running thread, pselect has a timeout, the fork server  *)
(* is scheduled and the kernel delivers signals.  The child owes nothing.  *)
Fairness ==
  /\ WF_vars(RunStep)
  /\ WF_vars(cpc # "idle" /\ Drop)
  /\ WF_vars(ServerStep)
  /\ \A p \in Pid : WF_vars(SignalKills(p) \/ SignalIgnored(p))

FairSpec == Spec /\ Fairness

-----------------------------------------------------------------------------
(* Properties.                                                             *)

StatusWords == {"exited", "crashed", "killed", "stopped"}

Words == [run : Nat, kind : {"pid"}, val : Pid \cup {NoPid}]
           \cup [run : Nat, kind : {"status"}, val : StatusWords]

(* Type invariant: every variable of the client, the pipes, the fork       *)
(* server and the kernel has its type.                                     *)
TypeOK ==
  /\ cpc \in InRun \cup InDrop \cup {"idle", "err"}
  /\ childPid \in Pid \cup {NoPid}
  /\ lastRunTimedOut \in BOOLEAN
  /\ reply \in [pid : Pid \cup {NoPid}, status : StatusWords \cup {"none", "timeout"}]
  /\ run \in Nat
  /\ killSignal \in KillSignal
  /\ ctl \in Seq([run : Nat, killed : BOOLEAN])
  /\ st \in Seq(Words)
  /\ spc \in {"read", "reapOld", "start", "sendPid", "wait", "sendStatus"} \cup Dead
  /\ srvRun \in Nat
  /\ srvChild \in Pid \cup {NoPid}
  /\ childStopped \in BOOLEAN
  /\ stWord \in StatusWords \cup {"none"}
  /\ proc \in [Pid -> Active \cup Zombies \cup {"free", "recycled"}]
  /\ doomed \subseteq Pid
  /\ fate \in Fates \cup {"none"}
  /\ told \subseteq Pid

(* The client and the fork server stay in step (run_child reads bare       *)
(* words): the next word on the status pipe is always of the current run   *)
(* and of the kind the client is about to take it for, and no word is left *)
(* over when run_child returns or starts.                                  *)
Lockstep ==
  /\ \A i \in DOMAIN st : st[i].run = run
  /\ cpc \in {"idle", "notify"} => st = <<>> /\ ctl = <<>>
  /\ cpc = "pid" /\ st # <<>> => Head(st).kind = "pid"
  /\ cpc \in {"status", "kill", "ack"} /\ st # <<>> => Head(st).kind = "status"

(* Between two calls of run_child no child runs, so the executor may       *)
(* rewrite the shared-memory input, the coverage map and the capture file. *)
QuietBetweenRuns ==
  cpc \in {"idle", "notify"} => \A p \in Pid : proc[p] # "running"

(* run_child returns the child it ran and what that child did by itself in *)
(* this run: never the death the client's own kill caused, in this run or  *)
(* in the one before, which the executor would count as a crash.           *)
ReplyGenuine ==
  cpc = "idle" /\ run > 0 =>
    /\ reply.pid = srvChild
    /\ reply.status \in {"timeout", fate}

(* Once Drop is over, every child whose pid run_child ever read is dead or *)
(* has the kill signal pending, if that is one it cannot ignore.           *)
NoOrphan ==
  cpc = "gone" /\ killSignal = "SIGKILL" =>
    \A p \in told : proc[p] \in Active => p \in doomed

(* Drop signals only the fork server and its child ("kill any active child *)
(* process (if one exists)", fork_server.rs:145): after a run that         *)
(* returned, never a process that merely inherited a pid.                  *)
DropSignalsOwnProcesses ==
  [][DropChild /\ cpc = "idle" /\ childPid # NoPid
       => proc[childPid] # "recycled"]_vars

(* Every call of run_child returns, with an answer or an error, whatever   *)
(* the child does: a hanging child is killed and acknowledged.  With a     *)
(* kill signal the child may ignore it need not return.                    *)
RunReturns == cpc \in InRun /\ killSignal = "SIGKILL" ~> cpc \notin InRun

phase ==
  CASE cpc = "idle" -> "ready"
    [] cpc \in InRun -> "busy"
    [] cpc = "err" -> "failed"
    [] cpc \in InDrop -> "closed"

Service == INSTANCE ForkService WITH answer <- reply.status

(* run_child implements the abstract service: one request at a time, its   *)
(* answer is what the target did with this input or a timeout, a failure   *)
(* is final.                                                               *)
ImplementsService == Service!Spec
=============================================================================
