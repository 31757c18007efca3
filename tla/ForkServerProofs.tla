-------------------------- MODULE ForkServerProofs --------------------------
(***************************************************************************)
(* Theorems about ForkServer, for every set of pids, kill signal, mode and *)
(* number of runs.                                                         *)
(***************************************************************************)
EXTENDS ForkServer, SequenceTheorems, TLAPS

(* Where the client and the server can be together, and what the pipes     *)
(* hold then.  A dead server may have died in any of its places.           *)
PidWord(v)    == [run |-> run, kind |-> "pid", val |-> v]
StatusWord(v) == [run |-> run, kind |-> "status", val |-> v]

AtRest ==
  /\ spc \in {"read"} \cup Dead
  /\ ctl = <<>> /\ st = <<>>

Requested ==
  \/ /\ spc \in {"read"} \cup Dead
     /\ ctl = <<[run |-> run, killed |-> lastRunTimedOut]>>
     /\ st = <<>>
  \/ /\ spc \in {"reapOld", "start", "sendPid"} \cup Dead
     /\ ctl = <<>> /\ st = <<>>
  \/ /\ spc \in {"wait", "sendStatus"} \cup Dead
     /\ ctl = <<>>
     /\ \E v \in {srvChild, NoPid} : st = <<PidWord(v)>>
  \/ /\ spc \in {"read"} \cup Dead
     /\ ctl = <<>>
     /\ \E v \in {srvChild, NoPid}, s \in StatusWords :
          st = <<PidWord(v), StatusWord(s)>>

Served ==
  /\ ctl = <<>>
  /\ childPid = srvChild
  /\ \/ spc \in {"wait", "sendStatus"} \cup Dead /\ st = <<>>
     \/ /\ spc \in {"read"} \cup Dead
        /\ \E s \in StatusWords : st = <<StatusWord(s)>>

Abandoned ==
  /\ \A i \in DOMAIN st : st[i].run = run
  /\ spc \in {"read", "wait", "sendStatus"} => ctl = <<>>
  /\ spc \in {"read", "wait", "sendStatus"} \cup Dead

Control ==
  /\ cpc \in {"idle", "notify"} => AtRest
  /\ cpc = "pid" => Requested
  /\ cpc \in {"status", "kill", "ack"} => Served
  /\ cpc \in {"err"} \cup InDrop => Abandoned

(* What the server knows in each of its places.                            *)
ServerKnows ==
  /\ spc \in {"reapOld", "start", "sendPid", "wait", "sendStatus"} => srvRun = run
  /\ spc \in {"reapOld", "sendPid", "wait", "sendStatus"} => srvChild \in Pid
  /\ childStopped => srvChild \in Pid
  /\ spc = "sendStatus" => stWord \in StatusWords

(* First layer: control and types.                                         *)
Inv1 == TypeOK /\ Control /\ ServerKnows

(* There is one child at most, and it runs only while the server has       *)
(* started it and not yet relayed its status.                              *)
Live(p)  == proc[p] \in Active \cup Zombies
Quiet    == \A p \in Pid : proc[p] # "running"
Relayed  == \E i \in DOMAIN st : st[i].kind = "status"

OneChild ==
  /\ \A p \in Pid : Live(p) => p = srvChild
  /\ spc \in {"read", "start", "sendStatus"} /\ ~childStopped
       => \A p \in Pid : ~Live(p)
  /\ spc \notin {"sendPid", "wait"} \cup Dead => Quiet
  /\ childStopped /\ spc \notin Dead =>
       /\ proc[srvChild] \in {"stopped", "killed"}
       /\ spc \in {"sendStatus", "read", "reapOld", "start"}
  /\ spc = "reapOld" => childStopped
  /\ cpc \in {"idle", "notify"} \/ (cpc = "pid" /\ ctl # <<>>) \/ Relayed => Quiet

(* A kill signal the client sent, delivered or not, is confined to the run *)
(* that timed out, and to the child the server is told to write off.       *)
Clean == doomed = {} /\ \A p \in Pid : proc[p] # "killed"

Confined ==
  /\ cpc \in {"kill", "ack"} => lastRunTimedOut
  /\ \A p \in doomed : proc[p] \in Active
  /\ \/ Clean
     \/ spc \in Dead
     \/ cpc \in {"ack", "err"} \cup InDrop
     \/ cpc \in {"idle", "notify"} /\ lastRunTimedOut
     \/ cpc = "pid" /\ lastRunTimedOut /\ (ctl # <<>> \/ spc = "reapOld")

(* The status under way is what the target did, unless the client has      *)
(* killed it in this very run.                                             *)
True(s) == s = fate \/ cpc \notin {"idle", "notify", "pid", "status", "kill"}

Faithful ==
  /\ spc \in {"sendPid", "wait"} =>
       \A p \in Pid : proc[p] \in Zombies \cup {"stopped"} => True(proc[p])
  /\ spc = "sendStatus" => True(stWord)
  /\ \A i \in DOMAIN st : st[i].kind = "status" => True(st[i].val)
  /\ cpc \in {"status", "kill", "ack"} => childPid = srvChild
  /\ cpc = "notify" \/ (cpc = "pid" /\ (ctl # <<>> \/ spc \in {"reapOld", "start"}))
       => fate = "none"
  /\ ~Quiet => fate = "none"

(* Second layer.                                                           *)
Inv2 == OneChild /\ Confined /\ Faithful /\ ReplyGenuine

(* Third layer: with SIGKILL, a live child the client knows of is the one   *)
(* it remembers, until Drop has signalled it.                              *)
Remembered ==
  /\ spc = "sendStatus" /\ stWord # "stopped" => ~childStopped
  /\ \A i \in DOMAIN st : st[i].kind = "status" /\ st[i].val # "stopped"
       => \A p \in Pid : proc[p] \notin Active
  /\ killSignal = "SIGKILL" =>
       \A p \in told : proc[p] \in Active =>
         IF cpc \in InDrop THEN p \in doomed ELSE p = childPid

-----------------------------------------------------------------------------
LEMMA AppendToEmpty ==
  ASSUME NEW w PROVE Append(<<>>, w) = <<w>>
OBVIOUS

LEMMA AppendToOne ==
  ASSUME NEW S, NEW v \in S, NEW w \in S PROVE Append(<<v>>, w) = <<v, w>>
<1>1. /\ <<v>> \in Seq(S) /\ Len(<<v>>) = 1
      /\ <<v, w>> \in Seq(S) /\ Len(<<v, w>>) = 2
  OBVIOUS
<1>2. /\ Append(<<v>>, w) \in Seq(S) /\ Len(Append(<<v>>, w)) = 2
      /\ Append(<<v>>, w)[1] = v /\ Append(<<v>>, w)[2] = w
  BY <1>1, AppendProperties
<1>3. \A i \in 1 .. 2 : Append(<<v>>, w)[i] = <<v, w>>[i]
  BY <1>2
<1>4. QED
  BY <1>1, <1>2, <1>3, SeqEqual

LEMMA Inv1Init == Init => Inv1
<1> SUFFICES ASSUME Init PROVE Inv1
  OBVIOUS
<1> USE ForkServerAssumption DEF Init, InRun, InDrop, Dead
<1>1. TypeOK
  <2>1. reply \in [pid : Pid \cup {NoPid}, status : StatusWords \cup {"none", "timeout"}]
    OBVIOUS
  <2>2. proc \in [Pid -> Active \cup Zombies \cup {"free", "recycled"}]
    OBVIOUS
  <2>3. ctl \in Seq([run : Nat, killed : BOOLEAN]) /\ st \in Seq(Words)
    OBVIOUS
  <2>4. QED
    BY <2>1, <2>2, <2>3 DEF TypeOK
<1>2. Control
  BY DEF Control, AtRest
<1>3. ServerKnows
  BY DEF ServerKnows
<1>4. QED
  BY <1>1, <1>2, <1>3 DEF Inv1

LEMMA Inv1Step == Inv1 /\ [Next]_vars => Inv1'
<1> SUFFICES ASSUME Inv1, [Next]_vars PROVE Inv1'
  OBVIOUS
<1> USE ForkServerAssumption
    DEF Inv1, TypeOK, Control, ServerKnows, AtRest, Requested, Served, Abandoned,
        PidWord, StatusWord, InRun, InDrop, Dead, Active, Zombies, Fates,
        StatusWords, Words, client, server, kernel, Fail, Return, Eof, Signal, Word
<1>1. CASE Sweep
  BY <1>1 DEF Sweep
<1>2. CASE Notify
  <2>1. TypeOK'
    <3>1. ctl' \in Seq([run : Nat, killed : BOOLEAN])
      <4>1. CASE spc \in Dead
        BY <1>2, <4>1 DEF Notify
      <4>2. CASE spc \notin Dead
        <5>1. ctl' = <<[run |-> run, killed |-> lastRunTimedOut]>>
          BY <1>2, <4>2, AppendToEmpty DEF Notify
        <5>2. [run |-> run, killed |-> lastRunTimedOut] \in [run : Nat, killed : BOOLEAN]
          OBVIOUS
        <5>3. QED
          BY <5>1, <5>2
      <4>3. QED
        BY <4>1, <4>2
    <3>2. QED
      BY <1>2, <3>1 DEF Notify
  <2>2. Control'
    BY <1>2 DEF Notify
  <2>3. ServerKnows'
    BY <1>2 DEF Notify
  <2>4. QED
    BY <2>1, <2>2, <2>3
<1>3. CASE ReadPid
  <2>1. TypeOK'
    BY <1>3 DEF ReadPid
  <2>2. Control'
    <3>1. CASE Eof
      BY <1>3, <3>1 DEF ReadPid
    <3>2. CASE st # <<>> /\ Head(st).val = NoPid
      <4>1. cpc' = "err" /\ spc' \in {"wait", "sendStatus", "read"} \cup Dead /\ ctl' = <<>>
        BY <1>3, <3>2 DEF ReadPid
      <4>2. \A i \in DOMAIN st' : st'[i].run = run
        BY <1>3, <3>2 DEF ReadPid
      <4>3. QED
        BY <1>3, <4>1, <4>2 DEF ReadPid
    <3>3. CASE st # <<>> /\ Head(st).val # NoPid
      <4>1. cpc' = "status" /\ childPid' = srvChild /\ ctl' = <<>>
        BY <1>3, <3>3 DEF ReadPid
      <4>2. \/ spc \in {"wait", "sendStatus"} \cup Dead /\ st' = <<>>
            \/ /\ spc \in {"read"} \cup Dead
               /\ \E x \in StatusWords : st' = <<StatusWord(x)>>
        <5>1. cpc = "pid" /\ Requested /\ st' = Tail(st)
          BY <1>3, <3>3 DEF ReadPid
        <5>2. CASE /\ spc \in {"wait", "sendStatus"} \cup Dead
                   /\ \E v \in {srvChild, NoPid} : st = <<PidWord(v)>>
          BY <5>1, <5>2
        <5>3. CASE /\ spc \in {"read"} \cup Dead
                   /\ \E v \in {srvChild, NoPid}, x \in StatusWords :
                        st = <<PidWord(v), StatusWord(x)>>
          BY <5>1, <5>3
        <5>4. QED
          BY <3>3, <5>1, <5>2, <5>3
      <4>3. QED
        BY <1>3, <4>1, <4>2 DEF ReadPid
    <3>4. QED
      BY <1>3, <3>1, <3>2, <3>3 DEF ReadPid
  <2>3. ServerKnows'
    BY <1>3 DEF ReadPid
  <2>4. QED
    BY <2>1, <2>2, <2>3
<1>4. CASE ReadStatus
  <2>1. TypeOK'
    <3>1. CASE Eof
      BY <1>4, <3>1 DEF ReadStatus
    <3>2. CASE st # <<>>
      <4>1. PICK x \in StatusWords : st = <<StatusWord(x)>>
        BY <1>4, <3>2 DEF ReadStatus
      <4>2. st' = <<>> /\ reply' = [pid |-> childPid, status |-> x]
        BY <1>4, <3>2, <4>1 DEF ReadStatus
      <4>3. reply' \in [pid : Pid \cup {NoPid}, status : StatusWords \cup {"none", "timeout"}]
        BY <4>2
      <4>4. childPid' \in {childPid, NoPid}
        BY <1>4, <3>2 DEF ReadStatus
      <4>5. lastRunTimedOut' \in BOOLEAN /\ cpc' = "idle" /\ st' = <<>>
        <5>1. lastRunTimedOut' = FALSE /\ cpc' = "idle" /\ st' = <<>>
          BY <1>4, <3>2, <4>2 DEF ReadStatus
        <5>2. QED
          BY <5>1
      <4>6. UNCHANGED <<killSignal, run, ctl, server, kernel, fate, told>>
        BY <1>4 DEF ReadStatus
      <4>7. st' \in Seq(Words)
        BY <4>5
      <4>8. QED
        BY <4>3, <4>4, <4>5, <4>6, <4>7
    <3>3. QED
      BY <1>4, <3>1, <3>2 DEF ReadStatus
  <2>2. Control'
    BY <1>4 DEF ReadStatus
  <2>3. ServerKnows'
    BY <1>4 DEF ReadStatus
  <2>4. QED
    BY <2>1, <2>2, <2>3
<1>5. CASE Timeout
  BY <1>5 DEF Timeout
<1>6. CASE SelectFails
  BY <1>6 DEF SelectFails
<1>7. CASE TimeoutKill
  BY <1>7 DEF TimeoutKill
<1>8. CASE ReadAck
  BY <1>8 DEF ReadAck
<1>9. CASE DropChild
  BY <1>9 DEF DropChild
<1>10. CASE DropServer
  BY <1>10 DEF DropServer
<1>11. CASE DropWait
  BY <1>11 DEF DropWait
<1>12. CASE ServerRead
  BY <1>12 DEF ServerRead
<1>13. CASE ServerReapsOld
  <2>1. TypeOK'
    BY <1>13 DEF ServerReapsOld
  <2>2. Control'
    BY <1>13 DEF ServerReapsOld
  <2>3. ServerKnows'
    BY <1>13 DEF ServerReapsOld
  <2>4. QED
    BY <2>1, <2>2, <2>3
<1>14. CASE ServerForks
  BY <1>14 DEF ServerForks
<1>15. CASE ServerForkFails
  <2>1. TypeOK'
    BY <1>15 DEF ServerForkFails
  <2>2. Control'
    <3>1. CASE cpc = "pid"
      <4>1. ctl = <<>> /\ st = <<>> /\ srvRun = run
        BY <1>15, <3>1 DEF ServerForkFails
      <4>2. st' = <<>> \/ st' = <<PidWord(NoPid)>>
        BY <1>15, <4>1, AppendToEmpty DEF ServerForkFails
      <4>3. QED
        BY <1>15, <3>1, <4>1, <4>2 DEF ServerForkFails
    <3>2. CASE cpc # "pid"
      BY <1>15, <3>2 DEF ServerForkFails
    <3>3. QED
      BY <3>1, <3>2
  <2>3. ServerKnows'
    BY <1>15 DEF ServerForkFails
  <2>4. QED
    BY <2>1, <2>2, <2>3
<1>16. CASE ServerResumes
  <2>1. TypeOK'
    BY <1>16 DEF ServerResumes
  <2>2. Control'
    BY <1>16 DEF ServerResumes
  <2>3. ServerKnows'
    BY <1>16 DEF ServerResumes
  <2>4. QED
    BY <2>1, <2>2, <2>3
<1>17. CASE ServerSendsPid
  <2>1. TypeOK'
    BY <1>17 DEF ServerSendsPid
  <2>2. Control'
    <3>1. cpc = "pid"
      BY <1>17 DEF ServerSendsPid
    <3>2. ctl = <<>> /\ st = <<>> /\ srvRun = run
      BY <1>17, <3>1 DEF ServerSendsPid
    <3>3. st' = <<PidWord(srvChild)>>
      BY <1>17, <3>2, AppendToEmpty DEF ServerSendsPid
    <3>4. QED
      BY <1>17, <3>1, <3>2, <3>3 DEF ServerSendsPid
  <2>3. ServerKnows'
    BY <1>17 DEF ServerSendsPid
  <2>4. QED
    BY <2>1, <2>2, <2>3
<1>18. CASE ServerWaits
  <2>1. TypeOK'
    <3>1. srvChild \in Pid
      BY <1>18 DEF ServerWaits
    <3>2. proc' \in [Pid -> Active \cup Zombies \cup {"free", "recycled"}]
      BY <1>18, <3>1 DEF ServerWaits
    <3>3. stWord' \in StatusWords /\ childStopped' \in BOOLEAN
      BY <1>18, <3>1 DEF ServerWaits
    <3>4. QED
      BY <1>18, <3>2, <3>3 DEF ServerWaits
  <2>2. Control'
    BY <1>18 DEF ServerWaits
  <2>3. ServerKnows'
    BY <1>18 DEF ServerWaits
  <2>4. QED
    BY <2>1, <2>2, <2>3
<1>19. CASE ServerSendsStatus
  <2>1. TypeOK'
    BY <1>19 DEF ServerSendsStatus
  <2>2. Control'
    <3>1. srvRun = run /\ stWord \in StatusWords /\ Word("status", stWord) = StatusWord(stWord)
      BY <1>19 DEF ServerSendsStatus
    <3>2. CASE cpc = "pid"
      <4>1. PICK v \in {srvChild, NoPid} : st = <<PidWord(v)>>
        BY <1>19, <3>2 DEF ServerSendsStatus
      <4>2. st' = <<PidWord(v), StatusWord(stWord)>>
        <5>1. PidWord(v) \in Words /\ StatusWord(stWord) \in Words
          BY <3>1
        <5>2. Append(<<PidWord(v)>>, StatusWord(stWord)) = <<PidWord(v), StatusWord(stWord)>>
          <6> HIDE DEF PidWord, StatusWord, Words
          <6> QED BY <5>1, AppendToOne
        <5>3. QED
          BY <1>19, <3>1, <4>1, <5>2 DEF ServerSendsStatus
      <4>3. QED
        BY <1>19, <3>1, <3>2, <4>2 DEF ServerSendsStatus
    <3>3. CASE cpc \in {"status", "kill", "ack"}
      <4>1. st = <<>>
        BY <1>19, <3>3 DEF ServerSendsStatus
      <4>2. st' = <<StatusWord(stWord)>>
        BY <1>19, <3>1, <4>1, AppendToEmpty DEF ServerSendsStatus
      <4>3. QED
        BY <1>19, <3>1, <3>3, <4>2 DEF ServerSendsStatus
    <3>4. CASE cpc \in {"err"} \cup InDrop
      <4>1. \A i \in DOMAIN st' : st'[i].run = run
        BY <1>19, <3>1, <3>4, AppendProperties DEF ServerSendsStatus
      <4>2. QED
        BY <1>19, <3>4, <4>1 DEF ServerSendsStatus
    <3>5. QED
      BY <1>19, <3>2, <3>3, <3>4 DEF ServerSendsStatus
  <2>3. ServerKnows'
    BY <1>19 DEF ServerSendsStatus
  <2>4. QED
    BY <2>1, <2>2, <2>3
<1>20. CASE ServerCrashes
  BY <1>20 DEF ServerCrashes
<1>21. CASE ServerPidRecycled
  BY <1>21 DEF ServerPidRecycled
<1>22. ASSUME NEW p \in Pid, ChildEnds(p) PROVE Inv1'
  BY <1>22 DEF ChildEnds
<1>23. ASSUME NEW p \in Pid, SignalKills(p) PROVE Inv1'
  BY <1>23 DEF SignalKills
<1>24. ASSUME NEW p \in Pid, SignalIgnored(p) PROVE Inv1'
  BY <1>24 DEF SignalIgnored
<1>25. ASSUME NEW p \in Pid, OrphanReaped(p) PROVE Inv1'
  BY <1>25 DEF OrphanReaped
<1>26. ASSUME NEW p \in Pid, PidRecycled(p) PROVE Inv1'
  BY <1>26 DEF PidRecycled
<1>27. CASE UNCHANGED vars
  BY <1>27 DEF vars
<1>28. QED
  BY <1>1, <1>2, <1>3, <1>4, <1>5, <1>6, <1>7, <1>8, <1>9, <1>10, <1>11, <1>12, <1>13, <1>14, <1>15, <1>16, <1>17, <1>18, <1>19, <1>20, <1>21, <1>22, <1>23, <1>24, <1>25, <1>26, <1>27
  DEF Next, RunStep, Drop, ServerStep, Environment, Terminated
LEMMA Inv1Always == Spec => []Inv1
<1>1. QED
  BY Inv1Init, Inv1Step, PTL DEF Spec

(* Every variable of the fork server protocol keeps its type, the words on *)
(* the pipes included.                                                     *)
THEOREM TypeCorrect == Spec => []TypeOK
<1>1. Inv1 => TypeOK
  BY DEF Inv1
<1>2. QED
  BY <1>1, Inv1Always, PTL

(* run_child and the fork server never get out of step, however a timeout  *)
(* races with the status it gave up on.                                    *)
THEOREM LockstepHolds == Spec => []Lockstep
<1>1. Inv1 => Lockstep
  BY DEF Inv1, TypeOK, Control, AtRest, Requested, Served, Abandoned, PidWord,
         StatusWord, InRun, InDrop, Dead, Lockstep
<1>2. QED
  BY <1>1, Inv1Always, PTL

-----------------------------------------------------------------------------
LEMMA Inv2Init == Init => Inv2
BY ForkServerAssumption
DEF Init, Inv2, OneChild, Confined, Clean, Faithful, ReplyGenuine, True, Live, Quiet,
    Relayed, InRun, InDrop, Dead, Active, Zombies, StatusWords

LEMMA Inv2Step == Inv1 /\ Inv1' /\ Inv2 /\ [Next]_vars => Inv2'
<1> SUFFICES ASSUME Inv1, Inv1', Inv2, [Next]_vars PROVE Inv2'
  OBVIOUS
<1> USE ForkServerAssumption
    DEF Inv1, Inv2, TypeOK, Control, ServerKnows, AtRest, Requested, Served, Abandoned,
        PidWord, StatusWord, InRun, InDrop, Dead, Active, Zombies, Fates,
        StatusWords, client, server, kernel, Fail, Return, Eof, Signal, Word,
        Live, Quiet, Relayed, Clean, True
<1>1. CASE Sweep
  <2>1. OneChild'
    BY <1>1 DEF Sweep, OneChild, Confined, Faithful, ReplyGenuine
  <2>2. Confined'
    BY <1>1 DEF Sweep, OneChild, Confined, Faithful, ReplyGenuine
  <2>3. Faithful'
    BY <1>1 DEF Sweep, OneChild, Confined, Faithful, ReplyGenuine
  <2>4. ReplyGenuine'
    BY <1>1 DEF Sweep, OneChild, Confined, Faithful, ReplyGenuine
  <2>5. QED
    BY <2>1, <2>2, <2>3, <2>4
<1>2. CASE Notify
  <2>1. OneChild'
    BY <1>2 DEF Notify, OneChild, Confined, Faithful, ReplyGenuine
  <2>2. Confined'
    BY <1>2 DEF Notify, OneChild, Confined, Faithful, ReplyGenuine
  <2>3. Faithful'
    <3>1. /\ st' = <<>> /\ fate' = "none"
          /\ spc' \in {"read"} \cup Dead
      <4>1. cpc = "notify" /\ UNCHANGED <<st, spc, fate>>
        BY <1>2 DEF Notify
      <4>2. st = <<>> /\ spc \in {"read"} \cup Dead
        BY <4>1
      <4>3. fate = "none"
        BY <4>1 DEF Faithful
      <4>4. QED
        BY <4>1, <4>2, <4>3
    <3>2. cpc' \in {"pid", "err"}
      BY <1>2 DEF Notify
    <3>3. QED
      BY <3>1, <3>2 DEF Faithful
  <2>4. ReplyGenuine'
    BY <1>2 DEF Notify, OneChild, Confined, Faithful, ReplyGenuine
  <2>5. QED
    BY <2>1, <2>2, <2>3, <2>4
<1>3. CASE ReadPid
  <2>1. OneChild'
    BY <1>3 DEF ReadPid, OneChild, Confined, Faithful, ReplyGenuine
  <2>2. Confined'
    BY <1>3 DEF ReadPid, OneChild, Confined, Faithful, ReplyGenuine
  <2>3. Faithful'
    BY <1>3 DEF ReadPid, OneChild, Confined, Faithful, ReplyGenuine
  <2>4. ReplyGenuine'
    BY <1>3 DEF ReadPid, OneChild, Confined, Faithful, ReplyGenuine
  <2>5. QED
    BY <2>1, <2>2, <2>3, <2>4
<1>4. CASE ReadStatus
  <2>1. OneChild'
    BY <1>4 DEF ReadStatus, OneChild, Confined, Faithful, ReplyGenuine
  <2>2. Confined'
    BY <1>4 DEF ReadStatus, OneChild, Confined, Faithful, ReplyGenuine
  <2>3. Faithful'
    BY <1>4 DEF ReadStatus, OneChild, Confined, Faithful, ReplyGenuine
  <2>4. ReplyGenuine'
    BY <1>4 DEF ReadStatus, OneChild, Confined, Faithful, ReplyGenuine
  <2>5. QED
    BY <2>1, <2>2, <2>3, <2>4
<1>5. CASE Timeout
  <2>1. OneChild'
    BY <1>5 DEF Timeout, OneChild, Confined, Faithful, ReplyGenuine
  <2>2. Confined'
    BY <1>5 DEF Timeout, OneChild, Confined, Faithful, ReplyGenuine
  <2>3. Faithful'
    BY <1>5 DEF Timeout, OneChild, Confined, Faithful, ReplyGenuine
  <2>4. ReplyGenuine'
    BY <1>5 DEF Timeout, OneChild, Confined, Faithful, ReplyGenuine
  <2>5. QED
    BY <2>1, <2>2, <2>3, <2>4
<1>6. CASE SelectFails
  <2>1. OneChild'
    BY <1>6 DEF SelectFails, OneChild, Confined, Faithful, ReplyGenuine
  <2>2. Confined'
    BY <1>6 DEF SelectFails, OneChild, Confined, Faithful, ReplyGenuine
  <2>3. Faithful'
    BY <1>6 DEF SelectFails, OneChild, Confined, Faithful, ReplyGenuine
  <2>4. ReplyGenuine'
    BY <1>6 DEF SelectFails, OneChild, Confined, Faithful, ReplyGenuine
  <2>5. QED
    BY <2>1, <2>2, <2>3, <2>4
<1>7. CASE TimeoutKill
  <2>1. OneChild'
    BY <1>7 DEF TimeoutKill, OneChild, Confined, Faithful, ReplyGenuine
  <2>2. Confined'
    BY <1>7 DEF TimeoutKill, OneChild, Confined, Faithful, ReplyGenuine
  <2>3. Faithful'
    BY <1>7 DEF TimeoutKill, OneChild, Confined, Faithful, ReplyGenuine
  <2>4. ReplyGenuine'
    BY <1>7 DEF TimeoutKill, OneChild, Confined, Faithful, ReplyGenuine
  <2>5. QED
    BY <2>1, <2>2, <2>3, <2>4
<1>8. CASE ReadAck
  <2>1. OneChild'
    BY <1>8 DEF ReadAck, OneChild, Confined, Faithful, ReplyGenuine
  <2>2. Confined'
    BY <1>8 DEF ReadAck, OneChild, Confined, Faithful, ReplyGenuine
  <2>3. Faithful'
    BY <1>8 DEF ReadAck, OneChild, Confined, Faithful, ReplyGenuine
  <2>4. ReplyGenuine'
    BY <1>8 DEF ReadAck, OneChild, Confined, Faithful, ReplyGenuine
  <2>5. QED
    BY <2>1, <2>2, <2>3, <2>4
<1>9. CASE DropChild
  <2>1. OneChild'
    BY <1>9 DEF DropChild, OneChild, Confined, Faithful, ReplyGenuine
  <2>2. Confined'
    BY <1>9 DEF DropChild, OneChild, Confined, Faithful, ReplyGenuine
  <2>3. Faithful'
    BY <1>9 DEF DropChild, OneChild, Confined, Faithful, ReplyGenuine
  <2>4. ReplyGenuine'
    BY <1>9 DEF DropChild, OneChild, Confined, Faithful, ReplyGenuine
  <2>5. QED
    BY <2>1, <2>2, <2>3, <2>4
<1>10. CASE DropServer
  <2>1. OneChild'
    BY <1>10 DEF DropServer, OneChild, Confined, Faithful, ReplyGenuine
  <2>2. Confined'
    BY <1>10 DEF DropServer, OneChild, Confined, Faithful, ReplyGenuine
  <2>3. Faithful'
    BY <1>10 DEF DropServer, OneChild, Confined, Faithful, ReplyGenuine
  <2>4. ReplyGenuine'
    BY <1>10 DEF DropServer, OneChild, Confined, Faithful, ReplyGenuine
  <2>5. QED
    BY <2>1, <2>2, <2>3, <2>4
<1>11. CASE DropWait
  <2>1. OneChild'
    BY <1>11 DEF DropWait, OneChild, Confined, Faithful, ReplyGenuine
  <2>2. Confined'
    BY <1>11 DEF DropWait, OneChild, Confined, Faithful, ReplyGenuine
  <2>3. Faithful'
    BY <1>11 DEF DropWait, OneChild, Confined, Faithful, ReplyGenuine
  <2>4. ReplyGenuine'
    BY <1>11 DEF DropWait, OneChild, Confined, Faithful, ReplyGenuine
  <2>5. QED
    BY <2>1, <2>2, <2>3, <2>4
<1>12. CASE ServerRead
  <2>1. OneChild'
    BY <1>12 DEF ServerRead, OneChild, Confined, Faithful, ReplyGenuine
  <2>2. Confined'
    BY <1>12 DEF ServerRead, OneChild, Confined, Faithful, ReplyGenuine
  <2>3. Faithful'
    BY <1>12 DEF ServerRead, OneChild, Confined, Faithful, ReplyGenuine
  <2>4. ReplyGenuine'
    BY <1>12 DEF ServerRead, OneChild, Confined, Faithful, ReplyGenuine
  <2>5. QED
    BY <2>1, <2>2, <2>3, <2>4
<1>13. CASE ServerReapsOld
  <2>1. OneChild'
    BY <1>13 DEF ServerReapsOld, OneChild, Confined, Faithful, ReplyGenuine
  <2>2. Confined'
    BY <1>13 DEF ServerReapsOld, OneChild, Confined, Faithful, ReplyGenuine
  <2>3. Faithful'
    BY <1>13 DEF ServerReapsOld, OneChild, Confined, Faithful, ReplyGenuine
  <2>4. ReplyGenuine'
    BY <1>13 DEF ServerReapsOld, OneChild, Confined, Faithful, ReplyGenuine
  <2>5. QED
    BY <2>1, <2>2, <2>3, <2>4
<1>14. CASE ServerForks
  <2>1. OneChild'
    BY <1>14 DEF ServerForks, OneChild, Confined, Faithful, ReplyGenuine
  <2>2. Confined'
    BY <1>14 DEF ServerForks, OneChild, Confined, Faithful, ReplyGenuine
  <2>3. Faithful'
    BY <1>14 DEF ServerForks, OneChild, Confined, Faithful, ReplyGenuine
  <2>4. ReplyGenuine'
    BY <1>14 DEF ServerForks, OneChild, Confined, Faithful, ReplyGenuine
  <2>5. QED
    BY <2>1, <2>2, <2>3, <2>4
<1>15. CASE ServerForkFails
  <2>1. OneChild'
    BY <1>15 DEF ServerForkFails, OneChild, Confined, Faithful, ReplyGenuine
  <2>2. Confined'
    BY <1>15 DEF ServerForkFails, OneChild, Confined, Faithful, ReplyGenuine
  <2>3. Faithful'
    BY <1>15 DEF ServerForkFails, OneChild, Confined, Faithful, ReplyGenuine
  <2>4. ReplyGenuine'
    BY <1>15 DEF ServerForkFails, OneChild, Confined, Faithful, ReplyGenuine
  <2>5. QED
    BY <2>1, <2>2, <2>3, <2>4
<1>16. CASE ServerResumes
  <2>1. OneChild'
    BY <1>16 DEF ServerResumes, OneChild, Confined, Faithful, ReplyGenuine
  <2>2. Confined'
    BY <1>16 DEF ServerResumes, OneChild, Confined, Faithful, ReplyGenuine
  <2>3. Faithful'
    BY <1>16 DEF ServerResumes, OneChild, Confined, Faithful, ReplyGenuine
  <2>4. ReplyGenuine'
    BY <1>16 DEF ServerResumes, OneChild, Confined, Faithful, ReplyGenuine
  <2>5. QED
    BY <2>1, <2>2, <2>3, <2>4
<1>17. CASE ServerSendsPid
  <2>1. OneChild'
    BY <1>17 DEF ServerSendsPid, OneChild, Confined, Faithful, ReplyGenuine
  <2>2. Confined'
    BY <1>17 DEF ServerSendsPid, OneChild, Confined, Faithful, ReplyGenuine
  <2>3. Faithful'
    BY <1>17 DEF ServerSendsPid, OneChild, Confined, Faithful, ReplyGenuine
  <2>4. ReplyGenuine'
    BY <1>17 DEF ServerSendsPid, OneChild, Confined, Faithful, ReplyGenuine
  <2>5. QED
    BY <2>1, <2>2, <2>3, <2>4
<1>18. CASE ServerWaits
  <2>1. OneChild'
    BY <1>18 DEF ServerWaits, OneChild, Confined, Faithful, ReplyGenuine
  <2>2. Confined'
    BY <1>18 DEF ServerWaits, OneChild, Confined, Faithful, ReplyGenuine
  <2>3. Faithful'
    BY <1>18 DEF ServerWaits, OneChild, Confined, Faithful, ReplyGenuine
  <2>4. ReplyGenuine'
    BY <1>18 DEF ServerWaits, OneChild, Confined, Faithful, ReplyGenuine
  <2>5. QED
    BY <2>1, <2>2, <2>3, <2>4
<1>19. CASE ServerSendsStatus
  <2>1. OneChild'
    BY <1>19 DEF ServerSendsStatus, OneChild, Confined, Faithful, ReplyGenuine
  <2>2. Confined'
    BY <1>19 DEF ServerSendsStatus, OneChild, Confined, Faithful, ReplyGenuine
  <2>3. Faithful'
    BY <1>19 DEF ServerSendsStatus, OneChild, Confined, Faithful, ReplyGenuine
  <2>4. ReplyGenuine'
    BY <1>19 DEF ServerSendsStatus, OneChild, Confined, Faithful, ReplyGenuine
  <2>5. QED
    BY <2>1, <2>2, <2>3, <2>4
<1>20. CASE ServerCrashes
  <2>1. OneChild'
    BY <1>20 DEF ServerCrashes, OneChild, Confined, Faithful, ReplyGenuine
  <2>2. Confined'
    BY <1>20 DEF ServerCrashes, OneChild, Confined, Faithful, ReplyGenuine
  <2>3. Faithful'
    BY <1>20 DEF ServerCrashes, OneChild, Confined, Faithful, ReplyGenuine
  <2>4. ReplyGenuine'
    BY <1>20 DEF ServerCrashes, OneChild, Confined, Faithful, ReplyGenuine
  <2>5. QED
    BY <2>1, <2>2, <2>3, <2>4
<1>21. CASE ServerPidRecycled
  <2>1. OneChild'
    BY <1>21 DEF ServerPidRecycled, OneChild, Confined, Faithful, ReplyGenuine
  <2>2. Confined'
    BY <1>21 DEF ServerPidRecycled, OneChild, Confined, Faithful, ReplyGenuine
  <2>3. Faithful'
    BY <1>21 DEF ServerPidRecycled, OneChild, Confined, Faithful, ReplyGenuine
  <2>4. ReplyGenuine'
    BY <1>21 DEF ServerPidRecycled, OneChild, Confined, Faithful, ReplyGenuine
  <2>5. QED
    BY <2>1, <2>2, <2>3, <2>4
<1>22. ASSUME NEW p \in Pid, ChildEnds(p) PROVE Inv2'
  <2>1. OneChild'
    BY <1>22 DEF ChildEnds, OneChild, Confined, Faithful, ReplyGenuine
  <2>2. Confined'
    BY <1>22 DEF ChildEnds, OneChild, Confined, Faithful, ReplyGenuine
  <2>3. Faithful'
    <3>1. p = srvChild /\ (\A q \in Pid : proc'[q] # "running")
      BY <1>22 DEF ChildEnds, OneChild
    <3>2. Quiet'
      BY <3>1
    <3>3. cpc # "notify" /\ ~(cpc = "pid" /\ (ctl # <<>> \/ spc \in {"reapOld", "start"}))
      BY <1>22 DEF ChildEnds, OneChild
    <3>4. QED
      BY <1>22, <3>1, <3>2, <3>3 DEF ChildEnds, OneChild, Faithful
  <2>4. ReplyGenuine'
    BY <1>22 DEF ChildEnds, OneChild, Confined, Faithful, ReplyGenuine
  <2>5. QED
    BY <2>1, <2>2, <2>3, <2>4
<1>23. ASSUME NEW p \in Pid, SignalKills(p) PROVE Inv2'
  <2>1. OneChild'
    BY <1>23 DEF SignalKills, OneChild, Confined, Faithful, ReplyGenuine
  <2>2. Confined'
    BY <1>23 DEF SignalKills, OneChild, Confined, Faithful, ReplyGenuine
  <2>3. Faithful'
    BY <1>23 DEF SignalKills, OneChild, Confined, Faithful, ReplyGenuine
  <2>4. ReplyGenuine'
    BY <1>23 DEF SignalKills, OneChild, Confined, Faithful, ReplyGenuine
  <2>5. QED
    BY <2>1, <2>2, <2>3, <2>4
<1>24. ASSUME NEW p \in Pid, SignalIgnored(p) PROVE Inv2'
  <2>1. OneChild'
    BY <1>24 DEF SignalIgnored, OneChild, Confined, Faithful, ReplyGenuine
  <2>2. Confined'
    BY <1>24 DEF SignalIgnored, OneChild, Confined, Faithful, ReplyGenuine
  <2>3. Faithful'
    BY <1>24 DEF SignalIgnored, OneChild, Confined, Faithful, ReplyGenuine
  <2>4. ReplyGenuine'
    BY <1>24 DEF SignalIgnored, OneChild, Confined, Faithful, ReplyGenuine
  <2>5. QED
    BY <2>1, <2>2, <2>3, <2>4
<1>25. ASSUME NEW p \in Pid, OrphanReaped(p) PROVE Inv2'
  <2>1. OneChild'
    BY <1>25 DEF OrphanReaped, OneChild, Confined, Faithful, ReplyGenuine
  <2>2. Confined'
    BY <1>25 DEF OrphanReaped, OneChild, Confined, Faithful, ReplyGenuine
  <2>3. Faithful'
    BY <1>25 DEF OrphanReaped, OneChild, Confined, Faithful, ReplyGenuine
  <2>4. ReplyGenuine'
    BY <1>25 DEF OrphanReaped, OneChild, Confined, Faithful, ReplyGenuine
  <2>5. QED
    BY <2>1, <2>2, <2>3, <2>4
<1>26. ASSUME NEW p \in Pid, PidRecycled(p) PROVE Inv2'
  <2>1. OneChild'
    BY <1>26 DEF PidRecycled, OneChild, Confined, Faithful, ReplyGenuine
  <2>2. Confined'
    BY <1>26 DEF PidRecycled, OneChild, Confined, Faithful, ReplyGenuine
  <2>3. Faithful'
    BY <1>26 DEF PidRecycled, OneChild, Confined, Faithful, ReplyGenuine
  <2>4. ReplyGenuine'
    BY <1>26 DEF PidRecycled, OneChild, Confined, Faithful, ReplyGenuine
  <2>5. QED
    BY <2>1, <2>2, <2>3, <2>4
<1>27. CASE UNCHANGED vars
  BY <1>27 DEF vars, OneChild, Confined, Faithful, ReplyGenuine
<1>28. QED
  BY <1>1, <1>2, <1>3, <1>4, <1>5, <1>6, <1>7, <1>8, <1>9, <1>10, <1>11, <1>12, <1>13, <1>14, <1>15, <1>16, <1>17, <1>18, <1>19, <1>20, <1>21, <1>22, <1>23, <1>24, <1>25, <1>26, <1>27
  DEF Next, RunStep, Drop, ServerStep, Environment, Terminated

LEMMA Inv2Always == Spec => []Inv2
<1>1. QED
  BY Inv1Always, Inv2Init, Inv2Step, PTL DEF Spec

(* No child of the target runs while the executor prepares the next input. *)
THEOREM QuietHolds == Spec => []QuietBetweenRuns
<1>1. Inv2 => QuietBetweenRuns
  BY DEF Inv2, OneChild, Quiet, QuietBetweenRuns
<1>2. QED
  BY <1>1, Inv2Always, PTL

(* Whatever races, run_child never reports the death its own kill caused,  *)
(* nor the status of another run or another child.                         *)
THEOREM ReplyGenuineHolds == Spec => []ReplyGenuine
<1>1. Inv2 => ReplyGenuine
  BY DEF Inv2
<1>2. QED
  BY <1>1, Inv2Always, PTL

-----------------------------------------------------------------------------
(* run_child implements the abstract service.                              *)
THEOREM Refinement == Spec => ImplementsService
<1>1. Init => Service!Init
  BY DEF Init, Service!Init, phase, InRun, InDrop
<1>2. Inv1 /\ Inv1' /\ Inv2 /\ Inv2' /\ [Next]_vars => [Service!Next]_(Service!vars)
  <2> SUFFICES ASSUME Inv1, Inv1', Inv2, Inv2', [Next]_vars
               PROVE  [Service!Next]_(Service!vars)
    OBVIOUS
  <2> USE ForkServerAssumption
      DEF Inv1, TypeOK, InRun, InDrop, Dead, Fates, client, server, kernel,
          Fail, Return, Eof, Word, phase, Service!vars, Service!Next
  <2>1. CASE Sweep
    BY <2>1 DEF Sweep, Service!Request, Service!Fail
  <2>2. CASE Notify
    BY <2>2 DEF Notify, Service!Fail
  <2>3. CASE ReadPid
    BY <2>3 DEF ReadPid, Service!Fail
  <2>4. CASE ReadStatus
    <3>1. CASE Eof
      BY <2>4, <3>1 DEF ReadStatus, Service!Fail
    <3>2. CASE st # <<>>
      <4>1. PICK s \in StatusWords : st = <<StatusWord(s)>>
        BY <2>4, <3>2 DEF ReadStatus, Control, Served
      <4>2. s = fate /\ fate # "none"
        BY <2>4, <4>1 DEF ReadStatus, Inv2, Faithful, True, StatusWord, StatusWords
      <4>3. reply'.status = fate
        BY <2>4, <3>2, <4>1, <4>2 DEF ReadStatus, StatusWord
      <4>4. cpc = "status" /\ cpc' = "idle" /\ fate' = fate
        BY <2>4, <3>2 DEF ReadStatus
      <4>5. QED
        BY <4>2, <4>3, <4>4 DEF Service!Answer
    <3>3. QED
      BY <2>4, <3>1, <3>2 DEF ReadStatus
  <2>5. CASE Timeout
    BY <2>5 DEF Timeout
  <2>6. CASE SelectFails
    BY <2>6 DEF SelectFails, Service!Fail
  <2>7. CASE TimeoutKill
    BY <2>7 DEF TimeoutKill, Service!Fail, Signal
  <2>8. CASE ReadAck
    BY <2>8 DEF ReadAck, Service!Fail, Service!GiveUp
  <2>9. CASE DropChild
    BY <2>9 DEF DropChild, Service!Close, Signal
  <2>10. CASE DropServer
    BY <2>10 DEF DropServer
  <2>11. CASE DropWait
    BY <2>11 DEF DropWait
  <2>12. CASE ServerRead
    BY <2>12 DEF ServerRead
  <2>13. CASE ServerReapsOld
    BY <2>13 DEF ServerReapsOld
  <2>14. CASE ServerForks
    BY <2>14 DEF ServerForks
  <2>15. CASE ServerForkFails
    BY <2>15 DEF ServerForkFails
  <2>16. CASE ServerResumes
    BY <2>16 DEF ServerResumes
  <2>17. CASE ServerSendsPid
    BY <2>17 DEF ServerSendsPid
  <2>18. CASE ServerWaits
    BY <2>18 DEF ServerWaits
  <2>19. CASE ServerSendsStatus
    BY <2>19 DEF ServerSendsStatus
  <2>20. CASE ServerCrashes
    BY <2>20 DEF ServerCrashes
  <2>21. CASE ServerPidRecycled
    BY <2>21 DEF ServerPidRecycled
  <2>22. ASSUME NEW p \in Pid, ChildEnds(p) PROVE [Service!Next]_(Service!vars)
    <3>1. cpc # "idle" /\ proc[p] = "running"
      BY <2>22 DEF ChildEnds, Inv2, OneChild, Quiet
    <3>2. fate = "none"
      BY <3>1 DEF Inv2, Faithful, Quiet
    <3>3. QED
      BY <2>22, <3>1, <3>2 DEF ChildEnds, Service!TargetEnds, Service!Fates
  <2>23. ASSUME NEW p \in Pid, SignalKills(p) PROVE [Service!Next]_(Service!vars)
    BY <2>23 DEF SignalKills
  <2>24. ASSUME NEW p \in Pid, SignalIgnored(p) PROVE [Service!Next]_(Service!vars)
    BY <2>24 DEF SignalIgnored
  <2>25. ASSUME NEW p \in Pid, OrphanReaped(p) PROVE [Service!Next]_(Service!vars)
    BY <2>25 DEF OrphanReaped
  <2>26. ASSUME NEW p \in Pid, PidRecycled(p) PROVE [Service!Next]_(Service!vars)
    BY <2>26 DEF PidRecycled
  <2>27. CASE UNCHANGED vars
    BY <2>27 DEF vars
  <2>28. QED
    BY <2>1, <2>2, <2>3, <2>4, <2>5, <2>6, <2>7, <2>8, <2>9, <2>10, <2>11, <2>12, <2>13, <2>14, <2>15, <2>16, <2>17, <2>18, <2>19, <2>20, <2>21, <2>22, <2>23, <2>24, <2>25, <2>26, <2>27
    DEF Next, RunStep, Drop, ServerStep, Environment, Terminated
<1>3. QED
  BY <1>1, <1>2, Inv1Always, Inv2Always, PTL DEF Spec, ImplementsService, Service!Spec

-----------------------------------------------------------------------------
LEMMA RememberedStep ==
  Inv1 /\ Inv1' /\ Inv2 /\ Inv2' /\ Remembered /\ [Next]_vars => Remembered'
<1> SUFFICES ASSUME Inv1, Inv1', Inv2, Inv2', Remembered, [Next]_vars PROVE Remembered'
  OBVIOUS
<1> USE ForkServerAssumption
    DEF Inv1, Inv2, TypeOK, Control, ServerKnows, AtRest, Requested, Served, Abandoned,
        PidWord, StatusWord, InRun, InDrop, Dead, Active, Zombies, Fates,
        StatusWords, client, server, kernel, Fail, Return, Eof, Signal, Word,
        Live, Quiet, OneChild, Remembered
<1>1. CASE Sweep
  BY <1>1 DEF Sweep
<1>2. CASE Notify
  BY <1>2 DEF Notify
<1>3. CASE ReadPid
  BY <1>3 DEF ReadPid
<1>4. CASE ReadStatus
  BY <1>4 DEF ReadStatus
<1>5. CASE Timeout
  BY <1>5 DEF Timeout
<1>6. CASE SelectFails
  BY <1>6 DEF SelectFails
<1>7. CASE TimeoutKill
  BY <1>7 DEF TimeoutKill
<1>8. CASE ReadAck
  BY <1>8 DEF ReadAck
<1>9. CASE DropChild
  BY <1>9 DEF DropChild
<1>10. CASE DropServer
  BY <1>10 DEF DropServer
<1>11. CASE DropWait
  BY <1>11 DEF DropWait
<1>12. CASE ServerRead
  BY <1>12 DEF ServerRead
<1>13. CASE ServerReapsOld
  BY <1>13 DEF ServerReapsOld
<1>14. CASE ServerForks
  BY <1>14 DEF ServerForks
<1>15. CASE ServerForkFails
  BY <1>15 DEF ServerForkFails
<1>16. CASE ServerResumes
  BY <1>16 DEF ServerResumes
<1>17. CASE ServerSendsPid
  BY <1>17 DEF ServerSendsPid
<1>18. CASE ServerWaits
  BY <1>18 DEF ServerWaits
<1>19. CASE ServerSendsStatus
  BY <1>19 DEF ServerSendsStatus
<1>20. CASE ServerCrashes
  BY <1>20 DEF ServerCrashes
<1>21. CASE ServerPidRecycled
  BY <1>21 DEF ServerPidRecycled
<1>22. ASSUME NEW p \in Pid, ChildEnds(p) PROVE Remembered'
  BY <1>22 DEF ChildEnds
<1>23. ASSUME NEW p \in Pid, SignalKills(p) PROVE Remembered'
  BY <1>23 DEF SignalKills
<1>24. ASSUME NEW p \in Pid, SignalIgnored(p) PROVE Remembered'
  BY <1>24 DEF SignalIgnored
<1>25. ASSUME NEW p \in Pid, OrphanReaped(p) PROVE Remembered'
  BY <1>25 DEF OrphanReaped
<1>26. ASSUME NEW p \in Pid, PidRecycled(p) PROVE Remembered'
  BY <1>26 DEF PidRecycled
<1>27. CASE UNCHANGED vars
  BY <1>27 DEF vars
<1>28. QED
  BY <1>1, <1>2, <1>3, <1>4, <1>5, <1>6, <1>7, <1>8, <1>9, <1>10, <1>11, <1>12, <1>13, <1>14, <1>15, <1>16, <1>17, <1>18, <1>19, <1>20, <1>21, <1>22, <1>23, <1>24, <1>25, <1>26, <1>27
  DEF Next, RunStep, Drop, ServerStep, Environment, Terminated

(* With SIGKILL, Drop leaves no child behind that run_child knew of.       *)
THEOREM NoOrphanHolds == Spec => []NoOrphan
<1>1. Init => Remembered
  BY DEF Init, Remembered, Active, InDrop
<1>2. Remembered => NoOrphan
  BY DEF Remembered, NoOrphan, InDrop
<1>3. Inv1 /\ Inv1' /\ Inv2 /\ Inv2' /\ Remembered /\ [Next]_vars => Remembered'
  BY RememberedStep
<1>4. QED
  BY <1>1, <1>2, <1>3, Inv1Always, Inv2Always, PTL DEF Spec

=============================================================================
