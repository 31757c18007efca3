--------------------------- MODULE SolutionProofs ----------------------------
(***************************************************************************)
(* From a campaign's solutions to the message that is blamed for each:     *)
(* Campaign finds and keeps them, Reproduce replays what was kept.         *)
(*                                                                         *)
(* Campaign: why it ends, what its solutions are, and which tokens it      *)
(* reads from a target, for every budget, target and dictionary.  The      *)
(* invariant has three parts that rest on the types only.  Stopping        *)
(* follows a press of Control-C through the channel and the event queue.   *)
(* Recording keeps the objective's hashes equal to those of the solutions. *)
(* Framing places the parser of the dictionary on the frames: every chain  *)
(* of frames that reaches the parser's place goes through it.              *)
(*                                                                         *)
(* Reproduce: Blame, for every number of solutions and messages, every     *)
(* fate of every message and every capacity of the pipes.  What the target *)
(* has handled and what still lies in its stdin add up to what was written *)
(* (Accounted).  As long as no sleep was too short the target is quiet     *)
(* whenever a message is written, so that at most this one is on its way   *)
(* and an end seen by the poll is the work of this message (Settled).      *)
(***************************************************************************)
EXTENDS Campaign, Reproduce, SequenceTheorems, TLAPS

-----------------------------------------------------------------------------
(* Campaign: its types, and the three parts of its invariant.              *)

Steps    == {"setup", "stages", "start", "tokens", "seed", "cycle", "calibrate", "mutate",
             "stats", "timeout_stop", "trigger_stop", "end", "unwind", "returned"}
Handlers == {"none", "ready", "pressed", "dead"}
Exits    == {"none", "ok", "error", "130", "killed"}
Name     == Nat \X Nat \X Nat
Hash     == Report \cup {NoReport}
Byte     == 0 .. 255

TypeOK ==
  /\ cpc \in Steps /\ handler \in Handlers /\ exit \in Exits
  /\ quota \in Nat /\ executions \in Nat /\ clock \in Nat /\ started \in Nat
  /\ chan \in Nat /\ stops \in Nat /\ cycles \in Nat /\ pressedAt \in Nat \cup {-1}
  /\ payload \in Payload /\ at \in 1 .. Len(payload) + 1 /\ tokens \subseteq Seq(Byte)
  /\ corpus \in Seq(Name) /\ solutions \in Seq([name : Name, hash : Hash])
  /\ seen \subseteq Report /\ crashes \subseteq Report /\ report \in Hash
  /\ reruns \subseteq Report
  /\ rows \in Seq(Nat \X Nat \X Nat)
  /\ fault \in BOOLEAN

(* A press is in the channel until the stage takes it, and an event until  *)
(* the cycle's end; the only cycle begun after it is the one whose stage   *)
(* finds it.                                                               *)
Reason == pressedAt >= 0 \/ clock - started > Budget

Announced ==
  /\ cpc \in {"start", "tokens", "seed", "cycle"} => chan > 0 /\ cycles = pressedAt
  /\ cpc \in {"calibrate", "mutate", "stats", "timeout_stop", "trigger_stop"} => chan > 0
  /\ cpc = "end" => stops > 0 \/ (chan > 0 /\ cycles = pressedAt)
  /\ cycles <= pressedAt + 1

Stopping ==
  /\ handler = "pressed" <=> pressedAt >= 0
  /\ handler = "pressed" => Announced
  /\ cpc \in {"setup", "stages"} => handler = "none" /\ stops = 0
  /\ chan > 0 => handler = "pressed"
  /\ stops > 0 \/ cpc = "unwind" \/ exit = "ok" => Reason
  /\ cpc \in {"setup", "stages"} => exit # "ok"
  /\ exit = "error" => fault
  /\ exit = "130" => pressedAt >= 0

(* An id is the number of files before it.  Each hash seen is that of one  *)
(* solution; every reported crash was seen, and what was seen, like the    *)
(* report now in the observer, came from a crash or a calibration run.     *)
Numbered ==
  /\ \A i \in DOMAIN solutions : solutions[i].name[1] = i - 1
  /\ \A i \in DOMAIN corpus : corpus[i][1] = i - 1

Hashed ==
  /\ report # NoReport => report \in crashes \cup reruns
  /\ crashes \subseteq seen /\ seen \subseteq crashes \cup reruns
  /\ seen = {solutions[i].hash : i \in DOMAIN solutions}
  /\ \A i, j \in DOMAIN solutions : solutions[i].hash = solutions[j].hash => i = j

Recording == Numbered /\ (AsanEnabled => Hashed)

(* s leads from the first byte to p by frames.                             *)
Chain(s, p) ==
  /\ {1, p} \subseteq s
  /\ \A q \in s \ {p} : After(q) \in s /\ (q + 1 .. After(q) - 1) \cap s = {}

Passed == {q \in Frames : q < at /\ payload[q] > 0}

Framing ==
  /\ at \in DOMAIN payload => at \in Frames
  /\ \A p \in DOMAIN payload : \A s \in SUBSET (1 .. p) :
       Chain(s, p) /\ at <= p => at \in s
  /\ tokens = {t \in {TokenAt(p) : p \in Passed} : Utf8(t)}
  /\ cpc \notin {"setup", "stages", "start", "tokens", "returned"} => at = Len(payload) + 1

IInv == TypeOK /\ Stopping /\ Recording /\ Framing
-----------------------------------------------------------------------------
(* The frames of a dictionary.                                             *)

LEMMA PayloadIsASequence ==
  ASSUME TypeOK
  PROVE  /\ payload \in Seq(Byte) /\ Len(payload) \in Nat
         /\ DOMAIN payload = 1 .. Len(payload)
         /\ \A p \in 1 .. Len(payload) : payload[p] \in Nat /\ After(p) \in Nat /\ After(p) > p
<1>1. payload \in Seq(Byte)  BY CampaignAssumption DEF CampaignAssumption, TypeOK, Byte
<1>2. Len(payload) \in Nat /\ DOMAIN payload = 1 .. Len(payload)  BY <1>1, LenProperties
<1>3. \A p \in 1 .. Len(payload) : payload[p] \in Nat
  <2>1. \A p \in 1 .. Len(payload) : payload[p] \in Byte  BY <1>1, ElementOfSeq
  <2>2. Byte \subseteq Nat  BY DEF Byte
  <2> QED  BY <2>1, <2>2
<1> QED  BY <1>1, <1>2, <1>3 DEF After

(* One turn of the parser takes the token of the frame it stands on and    *)
(* goes on to the next frame, or behind the end.                           *)
LEMMA TakeTokenIsAFrame ==
  ASSUME TypeOK, at \in DOMAIN payload
  PROVE  /\ TakeToken(at).token = TokenAt(at)
         /\ TakeToken(at).token \in Seq(Byte)
         /\ TakeToken(at).at = IF After(at) <= Len(payload) THEN After(at) ELSE Len(payload) + 1
<1> DEFINE end == IF at + payload[at] < Len(payload) THEN at + payload[at] ELSE Len(payload)
           new == SubSeq(payload, at + 1, end)
           n   == IF After(at) > Len(payload) THEN Len(payload) - at ELSE payload[at]
           old == [i \in 1 .. n |-> payload[at + i]]
<1>1. /\ payload \in Seq(Byte) /\ Len(payload) \in Nat /\ at \in 1 .. Len(payload)
      /\ payload[at] \in Nat
  BY PayloadIsASequence
<1>2. end \in Nat /\ end <= Len(payload) /\ at <= end /\ n \in Nat /\ end - at = n
  BY <1>1 DEF After
<1>3. TakeToken(at).token = new /\ TakeToken(at).at = end + 1  BY DEF TakeToken
<1>4. TokenAt(at) = old  BY DEF TokenAt
<1>5. TakeToken(at).at = IF After(at) <= Len(payload) THEN After(at) ELSE Len(payload) + 1
  BY <1>1, <1>3 DEF After
<1> HIDE DEF end, n
<1>6. \A i \in 1 .. n : payload[at + i] \in Byte
  <2> SUFFICES ASSUME NEW i \in 1 .. n PROVE payload[at + i] \in Byte  OBVIOUS
  <2>1. at + i \in 1 .. Len(payload)  BY <1>1, <1>2
  <2> QED  BY <1>1, <2>1, ElementOfSeq
<1>7. old \in Seq(Byte) /\ Len(old) = n /\ \A i \in 1 .. n : old[i] = payload[at + i]
  <2>1. old \in [1 .. n -> Byte]  BY <1>6
  <2>2. old \in Seq(Byte)  BY <1>2, <2>1, SeqDef
  <2>3. DOMAIN old = 1 .. n /\ DOMAIN old = 1 .. Len(old) /\ Len(old) \in Nat
    BY <2>2, LenProperties
  <2> QED  BY <1>2, <2>2, <2>3
<1>8. new \in Seq(Byte) /\ Len(new) = n /\ \A i \in 1 .. n : new[i] = payload[at + i]
  <2>1. \A j \in at + 1 .. end : payload[j] \in Byte
    <3> SUFFICES ASSUME NEW j \in at + 1 .. end PROVE payload[j] \in Byte  OBVIOUS
    <3>1. j \in 1 .. Len(payload)  BY <1>1, <1>2
    <3> QED  BY <1>1, <3>1, ElementOfSeq
  <2>2. at + 1 \in Int /\ end \in Int  BY <1>1, <1>2
  <2>3. /\ new \in Seq(Byte)
        /\ Len(new) = IF at + 1 <= end THEN end - (at + 1) + 1 ELSE 0
        /\ \A i \in 1 .. end - (at + 1) + 1 : new[i] = payload[at + 1 + i - 1]
    BY <2>1, <2>2, SubSeqProperties
  <2> HIDE DEF new
  <2>4. Len(new) = n  BY <1>1, <1>2, <2>3
  <2>5. \A i \in 1 .. n : new[i] = payload[at + i]
    <3> SUFFICES ASSUME NEW i \in 1 .. n PROVE new[i] = payload[at + i]  OBVIOUS
    <3>1. i \in 1 .. end - (at + 1) + 1 /\ at + 1 + i - 1 = at + i  BY <1>1, <1>2
    <3> QED  BY <2>3, <3>1
  <2> QED  BY <2>3, <2>4, <2>5
<1> HIDE DEF old, new
<1>9. new = old  BY <1>7, <1>8, SeqEqual
<1> QED  BY <1>3, <1>4, <1>5, <1>8, <1>9

(* The frame after the parser's place is reached by one frame more.        *)
LEMMA NextFrame ==
  ASSUME TypeOK, at \in DOMAIN payload, at \in Frames, After(at) <= Len(payload)
  PROVE  After(at) \in Frames
<1>1. /\ Len(payload) \in Nat /\ at \in 1 .. Len(payload)
      /\ \A p \in 1 .. Len(payload) : After(p) \in Nat /\ After(p) > p
      /\ DOMAIN payload = 1 .. Len(payload)
  BY PayloadIsASequence
<1>2. PICK s \in SUBSET (1 .. at) : Chain(s, at)  BY DEF Frames, Chain
<1> DEFINE b == After(at)
           t == s \cup {b}
<1>3. b \in 1 .. Len(payload) /\ b > at  BY <1>1
<1>4. \A x \in s : x \in 1 .. at /\ x \in Nat /\ x < b  BY <1>1, <1>3
<1> HIDE DEF b
<1>5. t \in SUBSET (1 .. b)  BY <1>1, <1>3, <1>4
<1>6. {1, b} \subseteq t  BY <1>2 DEF Chain
<1>7. \A q \in t \ {b} : After(q) \in t /\ (q + 1 .. After(q) - 1) \cap t = {}
  <2> SUFFICES ASSUME NEW q \in s
               PROVE  After(q) \in t /\ (q + 1 .. After(q) - 1) \cap t = {}
    OBVIOUS
  <2>1. CASE q = at
    <3>1. After(q) = b  BY <2>1 DEF b
    <3>2. \A x \in t : x \notin q + 1 .. b - 1  BY <1>1, <1>3, <1>4, <2>1
    <3> QED  BY <3>1, <3>2
  <2>2. CASE q # at
    <3>1. After(q) \in s /\ (q + 1 .. After(q) - 1) \cap s = {}  BY <1>2, <2>2 DEF Chain
    <3>2. After(q) < b  BY <1>4, <3>1
    <3>3. After(q) \in Nat  BY <1>4, <3>1
    <3>4. b \notin q + 1 .. After(q) - 1  BY <1>3, <3>2, <3>3
    <3> QED  BY <3>1, <3>4
  <2> QED  BY <2>1, <2>2
<1>8. Chain(t, b)  BY <1>6, <1>7 DEF Chain
<1> HIDE DEF t
<1>9. b \in Frames  BY <1>1, <1>3, <1>5, <1>8 DEF Frames, Chain
<1> QED  BY <1>9 DEF b

(* One turn of parse_auto_dict keeps the parser on the frames.             *)
LEMMA ParseAutoDictFrames ==
  ASSUME TypeOK, Framing, ParseAutoDict
  PROVE  Framing'
<1> DEFINE new == TakeToken(at).token
           b   == TakeToken(at).at
<1>1. /\ Len(payload) \in Nat /\ DOMAIN payload = 1 .. Len(payload)
      /\ \A p \in 1 .. Len(payload) :
           payload[p] \in Nat /\ After(p) \in Nat /\ After(p) > p
  BY PayloadIsASequence
<1>2. at \in 1 .. Len(payload)  BY <1>1 DEF ParseAutoDict, TypeOK
<1>3. /\ new = TokenAt(at)
      /\ b = IF After(at) <= Len(payload) THEN After(at) ELSE Len(payload) + 1
  BY <1>1, <1>2, TakeTokenIsAFrame
<1>4. /\ cpc = "tokens" /\ cpc' = "tokens" /\ payload' = payload /\ at' = b
      /\ tokens' = IF payload[at] > 0 /\ Utf8(new) THEN tokens \cup {new} ELSE tokens
  BY DEF ParseAutoDict
<1> HIDE DEF new, b
<1>5. at \in Frames  BY <1>1, <1>2 DEF Framing
<1>6. at < b /\ b \in Nat  BY <1>1, <1>2, <1>3
<1>7. Frames' = Frames /\ \A p : TokenAt(p)' = TokenAt(p)
  BY <1>4 DEF Frames, TokenAt, After
<1>8. (at \in DOMAIN payload => at \in Frames)'
  <2> SUFFICES ASSUME b \in DOMAIN payload PROVE b \in Frames  BY <1>4, <1>7
  <2>1. b = After(at) /\ After(at) <= Len(payload)  BY <1>1, <1>3
  <2> QED  BY <1>1, <1>2, <1>5, <2>1, NextFrame
<1>9. ASSUME NEW p \in 1 .. Len(payload), NEW s \in SUBSET (1 .. p), Chain(s, p), b <= p
      PROVE  b \in s
  <2>1. at <= p /\ at # p  BY <1>2, <1>6, <1>9
  <2>2. at \in s  BY <1>1, <1>9, <2>1 DEF Framing
  <2>3. After(at) \in s  BY <1>9, <2>1, <2>2 DEF Chain
  <2>4. b = After(at)  BY <1>1, <1>3, <1>9
  <2> QED  BY <2>3, <2>4
<1>10. \A p \in DOMAIN payload : \A s \in SUBSET (1 .. p) : Chain(s, p) /\ b <= p => b \in s
  BY <1>1, <1>9
<1>11. (\A p \in DOMAIN payload : \A s \in SUBSET (1 .. p) : Chain(s, p) /\ at <= p => at \in s)'
  <2>1. \A s, p : Chain(s, p)' = Chain(s, p)  BY <1>4 DEF Chain, After
  <2> QED  BY <1>4, <1>10, <2>1
<1>12. \A q \in Frames : at < q => b <= q
  <2> SUFFICES ASSUME NEW q \in Frames, at < q PROVE b <= q  OBVIOUS
  <2>1. q \in 1 .. Len(payload)  BY <1>1 DEF Frames
  <2>2. PICK s \in SUBSET (1 .. q) : Chain(s, q)  BY DEF Frames, Chain
  <2>3. at \in s  BY <1>1, <1>2, <2>1, <2>2 DEF Framing
  <2>4. After(at) \in s  BY <1>2, <2>1, <2>2, <2>3 DEF Chain
  <2>5. After(at) <= q /\ q <= Len(payload)
    <3>1. After(at) \in 1 .. q  BY <2>2, <2>4
    <3>2. Len(payload) \in Nat  BY <1>1
    <3> QED  BY <2>1, <3>1, <3>2
  <2> QED  BY <1>1, <1>2, <1>3, <2>1, <2>5
<1>13. Passed' = IF payload[at] > 0 THEN Passed \cup {at} ELSE Passed
  <2>1. Passed' = {q \in Frames : q < b /\ payload[q] > 0}  BY <1>4, <1>7 DEF Passed
  <2>2. \A q \in Frames : q \in Int /\ (q < b <=> q < at \/ q = at)
    <3> SUFFICES ASSUME NEW q \in Frames PROVE q \in Int /\ (q < b <=> q < at \/ q = at)
      OBVIOUS
    <3>1. q \in 1 .. Len(payload)  BY <1>1 DEF Frames
    <3> QED  BY <1>2, <1>6, <1>12, <3>1
  <2> QED  BY <1>5, <2>1, <2>2 DEF Passed
<1>14. (tokens = {t \in {TokenAt(p) : p \in Passed} : Utf8(t)})'
  <2>1. tokens = {t \in {TokenAt(p) : p \in Passed} : Utf8(t)}  BY DEF Framing
  <2>2. tokens' = {t \in {TokenAt(p) : p \in Passed'} : Utf8(t)}
    <3>1. CASE payload[at] > 0 /\ Utf8(new)
      <4>1. tokens' = tokens \cup {TokenAt(at)} /\ Utf8(TokenAt(at))
        BY <1>3, <1>4, <3>1
      <4>2. Passed' = Passed \cup {at}  BY <1>13, <3>1
      <4> QED  BY ONLY <2>1, <4>1, <4>2
    <3>2. CASE payload[at] > 0 /\ ~Utf8(new)
      <4>1. tokens' = tokens /\ ~Utf8(TokenAt(at))  BY <1>3, <1>4, <3>2
      <4>2. Passed' = Passed \cup {at}  BY <1>13, <3>2
      <4> QED  BY ONLY <2>1, <4>1, <4>2
    <3>3. CASE ~(payload[at] > 0)
      <4>1. tokens' = tokens /\ Passed' = Passed  BY <1>4, <1>13, <3>3
      <4> QED  BY ONLY <2>1, <4>1
    <3> QED  BY <3>1, <3>2, <3>3
  <2>3. \A t : Utf8(t)' = Utf8(t)  BY DEF Utf8
  <2> QED  BY <1>7, <2>2, <2>3
<1> QED  BY <1>4, <1>8, <1>11, <1>14 DEF Framing
-----------------------------------------------------------------------------
(* Types.                                                                  *)

LEMMA InitTypeOK == Init => TypeOK
<1> SUFFICES ASSUME Init PROVE TypeOK  OBVIOUS
<1>1. payload \in Seq(Byte) /\ Len(payload) \in Nat
  <2>1. payload \in Seq(Byte)
    BY CampaignAssumption DEF CampaignAssumption, Init, Byte
  <2> QED  BY <2>1, LenProperties
<1>2. fault \in BOOLEAN  BY Zenon DEF Init
<1>3. /\ <<>> \in Seq(Name) /\ <<>> \in Seq([name : Name, hash : Hash])
      /\ <<>> \in Seq(Nat \X Nat \X Nat)
  BY EmptySeq
<1>4. NoReport \in Hash /\ 1 \in 1 .. Len(payload) + 1  BY <1>1 DEF Hash
<1> QED  BY <1>2, <1>3, <1>4 DEF Init, TypeOK, Steps, Handlers, Exits

LEMMA FileNameType ==
  ASSUME TypeOK, executions' \in Nat, NEW saved, Len(saved) \in Nat
  PROVE  FileName(saved) \in Name
BY DEF FileName, Name, TypeOK

(* What one evaluation does to what was found.                             *)
LEMMA EvaluateTypes ==
  ASSUME TypeOK, Evaluate
  PROVE  /\ quota' \in Nat /\ executions' \in Nat /\ report' \in Hash
         /\ seen' \subseteq Report /\ crashes' \subseteq Report
         /\ corpus' \in Seq(Name) /\ solutions' \in Seq([name : Name, hash : Hash])
<1>1. quota' \in Nat /\ executions' \in Nat  BY DEF Evaluate, TypeOK
<1>2. corpus \in Seq(Name) /\ solutions \in Seq([name : Name, hash : Hash])  BY DEF TypeOK
<1>3. FileName(corpus) \in Name /\ FileName(solutions) \in Name
  <2>1. Len(corpus) \in Nat /\ Len(solutions) \in Nat  BY <1>2, LenProperties
  <2> QED  BY <1>1, <2>1, FileNameType
<1>4. PICK r \in Hash :
        /\ report' = IF r = NoReport THEN report ELSE r
        /\ crashes' = IF r = NoReport THEN crashes ELSE crashes \cup {r}
        /\ seen' = seen \/ (report' # NoReport /\ seen' = seen \cup {report'})
        /\ solutions' \in {solutions, Append(solutions, [name |-> FileName(solutions), hash |-> report'])}
        /\ corpus' \in {corpus, Append(corpus, FileName(corpus))}
  BY DEF Evaluate, Hash
<1>5. report' \in Hash  BY <1>4 DEF TypeOK
<1>6. seen' \subseteq Report /\ crashes' \subseteq Report  BY <1>4, <1>5 DEF TypeOK, Hash
<1> DEFINE sol == [name |-> FileName(solutions), hash |-> report']
           Sol == [name : Name, hash : Hash]
<1>7. sol \in Sol  BY <1>3, <1>5
<1>8. corpus' \in Seq(Name)  BY <1>2, <1>3, <1>4, AppendProperties
<1>9. solutions' \in {solutions, Append(solutions, sol)} /\ solutions \in Seq(Sol)  BY <1>2, <1>4
<1> HIDE DEF sol, Sol
<1>10. solutions' \in Seq(Sol)  BY <1>7, <1>9, AppendProperties
<1> QED  BY <1>1, <1>5, <1>6, <1>8, <1>10 DEF Sol

LEMMA NextTypeOK == TypeOK /\ [Next]_vars => TypeOK'
<1> SUFFICES ASSUME TypeOK, [Next]_vars PROVE TypeOK'  OBVIOUS
<1> USE DEF dict, found, stop, time
<1>1. CASE Setup  BY <1>1 DEF Setup, TypeOK, Steps
<1>2. CASE BuildStages  BY <1>2 DEF BuildStages, TypeOK, Steps, Handlers
<1>3. CASE StartExecutor  BY <1>3 DEF StartExecutor, TypeOK, Steps
<1>4. CASE ParseAutoDict
  <2>1. /\ Len(payload) \in Nat /\ DOMAIN payload = 1 .. Len(payload)
        /\ \A p \in 1 .. Len(payload) : After(p) \in Nat /\ After(p) > p
    BY PayloadIsASequence
  <2>2. at \in 1 .. Len(payload)  BY <1>4, <2>1 DEF ParseAutoDict, TypeOK
  <2>3. /\ TakeToken(at).token \in Seq(Byte)
        /\ TakeToken(at).at \in 1 .. Len(payload) + 1
    <3>1. TakeToken(at).at = IF After(at) <= Len(payload) THEN After(at) ELSE Len(payload) + 1
      BY <2>1, <2>2, TakeTokenIsAFrame
    <3>2. TakeToken(at).token \in Seq(Byte)  BY <2>1, <2>2, TakeTokenIsAFrame
    <3> QED  BY <2>1, <2>2, <3>1, <3>2
  <2>4. tokens' \subseteq Seq(Byte) /\ at' \in 1 .. Len(payload) + 1
    BY <1>4, <2>3 DEF ParseAutoDict, TypeOK
  <2>5. UNCHANGED <<cpc, quota, found, rows, time, stop, exit, payload, cycles, pressedAt, fault>>
    BY <1>4 DEF ParseAutoDict
  <2> QED  BY <2>4, <2>5 DEF TypeOK
<1>5. CASE ProcessTokens
  BY <1>5, CampaignAssumption DEF ProcessTokens, TypeOK, Steps, CampaignAssumption
<1>6. CASE Evaluate
  <2>1. UNCHANGED <<cpc, dict, reruns, rows, time, stop, exit, payload, cycles, pressedAt, fault>>
    BY <1>6 DEF Evaluate
  <2> QED  BY <1>6, <2>1, EvaluateTypes DEF TypeOK
<1>7. CASE Seeded  BY <1>7 DEF Seeded, TypeOK, Steps
<1>8. CASE BeginCycle
  <2>1. /\ cpc' \in Steps /\ exit' \in Exits /\ quota' \in Nat /\ cycles' \in Nat
    BY <1>8, CampaignAssumption
    DEF BeginCycle, Returns, TypeOK, Steps, Exits, CampaignAssumption
  <2>2. fault' \in BOOLEAN
    <3>1. fault \in BOOLEAN  BY DEF TypeOK
    <3>2. fault' = TRUE \/ fault' = fault  BY <1>8 DEF BeginCycle
    <3> QED  BY ONLY <3>1, <3>2
  <2>3. UNCHANGED <<dict, found, rows, time, stop, payload, pressedAt>>
    BY <1>8 DEF BeginCycle
  <2> QED  BY <2>1, <2>2, <2>3 DEF TypeOK
<1>9. CASE Calibrate
  <2>1. report' \in Hash /\ reruns' \subseteq Report  BY <1>9 DEF Calibrate, TypeOK, Hash
  <2>2. cpc' \in Steps /\ quota' \in Nat /\ executions' \in Nat
    BY <1>9, CampaignAssumption DEF Calibrate, TypeOK, Steps, CampaignAssumption
  <2>3. UNCHANGED <<dict, corpus, solutions, seen, crashes, rows, time, stop, exit,
                    payload, cycles, pressedAt, fault>>
    BY <1>9 DEF Calibrate
  <2> QED  BY <2>1, <2>2, <2>3 DEF TypeOK
<1>10. CASE MutationDone  BY <1>10 DEF MutationDone, TypeOK, Steps
<1>11. CASE Stats
  <2>1. /\ Len(corpus) \in Nat /\ Len(solutions) \in Nat
    BY LenProperties DEF TypeOK
  <2>2. rows' \in Seq(Nat \X Nat \X Nat)
    BY <1>11, <2>1, AppendProperties DEF Stats, TypeOK
  <2>3. /\ cpc' \in Steps
        /\ UNCHANGED <<quota, dict, found, time, stop, exit, payload, cycles, pressedAt, fault>>
    BY <1>11 DEF Stats, Steps
  <2> QED  BY <2>2, <2>3 DEF TypeOK
<1>12. CASE TimeoutStop
  BY <1>12 DEF TimeoutStop, TypeOK, Steps
<1>13. CASE TriggerStop  BY <1>13 DEF TriggerStop, TypeOK, Steps
<1>14. CASE EndCycle  BY <1>14 DEF EndCycle, TypeOK, Steps
<1>15. CASE Unwind  BY <1>15 DEF Unwind, Returns, TypeOK, Steps, Exits
<1>16. CASE Fault
  <2>1. fault' \in BOOLEAN  BY <1>16, Zenon DEF Fault
  <2>2. /\ cpc' \in Steps /\ exit' \in Exits
        /\ UNCHANGED <<quota, dict, found, rows, time, stop, payload, cycles, pressedAt>>
    BY <1>16 DEF Fault, Returns, Steps, Exits
  <2> QED  BY <2>1, <2>2 DEF TypeOK
<1>17. CASE ControlC
  BY <1>17 DEF ControlC, TypeOK, Handlers, Exits
<1>18. CASE Tick  BY <1>18 DEF Tick, TypeOK
<1>19. CASE UNCHANGED vars  BY <1>19 DEF vars, TypeOK
<1>20. CASE Ended  BY <1>19, <1>20 DEF Ended
<1> QED
  BY <1>1, <1>2, <1>3, <1>4, <1>5, <1>6, <1>7, <1>8, <1>9, <1>10, <1>11, <1>12, <1>13,
     <1>14, <1>15, <1>16, <1>17, <1>18, <1>19, <1>20 DEF Next, Fuzz

-----------------------------------------------------------------------------
(* Why a campaign ends.                                                    *)

StopState == <<cpc, time, stop, exit, cycles, pressedAt, fault>>

LEMMA NextStopping == TypeOK /\ Stopping /\ [Next]_vars => Stopping'
<1> SUFFICES ASSUME TypeOK, Stopping, [Next]_vars PROVE Stopping'  OBVIOUS
<1> USE DEF stop, time, Stopping, Announced, Reason
<1>1. CASE Setup  BY <1>1 DEF Setup, TypeOK
<1>2. CASE BuildStages  BY <1>2 DEF BuildStages, TypeOK
<1>3. CASE StartExecutor \/ ProcessTokens \/ Seeded
  BY <1>3 DEF StartExecutor, ProcessTokens, Seeded, TypeOK
<1>4. CASE BeginCycle  BY <1>4 DEF BeginCycle, Returns, TypeOK
<1>5. CASE Calibrate \/ MutationDone \/ Stats
  BY <1>5 DEF Calibrate, MutationDone, Stats, TypeOK
<1>6. CASE TimeoutStop  BY <1>6 DEF TimeoutStop, TypeOK
<1>7. CASE TriggerStop  BY <1>7 DEF TriggerStop, TypeOK
<1>8. CASE EndCycle  BY <1>8 DEF EndCycle, TypeOK
<1>9. CASE Unwind  BY <1>9 DEF Unwind, Returns, TypeOK
<1>10. CASE Fault  BY <1>10 DEF Fault, Returns, TypeOK
<1>11. CASE ControlC  BY <1>11, CampaignAssumption DEF ControlC, Over, TypeOK
<1>12. CASE Tick
  BY <1>12, CampaignAssumption DEF Tick, TypeOK, CampaignAssumption
<1>13. CASE UNCHANGED StopState  BY <1>13 DEF StopState
<1>14. ParseAutoDict \/ Evaluate \/ Ended \/ UNCHANGED vars => UNCHANGED StopState
  BY DEF StopState, ParseAutoDict, Evaluate, Ended, vars
<1> QED
  BY <1>1, <1>2, <1>3, <1>4, <1>5, <1>6, <1>7, <1>8, <1>9, <1>10, <1>11, <1>12, <1>13,
     <1>14 DEF Next, Fuzz

-----------------------------------------------------------------------------
(* What a campaign keeps.                                                  *)

KeptState == <<corpus, solutions, seen, report, crashes, reruns>>

LEMMA EvaluateRecords ==
  ASSUME TypeOK, Recording, Evaluate
  PROVE  Recording'
<1> DEFINE sol == [name |-> FileName(solutions), hash |-> report']
<1>1. /\ Len(corpus) \in Nat /\ DOMAIN corpus = 1 .. Len(corpus)
      /\ Len(solutions) \in Nat /\ DOMAIN solutions = 1 .. Len(solutions)
      /\ corpus \in Seq(Name) /\ solutions \in Seq([name : Name, hash : Hash])
  BY LenProperties DEF TypeOK
<1>2. executions' \in Nat /\ report' \in Hash  BY EvaluateTypes
<1>3. /\ FileName(corpus) \in Name /\ FileName(corpus)[1] = Len(corpus)
      /\ FileName(solutions) \in Name /\ FileName(solutions)[1] = Len(solutions)
  <2>1. FileName(corpus) \in Name /\ FileName(solutions) \in Name
    BY <1>1, <1>2, FileNameType
  <2> QED  BY <2>1 DEF FileName
<1>4. sol \in [name : Name, hash : Hash] /\ sol.name = FileName(solutions) /\ sol.hash = report'
  BY <1>2, <1>3
<1>5. PICK kind \in {"Ok", "Crash", "Timeout"},
           r \in Hash :
        /\ r # NoReport => kind = "Crash" /\ AsanEnabled
        /\ report' = IF r = NoReport THEN report ELSE r
        /\ crashes' = IF r = NoReport THEN crashes ELSE crashes \cup {r}
        /\ reruns' = reruns
        /\ seen' = IF AsanEnabled /\ kind = "Crash" /\ report' # NoReport
                   THEN seen \cup {report'} ELSE seen
        /\ IF IsSolution(kind) THEN solutions' = Append(solutions, sol) ELSE solutions' = solutions
        /\ corpus' \in {corpus, Append(corpus, FileName(corpus))}
  BY DEF Evaluate, Hash
<1> HIDE DEF sol
<1>6. \A i \in DOMAIN corpus' : corpus'[i][1] = i - 1
  <2>1. CASE corpus' = corpus  BY <2>1 DEF Recording, Numbered
  <2>2. CASE corpus' = Append(corpus, FileName(corpus))
    <3>1. /\ DOMAIN corpus' = 1 .. Len(corpus) + 1
          /\ \A i \in 1 .. Len(corpus) : corpus'[i] = corpus[i]
          /\ corpus'[Len(corpus) + 1] = FileName(corpus)
      BY <1>1, <1>3, <2>2, AppendProperties, LenProperties
    <3> QED  BY <1>1, <1>3, <3>1 DEF Recording, Numbered
  <2> QED  BY <1>5, <2>1, <2>2
<1>7. CASE ~IsSolution(kind)
  <2>1. solutions' = solutions  BY <1>5, <1>7
  <2>2. Numbered'  BY <1>6, <2>1 DEF Recording, Numbered
  <2>3. ASSUME AsanEnabled PROVE Hashed'
    <3>1. Hashed  BY <2>3 DEF Recording
    <3>2. kind = "Crash" /\ report' # NoReport => report' \in seen
      BY <1>7, <2>3 DEF IsSolution
    <3>3. seen' = seen  BY <1>5, <3>2
    <3>4. /\ report' # NoReport => report' \in crashes' \cup reruns'
          /\ crashes' \subseteq seen' /\ seen' \subseteq crashes' \cup reruns'
      BY <1>5, <3>1, <3>2, <3>3 DEF Hashed
    <3> QED  BY <2>1, <3>1, <3>3, <3>4 DEF Hashed
  <2> QED  BY <2>2, <2>3 DEF Recording
<1>8. CASE IsSolution(kind)
  <2>1. /\ DOMAIN solutions' = 1 .. Len(solutions) + 1
        /\ \A i \in 1 .. Len(solutions) : solutions'[i] = solutions[i]
        /\ solutions'[Len(solutions) + 1] = sol
    BY <1>1, <1>4, <1>5, <1>8, AppendProperties, LenProperties
  <2>2. Numbered'  BY <1>1, <1>3, <1>4, <1>6, <2>1 DEF Recording, Numbered
  <2>3. ASSUME AsanEnabled PROVE Hashed'
    <3>1. Hashed  BY <2>3 DEF Recording
    <3>2. report' # NoReport /\ report' \notin seen /\ kind = "Crash"
      BY <1>8, <2>3 DEF IsSolution
    <3>3. /\ seen' = seen \cup {report'} /\ report' \in crashes' \cup reruns'
          /\ crashes' \subseteq seen' /\ seen' \subseteq crashes' \cup reruns'
      BY <1>5, <2>3, <3>1, <3>2 DEF Hashed
    <3>4. seen' = {solutions'[i].hash : i \in DOMAIN solutions'}
      BY <1>1, <1>4, <2>1, <3>1, <3>3 DEF Hashed
    <3>5. \A i, j \in DOMAIN solutions' : solutions'[i].hash = solutions'[j].hash => i = j
      <4>1. \A i \in 1 .. Len(solutions) : solutions'[i].hash \in seen
        BY <1>1, <2>1, <3>1 DEF Hashed
      <4>2. solutions'[Len(solutions) + 1].hash \notin seen  BY <1>4, <2>1, <3>2
      <4>3. \A i, j \in 1 .. Len(solutions) :
              solutions'[i].hash = solutions'[j].hash => i = j
        BY <1>1, <2>1, <3>1 DEF Hashed
      <4>4. \A i \in DOMAIN solutions' : i \in 1 .. Len(solutions) \/ i = Len(solutions) + 1
        BY <1>1, <2>1
      <4> QED  BY <4>1, <4>2, <4>3, <4>4
    <3> QED  BY <3>1, <3>3, <3>4, <3>5 DEF Hashed
  <2> QED  BY <2>2, <2>3 DEF Recording
<1> QED  BY <1>7, <1>8

LEMMA NextRecording == TypeOK /\ Recording /\ [Next]_vars => Recording'
<1> SUFFICES ASSUME TypeOK, Recording, [Next]_vars PROVE Recording'  OBVIOUS
<1>1. ~Evaluate /\ ~Calibrate => UNCHANGED KeptState
  BY DEF Next, Fuzz, Setup, BuildStages, StartExecutor, ParseAutoDict, ProcessTokens, Seeded,
         BeginCycle, MutationDone, Stats, TimeoutStop, TriggerStop, EndCycle,
         Unwind, Fault, ControlC, Tick, Ended, vars, found, KeptState
<1>2. CASE UNCHANGED KeptState
  BY <1>2 DEF KeptState, Recording, Numbered, Hashed
<1>3. CASE Calibrate
  <2>1. /\ UNCHANGED <<corpus, solutions, seen, crashes>>
        /\ reruns \subseteq reruns' /\ report' \in {report} \cup reruns'
    BY <1>3 DEF Calibrate
  <2> QED  BY <2>1 DEF Recording, Numbered, Hashed
<1> QED  BY <1>1, <1>2, <1>3, EvaluateRecords

-----------------------------------------------------------------------------
(* The dictionary.                                                         *)

LEMMA NextFraming == TypeOK /\ Framing /\ [Next]_vars => Framing'
<1> SUFFICES ASSUME TypeOK, Framing, [Next]_vars PROVE Framing'  OBVIOUS
<1>1. ~ParseAutoDict => UNCHANGED <<payload, at, tokens>>
  BY DEF Next, Fuzz, Setup, BuildStages, StartExecutor, ProcessTokens, Evaluate, Seeded,
         BeginCycle, Calibrate, MutationDone, Stats, TimeoutStop, TriggerStop, EndCycle,
         Unwind, Fault, ControlC, Tick, Ended, vars, dict
<1>2. ~ParseAutoDict /\ cpc' \notin {"setup", "stages", "start", "tokens", "returned"}
        => \/ cpc \notin {"setup", "stages", "start", "tokens", "returned"}
           \/ at > Len(payload)
  BY DEF Next, Fuzz, Setup, BuildStages, StartExecutor, ProcessTokens, Evaluate, Seeded,
         BeginCycle, Calibrate, MutationDone, Stats, TimeoutStop, TriggerStop, EndCycle,
         Unwind, Fault, Returns, ControlC, Tick, Ended, vars
<1>3. at > Len(payload) => at = Len(payload) + 1  BY PayloadIsASequence DEF TypeOK
<1>4. CASE ~ParseAutoDict
  <2>1. payload' = payload /\ at' = at /\ tokens' = tokens  BY <1>1, <1>4
  <2>2. Frames' = Frames /\ Passed' = Passed  BY <2>1 DEF Frames, Passed, After
  <2>3. \A p : TokenAt(p)' = TokenAt(p)  BY <2>1 DEF TokenAt, After
  <2>4. \A s, p : Chain(s, p)' = Chain(s, p)  BY <2>1 DEF Chain, After
  <2>5. \A t : Utf8(t)' = Utf8(t)  BY DEF Utf8
  <2>6. (tokens = {t \in {TokenAt(p) : p \in Passed} : Utf8(t)})'
    BY <2>1, <2>2, <2>3, <2>5 DEF Framing
  <2>7. (at \in DOMAIN payload => at \in Frames)'  BY <2>1, <2>2 DEF Framing
  <2>8. (\A p \in DOMAIN payload : \A s \in SUBSET (1 .. p) : Chain(s, p) /\ at <= p => at \in s)'
    BY <2>1, <2>4 DEF Framing
  <2>9. (cpc \notin {"setup", "stages", "start", "tokens", "returned"} => at = Len(payload) + 1)'
    BY <1>2, <1>3, <1>4, <2>1 DEF Framing
  <2> QED  BY <2>6, <2>7, <2>8, <2>9 DEF Framing
<1> QED  BY <1>4, ParseAutoDictFrames

LEMMA InitFraming == Init => Framing
<1> SUFFICES ASSUME Init PROVE Framing  OBVIOUS
<1>1. TypeOK  BY InitTypeOK
<1>2. DOMAIN payload = 1 .. Len(payload) /\ Len(payload) \in Nat
  BY <1>1, PayloadIsASequence
<1>3. at = 1 /\ tokens = {} /\ cpc = "setup"  BY DEF Init
<1>4. at \in DOMAIN payload => at \in Frames
  <2> SUFFICES ASSUME 1 \in DOMAIN payload PROVE 1 \in Frames  BY <1>3
  <2>1. {1} \in SUBSET (1 .. 1) /\ {1, 1} \subseteq {1} /\ {1} \ {1} = {}  OBVIOUS
  <2> QED  BY <2>1 DEF Frames
<1>5. \A p \in DOMAIN payload : \A s \in SUBSET (1 .. p) : Chain(s, p) /\ at <= p => at \in s
  BY <1>3 DEF Chain
<1>6. Passed = {}
  <2>1. \A q \in Frames : ~(q < 1)  BY <1>2 DEF Frames
  <2> QED  BY <1>3, <2>1 DEF Passed
<1> QED  BY <1>3, <1>4, <1>5, <1>6 DEF Framing

-----------------------------------------------------------------------------

LEMMA InitIInv == Init => IInv
<1> SUFFICES ASSUME Init PROVE IInv  OBVIOUS
<1>1. Stopping  BY DEF Init, Stopping, Announced, Reason
<1>2. Recording  BY DEF Init, Recording, Numbered, Hashed
<1> QED  BY <1>1, <1>2, InitTypeOK, InitFraming DEF IInv

LEMMA NextIInv == IInv /\ [Next]_vars => IInv'
BY NextTypeOK, NextStopping, NextRecording, NextFraming DEF IInv

(* The invariant the other results follow from.                            *)
THEOREM Invariant == Spec => []IInv
<1> QED  BY InitIInv, NextIInv, PTL DEF Spec

(* Every variable keeps its type; in particular a name is a number, a time *)
(* that is never negative, and a count.                                    *)
THEOREM TypeCorrect == Spec => []TypeOK
<1>1. IInv => TypeOK  BY DEF IInv
<1> QED  BY <1>1, Invariant, PTL

(* After a press of Control-C at most one cycle is begun; a campaign       *)
(* succeeds only when asked to stop or at the end of its budget, and fails *)
(* only when something failed, for every budget and number of cycles       *)
(* (trigger_stop_stage, StopOnReceived, TimeoutStopStage).                 *)
THEOREM EndsForAReasonHolds == Spec => []EndsForAReason
<1>1. IInv => EndsForAReason
  BY DEF IInv, TypeOK, Stopping, Announced, Reason, EndsForAReason
<1> QED  BY <1>1, Invariant, PTL

(* No two solutions of a sanitized target share a report's hash, every     *)
(* reported crash has a solution of its hash, every other solution bears   *)
(* the hash a calibration run left in the observer, and no two files of a  *)
(* directory share a name (objective, TestCaseFileNameFeedback).           *)
THEOREM SolutionsDistinctHolds == Spec => []SolutionsDistinct
<1>1. ASSUME IInv PROVE SolutionsDistinct
  <2>1. /\ corpus \in Seq(Name) /\ solutions \in Seq([name : Name, hash : Hash])
        /\ Recording
    BY <1>1 DEF IInv, TypeOK
  <2>2. /\ Len(corpus) \in Nat /\ DOMAIN corpus = 1 .. Len(corpus)
        /\ Len(solutions) \in Nat /\ DOMAIN solutions = 1 .. Len(solutions)
    BY <2>1, LenProperties
  <2>3. IsInjective(corpus)
    BY <2>1, <2>2 DEF Recording, Numbered, IsInjective
  <2>4. IsInjective([i \in DOMAIN solutions |-> solutions[i].name])
    BY <2>1, <2>2 DEF Recording, Numbered, IsInjective
  <2>5. ASSUME AsanEnabled
        PROVE  /\ IsInjective([i \in DOMAIN solutions |-> solutions[i].hash])
               /\ crashes \subseteq {solutions[i].hash : i \in DOMAIN solutions}
               /\ {solutions[i].hash : i \in DOMAIN solutions} \subseteq crashes \cup reruns
    BY <2>1, <2>5 DEF Recording, Hashed, IsInjective
  <2> QED  BY <2>3, <2>4, <2>5 DEF SolutionsDistinct
<1> QED  BY <1>1, Invariant, PTL

(* The tokens of every dictionary are the texts of its frames, whatever    *)
(* bytes it is made of (parse_auto_dict, process_tokens).                  *)
THEOREM TokensFramedHolds == Spec => []TokensFramed
<1>1. ASSUME IInv PROVE TokensFramed
  <2> SUFFICES ASSUME cpc \in {"seed", "cycle"}
               PROVE  tokens = {t \in {TokenAt(p) : p \in {q \in Frames : payload[q] > 0}} : Utf8(t)}
    BY DEF TokensFramed
  <2>1. at = Len(payload) + 1 /\ tokens = {t \in {TokenAt(p) : p \in Passed} : Utf8(t)}
    BY <1>1 DEF IInv, Framing
  <2>2. Len(payload) \in Nat /\ DOMAIN payload = 1 .. Len(payload)
    BY <1>1, PayloadIsASequence DEF IInv
  <2>3. \A q \in Frames : q < at  BY <2>1, <2>2 DEF Frames
  <2>4. Passed = {q \in Frames : payload[q] > 0}  BY <2>3 DEF Passed
  <2> QED  BY <2>1, <2>4
<1> QED  BY <1>1, Invariant, PTL

-----------------------------------------------------------------------------
(* Reproduce: its types, and what its bookkeeping keeps.                   *)

ReplaySteps == {"spawn", "send", "sleep", "poll", "grace", "wait", "next", "done", "failed"}
Fate        == {"silent", "answer", "exit", "fail", "abort", "signal"}
Targets     == {"up", "busy", "reporting"} \cup Dead
Info        == [input : Nat, request : 0 .. Messages, died : 0 .. Messages,
                by : Targets, whole : BOOLEAN, late : BOOLEAN]

RTypeOK ==
  /\ rpc \in ReplaySteps
  /\ job \in Nat /\ idx \in 0 .. Messages /\ crashing \in 0 .. Messages
  /\ infos \in Seq(Info)
  /\ stdin \in Seq(1 .. Messages) /\ stdout \in Nat
  /\ target \in Targets /\ fate \in Fate
  /\ handled \in 0 .. Messages
  /\ log \in {"none", "begun", "whole"} /\ late \in BOOLEAN

(* A message is either handled or in the pipe, or it was written to a      *)
(* target that had ended; the step that writes has one left to write, and  *)
(* the two that follow have written one.                                   *)
Accounted ==
  /\ handled + Len(stdin) <= idx
  /\ rpc = "send" => idx < Messages
  /\ rpc \in {"sleep", "poll"} => idx > 0
  /\ rpc = "spawn" => idx = 0

(* Nothing is blamed before an end was seen, and then the last message on  *)
(* a target that ended by itself; the kill comes last; a log is cut short  *)
(* by the kill only.                                                       *)
Blaming ==
  /\ rpc \in {"spawn", "send", "sleep", "poll", "grace"} => crashing = 0 /\ target # "killed"
  /\ crashing # 0 => crashing = idx /\ target \in {"failed", "signalled"}
  /\ log = "begun" => target \in {"reporting", "killed"}
  /\ log = "whole" => target \in {"reporting", "failed", "signalled", "killed"}

Quiet == Blocked \/ (target = "up" /\ stdin = <<>> /\ handled = idx)

Settled ==
  /\ rpc \in {"spawn", "send"} => Quiet
  /\ rpc = "sleep" => \/ Blocked
                      \/ stdin = <<>> /\ handled = idx
                      \/ target = "up" /\ Len(stdin) = 1 /\ handled + 1 = idx
  /\ rpc = "poll" => Quiet \/ (target \in Dead /\ handled = idx)
  /\ rpc = "grace" => Quiet \/ target = Success
  /\ rpc = "wait" => IF crashing = 0
                     THEN target = Success \/ (target = "killed" /\ log = "none")
                     ELSE handled = crashing

(* Blame of one report.                                                    *)
Blamed(q) ==
  /\ q.request # 0 => /\ q.whole /\ q.by # "killed" /\ q.died <= q.request
                      /\ ~q.late => q.died = q.request
  /\ q.request = 0 => q.late
  /\ ~q.whole => q.by = "killed"

RInv == RTypeOK /\ Accounted /\ Blaming /\ (~late => Settled) /\ Blame

-----------------------------------------------------------------------------
(* The target's steps.                                                     *)

LEMMA TakeKeeps ==
  ASSUME RInv, Take
  PROVE  RInv'
<1> USE ReproduceAssumption DEF RInv
<1>1. /\ Len(stdin) \in Nat /\ Len(stdin) > 0
      /\ Tail(stdin) \in Seq(1 .. Messages) /\ Len(Tail(stdin)) = Len(stdin) - 1
      /\ Len(stdin) = 1 => Tail(stdin) = <<>>
      /\ Head(stdin) \in 1 .. Messages
  <2>1. stdin \in Seq(1 .. Messages) /\ stdin # <<>>  BY DEF Take, RTypeOK
  <2>2. /\ Head(stdin) \in 1 .. Messages /\ Tail(stdin) \in Seq(1 .. Messages)
        /\ Len(Tail(stdin)) = Len(stdin) - 1
    BY <2>1, HeadTailProperties, Zenon
  <2>3. Len(stdin) \in Nat /\ Len(stdin) # 0  BY <2>1, EmptySeq, LenProperties
  <2>4. Len(stdin) = 1 => Tail(stdin) = <<>>
    <3>1. Tail(stdin) # <<>> => Len(Tail(stdin)) \in Nat \ {0}  BY <2>2, EmptySeq, Zenon
    <3> QED  BY <2>2, <2>3, <3>1
  <2> QED  BY <2>2, <2>3, <2>4
<1>2. /\ target = "up" /\ target' = "busy" /\ stdin # <<>>
      /\ stdin' = Tail(stdin) /\ handled' = handled + 1 /\ fate' \in Fates[Head(stdin)]
      /\ UNCHANGED <<rpc, job, idx, crashing, infos, stdout, log, late>>
  BY DEF Take, parent
<1>3. RTypeOK'
  <2>1. Fates[Head(stdin)] \subseteq Fate  BY <1>1 DEF ReproduceAssumption, Fate
  <2>2. handled' \in 0 .. Messages  BY <1>1, <1>2 DEF RTypeOK, Accounted
  <2> QED  BY <1>1, <1>2, <2>1, <2>2 DEF RTypeOK, Targets
<1>4. Accounted'  BY <1>1, <1>2 DEF RTypeOK, Accounted
<1>5. Blaming'  BY <1>2 DEF Blaming, Dead, Success
<1>6. ~late => Settled'
  <2> SUFFICES ASSUME ~late PROVE Settled'  OBVIOUS
  <2>1. ~Blocked /\ ~Quiet /\ target \notin Dead  BY <1>2 DEF Blocked, Quiet, Dead, Success
  <2>2. rpc \notin {"spawn", "send", "poll", "grace"}
    BY <1>2, <2>1 DEF Settled, Dead, Success
  <2>3. rpc = "wait" => crashing # 0 /\ handled = crashing
    BY <1>2 DEF Settled, Success
  <2>4. rpc # "wait"
    BY <1>1, <2>3 DEF Blaming, Accounted, RTypeOK
  <2>5. rpc = "sleep" => Len(stdin) = 1 /\ handled + 1 = idx
    BY <1>2, <2>1 DEF Settled
  <2> QED  BY <1>1, <1>2, <2>2, <2>4, <2>5 DEF Settled
<1>7. Blame'  BY <1>2 DEF Blame
<1> QED  BY <1>2, <1>3, <1>4, <1>5, <1>6, <1>7

(* What the three steps of a target that has a message in hand share: it   *)
(* is not blocked, so that only a sleep, or a late replay, sees them.      *)
LEMMA BusyKeepsSettled ==
  ASSUME RInv, ~late, target \in {"busy", "reporting"}, ~Blocked,
         UNCHANGED <<rpc, idx, crashing, stdin, handled>>
  PROVE  Settled'
<1> USE DEF RInv
<1>1. ~Quiet /\ target \notin Dead  BY DEF Quiet, Dead, Success
<1>2. rpc \notin {"spawn", "send", "poll", "grace"}
  BY <1>1 DEF Settled, Dead, Success
<1>3. rpc # "wait"  BY DEF Settled, Blaming, Success
<1>4. rpc = "sleep" => stdin = <<>> /\ handled = idx  BY DEF Settled
<1> QED  BY <1>2, <1>3, <1>4 DEF Settled

LEMMA LogKeeps ==
  ASSUME RInv, BeginLog \/ EndLog
  PROVE  RInv'
<1> USE DEF RInv
<1>1. /\ target' = "reporting" /\ log' \in {"begun", "whole"}
      /\ target \in {"busy", "reporting"} /\ ~Blocked
      /\ UNCHANGED <<rpc, job, idx, crashing, infos, stdin, stdout, fate, handled, late>>
  BY DEF BeginLog, EndLog, parent, Blocked
<1>2. RTypeOK'  BY <1>1 DEF RTypeOK, Targets
<1>3. Accounted'  BY <1>1 DEF Accounted
<1>4. Blaming'  BY <1>1 DEF Blaming
<1>5. ~late => Settled'  BY <1>1, BusyKeepsSettled
<1>6. Blame'  BY <1>1 DEF Blame
<1> QED  BY <1>1, <1>2, <1>3, <1>4, <1>5, <1>6

LEMMA FinishKeeps ==
  ASSUME RInv, Finish
  PROVE  RInv'
<1> USE ReproduceAssumption DEF RInv
<1>1. /\ target \in {"busy", "reporting"}
      /\ UNCHANGED <<rpc, job, idx, crashing, infos, stdin, fate, log, handled, late>>
  BY DEF Finish, parent
<1>2. /\ target' \in {"up", "exited", "failed", "signalled"}
      /\ stdout' \in Nat
      /\ target = "reporting" => log = "whole" /\ target' \in {"failed", "signalled"}
      /\ ~Blocked
  <2>1. /\ stdout \in Nat
        /\ (target = "busy" /\ fate = "answer") => stdout < OutCap
    BY DEF RTypeOK, Finish
  <2>2. stdout' \in {stdout, stdout + 1}  BY DEF Finish
  <2>3. stdout' \in Nat  BY <2>1, <2>2
  <2>4. ~Blocked  BY <2>1 DEF Blocked, RTypeOK, ReproduceAssumption
  <2>5. /\ target' \in {"up", "exited", "failed", "signalled"}
        /\ target = "reporting" => log = "whole" /\ target' \in {"failed", "signalled"}
    BY DEF Finish, Success
  <2> QED  BY <2>3, <2>4, <2>5
<1>3. target = "busy" => log = "none"  BY DEF Blaming, RTypeOK
<1>4. RTypeOK'  BY <1>1, <1>2 DEF RTypeOK, Targets, Dead, Success
<1>5. Accounted'  BY <1>1 DEF Accounted
<1>6. Blaming'  BY <1>1, <1>2, <1>3 DEF Blaming
<1>7. ~late => Settled'  BY <1>1, <1>2, BusyKeepsSettled
<1>8. Blame'  BY <1>1 DEF Blame
<1> QED  BY <1>1, <1>4, <1>5, <1>6, <1>7, <1>8

-----------------------------------------------------------------------------
(* The tool's steps.                                                       *)

LEMMA SendKeeps ==
  ASSUME RInv, Send
  PROVE  RInv'
<1> USE ReproduceAssumption DEF RInv
<1>1. /\ rpc = "send" /\ rpc' = "sleep" /\ idx' = idx + 1
      /\ idx < Messages /\ idx + 1 \in 1 .. Messages
      /\ UNCHANGED <<job, crashing, infos, stdout, target, fate, log, handled, late>>
  BY DEF Send, child, RTypeOK, Accounted
<1>2. Len(stdin) \in Nat  BY DEF RTypeOK
<1>3. \/ target \in Dead /\ stdin' = stdin
      \/ target \notin Dead /\ stdin' = Append(stdin, idx + 1)
  BY DEF Send
<1>4. stdin' \in Seq(1 .. Messages) /\ Len(stdin') <= Len(stdin) + 1
  <2>1. CASE stdin' = stdin  BY <2>1, <1>2 DEF RTypeOK
  <2>2. CASE stdin' = Append(stdin, idx + 1)  BY <1>1, <2>2 DEF RTypeOK
  <2> QED  BY <1>3, <2>1, <2>2
<1>5. RTypeOK'  BY <1>1, <1>4 DEF RTypeOK, ReplaySteps
<1>6. Accounted'
  <2>1. Len(stdin') \in Nat  BY <1>4
  <2> QED  BY <1>1, <1>2, <1>4, <2>1 DEF Accounted, RTypeOK
<1>7. Blaming'  BY <1>1 DEF Blaming
<1>8. ~late => Settled'
  <2> SUFFICES ASSUME ~late PROVE Settled'  OBVIOUS
  <2>1. CASE Blocked  BY <1>1, <2>1 DEF Settled, Blocked
  <2>2. CASE ~Blocked
    <3>1. target = "up" /\ stdin = <<>> /\ handled = idx
      BY <1>1, <2>2 DEF Settled, Quiet
    <3>2. Len(stdin') = 1  BY <1>3, <3>1 DEF Dead, Success
    <3> QED  BY <1>1, <3>1, <3>2 DEF Settled, RTypeOK
  <2> QED  BY <2>1, <2>2
<1>9. Blame'  BY <1>1 DEF Blame
<1> QED  BY <1>1, <1>5, <1>6, <1>7, <1>8, <1>9

LEMMA SleepKeeps ==
  ASSUME RInv, Sleep
  PROVE  RInv'
<1> USE DEF RInv
<1>1. /\ rpc = "sleep" /\ rpc' = "poll" /\ late' = (late \/ ~AtRest)
      /\ UNCHANGED <<job, idx, crashing, infos, stdin, stdout, target, fate, log, handled>>
  BY DEF Sleep, child
<1>2. RTypeOK'
  <2>1. late' \in BOOLEAN  BY <1>1
  <2> QED  BY <1>1, <2>1 DEF RTypeOK, ReplaySteps
<1>3. Accounted'  BY <1>1 DEF Accounted
<1>4. Blaming'  BY <1>1 DEF Blaming
<1>5. ~late' => Settled'
  <2> SUFFICES ASSUME ~late, AtRest PROVE Settled'  BY <1>1
  <2>1. CASE Blocked  BY <1>1, <2>1 DEF Settled, Quiet, Blocked
  <2>2. CASE ~Blocked
    <3>1. target \in Dead \/ (target = "up" /\ stdin = <<>>)  BY <2>2 DEF AtRest
    <3>2. handled = idx
      <4>1. Len(stdin) = 1 => stdin # <<>>  OBVIOUS
      <4> QED  BY <1>1, <2>2, <3>1, <4>1 DEF Settled, Dead, Success
    <3> QED  BY <1>1, <3>1, <3>2 DEF Settled, Quiet
  <2> QED  BY <2>1, <2>2
<1>6. Blame'  BY <1>1 DEF Blame
<1> QED  BY <1>2, <1>3, <1>4, <1>5, <1>6

LEMMA PollKeeps ==
  ASSUME RInv, Poll
  PROVE  RInv'
<1> USE ReproduceAssumption DEF RInv
<1> DEFINE bad == target \in Dead \ {Success}
<1>1. /\ rpc = "poll" /\ crashing = 0 /\ idx > 0
      /\ UNCHANGED <<job, idx, infos, stdin, stdout, target, fate, log, handled, late>>
  BY DEF Poll, child, Blaming, Accounted
<1>2. /\ bad => crashing' = idx /\ rpc' = "wait"
      /\ ~bad => crashing' = 0 /\ rpc' \in {"send", "grace"}
      /\ rpc' = "send" => idx < Messages
      /\ target = Success => rpc' = "grace"
  BY <1>1 DEF Poll
<1>3. RTypeOK'
  <2>1. crashing' \in 0 .. Messages /\ rpc' \in ReplaySteps  BY <1>2 DEF RTypeOK, ReplaySteps
  <2> QED  BY <1>1, <2>1 DEF RTypeOK
<1>4. Accounted'  BY <1>1, <1>2 DEF Accounted
<1>5. Blaming'  BY <1>1, <1>2 DEF Blaming, Dead, Success
<1>6. ~late => Settled'
  <2> SUFFICES ASSUME ~late PROVE Settled'  OBVIOUS
  <2>1. Quiet \/ (target \in Dead /\ handled = idx)  BY <1>1 DEF Settled
  <2>2. Quiet' = Quiet  BY <1>1 DEF Quiet, Blocked
  <2>3. Quiet => target \notin Dead  BY DEF Quiet, Blocked, Dead, Success
  <2>4. CASE bad  BY <1>1, <1>2, <2>1, <2>3, <2>4 DEF Settled, RTypeOK
  <2>5. CASE ~bad  BY <1>1, <1>2, <2>1, <2>2, <2>5 DEF Settled
  <2> QED  BY <2>4, <2>5
<1>7. Blame'  BY <1>1 DEF Blame
<1> QED  BY <1>1, <1>3, <1>4, <1>5, <1>6, <1>7

LEMMA GraceThenKillKeeps ==
  ASSUME RInv, GraceThenKill
  PROVE  RInv'
<1> USE DEF RInv
<1>1. /\ rpc = "grace" /\ rpc' = "wait" /\ crashing = 0
      /\ target' = IF target \in Dead THEN target ELSE "killed"
      /\ UNCHANGED <<job, idx, crashing, infos, stdin, stdout, fate, log, handled, late>>
  BY DEF GraceThenKill, Blaming
<1>2. RTypeOK'
  <2>1. target' \in Targets  BY <1>1 DEF Targets, Dead
  <2> QED  BY <1>1, <2>1 DEF RTypeOK, ReplaySteps
<1>3. Accounted'  BY <1>1 DEF Accounted
<1>4. Blaming'
  <2>1. log = "begun" => target' = "killed"  BY <1>1 DEF Blaming, Dead, Success
  <2>2. log = "whole" => target' \in {"failed", "signalled", "killed"}
    BY <1>1 DEF Blaming, Dead, Success
  <2> QED  BY <1>1, <2>1, <2>2 DEF Blaming
<1>5. ~late => Settled'
  <2> SUFFICES ASSUME ~late PROVE Settled'  OBVIOUS
  <2>1. target = Success \/ target \notin Dead
    BY <1>1 DEF Settled, Quiet, Blocked, Dead, Success
  <2>2. target # Success => log = "none"
    <3>1. target # Success => target \in {"up", "busy"}
      BY <1>1 DEF Settled, Quiet, Blocked
    <3>2. log \in {"none", "begun", "whole"}  BY DEF RTypeOK
    <3>3. /\ log = "begun" => target \in {"reporting", "killed"}
          /\ log = "whole" => target \in {"reporting", "failed", "signalled", "killed"}
      BY DEF Blaming
    <3> QED  BY <3>1, <3>2, <3>3
  <2>3. target' = Success \/ (target' = "killed" /\ log' = "none")
    BY <1>1, <2>1, <2>2 DEF Dead, Success
  <2> QED  BY <1>1, <2>3 DEF Settled
<1>6. Blame'  BY <1>1 DEF Blame
<1> QED  BY <1>1, <1>2, <1>3, <1>4, <1>5, <1>6

(* The one step that adds a report: the case that all of the bookkeeping   *)
(* is for.                                                                 *)
LEMMA ReportCrashKeeps ==
  ASSUME RInv, ReportCrash
  PROVE  RInv'
<1> USE DEF RInv
<1> DEFINE r == [input |-> job, request |-> crashing, died |-> handled, by |-> target,
                 whole |-> log = "whole", late |-> late]
<1>1. /\ rpc = "wait" /\ rpc' = "next" /\ target \in Dead
      /\ UNCHANGED <<job, idx, crashing, stdin, stdout, target, fate, log, handled, late>>
  BY DEF ReportCrash, child
<1>2. \/ infos' = infos
      \/ log # "none" /\ target # Success /\ infos' = Append(infos, r)
  BY DEF ReportCrash
<1>3. r \in Info
  <2>1. (log = "whole") \in BOOLEAN  OBVIOUS
  <2> QED  BY <2>1 DEF RTypeOK, Info
<1>4. RTypeOK'
  <2>1. infos' \in Seq(Info)  BY <1>2, <1>3 DEF RTypeOK
  <2> QED  BY <1>1, <2>1 DEF RTypeOK, ReplaySteps
<1>5. Accounted'  BY <1>1 DEF Accounted
<1>6. Blaming'  BY <1>1 DEF Blaming
<1>7. ~late => Settled'  BY <1>1 DEF Settled
<1>8. Blame'
  <2>1. CASE infos' = infos  BY <2>1 DEF Blame
  <2>2. CASE log # "none" /\ target # Success /\ infos' = Append(infos, r)
    <3>0. /\ r.request = crashing /\ r.died = handled /\ r.by = target /\ r.late = late
          /\ r.whole <=> log = "whole"
      BY Zenon
    <3>1. /\ r.request # 0 => r.whole /\ r.by # "killed"
          /\ ~r.whole => r.by = "killed"
      BY <1>1, <2>2, <3>0 DEF Blaming, RTypeOK, Dead, Success
    <3>2. r.request # 0 => r.died <= r.request  BY DEF Blaming, Accounted, RTypeOK
    <3>3. ~late => r.request # 0 /\ r.died = r.request
      BY <1>1, <2>2 DEF Settled, Blaming, Success
    <3>4. \A i \in DOMAIN infos' : (i \in DOMAIN infos /\ infos'[i] = infos[i]) \/ infos'[i] = r
      BY <2>2 DEF RTypeOK
    <3> HIDE DEF r
    <3> QED
      <4> SUFFICES ASSUME NEW i \in DOMAIN infos'
                   PROVE  Blamed(infos'[i])
        BY Zenon DEF Blame, Blamed
      <4>1. CASE i \in DOMAIN infos /\ infos'[i] = infos[i]
        BY <4>1, Zenon DEF Blame, Blamed
      <4>2. CASE infos'[i] = r
        <5>1. Blamed(r)  BY <3>0, <3>1, <3>2, <3>3 DEF Blamed
        <5> QED  BY <4>2, <5>1
      <4> QED  BY <4>1, <4>2, <3>4
  <2> QED  BY <1>2, <2>1, <2>2
<1> QED  BY <1>1, <1>4, <1>5, <1>6, <1>7, <1>8

LEMMA NextInputKeeps ==
  ASSUME RInv, NextInput
  PROVE  RInv'
<1> USE ReproduceAssumption DEF RInv
<1>1. rpc = "next" /\ UNCHANGED infos  BY DEF NextInput
<1>2. Blame'  BY <1>1 DEF Blame
<1>3. CASE job < Inputs
  <2>1. /\ rpc' = "spawn" /\ job' = job + 1 /\ idx' = 0 /\ crashing' = 0
        /\ stdin' = <<>> /\ stdout' = 0 /\ target' = "up" /\ fate' = "silent"
        /\ log' = "none" /\ handled' = 0 /\ late' = FALSE
    BY <1>3 DEF NextInput, Fresh
  <2>2. /\ 0 \in 0 .. Messages /\ <<>> \in Seq(1 .. Messages)
        /\ late' \in BOOLEAN
    <3>1. 0 \in 0 .. Messages /\ <<>> \in Seq(1 .. Messages)  OBVIOUS
    <3>2. late' \in BOOLEAN  BY <2>1, Zenon
    <3> QED  BY <3>1, <3>2
  <2>3. RTypeOK'
    <3>1. job' \in Nat /\ infos' \in Seq(Info)  BY <1>1, <2>1 DEF RTypeOK
    <3> QED  BY <2>1, <2>2, <3>1 DEF RTypeOK, ReplaySteps, Targets, Fate
  <2>4. Accounted' /\ Blaming' /\ Settled'
    BY <2>1 DEF Accounted, Blaming, Settled, Quiet
  <2> QED  BY <1>2, <2>3, <2>4
<1>4. CASE ~(job < Inputs)
  <2>1. /\ rpc' = "done"
        /\ UNCHANGED <<job, idx, crashing, stdin, stdout, target, fate, log, handled, late>>
    BY <1>4 DEF NextInput, child
  <2>2. RTypeOK'  BY <1>1, <2>1 DEF RTypeOK, ReplaySteps
  <2>3. Accounted' /\ Blaming' /\ Settled'
    BY <2>1 DEF Accounted, Blaming, Settled
  <2> QED  BY <1>2, <2>2, <2>3
<1> QED  BY <1>3, <1>4

LEMMA SpawnOrReplayFaultKeeps ==
  ASSUME RInv, Spawn \/ ReplayFault
  PROVE  RInv'
<1> USE ReproduceAssumption DEF RInv
<1>1. /\ UNCHANGED <<job, idx, crashing, infos, stdin, stdout, target, fate, log, handled, late>>
      /\ \/ rpc = "spawn" /\ rpc' = "send" /\ Messages > 0
         \/ rpc = "spawn" /\ rpc' = "grace"
         \/ rpc' = "failed"
  BY DEF Spawn, ReplayFault, child
<1>2. RTypeOK'  BY <1>1 DEF RTypeOK, ReplaySteps
<1>3. Accounted'  BY <1>1 DEF Accounted
<1>4. Blaming'  BY <1>1 DEF Blaming
<1>5. ~late => Settled'
  <2>1. Quiet' = Quiet  BY <1>1 DEF Quiet, Blocked
  <2> QED  BY <1>1, <2>1 DEF Settled
<1>6. Blame'  BY <1>1 DEF Blame
<1> QED  BY <1>1, <1>2, <1>3, <1>4, <1>5, <1>6

-----------------------------------------------------------------------------

LEMMA RInitInv == RInit => RInv
<1> SUFFICES ASSUME RInit PROVE RInv  OBVIOUS
<1> USE ReproduceAssumption DEF RInit
<1>0. /\ 0 \in 0 .. Messages /\ <<>> \in Seq(1 .. Messages) /\ <<>> \in Seq(Info)
      /\ late \in BOOLEAN
  <2>1. 0 \in 0 .. Messages /\ <<>> \in Seq(1 .. Messages) /\ <<>> \in Seq(Info)  OBVIOUS
  <2>2. late \in BOOLEAN  BY Zenon
  <2> QED  BY <2>1, <2>2
<1>1. RTypeOK  BY <1>0 DEF RTypeOK, ReplaySteps, Targets, Fate
<1>2. Accounted /\ Blaming /\ Settled  BY DEF Accounted, Blaming, Settled, Quiet
<1>3. Blame  BY DEF Blame
<1> QED  BY <1>1, <1>2, <1>3 DEF RInv

LEMMA RNextInv == RInv /\ [RNext]_rvars => RInv'
<1> SUFFICES ASSUME RInv, [RNext]_rvars PROVE RInv'  OBVIOUS
<1>1. CASE UNCHANGED rvars
  <2>1. UNCHANGED <<rpc, job, idx, crashing, infos, stdin, stdout, target, fate, log, handled, late>>
    BY <1>1 DEF rvars, parent, child
  <2> QED
    BY <2>1 DEF RInv, RTypeOK, Accounted, Blaming, Settled, Quiet, Blocked, Blame
<1>2. CASE ReplayEnded  BY <1>1, <1>2 DEF ReplayEnded
<1> QED
  BY <1>1, <1>2, SpawnOrReplayFaultKeeps, SendKeeps, SleepKeeps, PollKeeps, GraceThenKillKeeps,
     ReportCrashKeeps, NextInputKeeps, TakeKeeps, LogKeeps, FinishKeeps DEF RNext, Target

(* The invariant the other results follow from.                            *)
THEOREM RInvariant == RSpec => []RInv
<1> QED  BY RInitInv, RNextInv, PTL DEF RSpec

(* Every variable keeps its type; in particular no more messages are       *)
(* handled than an input has.                                              *)
THEOREM RTypeCorrect == RSpec => []RTypeOK
<1>1. RInv => RTypeOK  BY DEF RInv
<1> QED  BY <1>1, RInvariant, PTL

(* Whatever messages do to the targets, however long that takes and        *)
(* wherever the kill lands: a request that is blamed had been written, and *)
(* the target died by itself on it or before, its log whole, on exactly it *)
(* when every sleep was long enough; a report of a killed target names no  *)
(* request and follows a sleep that was too short (find_crashing_request,  *)
(* reproduce).                                                             *)
THEOREM BlameHolds == RSpec => []Blame
<1>1. RInv => Blame  BY DEF RInv
<1> QED  BY <1>1, RInvariant, PTL
==============================================================================
