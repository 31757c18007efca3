-------------------------- MODULE HandshakeProofs --------------------------
(***************************************************************************)
(* Theorems about Handshake, for every set of targets, with any words, and *)
(* every limit on dictionaries, maps and the pipe.                         *)
(***************************************************************************)
EXTENDS Handshake, SequenceTheorems, TLAPS

WordKinds == {"hello", "flags", "map", "dictLen", "dict", "final"}
Words     == [kind : WordKinds, val : Int]

(* What a target says from its start to its loop, word by word.            *)
Mapped(t) == IF HasMapSize(t.flags) THEN 1 ELSE 0
Listed(t) == IF HasAutodict(t.flags) THEN 1 ELSE 0
Units(t)  == IF HasAutodict(t.flags) /\ t.dict > 0 THEN t.dict ELSE 0
Total(t)  == 3 + Mapped(t) + Listed(t) + Units(t)

W(kind, val) == [kind |-> kind, val |-> val]
Script(t, i) ==
  CASE i = 0 -> W("hello", t.hello)
    [] i = 1 -> W("flags", t.flags)
    [] i = 2 /\ Mapped(t) = 1 -> W("map", t.map)
    [] i = 2 + Mapped(t) /\ Listed(t) = 1 -> W("dictLen", t.dict)
    [] i = Total(t) - 1 -> W("final", t.final)
    [] OTHER -> W("dict", t.hello)

(* How many words of it the client has read and the target has written,    *)
(* from the place where each of them is.                                   *)
Read(t, at, got) ==
  CASE at \in {"new", "hello"} -> 0
    [] at = "flags"   -> 1
    [] at = "map"     -> 2
    [] at = "dictLen" -> 2 + Mapped(t)
    [] at = "dict"    -> 2 + Mapped(t) + Listed(t) + got
    [] at = "final"   -> Total(t) - 1
    [] OTHER          -> Total(t)
Written(t, at, gone) ==
  CASE at \in {"unborn", "hello"} -> 0
    [] at \in {"response", "flags"} -> 1
    [] at = "map"     -> 2
    [] at = "dictLen" -> 2 + Mapped(t)
    [] at = "dict"    -> 2 + Mapped(t) + Listed(t) + gone
    [] at = "final"   -> Total(t) - 1
    [] OTHER          -> Total(t)

TypeOK ==
  /\ cpc \in {"new", "start"} \cup WordKinds \cup Ends
  /\ tpc \in {"unborn", "response", "loop", "dead"} \cup WordKinds
  /\ target \in Target
  /\ greeting \in Int /\ flags \in Int /\ mapSize \in Int /\ observed \in Int
  /\ dictLeft \in Int /\ dict \in Nat /\ sent \in Nat
  /\ ctl \in Seq(Int) /\ st \in Seq(Words)

(* A pipe that holds the words of the script from one position to another. *)
Holds(t, pipe, c, n) ==
  /\ Len(pipe) = n - c
  /\ \A i \in 1 .. Len(pipe) : pipe[i] = Script(t, c + i - 1)

(* What has been written and not yet read is on its way, and the response  *)
(* crosses it.                                                             *)
Crossing(n) ==
  /\ Holds(target, st, Read(target, cpc, dict), n)
  /\ n <= Total(target)
  /\ tpc # "dead" => n = Written(target, tpc, sent)
  /\ n > 1 => ctl = <<>>
Pipes == cpc # "err" => \E n \in Nat : Crossing(n)

Response ==
  cpc # "err" =>
    /\ ctl \in {<<>>, <<Inverted(target.hello)>>}
    /\ cpc \in {"new", "hello"} => ctl = <<>> /\ tpc \in {"unborn", "hello", "response", "dead"}
    /\ tpc \notin {"response", "dead"} => ctl = <<>>
    /\ tpc = "dead" => fault
    /\ cpc = "new" <=> tpc = "unborn"

(* What the target has still to say.                                       *)
TargetKnows ==
  /\ tpc = "map" => HasMapSize(target.flags)
  /\ tpc \in {"dictLen", "dict"} => HasAutodict(target.flags)
  /\ tpc = "dict" => sent <= Units(target)
  /\ tpc \in {"unborn", "hello", "response", "flags", "map", "dictLen"} => sent = 0

(* What the client has learnt.                                             *)
Greeted == greeting = target.hello /\ target.hello = MAGIC + 1
Flagged == flags = target.flags /\ KnownFlags(target.flags)
Sized   == IF HasMapSize(target.flags) THEN mapSize = target.map /\ mapSize >= 0
                                       ELSE mapSize = NoMap
Loaded  == HasAutodict(target.flags) => dict = target.dict /\ target.dict \in 2 .. MaxDict
Knows ==
  /\ cpc \in {"flags", "map", "dictLen", "dict", "final", "start", "ready"} => Greeted
  /\ cpc \in {"map", "dictLen", "dict", "final", "start", "ready"} => Flagged
  /\ cpc \in {"new", "hello", "flags", "map"} => mapSize = NoMap
  /\ cpc \in {"dictLen", "dict", "final", "start", "ready"} => Sized
  /\ cpc = "map" => HasMapSize(target.flags)
  /\ cpc \in {"dictLen", "dict"} => HasAutodict(target.flags)
  /\ cpc \in {"new", "hello", "flags", "map", "dictLen"} => dict = 0
  /\ cpc = "dict" => /\ target.dict \in 2 .. MaxDict
                     /\ dictLeft = target.dict - dict /\ dictLeft > 0
  /\ cpc \in {"final", "start", "ready"} => Loaded
  /\ cpc \in {"start", "ready"} => target.final = target.hello
  /\ cpc \notin {"ready", "err"} => observed = MapLen
  /\ cpc = "ready" =>
       /\ observed = IF HasMapSize(target.flags) THEN target.map ELSE MapLen
       /\ HasMapSize(target.flags) => target.map \in 0 .. MapLen
       /\ SharedInput => HasShmem(target.flags)

Refused == cpc = "err" => fault \/ ~Compatible(target)

IInv == TypeOK /\ Pipes /\ Response /\ TargetKnows /\ Knows /\ Refused
-----------------------------------------------------------------------------
LEMMA StepCases ==
  [Next]_vars =>
    \/ New \/ ReadHello \/ ReadFlags \/ ReadMapSize \/ ReadDictLen \/ ReadDict
    \/ ReadFinal \/ ReadFails \/ Start
    \/ Greets \/ TakesResponse \/ SendsFlags \/ SendsMapSize \/ SendsDictLen
    \/ SendsDict \/ Concludes \/ Dies \/ UNCHANGED vars
BY DEF Next, Client, Server, Steps, Over

LEMMA TotalIsNat ==
  ASSUME NEW t \in Targets
  PROVE  /\ Mapped(t) \in {0, 1} /\ Listed(t) \in {0, 1} /\ Units(t) \in Nat
         /\ Total(t) \in Nat /\ Total(t) >= 3
         /\ Total(t) = 3 + Mapped(t) + Listed(t) + Units(t)
BY DEF Targets, Mapped, Listed, Units, Total

LEMMA ScriptWord ==
  ASSUME NEW t \in Targets, NEW i \in Nat
  PROVE  Script(t, i) \in Words
BY DEF Script, W, Words, WordKinds, Targets

(* A word in the middle of the script is the one the client reads there.   *)
LEMMA ScriptAt ==
  ASSUME NEW t \in Targets
  PROVE  /\ Script(t, 0) = W("hello", t.hello)
         /\ Script(t, 1) = W("flags", t.flags)
         /\ Mapped(t) = 1 => Script(t, 2) = W("map", t.map)
         /\ Listed(t) = 1 => Script(t, 2 + Mapped(t)) = W("dictLen", t.dict)
         /\ \A k \in 0 .. Units(t) - 1 :
              Script(t, 2 + Mapped(t) + Listed(t) + k) = W("dict", t.hello)
         /\ Script(t, Total(t) - 1) = W("final", t.final)
<1>1. /\ Mapped(t) \in {0, 1} /\ Listed(t) \in {0, 1} /\ Units(t) \in Nat
      /\ Total(t) = 3 + Mapped(t) + Listed(t) + Units(t)
      /\ Listed(t) = 0 => Units(t) = 0
  BY DEF Targets, Mapped, Listed, Units, Total
<1>2. QED
  BY <1>1 DEF Script

LEMMA HoldsTail ==
  ASSUME NEW t \in Targets, NEW s \in Seq(Words), s # <<>>, NEW c \in Nat, NEW n \in Nat,
         Holds(t, s, c, n)
  PROVE  Head(s) = Script(t, c) /\ Holds(t, Tail(s), c + 1, n)
BY DEF Holds

LEMMA HoldsAppend ==
  ASSUME NEW t \in Targets, NEW s \in Seq(Words), NEW c \in Nat, NEW n \in Nat,
         Holds(t, s, c, n)
  PROVE  Holds(t, Append(s, Script(t, n)), c, n + 1)
<1>1. Script(t, n) \in Words
  BY ScriptWord
<1>2. /\ Append(s, Script(t, n)) \in Seq(Words)
      /\ Len(Append(s, Script(t, n))) = Len(s) + 1
      /\ \A i \in 1 .. Len(s) : Append(s, Script(t, n))[i] = s[i]
      /\ Append(s, Script(t, n))[Len(s) + 1] = Script(t, n)
  BY <1>1, AppendProperties
<1>3. QED
  BY <1>2 DEF Holds

LEMMA MagicIsInt == MAGIC \in Int
BY SMT DEF MAGIC

(* The one greeting that is taken.                                         *)
LEMMA Supported ==
  \A h \in Int : ~HasErrorFlag(h) /\ VersionSupported(h) <=> h = MAGIC + 1
<1>1. ~HasErrorFlag(MAGIC + 1)
  BY SMT DEF HasErrorFlag, MAGIC
<1>2. QED
  BY <1>1, MagicIsInt DEF VersionSupported

(* What the client reads next is what it is at.                            *)
LEMMA Incoming ==
  ASSUME IInv, cpc # "err", st # <<>>
  PROVE  /\ cpc \in WordKinds /\ Head(st).kind = cpc /\ Head(st).val \in Int
         /\ cpc = "hello"   => Head(st).val = target.hello
         /\ cpc = "flags"   => Head(st).val = target.flags
         /\ cpc = "map"     => Head(st).val = target.map
         /\ cpc = "dictLen" => Head(st).val = target.dict
         /\ cpc = "final"   => Head(st).val = target.final
<1>1. target \in Targets /\ st \in Seq(Words) /\ dict \in Nat
  BY HandshakeAssumption DEF IInv, TypeOK
<1>2. PICK n \in Nat : Crossing(n)
  BY DEF IInv, Pipes
<1>3. /\ Mapped(target) \in {0, 1} /\ Listed(target) \in {0, 1} /\ Units(target) \in Nat
      /\ Total(target) \in Nat /\ Total(target) >= 3
      /\ Total(target) = 3 + Mapped(target) + Listed(target) + Units(target)
  BY <1>1, TotalIsNat
<1>4. Read(target, cpc, dict) \in Nat
  BY <1>1, <1>3 DEF Read
<1>5. Head(st) = Script(target, Read(target, cpc, dict))
  BY <1>1, <1>2, <1>4, HoldsTail DEF Crossing
<1>6. Len(st) > 0 /\ n > Read(target, cpc, dict) /\ n <= Total(target)
  BY <1>1, <1>2, <1>4 DEF Crossing, Holds
<1>7. cpc \in WordKinds
  <2>1. cpc # "new"
    BY <1>2, <1>6 DEF Crossing, IInv, Response, Written, Read
  <2>2. cpc \notin {"start", "ready"}
    BY <1>6, <1>3 DEF Read
  <2>3. QED
    BY <2>1, <2>2 DEF IInv, TypeOK, Ends
<1>8. Head(st) = CASE cpc = "hello"   -> W("hello", target.hello)
                   [] cpc = "flags"   -> W("flags", target.flags)
                   [] cpc = "map"     -> W("map", target.map)
                   [] cpc = "dictLen" -> W("dictLen", target.dict)
                   [] cpc = "dict"    -> W("dict", target.hello)
                   [] cpc = "final"   -> W("final", target.final)
  <2>1. CASE cpc = "dict"
    <3>1. dict \in 0 .. Units(target) - 1
      BY <1>1, <2>1 DEF IInv, Knows, Units
    <3>2. QED
      BY <1>1, <1>5, <2>1, <3>1, ScriptAt DEF Read
  <2>2. CASE cpc # "dict"
    <3>1. /\ cpc = "map" => Mapped(target) = 1
          /\ cpc = "dictLen" => Listed(target) = 1
      BY DEF IInv, Knows, Mapped, Listed
    <3>2. QED
      BY <1>1, <1>5, <1>7, <2>2, <3>1, ScriptAt DEF Read, WordKinds
  <2>3. QED
    BY <2>1, <2>2
<1>9. QED
  BY <1>1, <1>7, <1>8 DEF W, WordKinds, Targets

(* The target has written the script up to where it is.                    *)
LEMMA WrittenIsNat ==
  ASSUME IInv
  PROVE  /\ target \in Targets
         /\ Written(target, tpc, sent) \in Nat /\ Written(target, tpc, sent) <= Total(target)
         /\ Read(target, cpc, dict) \in Nat
<1>1. target \in Targets /\ sent \in Nat /\ dict \in Nat
  BY HandshakeAssumption DEF IInv, TypeOK
<1>2. /\ Mapped(target) \in {0, 1} /\ Listed(target) \in {0, 1} /\ Units(target) \in Nat
      /\ Total(target) = 3 + Mapped(target) + Listed(target) + Units(target)
  BY <1>1, TotalIsNat
<1>3. /\ tpc = "map" => Mapped(target) = 1
      /\ tpc \in {"dictLen", "dict"} => Listed(target) = 1
      /\ tpc = "dict" => sent <= Units(target)
  BY DEF IInv, TargetKnows, Mapped, Listed
<1>4. QED
  BY <1>1, <1>2, <1>3 DEF Written, Read

(* A greeting has been sent by a target that has gone on to its next read.  *)
LEMMA Hello ==
  ASSUME IInv, cpc = "hello", st # <<>>, tpc = "hello"
  PROVE  FALSE
<1>1. PICK n \in Nat : Crossing(n)
  BY DEF IInv, Pipes
<1>2. Len(st) > 0 /\ n = 0 /\ Read(target, cpc, dict) = 0
  BY <1>1 DEF Crossing, Written, Read, IInv, TypeOK
<1>3. QED
  BY <1>1, <1>2 DEF Crossing, Holds

LEMMA CompatibleMeans ==
  ASSUME NEW t \in Targets
  PROVE  Compatible(t) <=>
           /\ t.hello = MAGIC + 1 /\ t.final = t.hello
           /\ KnownFlags(t.flags)
           /\ HasMapSize(t.flags) => t.map \in 0 .. MapLen
           /\ SharedInput => HasShmem(t.flags)
           /\ HasAutodict(t.flags) => t.dict \in 2 .. MaxDict
<1>1. \A m \in {0, 1}, s \in {0, 2}, a \in {0, 2048} :
        /\ KnownFlags(m + s + a)
        /\ HasMapSize(m + s + a) <=> m # 0
        /\ HasShmem(m + s + a) <=> s # 0
        /\ HasAutodict(m + s + a) <=> a # 0
  BY SMT DEF KnownFlags, HasMapSize, HasShmem, HasAutodict
<1>2. KnownFlags(t.flags) <=>
        \E m \in {0, 1}, s \in {0, 2}, a \in {0, 2048} : t.flags = m + s + a
  BY SMT DEF KnownFlags, Targets
<1>3. QED
  BY <1>1, <1>2 DEF Compatible

LEMMA TypeStep == IInv /\ [Next]_vars => TypeOK'
<1> SUFFICES ASSUME IInv, [Next]_vars PROVE TypeOK'
  OBVIOUS
<1> USE DEF IInv, TypeOK, client, server, Ends, WordKinds, AfterMap, DictOrFinal
<1>a. /\ target \in Targets
      /\ target.hello \in Int /\ target.flags \in Int /\ target.map \in Int
      /\ target.dict \in Int /\ target.final \in Int
  BY HandshakeAssumption DEF Targets, IInv, TypeOK
<1>b. /\ cpc # "err" /\ st # <<>> => Head(st).val \in Int
      /\ st # <<>> => Tail(st) \in Seq(Words)
      /\ \A k \in WordKinds, v \in Int : Append(st, [kind |-> k, val |-> v]) \in Seq(Words)
  BY Incoming DEF IInv, TypeOK, Words
<1>c. /\ \A v \in Int : Inverted(v) \in Int /\ Append(ctl, Inverted(v)) \in Seq(Int)
      /\ ctl # <<>> => Tail(ctl) \in Seq(Int)
  BY DEF Inverted, IInv, TypeOK
<1>1. CASE New
  BY <1>1, <1>a, <1>b, <1>c DEF New
<1>2. CASE ReadHello
  BY <1>2, <1>a, <1>b, <1>c DEF ReadHello, Reads, Abort
<1>3. CASE ReadFlags
  BY <1>3, <1>a, <1>b, <1>c DEF ReadFlags, Reads, Abort
<1>4. CASE ReadMapSize
  BY <1>4, <1>a, <1>b, <1>c DEF ReadMapSize, Reads, Abort
<1>5. CASE ReadDictLen
  BY <1>5, <1>a, <1>b, <1>c DEF ReadDictLen, Reads, Abort
<1>6. CASE ReadDict
  BY <1>6, <1>a, <1>b, <1>c DEF ReadDict, Reads
<1>7. CASE ReadFinal
  BY <1>7, <1>a, <1>b, <1>c DEF ReadFinal, Reads, Abort
<1>8. CASE ReadFails
  BY <1>8, <1>a, <1>b, <1>c DEF ReadFails, Abort, Eof
<1>9. CASE Start
  BY <1>9, <1>a, <1>b, <1>c DEF Start, Abort
<1>10. CASE Greets
  BY <1>10, <1>a, <1>b, <1>c DEF Greets, Write, Word
<1>11. CASE TakesResponse
  BY <1>11, <1>a, <1>b, <1>c DEF TakesResponse
<1>12. CASE SendsFlags
  BY <1>12, <1>a, <1>b, <1>c DEF SendsFlags, Write, Word
<1>13. CASE SendsMapSize
  BY <1>13, <1>a, <1>b, <1>c DEF SendsMapSize, Write, Word
<1>14. CASE SendsDictLen
  BY <1>14, <1>a, <1>b, <1>c DEF SendsDictLen, Write, Word
<1>15. CASE SendsDict
  <2>1. CASE sent < target.dict
    <3>1. /\ st' = Append(st, [kind |-> "dict", val |-> target.hello])
          /\ sent' = sent + 1 /\ UNCHANGED <<tpc, client, ctl, target, fault>>
      BY <1>15, <2>1 DEF SendsDict, Word
    <3>2. st' \in Seq(Words) /\ sent' \in Nat
      BY <1>a, <1>b, <3>1
    <3>3. QED
      BY <3>1, <3>2
  <2>2. CASE ~(sent < target.dict)
    <3>1. tpc' = "final" /\ UNCHANGED <<st, sent, client, ctl, target, fault>>
      BY <1>15, <2>2 DEF SendsDict
    <3>2. QED
      BY <3>1
  <2>3. QED
    BY <2>1, <2>2
<1>16. CASE Concludes
  BY <1>16, <1>a, <1>b, <1>c DEF Concludes, Write, Word
<1>17. CASE Dies
  BY <1>17, <1>a, <1>b, <1>c DEF Dies
<1>18. CASE UNCHANGED vars
  BY <1>18, <1>a, <1>b, <1>c DEF vars
<1>19. QED
  BY <1>1, <1>2, <1>3, <1>4, <1>5, <1>6, <1>7, <1>8, <1>9, <1>10, <1>11, <1>12, <1>13,
     <1>14, <1>15, <1>16, <1>17, <1>18, StepCases

LEMMA ResponseStep == IInv /\ [Next]_vars => Response'
<1> SUFFICES ASSUME IInv, [Next]_vars PROVE Response'
  OBVIOUS
<1> USE HandshakeAssumption DEF IInv, TypeOK, client, server, Ends, WordKinds, Response,
   AfterMap, DictOrFinal
<1>a. cpc # "err" /\ st # <<>> =>
        /\ cpc = "hello"   => Head(st).val = target.hello
        /\ cpc = "flags"   => Head(st).val = target.flags
        /\ cpc = "map"     => Head(st).val = target.map
        /\ cpc = "dictLen" => Head(st).val = target.dict
        /\ cpc = "final"   => Head(st).val = target.final
  BY Incoming
<1>c. /\ Append(<<>>, Inverted(target.hello)) = <<Inverted(target.hello)>>
      /\ Tail(<<Inverted(target.hello)>>) = <<>>
      /\ Head(<<Inverted(target.hello)>>) = Inverted(target.hello)
  OBVIOUS
<1>d. cpc # "err" => (cpc \in {"new", "hello"} => ctl = <<>>)
  OBVIOUS
<1>1. CASE New
  BY <1>1, <1>a, <1>c DEF New
<1>2. CASE ReadHello
  <2>1. CASE cpc' = "err"
    BY <2>1
  <2>2. CASE cpc' # "err"
    <3>1. /\ cpc = "hello" /\ st # <<>> /\ cpc' = "flags" /\ tpc # "dead"
          /\ ctl' = Append(ctl, Inverted(Head(st).val)) /\ UNCHANGED <<tpc, target, fault>>
      BY <1>2, <2>2 DEF ReadHello, Reads, Abort
    <3>2. ctl' = <<Inverted(target.hello)>> /\ tpc \in {"hello", "response"}
      BY <1>a, <1>c, <3>1
    <3>3. tpc = "response"
      BY <3>1, <3>2, Hello
    <3>4. QED
      BY <3>1, <3>2, <3>3
  <2>3. QED
    BY <2>1, <2>2
<1>3. CASE ReadFlags
  BY <1>3, <1>a, <1>c DEF ReadFlags, Reads, Abort
<1>4. CASE ReadMapSize
  BY <1>4, <1>a, <1>c DEF ReadMapSize, Reads, Abort
<1>5. CASE ReadDictLen
  BY <1>5, <1>a, <1>c DEF ReadDictLen, Reads, Abort
<1>6. CASE ReadDict
  BY <1>6, <1>a, <1>c DEF ReadDict, Reads
<1>7. CASE ReadFinal
  BY <1>7, <1>a, <1>c DEF ReadFinal, Reads, Abort
<1>8. CASE ReadFails
  BY <1>8, <1>a, <1>c DEF ReadFails, Abort, Eof
<1>9. CASE Start
  BY <1>9, <1>a, <1>c DEF Start, Abort
<1>10. CASE Greets
  BY <1>10, <1>a, <1>c DEF Greets, Write, Word
<1>11. CASE TakesResponse
  <2>1. CASE cpc = "err"
    BY <1>11, <2>1 DEF TakesResponse
  <2>2. CASE cpc # "err"
    <3>1. ctl = <<Inverted(target.hello)>> /\ ctl' = Tail(ctl)
      BY <1>11, <2>2 DEF TakesResponse
    <3>2. ctl' = <<>> /\ tpc' = "flags" /\ UNCHANGED <<client, target, fault>>
      BY <1>11, <1>c, <3>1 DEF TakesResponse
    <3>3. cpc \notin {"new", "hello"}
      BY <2>2, <3>1, <1>d
    <3>4. QED
      BY <3>1, <3>2, <3>3, <1>11 DEF TakesResponse
  <2>3. QED
    BY <2>1, <2>2
<1>12. CASE SendsFlags
  BY <1>12, <1>a, <1>c DEF SendsFlags, Write, Word
<1>13. CASE SendsMapSize
  BY <1>13, <1>a, <1>c DEF SendsMapSize, Write, Word
<1>14. CASE SendsDictLen
  BY <1>14, <1>a, <1>c DEF SendsDictLen, Write, Word
<1>15. CASE SendsDict
  BY <1>15, <1>a, <1>c DEF SendsDict, Word
<1>16. CASE Concludes
  BY <1>16, <1>a, <1>c DEF Concludes, Write, Word
<1>17. CASE Dies
  BY <1>17, <1>a, <1>c DEF Dies
<1>18. CASE UNCHANGED vars
  BY <1>18, <1>a, <1>c DEF vars
<1>19. QED
  BY <1>1, <1>2, <1>3, <1>4, <1>5, <1>6, <1>7, <1>8, <1>9, <1>10, <1>11, <1>12, <1>13,
     <1>14, <1>15, <1>16, <1>17, <1>18, StepCases

LEMMA TargetKnowsStep == IInv /\ [Next]_vars => TargetKnows'
<1> SUFFICES ASSUME IInv, [Next]_vars PROVE TargetKnows'
  OBVIOUS
<1> USE HandshakeAssumption DEF IInv, TypeOK, client, server, Ends, WordKinds,
   TargetKnows, Response, Units, Targets, DictOrFinal
<1>1. CASE New
  BY <1>1 DEF New
<1>2. CASE ReadHello
  BY <1>2 DEF ReadHello, Reads, Abort
<1>3. CASE ReadFlags
  BY <1>3 DEF ReadFlags, Reads, Abort
<1>4. CASE ReadMapSize
  BY <1>4 DEF ReadMapSize, Reads, Abort
<1>5. CASE ReadDictLen
  BY <1>5 DEF ReadDictLen, Reads, Abort
<1>6. CASE ReadDict
  BY <1>6 DEF ReadDict, Reads
<1>7. CASE ReadFinal
  BY <1>7 DEF ReadFinal, Reads, Abort
<1>8. CASE ReadFails
  BY <1>8 DEF ReadFails, Abort, Eof
<1>9. CASE Start
  BY <1>9 DEF Start, Abort
<1>10. CASE Greets
  BY <1>10 DEF Greets, Write, Word
<1>11. CASE TakesResponse
  BY <1>11 DEF TakesResponse
<1>12. CASE SendsFlags
  BY <1>12 DEF SendsFlags, Write, Word
<1>13. CASE SendsMapSize
  BY <1>13 DEF SendsMapSize, Write, Word
<1>14. CASE SendsDictLen
  BY <1>14 DEF SendsDictLen, Write, Word
<1>15. CASE SendsDict
  BY <1>15 DEF SendsDict, Word
<1>16. CASE Concludes
  BY <1>16 DEF Concludes, Write, Word
<1>17. CASE Dies
  BY <1>17 DEF Dies
<1>18. CASE UNCHANGED vars
  BY <1>18 DEF vars
<1>19. QED
  BY <1>1, <1>2, <1>3, <1>4, <1>5, <1>6, <1>7, <1>8, <1>9, <1>10, <1>11, <1>12, <1>13,
     <1>14, <1>15, <1>16, <1>17, <1>18, StepCases

LEMMA KnowsStep == IInv /\ [Next]_vars => Knows'
<1> SUFFICES ASSUME IInv, [Next]_vars PROVE Knows'
  OBVIOUS
<1> USE HandshakeAssumption DEF IInv, TypeOK, client, server, Ends, WordKinds, Knows,
   Greeted, Flagged, Sized, Loaded, AfterMap, NoMap
<1>a. cpc # "err" /\ st # <<>> =>
        /\ cpc = "hello"   => Head(st).val = target.hello
        /\ cpc = "flags"   => Head(st).val = target.flags
        /\ cpc = "map"     => Head(st).val = target.map
        /\ cpc = "dictLen" => Head(st).val = target.dict
        /\ cpc = "final"   => Head(st).val = target.final
  BY Incoming
<1>b. /\ target \in Targets
      /\ target.hello \in Int /\ target.flags \in Int /\ target.map \in Int
      /\ target.dict \in Int /\ target.final \in Int
  BY HandshakeAssumption DEF Targets, IInv, TypeOK
<1>1. CASE New
  BY <1>1, <1>a, <1>b, Supported DEF New
<1>2. CASE ReadHello
  BY <1>2, <1>a, <1>b, Supported DEF ReadHello, Reads, Abort
<1>3. CASE ReadFlags
  BY <1>3, <1>a, <1>b, Supported DEF ReadFlags, Reads, Abort
<1>4. CASE ReadMapSize
  BY <1>4, <1>a, <1>b, Supported DEF ReadMapSize, Reads, Abort
<1>5. CASE ReadDictLen
  BY <1>5, <1>a, <1>b, Supported DEF ReadDictLen, Reads, Abort
<1>6. CASE ReadDict
  <2>1. /\ cpc = "dict" /\ dictLeft' = dictLeft - 1 /\ dict' = dict + 1
        /\ cpc' = IF dictLeft' = 0 THEN "final" ELSE "dict"
        /\ UNCHANGED <<greeting, flags, mapSize, observed, target>>
    BY <1>6 DEF ReadDict
  <2>2. dictLeft' = target.dict - dict' /\ target.dict \in 2 .. MaxDict /\ dictLeft > 0
    BY <1>b, <2>1
  <2>3. CASE dictLeft' = 0
    <3>1. cpc' = "final" /\ dict' = target.dict
      BY <1>b, <2>1, <2>2, <2>3
    <3>2. QED
      BY <2>1, <2>2, <3>1
  <2>4. CASE dictLeft' # 0
    <3>1. cpc' = "dict" /\ dictLeft' > 0
      BY <1>b, <2>1, <2>2, <2>4
    <3>2. QED
      BY <2>1, <2>2, <3>1
  <2>5. QED
    BY <2>3, <2>4
<1>7. CASE ReadFinal
  BY <1>7, <1>a, <1>b, Supported DEF ReadFinal, Reads, Abort
<1>8. CASE ReadFails
  BY <1>8, <1>a, <1>b, Supported DEF ReadFails, Abort, Eof
<1>9. CASE Start
  BY <1>9, <1>a, <1>b, Supported DEF Start, Abort
<1>10. CASE Greets
  BY <1>10, <1>a, <1>b, Supported DEF Greets, Write, Word
<1>11. CASE TakesResponse
  BY <1>11, <1>a, <1>b, Supported DEF TakesResponse
<1>12. CASE SendsFlags
  BY <1>12, <1>a, <1>b, Supported DEF SendsFlags, Write, Word
<1>13. CASE SendsMapSize
  BY <1>13, <1>a, <1>b, Supported DEF SendsMapSize, Write, Word
<1>14. CASE SendsDictLen
  BY <1>14, <1>a, <1>b, Supported DEF SendsDictLen, Write, Word
<1>15. CASE SendsDict
  BY <1>15, <1>a, <1>b, Supported DEF SendsDict, Word
<1>16. CASE Concludes
  BY <1>16, <1>a, <1>b, Supported DEF Concludes, Write, Word
<1>17. CASE Dies
  BY <1>17, <1>a, <1>b, Supported DEF Dies
<1>18. CASE UNCHANGED vars
  BY <1>18, <1>a, <1>b, Supported DEF vars
<1>19. QED
  BY <1>1, <1>2, <1>3, <1>4, <1>5, <1>6, <1>7, <1>8, <1>9, <1>10, <1>11, <1>12, <1>13,
     <1>14, <1>15, <1>16, <1>17, <1>18, StepCases

LEMMA RefusedStep == IInv /\ [Next]_vars => Refused'
<1> SUFFICES ASSUME IInv, [Next]_vars PROVE Refused'
  OBVIOUS
<1> USE HandshakeAssumption DEF IInv, TypeOK, client, server, Ends, WordKinds, Refused,
   Response, Knows, Greeted, Flagged, Sized, Loaded, NoMap, AfterMap
<1>a. cpc # "err" /\ st # <<>> =>
        /\ cpc = "hello"   => Head(st).val = target.hello
        /\ cpc = "flags"   => Head(st).val = target.flags
        /\ cpc = "map"     => Head(st).val = target.map
        /\ cpc = "dictLen" => Head(st).val = target.dict
        /\ cpc = "final"   => Head(st).val = target.final
  BY Incoming
<1>b. /\ target \in Targets
      /\ target.hello \in Int /\ target.flags \in Int /\ target.map \in Int
      /\ target.dict \in Int /\ target.final \in Int
  BY HandshakeAssumption DEF Targets, IInv, TypeOK
<1>1. CASE New
  BY <1>1, <1>a, <1>b, Supported, CompatibleMeans DEF New
<1>2. CASE ReadHello
  BY <1>2, <1>a, <1>b, Supported, CompatibleMeans DEF ReadHello, Reads, Abort
<1>3. CASE ReadFlags
  <2>1. CASE cpc' # "err"
    BY <2>1
  <2>2. CASE cpc' = "err"
    <3>1. ~KnownFlags(target.flags) /\ UNCHANGED <<target, fault>>
      BY <1>3, <1>a, <2>2 DEF ReadFlags, Reads, Abort
    <3>2. QED
      BY <1>b, <3>1, CompatibleMeans
  <2>3. QED
    BY <2>1, <2>2
<1>4. CASE ReadMapSize
  <2>1. CASE cpc' # "err"
    BY <2>1
  <2>2. CASE cpc' = "err"
    <3>1. HasMapSize(target.flags) /\ ~(target.map >= 0) /\ UNCHANGED <<target, fault>>
      BY <1>4, <1>a, <2>2 DEF ReadMapSize, Reads, Abort
    <3>2. QED
      BY <1>b, <3>1, CompatibleMeans
  <2>3. QED
    BY <2>1, <2>2
<1>5. CASE ReadDictLen
  BY <1>5, <1>a, <1>b, Supported, CompatibleMeans DEF ReadDictLen, Reads, Abort
<1>6. CASE ReadDict
  BY <1>6, <1>a, <1>b, Supported, CompatibleMeans DEF ReadDict, Reads
<1>7. CASE ReadFinal
  BY <1>7, <1>a, <1>b, Supported, CompatibleMeans DEF ReadFinal, Reads, Abort
<1>8. CASE ReadFails
  BY <1>8, <1>a, <1>b, Supported, CompatibleMeans DEF ReadFails, Abort, Eof
<1>9. CASE Start
  BY <1>9, <1>a, <1>b, Supported, CompatibleMeans DEF Start, Abort
<1>10. CASE Greets
  BY <1>10, <1>a, <1>b, Supported, CompatibleMeans DEF Greets, Write, Word
<1>11. CASE TakesResponse
  BY <1>11, <1>a, <1>b, Supported, CompatibleMeans DEF TakesResponse
<1>12. CASE SendsFlags
  BY <1>12, <1>a, <1>b, Supported, CompatibleMeans DEF SendsFlags, Write, Word
<1>13. CASE SendsMapSize
  BY <1>13, <1>a, <1>b, Supported, CompatibleMeans DEF SendsMapSize, Write, Word
<1>14. CASE SendsDictLen
  BY <1>14, <1>a, <1>b, Supported, CompatibleMeans DEF SendsDictLen, Write, Word
<1>15. CASE SendsDict
  BY <1>15, <1>a, <1>b, Supported, CompatibleMeans DEF SendsDict, Word
<1>16. CASE Concludes
  BY <1>16, <1>a, <1>b, Supported, CompatibleMeans DEF Concludes, Write, Word
<1>17. CASE Dies
  BY <1>17, <1>a, <1>b, Supported, CompatibleMeans DEF Dies
<1>18. CASE UNCHANGED vars
  BY <1>18, <1>a, <1>b, Supported, CompatibleMeans DEF vars
<1>19. QED
  BY <1>1, <1>2, <1>3, <1>4, <1>5, <1>6, <1>7, <1>8, <1>9, <1>10, <1>11, <1>12, <1>13,
     <1>14, <1>15, <1>16, <1>17, <1>18, StepCases

(* The parts of the script, from the options.                              *)
LEMMA Parts ==
  ASSUME NEW t \in Targets
  PROVE  /\ Mapped(t) = IF HasMapSize(t.flags) THEN 1 ELSE 0
         /\ Listed(t) = IF HasAutodict(t.flags) THEN 1 ELSE 0
         /\ ~HasAutodict(t.flags) => Units(t) = 0
         /\ HasAutodict(t.flags) => Units(t) = IF t.dict > 0 THEN t.dict ELSE 0
         /\ Total(t) = 3 + Mapped(t) + Listed(t) + Units(t)
         /\ Units(t) \in Nat /\ t.dict \in Int
BY DEF Targets, Mapped, Listed, Units, Total

(* The client reads one word and moves one place on in the script.         *)
LEMMA ClientReads ==
  ASSUME IInv, Reads, cpc # "err", cpc' # "err",
         UNCHANGED <<target, tpc, sent>>,
         ctl' = ctl \/ tpc = "response",
         Read(target, cpc', dict') = Read(target, cpc, dict) + 1
  PROVE  Pipes'
<1>1. PICK n \in Nat : Crossing(n)
  BY DEF IInv, Pipes
<1>2. target \in Targets /\ Read(target, cpc, dict) \in Nat
  BY WrittenIsNat
<1>3. Holds(target, Tail(st), Read(target, cpc, dict) + 1, n)
  BY <1>1, <1>2, HoldsTail DEF Crossing, Reads, IInv, TypeOK
<1>4. n > 1 => ctl' = <<>>
  BY <1>1 DEF Crossing, Written
<1>5. Crossing(n)'
  BY <1>1, <1>3, <1>4 DEF Crossing, Reads
<1>6. QED
  BY <1>5 DEF Pipes

(* The target writes the next word of the script and moves on.             *)
LEMMA TargetWrites ==
  ASSUME IInv, tpc # "dead", tpc' # "dead",
         st' = Append(st, Script(target, Written(target, tpc, sent))),
         UNCHANGED <<client, target>>,
         Written(target, tpc', sent') = Written(target, tpc, sent) + 1,
         Written(target, tpc', sent') <= Total(target),
         Written(target, tpc, sent) > 0 => ctl' = <<>>
  PROVE  Pipes'
<1> SUFFICES ASSUME cpc # "err" PROVE Pipes'
  BY DEF Pipes, client
<1>1. PICK n \in Nat : Crossing(n)
  BY DEF IInv, Pipes
<1>2. target \in Targets /\ Read(target, cpc, dict) \in Nat
  BY WrittenIsNat
<1>3. n = Written(target, tpc, sent)
  BY <1>1 DEF Crossing
<1>4. Holds(target, Append(st, Script(target, n)), Read(target, cpc, dict), n + 1)
  BY <1>1, <1>2, HoldsAppend DEF Crossing, IInv, TypeOK
<1>5. Crossing(n + 1)'
  BY <1>3, <1>4 DEF Crossing, client
<1>6. QED
  BY <1>5 DEF Pipes

LEMMA PipesStep == IInv /\ [Next]_vars => Pipes'
<1> SUFFICES ASSUME IInv, [Next]_vars PROVE Pipes'
  OBVIOUS
<1>a. cpc = "err" => cpc' = "err"
  <2>1. CASE Client
    BY <2>1 DEF Client, New, ReadHello, ReadFlags, ReadMapSize, ReadDictLen, ReadDict,
       ReadFinal, ReadFails, Start
  <2>2. CASE Server
    BY <2>2 DEF Server, Steps, client, Greets, TakesResponse, SendsFlags, SendsMapSize,
       SendsDictLen, SendsDict, Concludes, Dies, Write
  <2>3. CASE UNCHANGED vars
    BY <2>3 DEF vars, client
  <2>4. QED
    BY <2>1, <2>2, <2>3 DEF Next, Over
<1> SUFFICES ASSUME cpc # "err", cpc' # "err" PROVE Pipes'
  BY <1>a DEF Pipes
<1>1. /\ target \in Targets /\ dict \in Nat /\ sent \in Nat
      /\ Mapped(target) = IF HasMapSize(target.flags) THEN 1 ELSE 0
      /\ Listed(target) = IF HasAutodict(target.flags) THEN 1 ELSE 0
      /\ ~HasAutodict(target.flags) => Units(target) = 0
      /\ HasAutodict(target.flags) =>
           Units(target) = IF target.dict > 0 THEN target.dict ELSE 0
      /\ Total(target) = 3 + Mapped(target) + Listed(target) + Units(target)
      /\ Units(target) \in Nat /\ target.dict \in Int
  BY HandshakeAssumption, Parts DEF IInv, TypeOK
<1>2. Knows /\ Response /\ TargetKnows
  BY DEF IInv
<1>3. /\ Script(target, 0) = W("hello", target.hello)
      /\ Script(target, 1) = W("flags", target.flags)
      /\ Mapped(target) = 1 => Script(target, 2) = W("map", target.map)
      /\ Listed(target) = 1 => Script(target, 2 + Mapped(target)) = W("dictLen", target.dict)
      /\ \A k \in 0 .. Units(target) - 1 :
           Script(target, 2 + Mapped(target) + Listed(target) + k) = W("dict", target.hello)
      /\ Script(target, Total(target) - 1) = W("final", target.final)
  BY <1>1, ScriptAt
<1>4. PICK n \in Nat : Crossing(n)
  BY DEF IInv, Pipes
<1>5. CASE New
  <2>1. /\ cpc' = "hello" /\ tpc' = "hello" /\ cpc = "new" /\ tpc = "unborn"
        /\ UNCHANGED <<st, ctl, target, dict, sent>>
    BY <1>2, <1>5 DEF New, Response
  <2>2. Crossing(n)'
    BY <1>4, <2>1 DEF Crossing, Read, Written
  <2>3. QED
    BY <2>2 DEF Pipes
<1>6. CASE ReadHello
  <2>1. /\ Reads /\ cpc = "hello" /\ cpc' = "flags" /\ tpc # "dead" /\ st # <<>>
        /\ UNCHANGED <<target, tpc, sent, dict>>
    BY <1>6 DEF ReadHello, Reads, Abort, server
  <2>2. tpc = "response"
    BY <1>2, <2>1, Hello DEF Response
  <2>3. QED
    BY <2>1, <2>2, ClientReads DEF Read
<1>7. CASE ReadFlags
  <2>1. /\ Reads /\ cpc = "flags" /\ UNCHANGED <<target, tpc, sent, dict, ctl>>
        /\ cpc' = IF HasMapSize(target.flags) THEN "map"
                  ELSE IF HasAutodict(target.flags) THEN "dictLen" ELSE "final"
    BY <1>7, Incoming DEF ReadFlags, Reads, Abort, server, AfterMap
  <2>2. QED
    BY <1>1, <2>1, ClientReads DEF Read
<1>8. CASE ReadMapSize
  <2>1. /\ Reads /\ cpc = "map" /\ UNCHANGED <<target, tpc, sent, dict, ctl>>
        /\ HasMapSize(target.flags) /\ flags = target.flags
        /\ cpc' = IF HasAutodict(target.flags) THEN "dictLen" ELSE "final"
    BY <1>2, <1>8 DEF ReadMapSize, Abort, server, AfterMap, Knows, Flagged
  <2>2. QED
    BY <1>1, <2>1, ClientReads DEF Read
<1>9. CASE ReadDictLen
  <2>1. /\ Reads /\ cpc = "dictLen" /\ UNCHANGED <<target, tpc, sent, dict, ctl>>
        /\ HasAutodict(target.flags) /\ dict = 0 /\ cpc' = "dict"
    BY <1>2, <1>9 DEF ReadDictLen, Abort, server, Knows
  <2>2. QED
    BY <1>1, <2>1, ClientReads DEF Read
<1>10. CASE ReadDict
  <2>1. /\ Reads /\ cpc = "dict" /\ UNCHANGED <<target, tpc, sent, ctl>>
        /\ HasAutodict(target.flags) /\ dict' = dict + 1 /\ dictLeft' = dictLeft - 1
        /\ cpc' = (IF dictLeft' = 0 THEN "final" ELSE "dict")
        /\ target.dict \in 2 .. MaxDict /\ dictLeft = target.dict - dict
    BY <1>2, <1>10 DEF ReadDict, server, Knows
  <2>2. CASE dictLeft' = 0
    <3>1. cpc' = "final" /\ dict + 1 = Units(target)
      BY <1>1, <2>1, <2>2, HandshakeAssumption
    <3>2. QED
      BY <1>1, <2>1, <3>1, ClientReads DEF Read
  <2>3. CASE dictLeft' # 0
    BY <1>1, <2>1, <2>3, ClientReads DEF Read
  <2>4. QED
    BY <2>2, <2>3
<1>11. CASE ReadFinal
  <2>1. /\ Reads /\ cpc = "final" /\ cpc' = "start" /\ UNCHANGED <<target, tpc, sent, dict, ctl>>
    BY <1>11 DEF ReadFinal, Abort, server
  <2>2. QED
    BY <1>1, <2>1, ClientReads DEF Read
<1>12. CASE ReadFails
  BY <1>12 DEF ReadFails, Abort
<1>13. CASE Start
  <2>1. cpc = "start" /\ cpc' = "ready" /\ UNCHANGED <<target, tpc, sent, dict, ctl, st>>
    BY <1>13 DEF Start, Abort, server
  <2>2. Crossing(n)'
    BY <1>4, <2>1 DEF Crossing, Read
  <2>3. QED
    BY <2>2 DEF Pipes
<1>14. CASE Greets
  BY <1>1, <1>3, <1>14, TargetWrites DEF Greets, Write, Word, W, Written
<1>15. CASE TakesResponse
  <2>1. /\ tpc = "response" /\ tpc' = "flags" /\ ctl' = <<>>
        /\ UNCHANGED <<client, st, target, sent>>
    <3>1. ctl = <<Inverted(target.hello)>>
      BY <1>2, <1>15 DEF TakesResponse, Response
    <3>2. Head(ctl) = Inverted(target.hello) /\ Tail(ctl) = <<>>
      BY <3>1
    <3>3. QED
      BY <1>15, <3>2 DEF TakesResponse
  <2>2. Crossing(n)'
    BY <1>4, <2>1 DEF Crossing, Written, client
  <2>3. QED
    BY <2>2 DEF Pipes
<1>16. CASE SendsFlags
  <2>1. /\ tpc = "flags" /\ ctl' = <<>> /\ UNCHANGED <<client, target, sent>>
        /\ tpc' = IF HasMapSize(target.flags) THEN "map"
                  ELSE IF HasAutodict(target.flags) THEN "dictLen" ELSE "final"
        /\ st' = Append(st, W("flags", target.flags))
    BY <1>2, <1>16 DEF SendsFlags, Write, Word, W, DictOrFinal, Response
  <2>2. Written(target, tpc, sent) = 1 /\ Written(target, tpc', sent') = 2
    BY <1>1, <2>1 DEF Written
  <2>3. QED
    BY <1>1, <1>3, <2>1, <2>2, TargetWrites
<1>17. CASE SendsMapSize
  <2>1. /\ tpc = "map" /\ ctl' = <<>> /\ UNCHANGED <<client, target, sent>>
        /\ HasMapSize(target.flags)
        /\ tpc' = IF HasAutodict(target.flags) THEN "dictLen" ELSE "final"
        /\ st' = Append(st, W("map", target.map))
    BY <1>2, <1>17 DEF SendsMapSize, Write, Word, W, DictOrFinal, Response, TargetKnows
  <2>2. Written(target, tpc, sent) = 2 /\ Written(target, tpc', sent') = 3
    BY <1>1, <2>1 DEF Written
  <2>3. QED
    BY <1>1, <1>3, <2>1, <2>2, TargetWrites
<1>18. CASE SendsDictLen
  <2>1. /\ tpc = "dictLen" /\ tpc' = "dict" /\ ctl' = <<>> /\ UNCHANGED <<client, target, sent>>
        /\ HasAutodict(target.flags) /\ sent = 0
        /\ st' = Append(st, W("dictLen", target.dict))
    BY <1>2, <1>18 DEF SendsDictLen, Write, Word, W, Response, TargetKnows
  <2>2. /\ Written(target, tpc, sent) = 2 + Mapped(target)
        /\ Written(target, tpc', sent') = 3 + Mapped(target)
    BY <1>1, <2>1 DEF Written
  <2>3. QED
    BY <1>1, <1>3, <2>1, <2>2, TargetWrites
<1>19. CASE SendsDict
  <2>1. /\ tpc = "dict" /\ ctl' = <<>> /\ UNCHANGED <<client, target>>
        /\ HasAutodict(target.flags) /\ sent <= Units(target)
    BY <1>2, <1>19 DEF SendsDict, Response, TargetKnows
  <2>2. Written(target, tpc, sent) = 2 + Mapped(target) + Listed(target) + sent
    BY <2>1 DEF Written
  <2>3. CASE sent < target.dict
    <3>1. /\ tpc' = "dict" /\ sent' = sent + 1 /\ sent \in 0 .. Units(target) - 1
          /\ st' = Append(st, W("dict", target.hello))
      BY <1>1, <1>19, <2>1, <2>3 DEF SendsDict, Word, W
    <3>2. Written(target, tpc', sent') = 2 + Mapped(target) + Listed(target) + sent + 1
      BY <1>1, <3>1 DEF Written
    <3>3. QED
      BY <1>1, <1>3, <2>1, <2>2, <3>1, <3>2, TargetWrites
  <2>4. CASE ~(sent < target.dict)
    <3>1. tpc' = "final" /\ UNCHANGED <<st, sent, ctl>> /\ sent = Units(target)
      BY <1>1, <1>19, <2>1, <2>4 DEF SendsDict
    <3>2. Crossing(n)'
      BY <1>1, <1>4, <2>1, <2>2, <3>1 DEF Crossing, Written, client
    <3>3. QED
      BY <3>2 DEF Pipes
  <2>5. QED
    BY <2>3, <2>4
<1>20. CASE Concludes
  <2>1. /\ tpc = "final" /\ tpc' = "loop" /\ ctl' = <<>> /\ UNCHANGED <<client, target, sent>>
        /\ st' = Append(st, W("final", target.final))
    BY <1>2, <1>20 DEF Concludes, Write, Word, W, Response
  <2>2. /\ Written(target, tpc, sent) = Total(target) - 1
        /\ Written(target, tpc', sent') = Total(target)
    BY <2>1 DEF Written
  <2>3. QED
    BY <1>1, <1>3, <2>1, <2>2, TargetWrites
<1>21. CASE Dies
  <2>1. Crossing(n)'
    BY <1>4, <1>21 DEF Crossing, Dies, client
  <2>2. QED
    BY <2>1 DEF Pipes
<1>22. CASE UNCHANGED vars
  <2>1. Crossing(n)'
    BY <1>4, <1>22 DEF Crossing, vars, client, server
  <2>2. QED
    BY <2>1 DEF Pipes
<1>23. QED
  BY <1>5, <1>6, <1>7, <1>8, <1>9, <1>10, <1>11, <1>12, <1>13, <1>14, <1>15, <1>16, <1>17,
     <1>18, <1>19, <1>20, <1>21, <1>22, StepCases

LEMMA IInvInit == Init => IInv
<1> SUFFICES ASSUME Init PROVE IInv
  OBVIOUS
<1> USE DEF Init
<1>1. TypeOK
  BY HandshakeAssumption DEF TypeOK, WordKinds, NoMap
<1>2. Pipes
  <2>1. target \in Targets
    BY HandshakeAssumption
  <2>2. Total(target) >= 3 /\ Total(target) \in Nat
    BY <2>1, TotalIsNat
  <2>3. Crossing(0)
    BY <2>2 DEF Crossing, Holds, Read, Written
  <2>4. QED
    BY <2>3 DEF Pipes
<1>3. Response /\ TargetKnows /\ Knows /\ Refused
  BY DEF Response, TargetKnows, Knows, Refused
<1>4. QED
  BY <1>1, <1>2, <1>3 DEF IInv

LEMMA IInvStep == IInv /\ [Next]_vars => IInv'
BY TypeStep, PipesStep, ResponseStep, TargetKnowsStep, KnowsStep, RefusedStep DEF IInv

LEMMA Inductive == Spec => []IInv
BY IInvInit, IInvStep, PTL DEF Spec

-----------------------------------------------------------------------------
(* Every field of the client and every word on the pipes keeps its type.   *)
THEOREM TypeCorrect == Spec => []TypeOK
<1>1. IInv => TypeOK
  BY DEF IInv
<1>2. QED
  BY <1>1, Inductive, PTL

(* initialize never takes one word of the target for another, whatever the *)
(* words are and however much of the dictionary is under way.              *)
THEOREM InStepHolds == Spec => []InStep
<1>1. IInv => InStep
  BY Incoming DEF InStep, Ends
<1>2. QED
  BY <1>1, Inductive, PTL

(* An executor that LspExecutor::start returns has empty pipes, a fork     *)
(* server at its read, what the target said of itself, and an observer of  *)
(* its map's length.                                                       *)
THEOREM EstablishedHolds == Spec => []Established
<1>1. IInv => Established
  <2> SUFFICES ASSUME IInv, cpc = "ready" PROVE
        /\ st = <<>> /\ ctl = <<>> /\ tpc \in {"loop", "dead"}
        /\ flags = target.flags
        /\ IF HasMapSize(target.flags) THEN observed = target.map ELSE observed = MapLen
        /\ HasAutodict(target.flags) => dict = target.dict
    BY DEF Established
  <2>1. PICK n \in Nat : Crossing(n)
    BY DEF IInv, Pipes
  <2>2. /\ target \in Targets /\ sent \in Nat
        /\ Total(target) \in Nat /\ Total(target) >= 3
        /\ Total(target) = 3 + Mapped(target) + Listed(target) + Units(target)
        /\ Mapped(target) \in {0, 1} /\ Listed(target) \in {0, 1} /\ Units(target) \in Nat
    BY HandshakeAssumption, TotalIsNat DEF IInv, TypeOK
  <2>3. n = Total(target) /\ Len(st) = 0
    BY <2>1, <2>2 DEF Crossing, Holds, Read, IInv, TypeOK
  <2>4. st = <<>> /\ ctl = <<>>
    BY <2>1, <2>2, <2>3 DEF Crossing, IInv, TypeOK
  <2>5. tpc \in {"loop", "dead"}
    <3>1. tpc = "dead" \/ Written(target, tpc, sent) = Total(target)
      BY <2>1, <2>3 DEF Crossing
    <3>2. /\ tpc = "map" => Mapped(target) = 1
          /\ tpc \in {"dictLen", "dict"} => Listed(target) = 1
          /\ tpc = "dict" => sent <= Units(target)
      BY DEF IInv, TargetKnows, Mapped, Listed
    <3>3. tpc \in {"unborn", "response", "loop", "dead"} \cup WordKinds
      BY DEF IInv, TypeOK
    <3>4. tpc \in {"unborn", "response"} \cup WordKinds =>
            Written(target, tpc, sent) < Total(target)
      <4>1. CASE tpc \in {"unborn", "hello", "response", "flags", "map"}
        BY <2>2, <4>1 DEF Written
      <4>2. CASE tpc = "dictLen"
        BY <2>2, <3>2, <4>2 DEF Written
      <4>3. CASE tpc = "dict"
        BY <2>2, <3>2, <4>3 DEF Written
      <4>4. CASE tpc = "final"
        BY <2>2, <4>4 DEF Written
      <4>5. QED
        BY <4>1, <4>2, <4>3, <4>4 DEF WordKinds
    <3>5. QED
      BY <2>2, <3>1, <3>3, <3>4
  <2>6. QED
    BY <2>4, <2>5 DEF IInv, Knows, Flagged, Loaded
<1>2. QED
  BY <1>1, Inductive, PTL

(* LspExecutor::start accepts exactly the targets it can work with.        *)
THEOREM AcceptsExactlyHolds == Spec => []AcceptsExactly
<1>1. IInv => AcceptsExactly
  <2> SUFFICES ASSUME IInv PROVE AcceptsExactly
    OBVIOUS
  <2>1. target \in Targets
    BY HandshakeAssumption DEF IInv, TypeOK
  <2>2. cpc = "ready" => Compatible(target)
    BY <2>1, CompatibleMeans DEF IInv, Knows, Greeted, Flagged, Loaded
  <2>3. QED
    BY <2>2 DEF IInv, Refused, AcceptsExactly
<1>2. QED
  BY <1>1, Inductive, PTL

=============================================================================
