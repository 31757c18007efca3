----------------------------- MODULE Handshake ------------------------------
(***************************************************************************)
(* How an LspExecutor comes to be: NeoForkServer::new and initialize       *)
(* (execution/fork_server.rs) and the rest of LspExecutor::start           *)
(* (execution/mod.rs), against the start of an AFL++ fork server           *)
(* (external).  Where it ends well, ForkServer begins.                     *)
(*                                                                         *)
(* The status pipe carries bare 32-bit words.  Each is tagged with what    *)
(* its writer meant; only properties look at the tags.                     *)
(***************************************************************************)
EXTENDS Integers, Sequences

CONSTANTS
  Target,      (* the targets that may be started; see Targets             *)
  MaxDict,     (* tokens_size_max, in units of dictionary data             *)
  PipeSize,    (* how much of the dictionary fits into the status pipe     *)
  MapLen,      (* length of the map observer                               *)
  SharedInput  (* is fuzz_input FuzzInput::SharedMemory?                   *)

MAGIC == 1095126016   (* AFL_MAGIC_BASE, 0x41464c00                        *)

(* A target: the word it greets with, its option flags, the map size and   *)
(* the dictionary length it reports if the flags say so, and the word it   *)
(* concludes with.                                                         *)
Targets == [hello : Int, flags : Int, map : Int, dict : Int, final : Int]

ASSUME HandshakeAssumption ==
  /\ Target \subseteq Targets
  /\ MaxDict \in Nat \ {0, 1}
  /\ PipeSize \in Nat \ {0}
  /\ MapLen \in Nat
  /\ SharedInput \in BOOLEAN

VARIABLES
  cpc,      (* the client's next step                                      *)
  greeting, (* handshake_msg                                               *)
  flags,    (* the option flags it read                                    *)
  mapSize,  (* ForkServerTargetInfo::map_size, -1 for None                 *)
  dictLeft, (* what read_vec still has to read of the dictionary           *)
  dict,     (* what it has read                                            *)
  observed, (* length of the map observer                                  *)
  ctl,      (* control pipe                                                *)
  st,       (* status pipe                                                 *)
  tpc,      (* the target's next step                                      *)
  target,   (* which target it is                                          *)
  sent,     (* how much of its dictionary it has written                   *)
  fault     (* history: did the spawn fail or the target die by itself?    *)

client == <<cpc, greeting, flags, mapSize, dictLeft, dict, observed>>
server == <<tpc, target, sent>>
vars == <<client, ctl, st, server, fault>>

NoMap == -1
Ends  == {"ready", "err"}

Init ==
  /\ cpc = "new"
  /\ greeting = 0 /\ flags = 0 /\ mapSize = NoMap /\ dictLeft = 0 /\ dict = 0
  /\ observed = MapLen
  /\ ctl = <<>> /\ st = <<>>
  /\ tpc = "unborn"
  /\ target \in Target
  /\ sent = 0
  /\ fault = FALSE

-----------------------------------------------------------------------------
(* The words.                                                              *)

HasMapSize(w)  == w % 2 = 1
HasShmem(w)    == (w \div 2) % 2 = 1
HasAutodict(w) == (w \div 2048) % 2 = 1

(* ForkServerFlags::from_bits refuses a word with any other bit set.       *)
KnownFlags(w) == w \in {0, 1, 2, 3, 2048, 2049, 2050, 2051}

(* (msg & 0xeffe0000) == 0xeffe0000, on the upper half of the word.        *)
HasErrorFlag(msg) == (msg \div 65536) % 65536 \in {61438, 61439, 65534, 65535}

(* Every error drops the NeoForkServer, which kills the fork server.       *)
Abort == cpc' = "err" /\ tpc' = "dead" /\ UNCHANGED <<target, sent>>

(* read_exact on the status pipe ends in an error at end of file.          *)
Eof == st = <<>> /\ tpc = "dead"

Reads == st # <<>> /\ st' = Tail(st)

-----------------------------------------------------------------------------
(* Variants of the definitions below with a defect; no specification uses  *)
(* them.                                                                   *)

(* Any version from 1 on is taken.                                         *)
VersionFromOne(msg) == msg \in MAGIC + 1 .. MAGIC + 255

(* A dictionary that follows is forgotten.                                 *)
AfterMapFinal(w) == "final"

(* One read is taken for the whole dictionary.                             *)
ReadDictOnce ==
  /\ cpc = "dict" /\ Reads
  /\ dictLeft' = 0 /\ dict' = dict + 1 /\ cpc' = "final"
  /\ UNCHANGED <<greeting, flags, mapSize, observed, ctl, server, fault>>

(* A read of nothing at end of file is tried again.                        *)
ReadFailsRetries == Eof /\ UNCHANGED vars

-----------------------------------------------------------------------------
(* check_version: the magic number, then version 1 and no other.           *)
VersionSupported(msg) == msg \in MAGIC .. MAGIC + 255 /\ msg - MAGIC = 1

(* msg ^ 0xffff_ffff                                                       *)
Inverted(msg) == -msg - 1

-----------------------------------------------------------------------------
(* The client.                                                             *)

(* Command::spawn; its failure is the only outcome without a process.      *)
New ==
  /\ cpc = "new"
  /\ \/ cpc' = "hello" /\ tpc' = "hello" /\ UNCHANGED fault
     \/ cpc' = "err" /\ tpc' = "dead" /\ fault' = TRUE
  /\ UNCHANGED <<greeting, flags, mapSize, dictLeft, dict, observed, ctl, st, target, sent>>

(* The response cannot be written to a process that has died.              *)
ReadHello ==
  /\ cpc = "hello" /\ Reads
  /\ greeting' = Head(st).val
  /\ IF ~HasErrorFlag(greeting') /\ VersionSupported(greeting') /\ tpc # "dead"
     THEN /\ ctl' = Append(ctl, Inverted(greeting'))
          /\ cpc' = "flags"
          /\ UNCHANGED server
     ELSE Abort /\ UNCHANGED ctl
  /\ UNCHANGED <<flags, mapSize, dictLeft, dict, observed, fault>>

AfterMap(w) == IF HasAutodict(w) THEN "dictLen" ELSE "final"

ReadFlags ==
  /\ cpc = "flags" /\ Reads
  /\ flags' = Head(st).val
  /\ IF KnownFlags(flags')
     THEN cpc' = (IF HasMapSize(flags') THEN "map" ELSE AfterMap(flags')) /\ UNCHANGED server
     ELSE Abort
  /\ UNCHANGED <<greeting, mapSize, dictLeft, dict, observed, ctl, fault>>

ReadMapSize ==
  /\ cpc = "map" /\ Reads
  /\ mapSize' = Head(st).val
  /\ IF mapSize' >= 0 THEN cpc' = AfterMap(flags) /\ UNCHANGED server ELSE Abort
  /\ UNCHANGED <<greeting, flags, dictLeft, dict, observed, ctl, fault>>

ReadDictLen ==
  /\ cpc = "dictLen" /\ Reads
  /\ dictLeft' = Head(st).val
  /\ IF dictLeft' \in 2 .. MaxDict THEN cpc' = "dict" /\ UNCHANGED server ELSE Abort
  /\ UNCHANGED <<greeting, flags, mapSize, dict, observed, ctl, fault>>

(* read_vec: read_exact reads on until the buffer is full.                 *)
ReadDict ==
  /\ cpc = "dict" /\ Reads
  /\ dictLeft' = dictLeft - 1
  /\ dict' = dict + 1
  /\ cpc' = IF dictLeft' = 0 THEN "final" ELSE "dict"
  /\ UNCHANGED <<greeting, flags, mapSize, observed, ctl, server, fault>>

ReadFinal ==
  /\ cpc = "final" /\ Reads
  /\ IF Head(st).val = greeting THEN cpc' = "start" /\ UNCHANGED server ELSE Abort
  /\ UNCHANGED <<greeting, flags, mapSize, dictLeft, dict, observed, ctl, fault>>

ReadFails ==
  /\ cpc \in {"hello", "flags", "map", "dictLen", "dict", "final"}
  /\ Eof /\ Abort
  /\ UNCHANGED <<greeting, flags, mapSize, dictLeft, dict, observed, ctl, st, fault>>

(* LspExecutor::start fits the map observer to the target, and wants       *)
(* shared-memory input if that is how it is going to send it.              *)
Start ==
  /\ cpc = "start"
  /\ observed' = IF mapSize # NoMap /\ observed > mapSize THEN mapSize ELSE observed
  /\ IF (mapSize # NoMap /\ observed < mapSize) \/ (SharedInput /\ ~HasShmem(flags))
     THEN Abort
     ELSE cpc' = "ready" /\ UNCHANGED server
  /\ UNCHANGED <<greeting, flags, mapSize, dictLeft, dict, ctl, st, fault>>

Client == New \/ ReadHello \/ ReadFlags \/ ReadMapSize \/ ReadDictLen \/ ReadDict
            \/ ReadFinal \/ ReadFails \/ Start

-----------------------------------------------------------------------------
(* The fork server (external).                                             *)

Word(kind, val) == st' = Append(st, [kind |-> kind, val |-> val])

Write(at, kind, val, next) ==
  /\ tpc = at /\ Word(kind, val) /\ tpc' = next
  /\ UNCHANGED <<client, ctl, target, sent, fault>>

Greets == Write("hello", "hello", target.hello, "response")

(* A response other than the greeting inverted ends the process.           *)
TakesResponse ==
  /\ tpc = "response" /\ ctl # <<>> /\ ctl' = Tail(ctl)
  /\ tpc' = IF Head(ctl) = Inverted(target.hello) THEN "flags" ELSE "dead"
  /\ UNCHANGED <<client, st, target, sent, fault>>

DictOrFinal == IF HasAutodict(target.flags) THEN "dictLen" ELSE "final"

SendsFlags ==
  Write("flags", "flags", target.flags,
        IF HasMapSize(target.flags) THEN "map" ELSE DictOrFinal)
SendsMapSize == Write("map", "map", target.map, DictOrFinal)
SendsDictLen == Write("dictLen", "dictLen", target.dict, "dict")

(* The worst data: each unit looks like the greeting.                      *)
SendsDict ==
  /\ tpc = "dict"
  /\ IF sent < target.dict
     THEN Len(st) < PipeSize /\ Word("dict", target.hello) /\ sent' = sent + 1 /\ UNCHANGED tpc
     ELSE tpc' = "final" /\ UNCHANGED <<st, sent>>
  /\ UNCHANGED <<client, ctl, target, fault>>

Concludes == Write("final", "final", target.final, "loop")

Dies ==
  /\ tpc \notin {"unborn", "dead"} /\ tpc' = "dead" /\ fault' = TRUE
  /\ UNCHANGED <<client, ctl, st, target, sent>>

Steps == Greets \/ TakesResponse \/ SendsFlags \/ SendsMapSize \/ SendsDictLen
           \/ SendsDict \/ Concludes
Server == Steps \/ Dies

-----------------------------------------------------------------------------
Over == cpc \in Ends /\ UNCHANGED vars

Next == Client \/ Server \/ Over

Spec == Init /\ [][Next]_vars

(* The fuzzer runs, and the target gets to its fork server and on: one     *)
(* that never does leaves initialize at its first read, which has no       *)
(* timeout.                                                                *)
FairSpec == Spec /\ WF_vars(Client) /\ WF_vars(Steps)

-----------------------------------------------------------------------------
(* The client never takes one word for another: no map size for a          *)
(* dictionary length, no dictionary data for the concluding word.          *)
InStep == st # <<>> /\ cpc \notin Ends => Head(st).kind = cpc

(* An executor that has started finds what run_child expects, both pipes   *)
(* empty and the fork server at the read of a control word, or dead; what  *)
(* it believes of the target is what the target said, and the map observer *)
(* covers exactly the map the target reported.                             *)
Established ==
  cpc = "ready" =>
    /\ st = <<>> /\ ctl = <<>> /\ tpc \in {"loop", "dead"}
    /\ flags = target.flags
    /\ IF HasMapSize(target.flags) THEN observed = target.map ELSE observed = MapLen
    /\ HasAutodict(target.flags) => dict = target.dict

Compatible(t) ==
  /\ t.hello = MAGIC + 1 /\ t.final = t.hello
  /\ \E m \in {0, 1}, s \in {0, 2}, a \in {0, 2048} :
       /\ t.flags = m + s + a
       /\ m # 0 => t.map \in 0 .. MapLen
       /\ SharedInput => s # 0
       /\ a # 0 => t.dict \in 2 .. MaxDict

(* Exactly the targets it can work with are accepted: no other becomes     *)
(* ready, and none of them is refused unless it died or never started.     *)
AcceptsExactly ==
  /\ cpc = "ready" => Compatible(target)
  /\ cpc = "err" => fault \/ ~Compatible(target)

(* Starting an executor ends, well or in an error, whatever words the      *)
(* target sends and wherever it dies.                                      *)
StartEnds == <>(cpc \in Ends)
=============================================================================
