------------------------------ MODULE Session ------------------------------
(***************************************************************************)
(* One LSP session of an input and what the campaign learns from it.       *)
(* lsp_input/session.rs turns the input into messages, message.rs numbers  *)
(* and localises them, the server answers as it likes, responses.rs reads  *)
(* its output, server_response/matching.rs pairs answers with the requests *)
(* of the input, collector.rs keeps what later mutations are steered by.   *)
(*                                                                         *)
(* The two ends number requests independently: the sender counts what it   *)
(* sends, the matcher counts the requests of the input and adds one.       *)
(***************************************************************************)
EXTENDS Integers, Sequences, FiniteSets

CONSTANTS
  Doc,          (* the source file of the workspace                        *)
  Skeleton,     (* other files it may hold                                 *)
  Outside,      (* a file that is not in the workspace                     *)
  None,         (* the absent value                                        *)
  MaxMessages,  (* bound on the messages of the input                      *)
  MaxOutput     (* bound on the frames the server prints                   *)

ASSUME SessionAssumption ==
  /\ Doc \notin Skeleton /\ Outside \notin Skeleton \cup {Doc}
  /\ MaxMessages \in Nat /\ MaxOutput \in Nat

VARIABLES
  files,      (* workspace.iter_files()                                    *)
  messages,   (* input.messages                                            *)
  phase,      (* "send", "run", "match" or "done"                          *)
  id,         (* the next request id                                       *)
  wire,       (* the JSON-RPC messages written for the server              *)
  out,        (* the frames the server printed                             *)
  next,       (* the matcher's place in captured_messages                  *)
  responses,  (* RequestResponseMatching                                   *)
  errors,
  notifications,
  metadata    (* the LspResponseInfo added to the test case, or None       *)

input    == <<files, messages>>
matching == <<responses, errors, notifications>>
vars     == <<input, phase, id, wire, out, next, matching, metadata>>

NoId == -1

(* URIs: lsp-fuzz://f in messages as stored, file://<workspace>/f on the   *)
(* wire; "slashed" is lsp-fuzz:///f, which is neither.                     *)
Uri(r, f)  == [root |-> r, file |-> f]
Virtual(f) == Uri("virtual", f)

(* Variant: URIs are kept as the server wrote them.                        *)
LiftNothing(u) == u

Localize(u) == IF u.root = "virtual" THEN Uri("workspace", u.file) ELSE u
LiftJson(u) == IF u.root = "workspace" THEN Virtual(u.file) ELSE u
LiftUri(u)  == IF u.root = "workspace" THEN Uri("slashed", u.file) ELSE u

Request(method, u)      == [type |-> "request", method |-> method, uri |-> u]
Notification(method, u) == [type |-> "notification", method |-> method, uri |-> u]
IsRequest(msg) == msg.type = "request"
Root == Virtual("root")

(* What the mutators append: requests about the document, notifications    *)
(* of tracing.                                                             *)
Appended ==
  {Request("completion", Virtual(Doc)), Request("documentSymbol", Virtual(Doc)),
   Notification("setTrace", Root)}

(* workspace_for_document: one source file, with or without skeleton.      *)
WorkspaceFiles ==
  {<<Doc>>} \cup {<<Doc, s>> : s \in Skeleton} \cup {<<s, Doc>> : s \in Skeleton}

Init ==
  /\ files \in WorkspaceFiles
  /\ messages \in UNION {[1 .. n -> Appended] : n \in 0 .. MaxMessages}
  /\ phase = "send" /\ id = 0 /\ wire = <<>> /\ out = <<>> /\ next = 1
  /\ responses = <<>> /\ errors = <<>> /\ notifications = {}
  /\ metadata = None

-----------------------------------------------------------------------------
(* The client.                                                             *)

(* What a filter leaves of a sequence keeps its order: the place among the *)
(* picked of the one at i, and the place where the n-th of them stands.    *)
Rank(picked, i) == Cardinality({j \in picked : j <= i})
Nth(picked, n)  == CHOOSE i \in picked : Rank(picked, i) = n

(* didOpen for every source file, none for a skeleton.                     *)
Sources == {i \in DOMAIN files : files[i] \notin Skeleton}
DidOpen ==
  [n \in 1 .. Cardinality(Sources) |-> Notification("didOpen", Virtual(files[Nth(Sources, n)]))]

(* Variant with a defect, used by no specification: documents are opened   *)
(* after the input's messages.                                             *)
MessageSequenceOpensLate ==
  <<Request("initialize", Root), Notification("initialized", Root)>>
    \o messages \o DidOpen
    \o <<Request("shutdown", Root), Notification("exit", Root)>>

MessageSequence ==
  <<Request("initialize", Root), Notification("initialized", Root)>>
    \o DidOpen \o messages
    \o <<Request("shutdown", Root), Notification("exit", Root)>>

IntoJsonRpc(msg) ==
  [id |-> IF IsRequest(msg) THEN id ELSE NoId,
   message |-> [msg EXCEPT !.uri = Localize(@)]]

(* One message of request_bytes; the last one completes the input.         *)
Serialise ==
  LET msg == MessageSequence[Len(wire) + 1] IN
  /\ phase = "send"
  /\ wire' = Append(wire, IntoJsonRpc(msg))
  /\ id' = IF IsRequest(msg) THEN id + 1 ELSE id
  /\ phase' = IF Len(wire) + 1 = Len(MessageSequence) THEN "run" ELSE "send"
  /\ UNCHANGED <<input, out, next, matching, metadata>>

-----------------------------------------------------------------------------
(* The server prints frames: an answer to each request at most once, in    *)
(* any order, with anything of its own in between; it may end anywhere.    *)

(* A result holds a URI as a value and, as the `changes` of a              *)
(* WorkspaceEdit do, one as the key of an object, or None.  "about" is the *)
(* place on the wire of the request answered; no code reads it.            *)
Result(shape, u, key, k) == [shape |-> shape, uri |-> u, key |-> key, about |-> k]
Reply(n, result, failed) == [kind |-> "response", id |-> n, result |-> result, error |-> failed]

Reported == {Uri("workspace", Doc), Uri("elsewhere", Outside)}

Results(method, k) ==
  CASE method = "documentSymbol" -> {Result("flat", u, None, k) : u \in Reported}
                                      \cup {Result("nested", Root, None, k)}
    [] OTHER -> {Result("items", u, None, k) : u \in Reported}
                  \cup {Result("items", Uri("workspace", Doc), Uri("workspace", Doc), k)}

Answered == {out[i].about : i \in {j \in 1 .. Len(out) : out[j].kind = "response"}}

Emit(frame) ==
  /\ phase = "run" /\ Len(out) < MaxOutput
  /\ out' = Append(out, frame)
  /\ UNCHANGED <<input, phase, id, wire, next, matching, metadata>>

(* A result, null, an error, or a result of the wrong type.                *)
ServerAnswers ==
  \E k \in 1 .. Len(wire) :
    LET sent == wire[k]
        Respond(result, failed) ==
          Emit([kind |-> "response", id |-> sent.id, result |-> result,
                 error |-> failed, about |-> k])
    IN  /\ IsRequest(sent.message) /\ k \notin Answered
        /\ \/ \E r \in Results(sent.message.method, k) : Respond(r, FALSE)
           \/ Respond(None, FALSE)
           \/ Respond(None, TRUE)
           \/ Respond(Result("bad", Root, None, k), FALSE)

(* A diagnostic, or a method this client does not know, or no params.      *)
ServerNotifies ==
  \/ \E u \in Reported, m \in {"publishDiagnostics", "unknown"} :
       Emit([kind |-> "notification", method |-> m, uri |-> u, params |-> TRUE])
  \/ Emit([kind |-> "notification", params |-> FALSE])

(* A request of the server, whose ids are its own.                         *)
ServerRequests ==
  \/ \E m \in {"configuration", "unknown"} :
       Emit([kind |-> "request", method |-> m, id |-> 1, params |-> TRUE])
  \/ Emit([kind |-> "request", id |-> 1, params |-> FALSE])

(* Text that is framed but is not a JSON-RPC message.                      *)
ServerBabbles == Emit([kind |-> "text"])

ServerEnds ==
  /\ phase = "run" /\ phase' = "match"
  /\ UNCHANGED <<input, id, wire, out, next, matching, metadata>>

-----------------------------------------------------------------------------
(* The output, read back.                                                  *)

(* The untagged JsonRPCMessage: without params, a request or notification  *)
(* of the server is a response with neither result nor error.              *)
Decode(frame) ==
  CASE frame.kind = "request" /\ ~frame.params -> Reply(frame.id, None, FALSE)
    [] frame.kind = "notification" /\ ~frame.params -> Reply(NoId, None, FALSE)
    [] OTHER -> frame

(* capture_stdout_content stops at the first frame it cannot decode.       *)
Readable == {n \in 0 .. Len(out) : \A i \in 1 .. n : out[i].kind # "text"}
Captured == SubSeq(out, 1, CHOOSE n \in Readable : \A m \in Readable : m <= n)

Asked == {i \in DOMAIN messages : IsRequest(messages[i])}

(* Variant: the input's requests are counted from the first id.            *)
RequestsFromZero ==
  [n \in 0 .. Cardinality(Asked) - 1 |-> messages[Nth(Asked, n + 1)]]

(* The matcher's table: filter, enumerate, id + 1.                         *)
Requests == [n \in 1 .. Cardinality(Asked) |-> messages[Nth(Asked, n)]]

(* LspResponse::try_from_json, LspMessage::try_from_json.                  *)
ResultDecodes(method, result) ==
  result.shape \in IF method = "documentSymbol" THEN {"flat", "nested"} ELSE {"items"}
MessageDecodes(method) == method # "unknown"

(* The values of arrays and objects are lifted, the keys are not.          *)
Lifted(result) == [result EXCEPT !.uri = LiftJson(@)]

(* Variant: the first answer is kept.                                      *)
InsertOnce(map, key, value) ==
  [k \in DOMAIN map \cup {key} |-> IF k \in DOMAIN map THEN map[k] ELSE value]

Insert(map, key, value) == [k \in DOMAIN map \cup {key} |-> IF k = key THEN value ELSE map[k]]

(* An error leaves match_messages; the test case gets no metadata.         *)
GiveUp == phase' = "done" /\ UNCHANGED <<next, matching>>

MatchResponse(msg) ==
  IF msg.id \notin DOMAIN Requests
  THEN UNCHANGED matching /\ next' = next + 1 /\ UNCHANGED phase
  ELSE LET request == Requests[msg.id] IN
       \/ /\ msg.result # None /\ ResultDecodes(request.method, msg.result)
          /\ responses' = Insert(responses, request, Lifted(msg.result))
          /\ next' = next + 1
          /\ UNCHANGED <<errors, notifications, phase>>
       \/ /\ msg.result # None /\ ~ResultDecodes(request.method, msg.result)
          /\ GiveUp
       \/ /\ msg.result = None
          /\ errors' = IF msg.error THEN Insert(errors, request, TRUE) ELSE errors
          /\ next' = next + 1
          /\ UNCHANGED <<responses, notifications, phase>>

MatchMessage(msg) ==
  \/ /\ msg.kind = "response"
     /\ MatchResponse(msg)
  \/ /\ msg.kind = "request" /\ MessageDecodes(msg.method)
     /\ next' = next + 1
     /\ UNCHANGED <<matching, phase>>
  \/ /\ msg.kind = "notification" /\ MessageDecodes(msg.method)
     /\ notifications' = notifications \cup {LiftJson(msg.uri)}
     /\ next' = next + 1
     /\ UNCHANGED <<responses, errors, phase>>
  \/ /\ msg.kind # "response" /\ ~MessageDecodes(msg.method)
     /\ GiveUp

Match ==
  /\ phase = "match" /\ next <= Len(Captured)
  /\ MatchMessage(Decode(Captured[next]))
  /\ UNCHANGED <<input, id, wire, out, metadata>>

(* collect_response_info: a nested symbol carries no URI, it belongs to    *)
(* the document asked about; the items of any other answer become          *)
(* parameters for requests to come.                                        *)
SymbolUri(request) ==
  IF responses[request].shape = "nested" THEN request.uri ELSE responses[request].uri

CollectResponseInfo ==
  [diagnostics |-> {LiftUri(u) : u \in notifications},
   symbols |-> {SymbolUri(r) : r \in {q \in DOMAIN responses : q.method = "documentSymbol"}},
   fragments |-> {responses[r] : r \in {q \in DOMAIN responses : q.method # "documentSymbol"}}]

AppendMetadata ==
  /\ phase = "match" /\ next > Len(Captured)
  /\ metadata' = CollectResponseInfo
  /\ phase' = "done"
  /\ UNCHANGED <<input, id, wire, out, next, matching>>

Server == ServerAnswers \/ ServerNotifies \/ ServerRequests \/ ServerBabbles \/ ServerEnds

Done == phase = "done" /\ UNCHANGED vars

Next == Serialise \/ Server \/ Match \/ AppendMetadata \/ Done

Spec == Init /\ [][Next]_vars

-----------------------------------------------------------------------------
(* Properties.                                                             *)

(* Every input, whatever mutations made of it, is a session as LspClient   *)
(* promises it to the server.                                              *)
Said(method) == \E i \in 1 .. Len(wire) : wire[i].message.method = method

Stage ==
  IF Said("exit") THEN "over"
  ELSE IF Said("shutdown") THEN "closing"
  ELSE IF Said("initialized") THEN "running"
  ELSE IF Said("initialize") THEN "starting"
  ELSE "down"

Opened ==
  {wire[i].message.uri : i \in {j \in 1 .. Len(wire) : wire[j].message.method = "didOpen"}}

Client == INSTANCE LspClient WITH
  Document <- {Uri("workspace", Doc)},
  stage <- Stage,
  opened <- Opened,
  sent <- Len(wire)

SpeaksLsp == Client!Spec

(* matching.rs and session.rs number requests alike: an answer is recorded *)
(* under the request it answers, and none under initialize or shutdown.    *)
OwnAnswer ==
  \A request \in DOMAIN responses :
    wire[responses[request].about].message = [request EXCEPT !.uri = Localize(@)]

(* Once metadata is added, no answer to a request of the input is missing  *)
(* from it, in whatever order the server printed; of equal requests the    *)
(* one answered last counts.                                               *)
FromInput(k) == k \in Len(DidOpen) + 3 .. Len(DidOpen) + Len(messages) + 2

Carries(i, k) ==
  /\ Captured[i].kind = "response" /\ Captured[i].about = k
  /\ Captured[i].result # None

AnswersKept ==
  metadata # None =>
    \A k \in 1 .. Len(wire), i \in 1 .. Len(Captured) :
      LET request == MessageSequence[k] IN
      FromInput(k) /\ Carries(i, k) =>
        /\ request \in DOMAIN responses
        /\ \E j \in i .. Len(Captured) : Carries(j, responses[request].about)

(* The server never sees a URI of the fuzzer's own scheme, and what is     *)
(* learned names the documents as stored inputs do, in diagnostics, in     *)
(* symbols and in the values of the fragments, not by the directory one    *)
(* run happened to use.  A URI that is a key of a fragment is not covered: *)
(* lift_localized_json leaves keys alone, and it keeps that directory.     *)
UrisTranslated ==
  /\ \A i \in 1 .. Len(wire) : wire[i].message.uri.root # "virtual"
  /\ metadata # None =>
       \A u \in metadata.diagnostics \cup metadata.symbols
                  \cup {fragment.uri : fragment \in metadata.fragments} :
         u \in {Virtual(f) : f \in Skeleton \cup {Doc}} \cup {Uri("elsewhere", Outside)}
=============================================================================
