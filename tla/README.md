# lsp-fuzz in TLA+

TLA+ modules for lsp-fuzz, a coverage-guided fuzzer for language servers, with
the TLC configurations that check them and the theorems TLAPS proves about them.
Paths are relative to the repository; `lsp-fuzz/` stands for
`src/crates/lsp-fuzz/src/`, `cli/` for `src/crates/lsp-fuzz-cli/src/`, `tsg/` for
`lsp-fuzz/stolen/upstream/tree_sitter_generate/`.

| module | models | checked by | proved |
|---|---|---|---|
| `ForkService` | what `run_child` promises | – (abstract) | – |
| `ForkServer` | `NeoForkServer::run_child`, `Drop`, the AFL++ fork server, pipes, processes, signals | `ForkServer_*.cfg` | `ForkServerProofs` |
| `Executor` | `LspExecutor::run_target` and its observers, over `ForkService` | `Executor_*.cfg` | `ExecutorProofs` |
| `Handshake` | `NeoForkServer::new`, `initialize`, `LspExecutor::start` | `Handshake_shared.cfg` | `HandshakeProofs` |
| `LspClient` | what a session promises a language server | – (abstract) | – |
| `Session` | an input made into a session, the server's output read back and matched | `Session_match.cfg` | `SessionProofs` |
| `Document` | a document under mutation, its parse tree, the messages that refer to it | `Document_edit.cfg` | `DocumentProofs` |
| `Campaign` | `FuzzCommand::run`: its stages, the Control-C thread, the clock, the objective, file names, dictionary | `Commands.cfg` | `SolutionProofs` |
| `Guidance` | message generation and what it is guided by | `Guidance_feedback.cfg` | `GuidanceProofs` |
| `Fragments` | mining code fragments from source files | with `Generation` | `GenerationProofs` |
| `Generation` | text derived from rules and fragments | `Generation_mined.cfg` | `GenerationProofs` |
| `GrammarRules`, `TokenNfa` | rules of a tree-sitter grammar and their sentences; the automaton of its tokens | with `Grammar` | – |
| `Grammar` | from a grammar in JSON to derivation rules, pass by pass | `Grammar_passes.cfg` | – |
| `Reproduce` | replaying solutions to find the message that crashes | `Commands.cfg` | `SolutionProofs` |

`MCForkServer`, `MCExecutor`, `MCHandshake`, `MCSession`, `MCDocument`, `MCCommands`,
`MCGuidance`, `MCGeneration` and `MCGrammar` hold the values and symmetry sets for TLC.
`MCCommands` is for both `Campaign` and `Reproduce`: a process of the command line runs one
command (`cli/cli/mod.rs`), which is chosen in the initial state.

## 1. The system

One campaign is one process (`cli/cli/fuzz.rs`). LibAFL's `fuzz_loop` picks a
test case, runs the stages on it (calibration, mutation, statistics, stop by
time, stop by Control-C), and each mutated input goes through one *evaluation*:
`pre_exec_all`, `run_target`, `post_exec_all`, feedback, objective. Everything
in the campaign process is one thread except the Control-C handler. The concurrency
is with other processes: the fork server inside the target, the target's child,
the sanitizer's log writer in that child, other fuzzers on the same machine.

Each component with its state, operations, partners, difficulties, and what
makes it correct:

**Fork server client** (`lsp-fuzz/execution/fork_server.rs`). State: the process
of the fork server, two pipes, `child_pid`, `last_run_timed_out`, `kill_signal`.
Operations: `run_child`, `Drop`. It talks to the fork server with bare 32-bit
words, to the kernel with `waitpid`, `pselect`, `kill`. Hard: a status racing with
the timeout, a kill that must be acknowledged, a persistent child that stops
instead of ending, death of either process between two words, recycled pids.
Correct if it never takes one word for another, reports what the child of this
run did by itself, leaves no child running between runs, and always returns.

**Fork server start** (same file and `LspExecutor::start` in
`lsp-fuzz/execution/mod.rs`). State: the greeting, the option flags, optional map
size and dictionary. Operations: `new`, `handshake`, `initialize`, `start`. Hard:
the optional fields are recognised by flags alone; a dictionary larger than the
pipe; a target that dies between words. Correct if both sides agree on what was
said, exactly the compatible targets are accepted, and it ends.

**Executor and observers** (`lsp-fuzz/execution/mod.rs`, `workspace_observer.rs`,
`responses.rs`). State: the shared-memory input, the capture file, the captured
messages, the sanitizer log on disk, the workspace directory, the execution
counter. Operations: `pre_exec_all`, `run_target`, `post_exec_all`. It calls the
fork server client and shares `temp_dir` and `/tmp` with the machine. Hard: all of
that state outlives a run; directories are named by content, logs by pid; any step
may fail. Correct if a run sees and leaves only its own data, and the verdict is
what happened.

**Session serialisation** (`lsp_input/session.rs`, `lsp/message.rs`,
`lsp/json_rpc.rs`, `lsp_input/uri.rs`). Pure: an input becomes initialize,
initialized, one didOpen per source file, the input's messages, shutdown, exit;
ids count requests; virtual URIs are localised. Correct if ids are unique, the
order is a legal session, and lifting a URI undoes localising it.

**Response matching** (`lsp_input/server_response*`). Pure, after a run: captured
messages are matched to requests by id and harvested into test-case metadata. It
assumes the numbering of the component above. Correct if each response is given to
the request that caused it.

**Text documents and edits** (`text_document/mod.rs`, `text_document/mutations`,
`lsp_input/message_edit.rs`). State: content, parse tree, node index, and positions
in the input's messages that refer to the document. Operations: `splice`, `edit`,
`update_metadata`, `calibrate`. Hard: four pieces of state describe one text.
Correct if they agree after every edit.

**Message mutators** (`lsp_input/messages.rs`, `mutators.rs`). State: the message
sequence. Operations: append, insert, drop, swap, replace, with a size limit.

**Message generation and feedback** (`lsp/generation/`, `lsp_input/server_response.rs`).
State: what the server said of each test case's document, the use of highlight groups.
Operations: some twenty generators composed into the parameters of each method, under
three configurations. Hard: what was said is about the document before it was edited;
an evaluation that matches nothing must not inherit; the configurations are ablations,
so that a generator too many spoils an experiment in silence. Correct if positions lie
in the text that is sent and each configuration uses what it may.

**Fragment mining** (`cli/cli/mine_code_fragments.rs`,
`text_document/grammar/fragment_extraction.rs`). State: one joined text and ranges into it by
node kind. Files are parsed in parallel, merged by shifting ranges, sorted and
deduplicated by text. Correct if each range denotes a text its kind had in its file.

**Text generation** (`text_document/generation.rs`,
`text_document/mutations/node_generators.rs`). State: usage
counters of the rules. Operations: recursive derivation with a depth limit, choice of
rules at random or away from the used ones. Correct if what is generated is a
derivation made of mined texts.

**Grammar preparation** (`lsp-fuzz/stolen/`, `text_document/grammar/`). tree-sitter's
`parse_grammar` and `prepare_grammar`, adopted into the repository, then a conversion
to derivation rules. No state; ten passes over a grammar, each renumbering what the
others refer to. Correct if every pass keeps the language.

**Campaign and its end** (`cli/cli/fuzz.rs`, `cli/fuzzing/common.rs`,
`lsp-fuzz/stages/`, `corpus.rs`, `utf8/mod.rs`). State: corpus, solutions, hashes seen,
the stop channel, the start time, tokens of the target's dictionary. Hard: Control-C is
another thread; the second press exits without `Drop`. Correct if a stop request ends
the campaign, it ends for no other reason, and solutions differ.

**Reproduction and export** (`cli/cli/reproduce`, `cli/cli/export.rs`). State: a target
over pipes, the index of the last message. One message at a time, each followed by a
fixed sleep and a poll of the child. Correct if the blamed message is the one.

Not modelled, with the reason: **curiosity feedback** (`lsp_input/ops_curiosity.rs`;
library code no command uses, with no promise written anywhere), **virtual file system**
(`file_system.rs`; a tree with a sequential iterator), **UTF-8 mutators** (`utf8/`; used
by nothing in the campaign), **message tables** (macros, one line per method), **target
analysis and sanitizer options**, **command line** (data and wiring).

`PROJECT.json` lists them all with their status, and the hazards line by line.

## 2. Modules

### ForkServer

The client's variables are the fields of `NeoForkServer` (`childPid`,
`lastRunTimedOut`, `killSignal`), the point its caller has reached (`cpc`), and the last
result (`reply`). `run_child` is split at every call that can block, fail or be observed
by another process:

| code | action |
|---|---|
| `waitpid` loop, fork server's pid checked | `Sweep` |
| `write_u32(last_run_timed_out)` | `Notify` |
| `read_i32` of the pid, `child_pid = Some` | `ReadPid` |
| `read_st_timed`: readable / expired / failed | `ReadStatus` / `Timeout` / `SelectFails` |
| `kill`, with the error path | `TimeoutKill` |
| `read_u32` after a kill, `child_pid` cleared, return | `ReadAck` |
| `Drop`: kill child, kill server, wait | `DropChild`, `DropServer`, `DropWait` |

The fork server (`Server*`) is AFL++'s loop, external to the repository, modelled
from the words the client exchanges with it: read the control word, collect a
stopped child that was killed, fork or resume, send the pid, wait, send the status;
it may crash anywhere. The kernel gives every process a state, delivers signals
after a delay, and recycles pids. Words on the pipes carry a tag (run and kind) that
no action of the client reads. `KillSignal` is the set of signals a target may be
configured with; each behaviour picks one.

`ForkService` is the same thing without pipes or processes: `Request`, then `Answer`
with what the target did, or `GiveUp` with a timeout, or `Fail`, which is final.
`ImplementsService` is the refinement `ForkServer => ForkService` under the mapping
at the end of the module.

With SIGTERM `run_child` need not return: a target that ignores it keeps the
acknowledgement from being sent, and that read has no timeout, although the method is
documented to run a child "with a timeout" (`lsp-fuzz/execution/fork_server.rs:447`). So
`RunReturns` is asked of SIGKILL only; everything else of both.

### Handshake

One action per word the client reads, `New` for the spawn, `Start` for the checks in
`LspExecutor::start`. The fork server's side is a script that depends on the target's
option flags. Arithmetic on the words is modelled as it is (magic number, version,
error bits, inverted response, refusal of unknown bits). A state with `cpc = "ready"`
is where `ForkServer`'s `Init` begins: `Established` says that both pipes are empty
and the fork server is at its read.

`start` is documented to refuse targets whose options "are incompatible with the
configured observers or input transport" (`execution/mod.rs:139`), and does so in one
direction: a target that wants its input in shared memory is accepted by an executor that
sends it through a file. The run has `SharedInput = TRUE`, which is what `fuzz.rs:229`
configures.

### Executor

`epc` walks through one evaluation: `PreExec`, `SetupWorkspace`, `Send`,
`ClearCapture`, `RunChild`, `Returned`, `Collect`, `PostExec`. Each I/O step may end
in an error, which leaves by `?` and ends the fuzz loop; an input that is too large
for the shared memory does the same. `RunChild` and `Returned` take steps of
`ForkService` (`INSTANCE`), so a property of `Executor` holds over any client that
implements it. Data is tagged with the number of its evaluation: the input in shared
memory, each message in the capture file, each log. The target prints, writes files
into its workspace, writes a sanitizer report and ends, in any order; it does not
delete its own workspace. `setting` is the machine: with or without another fuzzer that
has the same `temp_dir`, with or without the files of a campaign that died.

What is captured is the longest prefix of decodable messages (`Decoded`): the first
payload that does not decode ends the capture, and what follows is lost. The method is
documented to capture "every complete LSP payload available" (`responses.rs:37`);
`EveryPayloadCaptured` states this sentence and `executor_payloads` refutes it, while
`ResponsesGenuine` asks for the prefix.

A log is looked up by pid alone, so that a crash without a report of its own is given
whatever log a recycled pid finds. `ReportGenuine` says what can lie there: logs of runs
that timed out, which the code neither reads nor removes (`timedOut` remembers them), and
foreign ones; never the log of an earlier crash. Otherwise the observer has a report of
this run exactly if its target crashed and wrote one.

### Session

One input from its stored form to the metadata its test case gets. Messages are
records of a method and the one URI that matters in them; a JSON-RPC message on the
wire adds an id.

| code | definition |
|---|---|
| `workspace_for_document`: which files a workspace holds | `WorkspaceFiles` |
| `LspInput::message_sequence`, with its filter of source files | `MessageSequence`, `DidOpen`, `Sources` |
| one round of `request_bytes`: number, localise, write | `Serialise`, `IntoJsonRpc`, `Localize` |
| `capture_stdout_content`: frames until one does not decode | `Captured` |
| the untagged `JsonRPCMessage` | `Decode` |
| `match_messages`: its filter and table, one round of its loop, its `?` | `Asked`, `Requests`, `Match`, `GiveUp` |
| `collect_response_info`, `append_metadata` | `CollectResponseInfo`, `AppendMetadata` |

The language server is external: it answers each request at most once, in any order,
with a result, null, an error or a result of another type, puts notifications and
requests of its own in between, prints framed text that is no message, and ends where
it likes. `about` marks which request an answer was caused by; only properties read
it. URIs come in the forms the code tells apart: virtual (`lsp-fuzz://f`), in the
workspace directory, elsewhere, and `slashed`, which is what `lift_uri` makes of a URI
that was not lifted before. `LspClient` is the life of a client as its server may
expect it, and `SpeaksLsp` the refinement: `Stage` and `Opened` read from the wire how
far the session has come and what is open. The two filters of the code (`filter_map`,
and `filter` with `enumerate`) are functions of a rank: `Nth(picked, n)` is the place of
the n-th element that a filter leaves.

`lift_localized_json` rewrites the string values of a result and leaves the keys of its
objects alone (`message.rs:213`). A `WorkspaceEdit` has URIs for keys in `changes`, and a
code action that is learned as a fragment keeps the directory of the run in them; so a
result has a `key` besides its `uri`, `Lifted` lifts the latter only, and `UrisTranslated`
is about diagnostics, symbols and values. No document of the repository promises the
keys.

### Document

One input as `LspInputMutator` changes it: in each round first, or not, a stack of
edits of its source file, then a stack of changes to its messages. A text is a
sequence of bytes of two kinds, a line separator and any other; `tree` is the text
that the parse tree is the tree of; of a message only the positions count that
`calibrate_message` can reach (none, one, or the two of a range).

| code | definition |
|---|---|
| `ReplaceNodeMutation::mutate` with its four generators | `ReplaceNode` |
| `NodeContentMutation::mutate` with `NodeTruncation` | `TruncateNode` |
| the size check, `splice`, `edit`, `update_metadata`, `calibrate`, in both | `Edit`, `Fits`, `Splice`, `Reparse`, `Calibrate` |
| `edit_for_node_replacement`, `measure_fragment` | `EditForNodeReplacement`, `MeasureFragment` |
| `is_after_edit`, `adjust_component`, `update_position` | the same names |
| `AppendMessage`, `DropRandomMessage`, `SliceSwapMutator` | `AppendMessage`, `DropRandomMessage`, `SliceSwap` |

tree-sitter's parser is external: an incremental parse reads the new text where the edit
says that it changed and takes the rest from the old tree (`Reparse`), a node is any
range of bytes, its point is counted from the text. Which node is selected and which
text is generated is a choice over all of them; `Generated` is any position or range in
a box, which covers the valid, the random and the stale positions of the generators.

`edit_for_node_replacement` computes the new end point from the *old end* of the node,
not from its start, and `update_position` shifts the columns of every later line. So
calibration is exact only in some cases, and `PositionsFollow` says in which: up to
the node everything; after a node of one line the line; on that line the column too
if the node was empty or the replacement ends on another line. What the other
positions name afterwards is left to the fuzzer's luck, and nothing in the repository
promises more. That order is always kept (`OrderKept`) is, on the other hand, a
consequence of that very choice: with the new end counted from the start the
mutant of `EditForNodeReplacement` turns ranges over.

### Campaign

The command from its setup to its return. One evaluation is one step, whose outcomes are
those `Executor` proves it may have.

| code | definition |
|---|---|
| `FuzzCommand::run` up to the stages; `trigger_stop_stage`; `LspExecutor::start`; `process_tokens`; seeds | `Setup`, `BuildStages`, `StartExecutor`, `ProcessTokens`, `Seeded` |
| one evaluation: objective, solutions, corpus, file names | `Evaluate`, `IsSolution`, `FileName` |
| the stages of a cycle | `Calibrate`, `MutationDone`, `Stats`, `TimeoutStop`, `TriggerStop` |
| LibAFL's handling of events, `ShuttingDown` to `Ok` | `EndCycle`, `Unwind` |
| the Control-C thread and its channel | `ControlC` |
| one turn of the loop of `UTF8Tokens::parse_auto_dict`; `at` is the iterator's place | `ParseAutoDict`, `TakeToken` |
| any I/O that fails with `?` | `Fault` |

A press is seen by the last stage of a cycle only. One that comes after this stage has
looked costs one more cycle, hence `cycles <= pressedAt + 1` in `EndsForAReason`; the
message printed promises the end "after this cycle" (`common.rs:134`), which is read as
the next cycle that looks. A press after the receiver was dropped kills the handler's
thread, not the process.

`Calibrate` runs the entry again through `run_target`. A rerun that crashes parses its
log into the observer (`execution/mod.rs:428`) and no objective is asked. If the next
crash leaves no report it is judged by that hash, one no objective has seen, and is saved
under it: `report` changes in `Calibrate`, `reruns` remembers the hashes, and
`SolutionsDistinct` asks that every hash of a solution is of a crash that was evaluated or
of such a rerun.

### Guidance

`Guidance` keeps a corpus of test cases with what the server said in the run of each.
One round is `SchedulerNext`, `MutateDocument`, tries of `AppendMessage` until a message
is kept or without one, then `Execute` and `Evaluate`, or `Skip`. `AppendMessage` chooses
a method; `GeneratePart` is one part of `CompositionGenerator`, which yields a parameter,
or nothing and gives the message up; a highlight group chosen by then stays counted.
Documents are given by the lengths of their lines and their nodes. Every generator and selector is the set of values it may yield, with
`Nothing` for `NothingGenerated`; `Methods` gives the composition of each family's
parameters; the configurations are `Full`, `NoServerFeedback`, `NoContextAwareness`. The
command line only uses the first (`cli/cli/fuzz.rs:198`).

The module shows some things the code does that its reader may not expect, none of
which contradicts a comment: ranges that were diagnosed, or are those of a symbol, are
sent as reported although the document was edited since, while positions are looked up
in the new tree (`TargetsInDocument` therefore excludes those ranges, `FeedbackReported`
says they are verbatim); a random valid range may be inverted on one line;
`HighlightSteer` weighs each group by its distance from the most used one, so that from
the start all weights are 0 and it never yields; metadata of the type
`ParamFragmentGenerator` looks for is never added, so that it never yields either.

### Fragments and Generation

`Fragments`: workers finish in any order (`Parse`, which may skip a file, or fail the
command), results are merged in the order of the files (`Merge` moves the ranges by what
was merged before), kinds are sorted and deduplicated in any order (`Deduplicate`).
`Extract` is what a parse tree and its dot graph give: named nodes that are no errors,
and leaves whose name is not that of an unnamed node. Sorting and deduplication place each
range at its rank (`Listed`), a stable sort by text and, of equal neighbours, the first.
`MinedFaithfully` compares what is written with `TextsOf`, which is computed from the files
one by one and knows nothing of joining.

`Generation` extends it: the fragments mined are those text is made of. The recursion of
`generate_recursively` is the stack `todo`, each symbol with the limit it is derived
under; `GenerateSeed`, `ExpandGrammar`, `MismatchedNode`, `ChooseFromDerivations` are its
callers, `GenerateSteered` the one with the strategy no command uses. A failed derivation
starts again for a seed (for ever, if no fragment was mined for a kind that is needed),
and skips the mutation otherwise. `RuleUsageSteer` counts a rule before the limit is
looked at, and selects each rule of a kind once: when all were used equally often no
weight is positive, and it falls back on fragments (`NoFavourite`).

A piece of generated text carries the kind it was mined for, or the literal it is, so that
`GeneratedFaithfully` can ask for two things: that the pieces, their texts left out, are a
derivation in `Language`, the sequences a kind derives within the recursion limit, computed
bottom up from the rules; and that each mined piece is a text some node of that kind had
in a source file.

### Grammar

Each pass is an action that replaces `grammar`, or fails as the code does:

| code | action |
|---|---|
| `tsg/parse_grammar.rs` | `ParseGrammar` |
| `prepare_grammar/mod.rs` (`validate_precedences`) | `ValidatePrecedences` |
| `intern_symbols`, `extract_tokens`, `expand_repeats`, `flatten_grammar` | `InternSymbols`, `ExtractTokens`, `ExpandRepeats`, `FlattenGrammar` |
| `expand_tokens`, `nfa.rs` | `ExpandTokens`, `TokenNfa` |
| `extract_default_aliases`, `process_inlines` | `ExtractDefaultAliases`, `ProcessInlines` |
| `Grammar::from_tree_sitter_grammar` | `Convert` |
| a mined corpus; `NamedNodeGenerator` | `Mine`, `Generate` |

`GrammarRules` has the rules, their construction (`ChoiceOf` flattens, `AddMetadata`
merges), and `Sentences`, the reference: the sequences of tokens, up to `MaxTokens`, a
rule stands for. `Meaning` is computed from the JSON form by an operator of its own, so
that a mistake of `parse_rule` is seen too. `TokenNfa` builds the automaton state by
state as the code does, last element first, with placeholders for loops; its reference
is `Texts`.

Where the code does not keep the language, the instances contain the case and the
property names it as an exception, as narrowly as it is true. Each is needed: without any
one of them `grammar_passes` fails.

| what the code does | named by |
|---|---|
| a repetition under `RESERVED` is not expanded (`expand_repeats.rs:91`), and its sentences are dropped (`flatten_grammar.rs:189`) | `Dropping` |
| a rule with the name of a generated repetition (`x_repeat1`): of the two the later one has the derivation rules | `Overwritten` |
| a rule with the name made up for a token: fragments of one are taken for the other | in `GeneratedInLanguage` |
| `a{2,}` accepts exactly two (`expand_tokens.rs:309`) | `AsCounted` |
| an empty member of a choice, or at the end of a sequence inside one, goes on from the wrong state; a repetition of nothing keeps its placeholder | `Skewed` |

`Mentioning` closes the first two under use: a rule that mentions a spoiled one is spoiled.
`Skewed` is a syntactic condition: a token without it is read right, not every token with it
is read wrong.

`validate_precedences` is documented to compare every two names of a list. Its
`mem::swap` exchanges the outer loop's entry for the rest of the inner loop
(`prepare_grammar/mod.rs:198`), so that of `[r, p, q]` one pair is never recorded, and a
contradicting second list `[q, r]` is accepted, although "if `a` comes before `b` in some
list, then it cannot come *after* `b` in any list" (`prepare_grammar/mod.rs:186`).
`Precedes` is what this loop records, over `Rank`, the entries' order.

Three things are not instances, since nothing is lost by them: `IMMEDIATE_TOKEN` does not
reject symbols as `TOKEN` does, `Rule::is_empty` never asks a pattern, and rules that
inline each other never end, which no run could show. A word token that is a syntactic rule
panics (`extract_tokens.rs:169`), and the model with it. Aliases merge kinds, so what is made
from fragments is a sentence only where nothing is aliased (`Unaliased`).

### Reproduce

`reproduce()` and `find_crashing_request()`: `Spawn`, then for each message `Send`,
`Sleep`, `Poll`, then `GraceThenKill` if none was found, and `ReportCrash`. The target takes
messages (`Take`) and finishes with them (`Finish`) at its own pace. A sanitizer's report
takes time, since it is symbolized: `BeginLog` opens the log, `EndLog` completes it, and
only then does `Finish` end the process. The kill after the grace period may land at any
of these points, and `ReportCrash` reads what there is of the log; `Blame` says that only
a report without a request can be of a killed target, and that it follows a sleep that
was too short. Time is one question: was the target at rest when the sleep ended?

Answers go into a pipe nobody reads. A target blocked on it never reaches a message that
would crash it, so that the crash is not found; and once its stdin is full too, `write_all`
(`find_crashing_request`) waits for ever, as it has no timeout. `ReproductionEnds`
(`ReplayEnds` in the run) names this as the one way for the command not to end.
`ReproduceAll` works on several inputs in parallel; they share nothing but the file of
results, and are modelled one after another.

## 3. Runs

| run | result | what it shows |
|---|---|---|
| `fork_server_runs` | holds | With either signal: in step, quiet between runs, genuine replies, no orphan, implements `ForkService`; with SIGKILL every run returns although a child may run for ever |
| `fork_server_drop` | violated | `child_pid` survives a timed-out run; `Drop` signals whoever has the pid now |
| `executor_runs` | holds | Alone and on a shared machine: what is observed of a run is that run's, workspaces start pristine, nothing is left, no self-inflicted error, every evaluation ends |
| `executor_exit` | violated | A negative `crash_exit_code` never matches |
| `executor_payloads` | violated | A complete payload behind one that does not decode is not captured |
| `handshake_shared` | holds | 512 targets around every limit: in step, agreed, accepted exactly if compatible, always ends |
| `session_match` | holds | Any input is a legal session; answers are matched to the requests they answer, none is lost; URIs in values are translated both ways |
| `document_edit` | holds | Tree fresh, size bounded, order of positions kept, positions exact where the code can move them right |
| `commands` | holds | `fuzz`: Control-C, the clock and faults at any point: the campaign ends when it should and for no other reason, solutions differ, every reported crash has one and each has a crash, tokens are the frames of the dictionary. `reproduce_all`: the blamed message was sent and its report is whole, it is the one if every sleep was long enough, a killed target's report names none; the command ends, or is stuck in `write_all` |
| `guidance_feedback` | holds | Positions lie in the text that is sent, feedback is the test case's own and of its own run, the ablations use what they may |
| `generation_mined` | holds | Ranges denote the texts the nodes had, whatever the order of parsing; generated text is a derivation made of them, and no rule is favoured |
| `grammar_passes` | holds | Apart from the exceptions of section 2: each pass keeps the sentences of every rule, the automaton accepts the texts of each token, aliases stay, what is generated is a sentence |

Bounds.

- `fork_server_runs`: `MaxRuns = 3` and three pids: a fault of one run shows in the next
  (a word left over, `last_run_timed_out`), and a pid needs a third process to be
  recycled while the first is remembered. Deadlock is not checked: with SIGTERM
  `run_child` may really wait for a child that never ends, and nothing else moves. That
  calls return with SIGKILL is `RunReturns`.
- `executor_runs`: `MaxEvals = 2` and two pids, so that they do recycle; `w1` comes back
  after itself or after `huge`, the workspace that cannot be sent; `MaxOutput = 2` lets
  an undecodable message be followed by a decodable one. Longer campaigns are the
  theorems' matter.
- `handshake_shared`: `PipeSize = 2` with dictionaries up to `MaxDict = 3` units lets the
  target block on a full pipe; map sizes lie below, at and above `MapLen = 3`, lengths
  around both ends of the accepted interval, greetings around the version and the errors.
- `session_match`: `MaxMessages = 2` allows two equal requests, two different ones, and a
  notification before a request; with three frames of output an answer can be repeated
  for an equal request and something else stand before, between or after.
- `document_edit`: seeds have up to 3 bytes with `MaxDocumentSize = 2`, since a generated
  seed may be above the limit; fragments of 2 bytes hold a line break with something
  before or after it; two edits let the second start from what the first left; three
  changes fill the message sequence of 2 and replace in it.
- `commands`, for `fuzz`: two cycles, since a press is honoured within one more; a budget of 1
  in a clock of 2; one seed; stages of up to one execution; two reports, so that one can
  be new and one old; dictionaries with a token that is empty, not UTF-8, cut short, or
  only a size.
- `guidance_feedback`: three texts, one of them empty, a text of one line and one of two;
  corpora of two, the second a mutation of the first.
- `generation_mined`: two files of up to two bytes, so that one merge moves ranges and
  texts repeat in and across files; `RecursionLimit = 2` with a rule that is recursive
  stops half-way; `MaxSteered = 3` selections of a kind with two rules are one more than
  the steer allows.
- `executor_payloads`: one evaluation and two payloads, the first of which does not decode,
  are enough.
- `grammar_passes`: 650 grammars of four rules, built from choices for each rule, and one
  ordinary grammar with some fifty that differ from it in one respect (each error the
  passes report, each regex operator, each exception of section 2); sentences of up to three
  tokens, texts of four characters, so that `{n,}` differs from `{n}`. `Limit = 2` lets
  the depth limit fall on rules that have fragments, in texts short enough to be compared. Deadlock is not checked: a failed or finished preparation
  stops.
- `commands`, for `reproduce_all`: two inputs, since one must not blame the other; four messages, so that
  the culprit can be first, in the middle and last, and over pipes of one message each the
  target can be stuck on its second answer with its stdin full while one is left to write.

Workspaces and pids are interchangeable in `executor_exit`, which declares them
symmetric; no run with a temporal property does.

## 4. Fairness

- `ForkServer`: weak fairness of `RunStep` and of `Drop` once it has begun (the client
  is a running thread and `pselect` has a finite timeout), of `ServerStep` (the fork
  server is a scheduled process), of the delivery of a pending signal. None for the
  child: it may run for ever.
- `Executor`: weak fairness of `Evaluate`; that `run_child` returns is `RunReturns` of
  the module above, none for the target.
- `Handshake`: weak fairness of the client and of a live target's steps; a live target
  that never reaches its fork server keeps `initialize` at its first read, which has no
  timeout.
- `Campaign`: weak fairness of `Fuzz`, the campaign's thread; none for faults, for
  Control-C and for the clock. `StopHonoured` is asked of states from which the bound on
  cycles leaves one to see the stop in.
- `Reproduce`: weak fairness of the tool's steps, none of the targets': one may stop
  reading, answering or reporting for ever.
- `Document`, `Session`, `Guidance`, `Fragments`, `Generation` and `Grammar` state no
  fairness and no liveness.

## 5. Theorems

Each module's theorems rest on the assumption on its constants alone, which is named
after the module and evaluated by its runs. What these assumptions say beyond types:
a tree belongs to its text and has a root (`GuidanceAssumption`; tree-sitter's promise),
no highlight group has the name of a generator (the same; both are labels), a dictionary
is a sequence of bytes (`CampaignAssumption`), the files of a workspace and outside it
have different names (`SessionAssumption`), a tree has finitely many nodes, whose bytes
lie in their file (`FragmentsAssumption`; tree-sitter's promise), and a kind that has
derivation rules has at least one, each a sequence of symbols of the four types
(`GenerationAssumption`; `Grammar::from_tree_sitter_grammar`).

In `ForkServerProofs`, for any set of pids, any signals, persistent or not, any
number of runs:

- `TypeCorrect`, `LockstepHolds`: `Inv1` is types, `Control` (which places of client
  and server go together, and the exact content of both pipes then) and what the
  server knows. `Lockstep` is not inductive: that a status on the pipe belongs to this
  run needs the place the server was in when it wrote it, and that place may be hidden
  behind the server's death; `Control` enumerates them.
- `QuietHolds`, `ReplyGenuineHolds`: `Inv2` adds that at most one child is alive,
  that signals are only ever pending for the child of this run once the run has timed
  out, and that the status on its way is what the child did unless it was killed for a
  timeout.
- `Refinement`: `Spec => ImplementsService`, one step of the client or of the target to
  one step of `ForkService`, everything else to a stutter.
- `NoOrphanHolds`: from `Inv1`, `Inv2` and what the client remembers of the last child.
  The property itself asks it of SIGKILL.

In `ExecutorProofs`, for any workspaces, pids, outputs, machines, any number of
evaluations:

- `IsolationHolds`, `BlamelessHolds`, `NoLeftoversHolds`: the inductive invariant `IInv`
  adds to the types which phase of the fork service goes with which step (`Phases`),
  whose data is in the shared memory, the capture file and the observer at each step
  (`OwnData`), that the directory holds the input's files unless somebody interfered
  (`OwnFiles`), and that a workspace nobody else ever touched has a directory only
  during its own evaluation (`Pristine`). `Blameless` alone says nothing of the
  directory, whose absence is what would make `PostExec` fail.
- `GenuineHolds`: `Genuine` looks at the last step only, so that `IInv` carries its three
  parts from where they are established: the verdict from the return of `run_child`
  (`Judged`), the report through a bound on the tags of logs (`Logs`: no log is of a
  later evaluation, and one of this evaluation lies at its pid) and through `LeftLogs`
  and `TimedOut` (a log of an earlier evaluation is of one that timed out, hence no crash
  leaves its log to a later run), the messages from the
  longest decodable prefix (`Collected`, with the lemma `DecodedPrefix`). It assumes a
  `crash_exit_code` that is absent or not negative; `executor_exit` shows that it must.

In `HandshakeProofs`, for any set of targets with any words, any limits on the pipe, the
dictionary and the map:

- `InStepHolds`, `EstablishedHolds`, `AcceptsExactlyHolds`: what a target says is a
  function of its words and a position (`Script`), each place of the client a number of
  words read, each place of the target a number written. `Pipes` says that the status
  pipe is the segment of the script between the two. `InStep` is not inductive, since it
  says nothing of the words behind the first; with `Pipes` it is arithmetic on
  positions. `Knows` adds what the client has learnt by the time it is at each place,
  and `Refused` that it left only for a reason.

In `DocumentProofs`, for texts, fragments, message sequences and limits of any size:

- `TypeCorrect`, `TreeFreshHolds`: the inductive invariant `IInv` is `TypeOK /\
  TreeFresh`. `TreeFresh` needs the types (lengths of the three parts of a splice), and
  the types need `TreeFresh`: a node's range lies in the text only if the tree is the
  tree of that text. `SpliceProperties` and `ReparseIsSplice` are the two lemmas: the
  new text consists of the parts it should, and reading the middle again gives it.
- `SizeBoundedHolds`: from `SpliceProperties` and `Fits`.
- `OrderKeptHolds`: every edit goes forward (`EditGoesForward`: its new end point does
  not precede the old one on the same line, and its row never shrinks), and moving all
  that lies after a point by such an edit keeps order (`UpdateKeepsOrder`).
- `PositionsFollowHolds`: `MeasureConcat` says that the measure of a text is the sum of the
  measures of its parts, where a part with a line break makes the columns before it void
  (`Plus`); it is a count of line breaks and of what follows the last. The new end of an
  edit is the old end plus the replacement, the place of a character behind it is the
  start plus the replacement plus what lies between (`SplicedPoint`), and the rest is
  arithmetic on the two sums (`EditMoves`).

In `SessionProofs`, for inputs of any length, any results, any output of the server:

- `OwnAnswerHolds`: client and matcher count by different rules. The client numbers every
  request of the session, the matcher those of the input and adds one. `Ids(w)` is the
  id the client has reached after `w` messages; `Sent` says that each message on the wire
  carries it, `Numbering` that the two counts agree on the input's requests and that no
  other message has an id of the matcher's table. The filters are ranks, so that this is
  a fact about cardinalities; `RankIsNext` and `NthOfRank` say that ranks count without
  gaps, by taking the least counter-example (`Least`). `Learned` carries from frame to
  frame that what is recorded is about its request.
- `AnswersKeptHolds`: `Kept` says of every prefix read that no answer in it is lost except
  to a later one of an equal request; `CapturedIsAPrefix` that what is captured is a
  prefix of what was printed.
- `UrisTranslatedHolds`: `Learned` and `Printed` bound which URIs are met, `Added` says
  that metadata is made of what was learned: diagnostics, symbols and the values of
  fragments. The keys of fragments are not in the property (section 2).
- `Refinement`: `Spec => SpeaksLsp`. `Outcome` says what `Stage` and `Opened` are after
  each number of messages, from the places of each kind of message in the session.

In `SolutionProofs`, which holds the theorems of `Campaign` and of `Reproduce`, for any budget, seeds, reports, dictionaries and number of cycles:

- `EndsForAReasonHolds`: the press of Control-C is a message in the channel until the
  stop stage takes it, then an event until the end of the cycle. `Announced` says where it
  is at each step, and that a cycle is begun with a message under way only if the stage had
  already looked; `Stopping` that a stop event, the unwinding and a success have a reason.
- `SolutionsDistinctHolds`: `Hashed` says that the hashes seen are those of solutions, that
  those of crashes are among them, and that the others, like the report the observer still
  holds, by which a crash without one is judged, are of reruns of the calibration.
  `Numbered` says that an id is the number of files before it.
- `TokensFramedHolds`: `Framing` places the parser on a frame, and on every chain of
  frames that reaches as far. The second part is what makes it inductive: `Frames` asks
  for one chain, and two chains could go apart.
- `TypeCorrect`.

In `GuidanceProofs`, for any documents with their trees, reports, highlight groups, and
sizes of the corpus:

- `TargetsInDocumentHolds`, `FeedbackReportedHolds`, `AblationKeptHolds`: each property
  is one of values (`Lies`, `Heard`, `Allowed`), together `Fits`. There is one lemma for
  each generator or kind of value, one for each list of generators under each
  configuration, and `Kept` for the message under construction, which keeps its fit
  because document and test case do not change under it.
- `InfoOfOwnRunHolds`: part of `IInv`, with the evaluation's observations being of the
  document that was run.

In `SolutionProofs` also, for any number of inputs and messages, any fates, any pipes:

- `BlameHolds`: what the target has handled and what waits in its stdin add up to at most
  what was written (`Accounted`), nothing is blamed before an end was seen (`Blaming`),
  and as long as no sleep was too short the target is quiet whenever a message is written
  (`Settled`), so that an end is the work of the last one. That a log is cut short
  only by the kill, and a killed target's report names no message, is in `Blaming`, carried
  from the poll through the grace period: a request is only found when the target has
  ended by itself, which it does with its log whole or with none, and the kill leaves an
  ended target as it is (`BusyKeepsSettled`, `LogKeeps`).
- `RTypeCorrect`.

In `GenerationProofs`, for any source files and number of them, any rules, strategy,
recursion limit and fragment size:

- `MinedFaithfullyHolds`, from `MiningInvariant`. `MinedFaithfully` speaks of the end;
  `FInv` of every state: the ranges of each kind denote, in the text joined so far, the
  texts of the files merged so far (`Joining`), and a kind that was handled has each text
  once (`Once`). A merge keeps the first because a slice of a text is the same slice of a
  longer one and moves with what is put before it (`SliceKept`, `SliceMoved`);
  deduplication keeps it because it only drops what is there again. That sorting brings
  equal texts together needs the lexicographic order to be total, irreflexive and
  transitive (`TextLessTotal` and the two after it) and a listing by rank to be a listing
  in order (`ListedInOrder`); from `Grouped`, equal texts being neighbours,
  `DedupKeepsOne` concludes `Once`.
- `GeneratedFaithfullyHolds`: its first part says nothing while a derivation is under
  way. `Completes`, the heart of `GInv`, says that what is derived so far, followed by
  anything that the symbols on the stack derive under their own limits, is a derivation
  of the kind asked for. An expansion replaces a symbol by those of a rule, and keeps this
  because `Concatenations` of two lists are the concatenations of both
  (`ConcatenationsOfTwo`); when the stack is empty it is the property. `LanguageSolves`
  derives the equations of `Language` from its definition: that a recursion over an
  interval has a solution is `Recursion`, by the least number up to which it has none.
- `NoFavouriteHolds`: no use is more than one above another of the kind (`UInv`), kept
  because a rule may be chosen only if its weight is positive, which is to say that some
  rule was used more often, or none at all (`WeightBound`, `LikelyKeeps`).
- `GenerationTypeCorrect`.

These proofs also say how definitions are written. Where a choice depends on the order of
its cases (`Session!Stage`, `GrammarRules!Sentences`) it is a nested `IF`: of a `CASE` with
overlapping guards TLC takes the first, but TLA+ any, and the refinement of `LspClient`
would not follow. The dictionary's parser and the composition of generators are actions,
one turn each, as in the code's loops, what a filter or a sort leaves is
counted by ranks, and the recursions of `Generation` are functions over an interval.

Only model-checked:

- liveness (`RunReturns`, `EvaluationEnds`, `StartEnds`, `StopHonoured`,
  `ReproductionEnds`), out of TLAPS's reach;
- `Grammar` with `GrammarRules` and `TokenNfa` (`LanguageKept`, `TokensLexed`,
  `AliasesKept`, `GeneratedInLanguage`): recursive operators, which compute languages as
  least solutions.

## 6. What is left out

- Of the fork server and the executor: the child's environment and limits, logging, the
  text of errors; LibAFL's map observer, `asan_observer`'s parsing and hash; the
  reasons for which `pselect` fails (one action, `SelectFails`); the kernel's SIGHUP to
  a stopped orphan.
- Of `Session`: the header syntax of a frame, URIs inside longer strings, and the
  differences between result types that yield items (one method, `completion`, stands
  for them). A server that answers one request twice is not modelled.
- Of `Document`: characters of several bytes (the code counts bytes in texts and edits;
  `NodeTruncation` cuts at a character and replaces bytes that are not UTF-8, which may
  lengthen the node), the 32-bit width of positions, messages about another document,
  which are not calibrated, and the positions `position_mut` and `range_mut` do not give
  (`SelectionRange`, `ColorPresentation`), which no edit moves. The node index
  (`node_type_ranges`, `node_signatures`) is recomputed from the tree with every parse
  and has no variable of its own. The loss of tree and index when a test case is stored
  is not modelled: `TextDocument::new` parses again. The mutator combinators of
  `mutators.rs` only choose which mutator runs.
- Of `Campaign`: the contents of the statistics file, LibAFL's scheduler and power
  schedule, and the corpora on disk beyond their file names; `stages/cleanup.rs`, a stage
  no command adds, which removes directories named by execution number while
  `workspace_observer.rs` names them by content.
- Of `Guidance`: the weights of the generators (each may be chosen), tokens' progress
  numbers and flags; one message is kept of each input, since what is generated does not
  depend on the others.
- Of `Grammar`: conflicts, the members of reserved word sets, associativity, dynamic
  precedence and field names, which are handed on to parse tables nobody builds; the
  grouping of an automaton's transitions; `CharacterSet`, which is a set. Languages with
  their parsers and queries are tables.
- Of `Reproduce`: the text of the sanitizer's log. `export` writes files and keeps no
  state.
- The components listed as not modelled in section 1.

## 7. What could come next

- The composition of `Campaign` with `Executor`, instead of evaluations that return
  anything `Executor` may: the process exit on a second Control-C, and the `leftovers`
  the next campaign then meets.
- `Curiosity` once a command uses it.
