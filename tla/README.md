# cmd-proposer in TLA+

`cps` (cmd-proposer) is a terminal agent: a human says what they want, a language
model explores local documentation through tools, and the outcome is one command
proposal, which the human reviews and which the program runs only after an explicit
approval. This directory holds TLA+ models of the parts where order, concurrency,
failure and limits decide whether that works, the TLC instances that check them, and
proofs, checked by TLAPS, that the main properties hold for every instance.

    tlc -workers 2 -config DocStore.cfg MCDocStore      one run
    tlapm DocStoreProofs.tla                            one module of proofs

Paths below are relative to `src/crates/`.

## The system

| Component | Source | State | Operations |
|---|---|---|---|
| Doc store | `cps-doc-store` | documents with a generation, registry of match positions, one `RwLock` | `insert`, `doc_grep`, `doc_expand_around`; reads `doc_preview`, `doc_section`, `doc_lines`, `doc_token_count` |
| Budget engine and tracker | `cps-budget`, `cps-agent/src/budget.rs` | tokens used per layer | `check_budget`, `record`, shares of the context |
| Agent loop | `cps-agent/src/agent_loop.rs` | state, two histories, counters | `run_turn`: budget, completion with retries, tool dispatch, proposal |
| Message manager | `cps-agent/src/message_manager.rs` | the unabridged history, the cached prefix | append; summaries (unused) |
| Subagent pool | `cps-agent/src/subagent.rs` | join handles under a mutex, next id | `spawn`, `cancel_all`, `active_count` |
| LLM client | `cps-llm` | buffer and assembler of one stream | `complete`, `complete_streaming` |
| Execution runner | `cps-exec` | child process, audit file | `execute`: approval gate, spawn, wait with timeout, audit |
| Doc runner | `cps-doc-runner` | sandboxed child and two readers | `read_help`, `read_man`, `read_info`, `try_schema` |
| Policy | `cps-policy` | none | `validate_tool_call`, `check_proposal`; `ProposalChecker` (unused) |
| Session | `cps/src/main.rs` | the interactive loop | prompt, interrupt, review, confirmation, execution, token display |
| Tool gate | `cps-agent/src/tools.rs`, `agent_loop.rs`, `cps-policy`, `cps-proposal` | none but the documents | schemas offered, `validate_tool_call`, argument structs, dispatch of one call |
| Start and configuration | `cps/src/main.rs`, `cps-config` | environment, one `Config` | `.env`, command line, interpolation, parsing, validation, overrides, `init` |
| Search engine | `cps-search` | rules, session override | `from_config`, `search`, `search_and_store`, `redact` (not called by the program) |
| Others | `cps-ui`, `cps-tokenizer` | none | rendering; token counts |

How they interact. `run()` makes a configuration out of five sources and builds the agent
loop from it. The session hands each input to the agent loop. A round of the loop
checks the budget (rewriting old messages in place if it must), sends the history
through the LLM client, which retries transient errors, and dispatches the tool calls of
the reply one after the other: to the doc runner, which stores what it captured in the
doc store; to the doc store; to the subagent pool; or to the policy and back to the
human. The session reviews the proposal with the human and calls the execution runner.
The doc store and the subagent pool are `Arc`-shared behind locks, so their operations
interleave at every point where the lock is not held, whoever calls them.

What is hard here: the doc store and the pool do one operation in two critical sections;
stale handles; a history that is rewritten while it must stay a legal chat protocol;
retries inside rounds inside turns; bytes cut anywhere by the network; a child process
that races its timeout and shares its pipe with what it leaves behind; Ctrl+C anywhere;
arguments that are read twice, by a lenient reader and a strict one; matches that overlap;
settings that come from five places.
`PROJECT.json` lists each such hazard with its line and the property that covers it.

What makes each part correct, in a sentence:

- doc store: handles and answers belong to the text that is stored, and nothing slices
  out of bounds, whatever another thread inserts meanwhile;
- agent loop: each call that is dispatched has its result in its place, what is cut is the
  oldest and least first, and the budget is given up on only when no cut would do; what is
  offered passed the policy; every turn ends;
- subagent pool: a handle has one owner, no running task is lost sight of, tasks are
  bounded, every caller returns;
- execution runner: nothing runs without the approval its risk asks for, results hold
  all the output, nothing is left running, the log is in order, `execute` returns;
- LLM client: the reply is what the server said, however it arrived;
- doc runner: a document is the whole output of a command that succeeded, no command is
  blocked by what it writes or left running, and a read returns;
- policy: nothing that is added to a command hides its risk, support never raises it,
  and what is approved is what the execute tool's own gate lets through;
- tool gate: what is done was checked in the values it uses, later checks agree with the
  gate, and a call that follows the schema it was offered is read;
- start: a setting that variables or flags override comes from the highest source that
  gives it, `init`'s file means what no file means, execution is opted into by the governing
  file alone, and no override breaks a configuration;
- search: no match begins in what is sent in clear, and the audit tells what was replaced.

## Modules

**DocText, DocStore** (`cps-doc-store/src/lib.rs`). `docs` and `matches` are the two maps
under the `RwLock`; `scan[c]` is what thread `c` carries between the two critical
sections of `doc_grep`, `reply[c]` its last answer. One action per critical section:
`Insert`, `GrepCapture`, `GrepRegister`, `GrepOvertaken` (the document was replaced
meanwhile), the early returns of `doc_grep`, `Expand`, and the four reads that need no
handle (`DocTokenCount`, `DocPreview`, `DocSection`, `DocLines`). A text is a sequence of
lines, a pattern a set of lines; a line has a length, from which `FallbackTokenizer`
makes tokens, and a shape, from which `is_heading` decides. The generation is taken
modulo `GENERATION_MODULUS` (2^64 in the code); the assumption that there are no more
inserts than that keeps it from coming round. **DocStoreAbs** is the promise: an atomic
store in which a grep answers from the current text, a handle either shows lines around
what it found or fails, and every other read shows consecutive lines of the current
text.

**Budget** (`cps-budget`, `cps-agent/src/budget.rs` and the two rewritings in
`agent_loop.rs`): functions of a history. **AgentLoop** (`agent_loop.rs`,
`message_manager.rs`, the loop of `main.rs`): `pc` names the await or loop `run_turn` is
in; one action per way it goes on. What a tool answers is a size; what the policy says
is the set `Rejected`. **ConversationAbs** is the promise to the human: what was said
stays said, in order, and only acceptable proposals are handed over.

**SubagentPool** (`subagent.rs`): `active` is the vector of join handles, `at[c]` where
caller `c` is in `spawn`. `Push` and `Pop` are its two critical sections; `PopPanics` is
the unwrap on an empty vector, which poisons the mutex. Ctrl+C has no step: `run_interactive`
returns, and the process and its tasks end (`main.rs:312-315`).

**ExecRunner** (`cps-exec`, `execute_accepted_proposal` of `main.rs`): from the review
prompt to the audit entry. `run_argv` is `Spawn`, `Poll` (`try_wait`), `Check` (the
clock), `Kill`, `DrainSome`/`DrainEnd` (`wait_with_output`), and the command and what it
leaves in the background take steps of their own on the pipe.

**StreamAssembler, LlmStream** (`cps-llm`, `llm_call_with_retry`): the server's stream is
a sequence of bytes of a few kinds (the three parts of a line, CR, LF), so that a chunk
may end within a line, within its payload or within a delimiter. `Arrives` takes any
number of them; `Process` takes one event out of the buffer, whose lines (`lines`) are then
processed one by one (`SkipLine`, `DataLine`, `DoneLine`, `UnreadableLine`) as the callback is
called, until `EventOver` looks for the next event. `WholeReply` says what the assembler
should come to, from the chunks as a whole.

**DocRunner** (`cps-doc-runner`): one read from its checks to the stored document. `pc`
is where `run_in_bwrap` is (the wait, the kill, the two joins); `reader`, `kept` and
`truncated` are the two `read_limited` tasks; the command in its sandbox writes to its
two pipes and ends by steps of its own. A document remembers the program and the stream
it came from and how many chunks were kept, so that DocsAreWhole can compare it with
what the program would have written in all.

**Policy** (`cps-policy`): `check_proposal`, the classification, `ProposalChecker` and
`validate_execute` as functions of a proposal. An argument is a record of what the code
looks at: its words, the letters behind a dash, what stands before an equals sign, and
whether it has a metacharacter. The warnings of `validate_assumptions` are in the
verdict; an assumption is the set of its words. The classification is a function of the
set of the arguments, because the code only ever asks whether any of them matches. The
variable is a proposal which the model revises from one round to the next by adding to
it; the properties compare the verdicts before and after.

**Json, ToolSchemas, ToolGate** (`tools.rs`, `dispatch_tool_call`, `validate_tool_call`,
the argument structs, `CommandProposal`). Json has a value of JSON as a record and the two
ways the program reads one: serde_json's accessors, which overlook what has the wrong type,
and derived `Deserialize`, which refuses it. ToolSchemas is what the model is told. A step
of ToolGate is one tool call from its text to its answer: the gate, the parser and the
tool's own checks in the order of the code; `effect` is what the runtime then does, in the
values it uses. A word is looked at through the classes of its characters (`Chars`), a
document is the record its identifier is put together from.

**Interpolate, Startup** (`run()` up to the session, `cps-config`). Interpolate has
`interpolate_with` on a sequence of tokens. `pc` of Startup is the next step of `run()`;
`shell`, `dotenv`, `cli` and `files` are the world it starts in, of which `PrintTemplate`
(`cps init`, its output sent to `./.cmd-proposer.yaml`) changes the last, and `Again` is
the next start. `DefaultConfig` has the settings of `default_config` as `main.rs:565-583` writes
them out, beside the defaults that `cps-config` gives the sections of a file; only the sections
for which both call the same `Default` are one definition. The properties do not use the steps: `Governing`, `ValueOf` and `Written`
say directly what the sources mean, and SettingsRanked compares. A text of a file is given as
the pieces its writer means it to have (`Piece`); raw text is one in which `pattern()` matches
nothing, whatever comes after it, but references that name nothing (`RawBefore`).

**Search** (`cps-search`). A query is a text with the spans that the regular expressions of
each rule find in it; boundaries, candidates, their order, the choice that leaves no overlap
and the placeholders are the code's. `Redact` takes one candidate; the loop that selects
and the loop that builds the text are taken together, because the second reads what the
first has selected and nothing else. The redacted query is a sequence of pieces of the
original.

`MC*` modules give the constants values for TLC. Definitions marked "(mistake: ...)" are
variants of the definition that follows them with a plausible bug in it; no
specification uses them. They are there to show that each property can be broken: put
in place of the original, each makes TLC report the property named in `PROJECT.json`.

## Runs

| Run | What it shows | Bounds, and why they are enough |
|---|---|---|
| DocStore | RegistryCurrent, ExpandNeverPanics, LiveHandleExpands, GrepAnswersCurrentText, RefinesAbs | two threads, two documents, texts of one line and of four whose last is the hit, two inserts, budgets of none and of two tokens, ranges that are empty, within and beyond a text: an insert can fall between the halves of a grep, documents shrink under a handle, a window is cut at both ends, a preview is cut within a text |
| AgentLoop | ResultsInPlace, HistoriesAgree, OldestFirst, NoCutWouldFit, RefinesConversation, TurnEnds | two inputs, two rounds, one retry, a context of 1000 tokens that two tool outputs, two summaries or two inputs overflow; replies of up to three calls with done, proposals and failures at each place |
| SubagentPool | HandlesConserved, TasksBounded, AloneJustPushed, EveryCallReturns | pools of one and two, two callers or one, three subagents, with and without `cancel_all` and `active_count` |
| ExecRunner | OnlyApprovedRuns, NothingLeftRunning, OutputComplete, AuditOrdered, ExecuteReturns | two commands of each class of risk, five typed answers, three chunks of output against a pipe of one |
| LlmStream | AssembledReply, NothingHeldBack, MalformedIsReal, CallReturns | five servers: text, interleaved tool calls without indices, several lines to an event over CRLF, a broken payload, an index too large; every cut, end and error; one retry, two tool-call slots |
| DocRunner | DocsAreWhole, CommandOver, OutputNeverBlocks, ReadReturns | two reads of one document; six programs with output below, at and beyond the limit of two chunks, beyond limit and pipe together, on stderr alone, failing or never ending; refused reads and schemas that parse or do not |
| Policy | ApprovedMayRun, RiskNeverHidden, SupportNeverHurts | eleven arguments: three programs, a verb of every class, a bundle of flags, a shell and a metacharacter; three arguments, two pieces of evidence of four kinds, one preflight command and one assumption, since no check looks at more than three arguments together |
| Search | AuditRestores, NoMatchBeginsInClear | two searches, seven queries of up to thirteen characters whose matches stand alone, start together, lie in one another or overlap in part, six lists of rules, two results: three overlapping matches are enough for every case of the test of overlap |
| ToolGate | CarriedOutWasChecked, SecondChecksAgree, SchemaCallsParse | 447 calls: every combination of good, bad, missing and mistyped fields for the tools with checks, one word of each class, five configurations, a store of one document (with each identifier stored or not) |
| Startup | SettingsRanked, ExecutionOptedIn, NoFileIsMinimalFile, OverridesKeepItValid | 108 environments that set none, one, two or four variables to empty, blank, plain and reference-like values, lists and words for yes and no, four `.env` files, nine command lines, 36 disks; a setting has two variables at most, so two at a time meet every rank |

Deadlock is checked in SubagentPool, LlmStream, ToolGate and Startup. The others may stop: a session ends,
and the inserts, reads and searches of a run are bounded by MaxInserts, MaxReads and
MaxSearches.

Two runs show where the code does not do what it says; each is a small instance with
one property that TLC violates, and a finding in `PROJECT.json` with both lines.

| Run | What is said | What happens |
|---|---|---|
| DocStoreStale | a stale handle is rejected (`cps-doc-store/src/lib.rs:140-142`) | after the new text is searched, the old handle names a new position and is accepted |
| AgentLoopOpenCalls | "Tool/function calls — round-trip via the `Message::tool_calls` / `Message::tool_result` message types" of the chat completions schema (`cps-llm/src/lib.rs:14-15`) | the calls after `done` or an accepted proposal in one reply have no result (`agent_loop.rs:415-427`), and the next input sends them so |

The properties of the passing runs are stated so as to hold with these in: DocStoreAbs
allows a handle to be taken up again, and ResultsInPlace asks for no result of a call after one
that ends the turn. SchemaCallsParse excepts one more disagreement, of proposals that cite
`official_web`: "`source.kind` is one of `local_schema`, `local_doc`, `official_web`,
`other_web`" (`system_prompt.rs:45`, and the schema, `tools.rs:451`), but the parser knows it as
`official_web_doc` (`cps-proposal/src/lib.rs:37-44`) and refuses the whole proposal.
AloneJustPushed is about the single caller there is today, and ExecuteReturns excepts the
background.

Other divergences, met while modelling, have no run.

*Doc store and budget.* A preview is "no larger than `max_tokens`"
(`cps-doc-store/src/lib.rs:224`), but lines are counted one by one and rounded down, so many
short ones come to more. "Oldest Layer 2 evidence" is truncated (`agent_loop.rs:889-890`),
and so is a human input that starts with the evidence prefix, since `is_evidence_message`
(`budget.rs:93`) ignores the role. A help page of the long and of the short style have one
document identifier, so one replaces the other.

*Execution.* "Blocking wait with timeout" (`cps-exec/src/lib.rs:254`): a descendant that
holds the pipe keeps the wait going for ever. "Typed confirmation is non-configurable"
(`cps-config/src/lib.rs:502`): it is, but it goes by the risk the model declares and not by
the policy's classification, whose escalation nothing acts on (`main.rs:357`).

*Subagents.* `kill_on_main_cancel` is read by nobody: Ctrl+C ends the
session and the process, and subagents with it, whatever the setting says. A call of `spawn` is
dispatched with `subagents.enabled` false as well. "MUST stay within
`runtime.global_timeout_ms`" (`tools.rs:339`) is not checked. `spawn` does not
read `thinking.subagent_default`: a subagent's budget is 4096 when the call names none (`subagent.rs:343`).

*Search.* "Hostnames, IPs, emails, internal domains stripped" (`tools.rs:281`): an address at
the end of a sentence is not, because the full stop after it fails the test of the boundary
(`cps-search/src/lib.rs:614-617`). `search_and_store` leaves the documents of an earlier and
longer answer under the same prefix (229).

*Configuration.* "A literal `$` can be written as `$$`" (`interpolate.rs:12`), but not before
a `{`: the result is searched for `${` once more and refused, as is a variable whose value
holds it. References in comments are replaced too, and refuse the file when the variable is
not set. The minimal template of `cps init` needs three variables; without a file the
program starts without them. A file is validated before the environment overrides it, so a
file that is wrong only in settings that are overridden is refused. A line of `.env` that
cannot be parsed silently cuts off those after it (`main.rs:85`). Nothing reads `risk.*`, `doc_store.*`,
`proposal.require_preflight_for_medium_plus` or `execution_runner.audit_log`.

*Agent loop.* "`messages` only grows by appending" (`agent_loop.rs:4-5`), but over the budget
messages that were sent before are rewritten in place (912-952).

*Smaller ones.* "We just pushed it" (`subagent.rs:256`) is true of
a single caller only: with two, or with `cancel_all` in between, the last handle is
another's or none, and then the unwrap panics and poisons the mutex. `cancel_all` ("all active subagents",
`subagent.rs:306`) never sees a running task whose spawner has popped its handle, and
for the same reason max_parallel does not bound the tasks that run. A spawn error of
kind TimedOut is audited as a timeout (`cps-exec/src/lib.rs:141-151`). A critical
command whose last argument ends in a blank cannot be confirmed, because the typed line
is trimmed (`main.rs:368-372`) and compared to the untrimmed text. The assembler of
streamed tool calls keeps the last id and name it is given (`cps-llm/src/stream.rs:187`),
not the first (147-149). The de-escalations of `adjust_risk` (`checker.rs:305-324`) never
bring a verdict below the classification, because `check` takes the greater of the two;
they only undo escalations. `evidence_required_tokens` takes whatever follows a flag
without an equals sign for its value, so that no evidence is asked for a verb there.

## Fairness

- AgentLoop: weak fairness of its own steps. Between awaits the loop runs on; a
  completion is answered or fails after `request_timeout_ms`; the tools have timeouts.
  Nothing is assumed of the human.
- SubagentPool: weak fairness of every task (a subagent runs under
  `tokio::time::timeout`) and of every caller; the mutex is held for no await, so a
  critical section is one step.
- ExecRunner: weak fairness of `execute` and of the clock. None of the command: it may
  run, block or hold its pipe for ever, which is what the timeout is for.
- LlmStream: weak fairness of the call. Each await in it has a timeout (client builder,
  `timeout_at`, the retry delay); none is assumed of the server.
- DocRunner: weak fairness of the runner, its two tasks, the command and the sandbox
  (`--unshare-all` and `--die-with-parent`: what a command leaves behind goes with the
  first process of its namespace). The timeout is only counted on for a command that
  never ends by itself, so that OutputNeverBlocks is not owed to it.

## Proofs

| Module | Theorems |
|---|---|
| DocStoreProofs | TypeCorrect, RegistryStaysCurrent, ExpansionIsSafe, HandlesLive, GrepsAnswerCurrentText, StoreRefinesAbs |
| AgentLoopProofs (with Budget and SubagentPool) | SharesFit, LayersLeaveReserve, TypeCorrect, OffersAreChecked, ResultsStayInPlace, HistoriesStayInStep, NewestKeptLongest, AttemptsStayBounded, LoopRefinesConversation; PoolHolds, HandlesAreConserved, TasksAreBounded, AloneTakesItsOwn |
| LlmStreamProofs | StreamHolds, StreamTyped, RepliesAreAssembled, NothingIsHeldBack, MalformedRepliesAreReal |
| DocRunnerProofs | RunnerTyped, DocumentsAreWhole, NoCommandLeft |
| PolicyProofs (Policy and ToolGate) | PolicyTyped, RiskStaysVisible, SupportHelps, ApprovedRuns, ToolGateTyped, CarriedOut, SecondChecks, SchemasMatchTheParsers |
| ExecRunnerProofs | TypeCorrect, RunsAreApproved, PromptAfterTheCommand, ResultsHoldAllOutput, AuditStaysOrdered |
| SearchProofs | SearchTyped, RedactionIsRestorable, MatchesNeverBeginInClear |
| StartupProofs | StartupHolds, ExecutionIsOptedIn, OverridesAreHarmless, MinimalFileChangesNothing, TextReplaced, SettingsAreRanked |

They hold for every value of the constants that satisfies the named assumptions
(`DocStoreAssumption`, `ReadAssumption`, `SentinelAssumption`, `BudgetAssumption`, `AgentAssumption`, `ExecAssumption`,
`PoolAssumption`, `RunnerAssumption`, `PolicyAssumption`, `SearchAssumption`,
`ToolGateAssumption`, `StartupAssumption`, `TextsAssumption`, `WordsAssumption`,
`StreamAssumption`, `AssemblerAssumption`), which TLC evaluates in the runs. They say what the
types in the code say, how the texts of a file are taken apart (TextsAssumption), that four words
of the templates are strings, which no prover knows of a literal (WordsAssumption), and that `None` and `Malformed` are none of the values they stand
beside. That the callers of a pool are finitely many is one of them: TasksBounded counts them.

*DocStore.* A registered position lies in the document it belongs to and has its
generation; a thread between the halves of a grep holds a scan whose hits lie in the
text it captured. The first is not inductive alone: the second half registers hits of a
captured text, and only the comparison of generations together with "the scan is of the
stored text unless the document was replaced" carries it over. The refinement maps a
grep to its second half, the point where it answers. Of the reads it needs that each
answers with consecutive lines (IsExcerpt), whatever weights the lines have, which rests
on counting the lines that fit from the front (FrontBounded).

*AgentLoop.* `HistoryInv` joins three facts: each message of one history is the other's
or its rewriting, the manager holds only originals, and nothing newer is cut while
something older could be. OldestFirst needs the first two: a rewriting never makes a
message rewritable again because it starts from an original. `AttemptsCounted` counts
attempts round by round; the bound of a turn is its last line. The refinement rests on a
rewriting leaving a message's role, calls and answer alone.

ResultsStayInPlace needs `RoundInHistory` beside it: while calls are dispatched, the last
message that is no tool result is the reply that asked for them, with one result for each
call before `next`, none of which ended the turn, and nothing before it is left open. One more
result then settles one more call, or all the rest of them when it ends the turn (`Reached`). A
rewriting leaves roles, calls and answers alone, so neither part can tell it happened.

*SubagentPool.* `PoolInv` adds to HandlesConserved what the callers do: who waits holds a
handle, ids are given out in order, who is not of the session never calls, and the limit holds
because the clearing of finished handles and the look at it are one critical section. That
`Live` (the `retain` in the code) keeps the order and the unfinished handles and nothing else is
proved of its recursive function by induction on the length of the vector. TasksAreBounded is
then counting: each running task has its handle in the pool or with a caller who waits, and
those are two finite sets of known size.

*LlmStream.* `StreamInv` has four parts, for an attempt and for the moment it ends. BytesInv:
what has arrived is a prefix of what the server says, the buffer is its end, and what was taken
out before ends with a delimiter. LinesInv: what those bytes say is what was processed and the
lines still to come, and the callback heard the former. PhaseInv: nothing whole waits in the
buffer while a chunk is awaited, and what ended the attempt. AssemblerInv: the assembler holds,
slot by slot, what the chunks heard say as a whole. The step that needs most is `Process`: an
event taken out of the buffer says the same as the same bytes in the whole stream, because no
payload is cut at a delimiter (RangeSplit), and the network's cuts are nowhere else. The three
properties are then read off the prefix that arrived: its first unprocessed line is the one that
ended the attempt (FirstLine), and its last delimiter is in what was taken (LastEvent). The
folds (the loop over a chunk's fragments, FlattenSeq over bytes, payloads and chunks) are
recursive functions; `SetInduction` gives what they do for one element more. StreamTyped has
the bounds of the attempts and of the assembler's slots.

*Startup.* `StartupInv` says what each step leaves to the next. `FileInv` follows the
governing file from the choice of a path to the parsed settings, and with it ConfigInv has
execution enabled only by what that file says (ExecutionOptedIn). OverridesAreHarmless looks at
each variable: what takes the place of a setting is not blank, and a list of programs is never
empty, because `EnvList` takes the default for an empty one (ListHasItem). `MinimalInv` follows the minimal template
through interpolation and parsing to `MinimalConfig` and compares that field by field with the
defaults of `default_config` once both are overridden; that the literals of the one are the
section defaults of the other is DefaultsAgree.

`RankInv` is what SettingsRanked needs beside it (the list of programs and the search switch are
ProgramsRankedByVariable and SearchRankedByVariable): every text that can be read is made of pieces
(`cps init` writes one that is), what is read is the governing file, and what is parsed is, text
by text, what was written there (`Written`), so the overrides find either that or the defaults.
The step that needs most is InterpolateFile, and it is TextReplaced: the scanner of
`interpolate_with`, a recursive function over the positions of a text, is first shown to have a
value (ScanExists, from the end of the text to its front), then to see nothing but what is after
it, so that what it makes of the rest of a text is the rest of what it makes of the text
(ReplacedAfter). A literal comes out with its signs undoubled, a reference as what replaces it, raw
text as it is or refused; put together piece by piece, from the last to the first, a text comes
out as its pieces mean or holds what is refused, since what is refused of a part is refused of the
whole (BadStays). That the command line does not say both offline and online is carried from the
parsing of the arguments to the override.

*ExecRunner.* `ExecInv` says what has been settled at each point of the prompts (the
confirmation at the gate is the trimmed typed line) and where every chunk of output is
(`written = pipe + output`); the write end is closed exactly when the command is over. `AuditInv` gives every entry of an
ended command its place among the commands started: one that may yet be entered was started
last, behind every place taken, so a new entry takes the last place and lost entries only
leave places free.

*DocRunner.* `StreamInv` has every chunk written either in the pipe or taken by the task,
and what is kept and the mark of truncation follow from the number taken; `CommandInv`
says that once the tasks are joined the command has ended and both came to the end, so
that what was taken is all there is.

*Policy.* Every pattern is monotone in the set of arguments (PatternsMonotone), and the
order of the tests does the rest (ClassifyMonotone). SupportHelps writes the adjusted risk
as `Adjusted`, a chain of two escalations and three easings of six facts about a proposal;
what is added to its support can turn the weaknesses off and the easings on, each link of
the chain is monotone, and DecidingFindings says that the findings the code searches are
the ones those facts produce.

*Search.* `Redacting` says of the redaction up to `last_end` what the properties say of the
whole: the pieces tile the query so far, they alternate with the audit, and no match that
begins before `last_end` begins in clear. A step keeps it because the candidate it takes is
the least of those that remain: whatever begins before it begins before `last_end`.

*ToolGate.* CarriedOut goes by tool: for each, what the parser reads is what the gate read,
because a field both accept has one value. SchemasMatchTheParsers compares each schema with
the struct its calls are read into, field by field, down to the evidence of a proposal. SecondChecks rests on the two copies of
the roles' tools being the same sets and on safe words being valid identifiers.

Type correctness, OffersAreChecked and AttemptsStayBounded are about properties
that no run checks any more: they are proved for every instance.

Model-checked only is liveness (TurnEnds, EveryCallReturns, ExecuteReturns, CallReturns,
OutputNeverBlocks, ReadReturns), which is beyond TLAPS's backends, and NoCutWouldFit, which
compares two sums over histories and needs an induction over the fold that makes them. The library's induction rules
cannot be used, since they take an operator as a parameter; `SetInduction`, a lemma from
NatLessThanWellFounded and WFMin, is induction over a set of naturals instead, and is what
AgentLoopProofs uses for `Live`, LlmStreamProofs for the assembler's folds and StartupProofs for
the scanner. `StartupInv` and `RankInv` held on the run of Startup before they were proved.

## Not modelled

Token counts (numbers, left open), regular expressions and the characters of texts; YAML
beyond one scalar to a setting; the sandbox's arguments; the task that displays counters and
the widgets of `cps-ui`, of which the program uses the text rendering only; the HTTP and the
pages of the DuckDuckGo provider; `HuggingFaceTokenizer`; the lines of context that come with
a hit of a grep; the wording of the system prompt. `cps_config::load` is a second lookup
chain that the program does not call.

## Plan

Done: doc store, budget and agent loop, subagent pool, execution runner, LLM stream, doc
runner, policy, tool gate, start and configuration, search; every invariant of the
passing runs but NoCutWouldFit is proved. Next: the key handler of ProposalView, should the program come to use it.
