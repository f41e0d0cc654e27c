# TLA+ models of Lingxi-IntelligentAgent

Lingxi is a local agent in Python: a Runtime facade takes a user's question, an
agent plans and executes it with tools and models, and everything that happens
is kept in a SQLite session store. This directory holds TLA+ models of its
control logic, TLC configurations that check them, and proofs checked by TLAPS.

Source paths are relative to the repository; the Python package is `src/src/`
in them. `PROJECT.json` maps every definition to the lines it models.

## 1. The system

| Component | State it keeps | Operations | Talks to |
|---|---|---|---|
| Runtime facade (`app/runtime/core.py`) | closed flag, objects it owns | run, run_stream, resume, cancel, delete_session, close, recovery at start | everything below |
| Pending run registry (`pending_runs.py`) | run id -> record with executor context, expiry; one lock | register, pop, expire, clear_session | Runtime |
| Runtime memory adapter (`memory/runtime_adapter.py`) | per turn: persistence_available | begin_turn, record_event, complete_turn, fail_turn | SessionManager |
| Session manager and store (`session_manager.py`, `storage.py`) | tables sessions, messages, agent_runs, execution_events, summaries | one or several transactions per operation | SQLite |
| Summariser, context builder, short-term memory | summaries' coverage | maybe_auto_summarize, build | store, models |
| Orchestrator, analyzer, planner (`agent/orchestrator`, `analyzer`, `planner`) | file of pending intents | process_input, analyze, plan | models, tool registry, executor |
| ReAct executor (`agent/react_executor/`) | context: step states, observations, pending confirmation | execute, resume_after_confirmation, reject | tools, models |
| Tool registry, policy, runtime (`tools/`) | registered tools, log | execute, preview, confirm | tools |
| File tools (`tools/file_tools/`) | files, previews with hashes | read, find, write, patch, copy, move, rename, delete | file system |
| Web search (`tools/web_search/`) | none between calls | run, search, normalise | providers |
| Command tools | none | run | processes |
| MCP client, process, gateway, manager (`tools/mcp/`) | process, queue of lines, request ids, routes | start, refresh, stop, call | child processes |
| Model manager, router (`models/`) | health of candidates, enabled providers | generate, generate_json, compress, stream, embed | providers |

**What is hard here.** Threads call one Runtime, and several Runtimes may share
a database. A turn is many transactions, between which its session may be
deleted, its process may die, or another Runtime may start and mark its run.
Waiting runs live in memory only, in a registry that two users' calls race
for, with an expiry. Operations read a row, decide, and write the whole row
back. Messages and events share one sequence that is unique per table only.
A turn that fails to store something goes on without storing anything. Below
the Runtime, tools look at a file once to plan and touch it later; an MCP client
shares one queue of lines among requests that give up; models are called in
loops in loops (retry, failover, repair, chunks) over health that threads share;
and what a model answers may be anything. `PROJECT.json` lists each hazard with
its line under "hazards".

**What makes each component correct.**

- Store: one sequence per timeline; no row without its parent; a completed run
  has its answer; timelines are append-only; summaries forget nothing.
- Registry and Runtime: a run is in one place; it ends once; a wait can be
  resumed only while the run is open; a confirmed action is carried out once
  and only as confirmed; a result that says it was stored was stored; a run
  that nobody works on is not left open but for the known reasons; every
  request is answered.
- Analyzer and planner: what the user's words forbid is not executed; a plan
  that starts names tools that exist; every request is settled.
- Executor: steps run after the steps they depend on; what must be confirmed
  runs only on approval; the result tells what happened; the loop comes back.
- Tools: what is lost was shown to the user; what is secret stays; a patch does
  what was located. MCP: an answer reaches the request that asked.
- Models: what failed is left alone until it has cooled down; a call gives up
  only when nobody is left to ask, and always returns. Search: the next provider
  is asked only as planned, and no answer claims more than it shows.

## 2. Modules

| Module | Models | Extends |
|---|---|---|
| `RuntimeIds` | the shared identifiers | |
| `SessionStore` | `storage.py` and `session_manager.py` | RuntimeIds |
| `SummaryStore` | `summarizer.py`, `maybe_auto_summarize`, `update_summary` | SessionStore |
| `PendingRuns` | `pending_runs.py` | RuntimeIds |
| `Runtime` | `core.py` and `runtime_adapter.py`, composed with both | SessionStore, PendingRuns |
| `RunLifecycle` | abstract: what the Runtime promises of a run | |
| `Analyzer`, `Planner` | `complexity_analyzer.py`, `planner.py` as operators | |
| `Planning` | `react_agent.py` and the executor's precheck, composed with both | Analyzer, Planner, ToolCatalogue |
| `ExecutorLoop` | `react_executor.py` with its checker, retry, fallback and safety policies: one execution of a plan | |
| `ActionPackets` | one turn of it: `_request_action_packet`, `react_executor_protocol.py`, `dispatch_action` | |
| `ToolCatalogue` | `tools/registry.py`: the built-in tools and what they declare | |
| `PatchText`, `FileTools` | `tools/file_tools/` as operators on one disk | |
| `ToolPolicy` | `policy.py`, `path_policy.py`, tickets of `output_control.py` | ToolCatalogue, FileTools |
| `ToolRuntime` | `tools/runtime.py` with the handlers, several threads and an editor | ToolPolicy |
| `McpClient` | `tools/mcp/` | |
| `ModelRouter`, `ModelCall` | `models/router.py`, `model_manager.py` with `compression.py` and `structured_output.py` | |
| `WebSearch` | `tools/web_search/` | |
| `MC...` | instances for TLC | |
| `PlanningProofs` | what is admitted to execution | Planning |
| `ActionPacketsProofs` | turns, retries and called tools | ActionPackets |
| `RuntimeProofs` | the store; summaries, which implement the store and forget nothing; the Runtime: ownership, confirmations, records and the order of a turn; it implements the store and RunLifecycle | Runtime, SummaryStore |
| `ExecutorLoopProofs` | places, dependencies, questions and results of an execution | ExecutorLoop |
| `McpClientProofs` | answers and routes | McpClient |
| `ToolRuntimeProofs` | what tool calls take from the disk, that secrets stay, and what patches make of a text | ToolRuntime |
| `ModelCallProofs` | who is asked, and when a call gives up | ModelCall |
| `WebSearchProofs` | the chain of providers, and what an answer claims | WebSearch |

**SessionStore.** Tables are variables; each `with self._transaction()` block is
one action, and an operation of the manager that reads in one connection and
writes in another is two, with what it read in `call[c]`: append_message is
`BeginAppend`, `InsertMessage`; complete_run is `BeginCompleteRun`, `UpdateRun`;
fail_run is `BeginFailRun`, `UpdateRun`; create_run is `BeginCreateRun`,
`InsertRun`. Foreign keys and cascades are in the guards (`CanInsertEvent`,
`InsertMessage` which only needs its session) and in `DeleteSession`.
`issued` is the memory of uuid4: an id is not generated twice. Titles, contents,
timestamps and metadata are left out.

**SummaryStore.** The clients of the store also summarise: the current summary
is read (`BeginSummary`), the messages later (`GatherCandidates`), the model
takes its time, the range is checked (`CheckRange`) and the row inserted
(`InsertSummary`), each in a transaction of its own. A summary is the set of
messages its text was written from (`told`), in which a message whose row is deleted
leaves a mark (`Aged`), since its number is given again in a session of the same id;
older rows are left out, as nothing reads them. The reads of a count, of the recent and of the older messages are one step.

**PendingRuns.** Operators for the registry's methods, each atomic under its
lock; expiry is lazy, as in the code. The clock is a bounded counter.

**Runtime.** A thread carries one request (`th[t]`) through stages. Each step is
a database transaction, a registry call, an event, the agent's return, or a
crash. `persisted[r]` is `turn.persistence_available`; a failed write sets it to
false (`LosePersistence`) and the turn goes on unstored. What the agent does is
nondeterministic: it emits events, completes, fails with any status, asks for a
confirmation (`tickets`, `asked`) or for input. `Resume` pops the record, checks
the confirmation id, and fails the run, rejects, or dispatches the confirmed
action; `Cancel` pops it, records the notice, and lets the loop go on with the
independent steps, after which the run is failed as cancelled. `Crash` loses a
process's threads and registry, `Restart` is the recovery at start.
`granted`, `dispatched`, `refused` and `outcome` are history.

Checks that nothing can come between are merged with the write they guard: in
append_execution_event the manager's checks read before the insert, and the
insert succeeds exactly when the run is still there.

**RunLifecycle.** new -> working <-> waiting -> a result, or dropped for good.
`Runtime!Life` is the refinement mapping.

**Planning.** A request goes through the analyzer, the planner and the check of
the plan. A text is a record of the facts the rules read out of it (the mode
marker, the intents its keywords hit, how many paths it holds, other
parameters, flags of the keyword lists); the regular expressions that find them
are left out. `Analyzer` holds the risk policy, the missing parameters and
tools, the strategy; `Planner` the fixed plans, the rule templates, the
normalisation of what the model wrote, and the validation. Tools leave and
return to the registry while a request waits for the model.

**ExecutorLoop.** One execution of one plan, from the check of the plan to its
result, and again after each answer of the user. The executor is one thread, so
nothing interleaves: what is hard is the order of its own steps. `pc` is where
the thread is; `cur`, `at`, `round` are the unit, the step and the turn of the
step loop, `depth` is `decision_depth`. `Turn` asks the model for an action and
performs it, `Check` is the rule checker's verdict and `_apply_checker_decision`,
`RetryDecided` and `FallbackDecided` are the actions the checker itself orders.
`resume` tells whether the thread is inside `resume_after_confirmation`, in the
confirmed action or in the loop it starts after it. What is remembered of
observations is what the code reads back: whether the latest of a step was a
success, and its latest failed call, which a retry repeats. What a call comes to
is open (`CallClasses`), but the tool layer asks for a confirmation again when
it gets none with a ticket. Error codes are reduced to the checker's classes;
`invalid` stands for all that are never retried. `turn` and `seen` are bounded
by the limits the code has, so no bound of the model's own is needed. The
Runtime knows an execution by what it returns: a result, or `waiting_user` with
a pending confirmation; `Runtime` leaves open which, so it covers
everything this module shows. `AskedAhead` names the one step on which the check
of the plan asks the user before the loop starts. Steps are numbered in the order
in which the units list them; a plan that lists its steps in one order and its
units in another, or a step twice or in no unit, is left out.

**ActionPackets.** What ExecutorLoop has as one step: the model is asked, its
answer is held against the contract of a packet and repaired, what is valid is
dispatched, and a retry or a fallback dispatches once more inside. Other threads
change the tool registry between prompt, validation and call. The model may set
any field, also the ids the executor would set. Whether the checker agrees to a
retry is open. That a turn leaves one observation (`TurnsAreAccounted`) and
comes back (`TurnsEnd`) is what `ExecutorLoop!Turn` takes for granted.

**ToolRuntime.** A thread makes a call: the executor's safety policy may stop
for the user, who sees a preview; the runtime validates the arguments, asks the
policy with the ticket, and calls the handler, which plans on one look at the
disk (`MakePlan`) and carries the plan out later, operation by operation. Other threads and the
user's editor change the disk in between. The preview of a call stands for its
hash. `PatchText` is patch_file as a function: patches are located in the
original text, checked for overlaps and applied one by one from the end, with the text so far as the state of a recursion.

**McpClient.** The manager starts, refreshes and stops one server, threads call
its tools through the gateway, the client writes requests under its lock and
waits for lines on one queue, which the pump of every process it ever started
feeds. The server is external: it answers, fails, writes noise or dies. An
"error" and a "result" of JSON-RPC are one kind of answer; a write to a dying
process is a write and a death.

**ModelRouter, ModelCall.** `ModelRouter` is the choice of a candidate as a
function of configuration, options and health, and the effect of success and
failure on health. `ModelCall` is the threads that share one manager: attempts,
failover, the repairs of structured output, a call for each chunk of a
compression and one for the synthesis, a stream with its first and last chunk,
embeddings. Codes are abstracted to ok, auth, model, busy, bad and refused;
times are remaining ticks; the count of failures stops at the threshold.

**WebSearch.** One call after another with one router: the provider that is
named or the configured order, what each provider may answer, and the
normalisation of the answer (limit, merge, rate, cut). Lengths are in units.

## 3. Runs

| Run | Bounds | Shows |
|---|---|---|
| store | 1 session id, created again after deletes, 2 runs, 2 clients, 1 event id, timelines of at most 3; 1 recent message, trigger 1, batch 1 | the store and its summaries under any interleaving of its operations |
| crash | 2 processes, 2 threads, 2 runs, 1 crash, 1 failed write | the order of a turn, ownership and the life cycle over crashes and restarts |
| live | 1 process, 2 threads, 2 runs, 2 confirmations, clock to 1, 1 event per run, 1 failure, 1 crash, 1 spare id | resume against cancel against expiry; stored results; every request is answered, runs settle |
| planning | 1 request at a time: 17 texts, 6 answers for intents, 10 plans of the model, 3 configurations, 1 repair, 2 changes of the registry | what is executed, refused or asked of the user |
| exec | 7 plans of 1 to 3 steps in 1 or 2 units, 11 kinds of packet, 5 kinds of failure, 3 turns a step, 5 an execution | steps, dependencies, limits, confirmations and results of an execution, and that it comes back |
| packet | 2 steps, 2 tools and 1 model alias, 1 repair, 1 retry, 3 turns, 1 change of the registry | a turn in detail |
| tools | 2 threads, 2 calls out of a list, 1 change by an editor, 7 paths of which one is sensitive, one outside and one cannot be replaced | what is lost, what is read, what patches make of a text |
| mcp | 2 threads, 1 server, 2 starts, refreshes or stops, 2 calls, 1 fault | answers, routes, and that calls end |
| models | 2 threads, 2 jobs, 2 candidates and a default, 1 retry, threshold 2, 1 switch | who is asked and when a call gives up |
| modelsend | 1 thread, every kind of call, 1 repair, 2 chunks | that calls return |
| websearch | 7 configurations, 3 addresses of which two are one page, at most 3 results, 4 as the most that may be asked for | fallback and evidence |
| docalias | as planning, with the names of `ToolManager.list_tools` | what a document says of old tool names and the code does otherwise (violated on purpose) |

Exact values are in the `.cfg` files. Two threads and two runs of one session
are enough for every race in the list of hazards, because each is between two
requests for one run, or one request and a delete, a crash or a recovery. Each
bound is a constant of its module and says so: `MaxSeq`, `MaxEvents`,
`MaxTickets`, `MaxClock`, `MaxFaults`, `MaxCrashes`, and `Spare`, the run ids
kept for turns that need a second one; `MaxOps`, `MaxCalls`, `MaxEdits`,
`MaxJobs`, `MaxSwitches`, `MaxChanges`, `MaxTurns`. Because those bounds stop
the system, most runs do not check deadlock. Runs and threads of one process
are symmetric where no liveness is checked.

The plans of `exec` are chosen so that every branch is met: a chain in one unit
and a unit that uses its output, steps that stop, go on, replan or fall back,
more retries than the turn limit allows, a step whose planned tool needs the
user's word before the step it depends on, a forbidden one, and a plan that
must be confirmed as a whole. Three turns a step allow a retry and a fallback in
one step, and five an execution make the limit fall into the second or third
step. In `tools` the list of calls holds each kind of handler and its refusals,
and two calls are enough because a hazard is between one call and one other
change of the disk. In `models` two failures open a circuit and two threads
are needed to record a failure between another's choice and its call.

**Fairness.** Each liveness property is checked under weak fairness of the
thread's own steps, and nothing of anybody else:

- `Runtime`: the steps of each thread that carries a request, and those of its
  steps that need no database failure (a thread must not depend on one to go
  on). A Python thread goes on, the agent loop has a limit of turns and its
  calls have timeouts. Users owe no resume or cancel, processes may stay down,
  and the clock may stop.
- `ExecutorLoop`, `ActionPackets`, `Planning`: the steps of the executor or the
  request (`Work`): each call of a tool or a model returns or raises, which
  `ModelCall` shows of models. The user never has to answer.
- `McpClient`: strong fairness of each thread's steps, for a thread that waits
  for a lock others take in turn; every wait for the server has a timeout, and
  the server owes nothing.
- `ModelCall`: weak fairness of each thread's steps, among them the timeout that
  ends a wait for a provider. Providers owe nothing. Streams and embeddings have
  no deadline in this layer, so their provider is assumed to come back.

**Finding.** `docalias`: the analyzer asks `ToolManager.list_tools` for the tools
there are, which knows the new names only, while its mapping recommends
`search_tool` and `file_writer`: with a tool manager every request to search or
to write a file is refused for missing tools. `PROJECT.json` quotes the lines.

## 4. Where code and documents, or code and expectation, differ

The properties name their exceptions; these are the ones worth knowing.

*Runtime and store.* The answer and the run's completion are two transactions
(`runtime_adapter.py:315`) where the data model document has one. The recovery
at start marks runs of living processes (`storage.py:1246`). A waiting run is
stored as `running`, not as `waiting_user` as the event design has it.
`delete_session` clears the registry after the rows are gone, so a wait of a
session created again in between is dropped and its run stays open
(`OpenRunOwned`).

*Summaries.* `covered_to` may move backwards, against the comment at
`session_manager.py:345`: two summarizers may pass the check with the same
current summary and the older one be inserted last; nothing is forgotten then,
only told again. A session that was deleted and created again can get the
summary of the old one. Between the summary and the recent window the context
builder leaves out what is not summarised yet.

*Analyzer and planner.* A request for read, extract and write with one path
writes over its source (the executor's gate asks first). The model's plans are
not checked for cycles of dependencies, steps no unit lists or output keys given
twice. A plan of the fallback does not look at the intents. A request for the
intent `chat` alone is asked for clarification even in chat mode. A macro plan is
refused as not executable rather than asked about. The file of pending intents is
read, emptied and written without a lock (`complexity_analyzer.py:552`), so
counts are lost.

*Executor.* A confirmed call whose failure asks for a replan does not stop the
execution: the loop starts over (`react_executor.py:697`). A `finish` packet
that stays invalid after all repairs ends the execution as completed
(`react_executor.py:3686`). A waiting execution may have no question to answer:
a call approved in the check of the plan has no ticket, so the tool asks again
and nothing is registered (`WaitingIsAnswerable`); that call also runs before
what it depends on (`DependenciesFirst`). A rejection turns a step that ended,
even a completed one, into a skipped one when it depends on the rejected step
(`StepsEndOnce`). A step approved ahead of its turn whose call fails, and that may
fail (`onFailure` "continue"), stays `running` in the state that is returned when
an earlier step then ends the loop (`ResultMatchesSteps` names it). At the turn limit a confirmation stays open while its step is
failed and the loop goes on, and calls that succeed are not limited at all: the
limit only makes failures final. The model may book its action on another step,
name an older failure of another step when this one has none
(`react_executor_protocol.py:454`), and prose between two fences passes the strict
check of the form.

*Tools.* An approved ticket is refused as `preview_conflict` though nothing
changed when the preview differs only in what it counts (`output_control.py:129`).
An insertion into a range that another patch replaces is accepted
(`patching.py:469`) and text is left over. A move or copy may replace a target
that appeared after the plan, even with overwrite=false. The path policy does not
know `source_path`, `file_paths` and `new_name`; the handlers resolve them again.

*MCP.* `request()` restarts a dead process without a handshake
(`stdio_client.py:226`), and a process revived after `stop_server` stays
(`manager.py:117`).

*Models.* With a credential slug of the manager's own, a failure is recorded under
one key and looked up under another, so the second candidate is never asked
(`models/router.py:505`; the configuration of `models` has none). A first
candidate too small for the prompt ends the call. The token limit may be
exceeded after truncation. A stream whose provider ends in a failing chunk is
logged as success. Worker threads that time out are abandoned.

*Web search.* In auto mode an earlier timeout is hidden behind a later "not
configured". An answer emptied by the output limit keeps `url_verified`
(`EvidenceHeld` speaks of answers that show results). A model's results without
an address are rated above those with one. The maximum of results
configured for `search_api` itself is not bounded (`tool.py:100`), so one above 20
makes every search by it an invalid call. The limit is
measured before views and route metadata are added, and results are limited
before duplicates are removed.

## 5. Proofs

All for any number of sessions, runs, threads, processes, events and failures.

- `RuntimeProofs`, the store. `StoreInv` is inductive. Types, the sequence and its
  counter alone are not enough: `UpdateRun` writes a row that was read earlier,
  so the invariant says what is still true of a pending write: its run was
  issued (`RunsIssued`), a pending insert is the first (`InsertIsFirst`), the
  row is of the same session as the stored one (`UpdateSameSession`), and a
  pending completion has its answer (`UpdateHasAnswer`). From it: `StoreTyped`,
  `StoreSequence`, `StoreNoOrphans`, `StoreAnswers`, `StoreAppendOnly`.
  A step of a client that summarises leaves every table alone, so `SummarySpec`
  implements `StoreSpec` (`SummaryRefinesStore`) and the store's theorems hold with
  summaries (`SummaryKeepsStoreSound`). `SummaryTyped` needs the messages to be
  finitely many: at least `Batch` candidates then have a last one, by the
  well-foundedness of strict subsets.
  `SummariesForgetNothing` adds `TellInv`: not only a current summary but each draft
  tells what its range covers, as far as the session it was begun in still stands
  (`SummariesTell`). That needs the store's invariant: a message that comes late has a
  higher number than all a draft was made from, so it is in no range; and a summary
  that was read before another was inserted tells its own range all the same, whoever
  comes first, because the insert checks nothing but the range.
- `RuntimeProofs`, the Runtime. `RuntimeTyped` adds to the types what the stages of a request
  mean (a run to work on; a status `fail_run` may be given). With it every step
  of the Runtime is a store step or leaves the tables alone
  (`RuntimeRefinesStore`), so the store's theorems hold of the whole system
  (`RuntimeKeepsStoreSound`). Seen from one run every step has one of five shapes
  (kept, started, waited, taken up, ended). `OwnerOK` is inductive over the
  shapes: somebody who has a run has it alone, it was issued and has no result.
  From it `SoleOwner`, `RegisterNeverConflicts`, and the refinement
  `Spec => Lifecycle!Spec` (`RuntimeFollowsLifecycle`).
  Two invariants stand on top of that. `TicketInv` speaks of confirmations: the one a run waits for was issued to it
  and neither carried out nor refused, and one that was carried out was so once,
  was granted and is not the pending one. From it `ConfirmedActionOnce`.
  `TurnInv` speaks of one run and those who have it: while a thread works on it
  (`HeldOK`) the stored row is open, of the request's session, and there is no
  answer before the stage that writes it, and a thread in the middle of a write
  has not lost persistence; while it waits (`WaitOK`) its row is open; what is
  stored (`StoredOK`) is question, events, answer in this order with all events
  there unless a write failed; and a result that claims to be stored was
  (`EndedOK`). It needs `OwnerInv`, for the second thread that could interfere
  does not exist, and `StoreInv`, for the row a pending write carries. From it
  `ResumableIsOpen`, `KeptMeansStored`, `TurnInOrder`, and the action property
  `OpenRunOwned`: a row is opened only by the step that issues its run
  (`OpenedIsOwned`; a late write has its thread as owner), the thread that has a run
  lets it go only with its row closed, handed on or not stored any more
  (`ReleaseStep`), a registry only to a thread (`TakenIsHeld`), by expiry or by the
  clearing of the run's session (`ClearedStep`). The constants and variables of
  SummaryStore are declared here too; no action of the Runtime mentions them.
- `ExecutorLoopProofs`, for any plan with its units in order, any limits and any
  answers. The three hard facts about the loop speak of places it is not at, so
  `LoopInv` says where the thread is (`PlaceOK`), and of every unit behind it that
  its steps have ended and that the loop, should it start over after an answer,
  would pass it again to the same place (`BehindOK`). A running step is then the
  one the thread is at, or one of the exceptions (`ActiveOK`); what a reached
  step needs is done (`SatisfiedOK`); a question left behind means that the turns
  are used up (`PendingOK`); the observation under judgement fits the step's record
  (`ObsOK`); and each transition of the checker has used an attempt (`DepthOK`),
  which is why `_apply_checker_decision` cannot go round. From it
  `WaitingIsAnswerable`, `DependenciesFirst`, `AskedRunsOnlyOnApproval`,
  `StepsEndOnce`, `ResultMatchesSteps`.
- `McpClientProofs`, for any number of threads, processes and faults. `AnswersInv`:
  who waits at a client holds its lock and waits for the latest request
  (`WaitsOK`), and no line in any inbox or queue of the client, those of dead
  processes included, has a later id, nor that id unless it answers that request
  (`InboxesOK`, `QueuesOK`). Only sending asks something new; all other steps are
  quiet. From it `OwnAnswer`. `RouteOK` says for each stage of the manager's
  operation what gateway, registry and client agree on, which gives
  `RoutedAsDiscovered`.
- `WebSearchProofs`. `SearchInv`: the providers still to be tried are distinct and none
  of them was tried, and all that were tried ended in a way that lets the next be
  asked. From it `FallbackAsPlanned`, for any order, configuration and answers.
  `EvidenceHeld` is a fact about one answer, so its proof follows normalisation step by
  step: what each stage (limit, `Deduplicated`, `Rated`, cut) leaves is a sub-sequence or
  a re-rating of what it got, and the level is computed again after the last cut.
- `ToolRuntimeProofs`, for any calls, disks, edits and numbers of executions.
  `ToolInv`: a call that is in its handler passed the gate, without a ticket only
  when none is needed, with one only when the ticket is the preview made at the gate;
  so what the ticket shows is on the disk still or was changed by others since
  (`GatePassed`). A plan that was made is one for files of the workspace, names
  only files of the call, and was made for a free target when a copy must not
  overwrite (`PlanMade`). That a write without a ticket takes nothing needs what the
  registry declares of each tool that writes (`Catalogue`): patch, move, rename and
  delete always ask, write and copy ask in the modes that overwrite. From it
  `LossWasShown` and `ProtectedStay`. For all of `SecretsStay`, `SecretInv` adds that plain
  files hold public characters only (`PlainPublic`) and that no execution holds a secret
  outside of an answer its ticket opened (`Discreet`): what it is going to write was read
  from plain files, comes from the call, or is what patches make of both. The last is
  the hard part: `AppliedPublic` shows that pieces of a public text and public
  replacements are all that applying patches puts together. It goes step by step along
  the recursion, by the least step at which it would fail; that the offsets of each step
  lie inside the text so far follows from the order of application, from the end.
  `PatchedAsLocated` is proved from `SecretInv` and that each preview a user is asked
  about shows the reference (`PatchInv`). Its heart is a fact about `Apply`, for any text
  and any number of patches. Accepted patches of which none inserts into what another
  rewrites keep apart (`Spread`: no two come at one place, a rewritten range ends before
  the next patch comes). While they are applied from the end, the text is at any time
  the untouched original up to a place and the finished reference behind it, for every
  place between those still to come and those applied (`Parted`); each patch moves
  this border over its own range (`InsertMakes`, `RewriteMakes`), and over what lies between
  two patches it moves by itself (`Untouched`). The reference is for this reason
  written place by place from the end of the text. That a preview which is shown was
  made of accepted patches follows from the order of the gate's refusals
  (`OnlyTheLast`), for no other check answers as the end of a dry run does.
- `PlanningProofs`, for any texts, answers of the model, mapping of tools, changes of
  the registry and number of requests. `PlanningInv`: from the analysis on the
  task has the mode and, of dangerous words, the policy the text asks for, however the
  intents were cut; a chat never reaches the model that plans and its plan has no
  tool step; what was admitted passed the check's policy and had no gated step.
  From it `RiskDecidesFirst`. `AdmittedToolsExist` follows from the check itself,
  which looks at the registry of that moment (`ReferencedToolsExist`).
- `ActionPacketsProofs`, for any plan, registry, limits and answers of the model.
  `PacketInv` is inductive. It adds to the types that observations are numbered by
  place (so the store recognises one that is handed in twice), that `how` is
  "plain" outside a dispatch, that a packet under way was offered (`WasOffered`),
  and `Booked`: the retries of a step's turns and the one under way are at most
  `MaxRetries` and fewer than the attempts, because each retry is booked as an
  attempt more, on the step of its turn whatever the model names. From it
  `TurnsAccounted`, `RetriesAreBounded`, `CalledToolsRegistered`.
- `ModelCallProofs`, for any number of threads, calls, candidates, failures and times.
  `CallInv`: each thread is at a part of its call, whom it tried is whom it excluded
  and the one it asks, and the one it asks was not excluded. From it
  `CoolingIsLeftAlone`, for a choice is made by the keys a failure is recorded under, and
  `FailoverComplete`, for a call that gives up had nobody left that its route would
  take. Both theorems have a hypothesis, which is true of most configurations and not
  of all: the calls' candidates are called with the credential and model they are
  looked up by (`CalledAsLookedUp`). The code looks up the health of a candidate
  before it knows the manager's own credential, so the theorems are false without
  it (section 4). `OrdinaryRoutes` shows that it holds when the manager has no
  credential of its own and each candidate has a model.

Assumptions: the bounds are natural numbers, `fail_run` may be given `failed`
and `cancelled`, event ids are pairs of run and number, every thread has a
process, `Nil` is no run, no row, no summary and no draft. A plan has at least one
step, its units are numbered in the order of its steps, and dependencies are steps
of the plan; they may be cyclic or point forward (`PlansAssumption`). The value for
"no client" is no thread, no client, no method and no set of tools
(`McpAssumption`). A configured order of providers is a sequence without
repetitions that is not empty, as the configuration's normalisation leaves it, and
a well-formed call names a provider, "auto" or "disabled" (`WebSearchAssumption`).
A call of write_file
has one of the tool's four modes and a call of delete_file a list of paths that is
not empty, as the validation of arguments leaves them (`RuntimeAssumption` of
ToolRuntime). Texts are made of `Chars`, one of which, `Secret`, occurs in sensitive
files only: not in what the user's calls write, nor in what patches insert, nor in what
an editor saves (`TextAssumption`); lines are counted from 1. A provider that is no model
does not rate single results, as `tavily.py` does not (`WebSearchAssumption`). TLC
evaluates each on the runs.

Only model-checked:

- `CompleteMeansPlannable`: the templates look at the intents that `SelectSeq` leaves,
  a recursion over the sequence. It also holds only of a configuration whose tool mapping
  and limits fit the templates, as the one that is checked.
- Everything under fairness: `HeldRunsSettle` and the other liveness properties.

## 6. Not modelled

- Formatting, serialisation, redaction, logging, configuration and export have
  no state. The CLI and the API are design documents only.
- Command tools start a process and filter texts.
- Context builder and short-term memory put a prompt together and keep nothing.
- Of tools: modification times in previews, files too large to be hashed,
  encodings and binary files, truncation of output, configured sensitive paths
  inside handlers, timeouts. Of models: building and verification of models, cost, cooldowns
  given in the configuration. Of search: provider keys that change, dry runs,
  observation views, ranks and texts. Of MCP: more than one server at once
  (servers share nothing but the registry).
- Of the executor: the LLM checker (off by default), prompts and events.

## 7. Plan

1. A refinement of `ExecutorLoop!Turn` by `ActionPackets`, with packets as the
   common alphabet.
