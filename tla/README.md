# A model of dfgo in TLA+

dfgo runs pipelines. A pipeline is a graph in a DOT file whose nodes are
stages: tasks for a language model, shell tools, questions to a human, parallel
sections. An engine walks the graph, a coding agent and several LLM providers
do the work of the stages, and an HTTP server starts runs, streams their events
and passes the answers of humans on. This directory holds TLA+ modules that
follow that code, the TLC configurations that check them on small instances,
and proofs that TLAPS checks for every instance.

Paths below are relative to `src/`; `engine.go` stands for
`internal/attractor/engine.go`, and so on where the name is unambiguous.

## 1. Inventory

### 1.1 Pipeline engine

| component | state | operations | modelled in |
|---|---|---|---|
| engine (`engine.go`, `attractor.go`) | current stage, retry counters, completed set, visit log, pipeline context | Prepare; one iteration of execute, finalize | `Prepare`; `Engine`, `EngineProofs`, `PipelineRun` |
| checkpoint, context (`runtime/`) | `checkpoint.json`, `manifest.json`; a locked map | save, load; get, set, merge | `Engine`; `FanOut` for concurrent access |
| DOT parser (`dot/`) | the graph so far, defaults of the scopes entered | one for each kind of statement | `DotParser` |
| stylesheet (`style/`) | none | parse, resolve, apply | `Stylesheet` |
| graph (`model/graph.go`), validation (`validate/`) | nodes, edges, attributes; immutable once prepared | adding, queries; rules | `DotParser`, `PipelineGraph`; `Validation` |
| edge selection, conditions (`edge/`, `cond/`) | none | Select, Evaluate | `PipelineGraph` |
| parallel stage (`handler/parallel.go`) | one goroutine per branch, a semaphore, a context | Execute, the joins | `FanOut`, `Outcomes` |
| fan-in (`handler/fan_in.go`) | none | ranking | `Outcomes` |
| manager loop (`handler/manager_loop.go`) | a cycle counter; what the context says of its children | Execute | `ManagerLoop`; `Engine`, what follows it in the run |
| other handlers | none that lasts | Execute | the constant `Outcome` of `Engine` |
| events (`events/events.go`) | buffered channel, drain goroutine | Emit, Close | `Emitter` |
| interviewers (`interviewer/`) | pending questions | Ask, SubmitAnswer | `HTTPInterviewer`; the others are sequential wrappers |
| fidelity (`fidelity/`) | none | mode, preamble | `FanOut`, whose preamble the context holds |
| CXDB recorder (`cxdbstore/`) | a connection, the head of a context | New, OnEvent, RecordInput, OnAgentEvent, HeadTurn, Close | `Recorder`, with the emitters whose callbacks it is |
| artifact store (`artifact/store.go`) | map, files | Store, Retrieve, Remove | not modelled: nothing stores an artifact |
| lexer, transforms of prompts, retry delays, simulator | none at run time | | not modelled |

### 1.2 HTTP server

| component | state | operations | modelled in |
|---|---|---|---|
| run manager (`runmgr/manager.go`, `server.go`) | map of runs; per run status, context, wait group | Submit, Cancel, Shutdown | `RunManager` |
| broadcaster (`sse/broadcaster.go`) | history, subscriptions with channels | Publish, Subscribe, Close | `Broadcaster` |
| handlers (`handlers.go`) | per connection a position and `skipUntil` | event stream, answer, cancel | `EventStream`, `RunManager` |
| command line (`cmd/dfgo/main.go`) | none | flags, wiring, end of the process | `RunManager`, the end of the process only |

### 1.3 Coding agent

| component | state | operations | modelled in |
|---|---|---|---|
| session (`agent/session.go`) | conversation, two queues, counters | Run; Steer, FollowUp, cancellation; the request to the model | `Session`; `Requests` |
| loop detector (`agent/loop/`) | window of signatures | Record | `LoopDetector` |
| a session's events (`agent/event/event.go`) | buffered channel, drain goroutine | Emit, Close | `Recorder` |
| subagents (`agent/subagent.go`) | map of children, a channel each | Spawn, Wait, Close, CloseAll | `SubagentManager` |
| tools, execution environment, profiles, prompts | files and processes | | not modelled: a tool call is a step of `Session` |

### 1.4 LLM layer

| component | state | operations | modelled in |
|---|---|---|---|
| stream (`llm/stream.go`) | channel, response, error | Send, Finish, Next, Close | `LLMStream` |
| streams of the providers (`llm/provider/*_stream.go`) | blocks under construction | one step for each event of the server | `StreamEvents`, `AnthropicStream`, `OpenAIStream`, `GeminiStream` |
| retry middleware (`llm/middleware.go`), client (`llm/client.go`) | attempt counter | open with retries; a whole answer as a stream | `LLMStream` |
| requests (`llm/provider/*.go`) | none | from a conversation to the messages of an API | `Requests` |
| parsing of whole responses, catalogue, logging | none | | not modelled: data conversion |

### 1.5 How they interact

The server's *run manager* prepares an *engine* and runs it in a goroutine. The
engine calls *handlers*, which block: on a model (*session* or one call of the
*LLM layer*), on a process, or on the *interviewer*, until a client answers
through an HTTP handler. The engine emits *events* into a buffered channel whose
drain goroutine calls the *broadcaster*, which writes to one channel for each
connection; each connection has a handler goroutine that writes to its client
and a goroutine that waits for its context. At the end of a run the emitter is
closed and drained, then the status is set, the context of the run released, the
broadcaster closed and the wait group left. Files in the run directory are what
a later process resumes from. Beside all this a *recorder* appends what the
engine emits (in the emitter's drain goroutine), the inputs of agents (in the
goroutines of their handlers) and what agents do to one log at a server; its
head goes into each checkpoint. What an agent does passes through an emitter of
its session, with a channel that drops and a drain goroutine of its own, which
the session closes before it returns.

### 1.6 What is hard here

- crashes and resumption, with a checkpoint written once for each decision;
- retries from three places (RETRY, a failing gate, the exit) on one counter;
- cancellation arriving anywhere: before a slot, in a handler, in a delay, in a
  call of the model, between the steps that end a run;
- shutdown racing with submissions and with the end of runs;
- channels that are bounded and drop, closed by more than one party;
- a lookup under a lock whose result is used after the lock was released;
- a result that is sent once and may be waited for several times;
- a log several goroutines append to, over a connection that fails before or
  after the append was done, and is closed at the end;
- streams whose blocks interleave, repeat themselves, or break off;
- a conversation that is translated twice before a model reads it;
- attributes that come from a node, from defaults of a scope or from a
  stylesheet.

`PROJECT.json` lists each hazard at its line, with the properties that cover it.

### 1.7 What makes each component correct

- *Engine*: retries within budget across crashes; no gate slips through the
  exit; the checkpoint is the memory, but for what a handler that is still at work
  had stages write that it executes itself; what was recorded is not taken back;
  the run goes on where it was; it ends.
- *Parallel stage*: as many branches at a time as allowed; results explained by
  the branches or by a reason to interrupt them; every branch ends; a manager
  loop that is interrupted stops its children.
- *Event stream*: no channel closed twice; order kept, nothing repeated;
  whoever is told "it is over" was told everything that was not dropped; whoever
  stays connected is told.
- *Run manager and interviewer*: a final status before the stream ends;
  "canceled" only if somebody did; no question without a run that waits; the
  first answer counts; shutdown waits for what was launched before it began to
  wait, and ends.
- *Session*: every tool call answered in place; nothing said to it lost or
  doubled; it stops only with nothing left to do, and it stops, unless it is blocked
  in a streamed call that was canceled.
- *Subagents*: nobody unreachable and still running; a result returned once;
  children end; waiters are served.
- *LLM turn*: the response is what the events of the stream gave its reader,
  whichever provider it came from; the body outlives its reader; a turn ends unless
  it is interrupted.
- *Requests*: the model is sent the whole conversation, in order, each result
  behind its call.
- *Recorder*: the story of the engine and of each agent in order, nothing twice;
  a checkpoint's head covers what the checkpoint says is done; what was accepted
  is there at the end.
- *Preparation*: the graph is what the text says; the most specific rule wins and
  never over what is written; what validation lets pass is what the engine
  assumes.

## 2. Modules

| module | what it models | composed with |
|---|---|---|
| `PipelineGraph` | a parsed and validated pipeline, edge selection, the engine's graph queries | extended by `Engine` |
| `Attributes` | maps from keys to values, as nodes and edges have them | extended by `DotParser` and `Stylesheet` |
| `DotParser`, `Stylesheet`, `Validation` | from a text to a graph; rules that style it; rules it must pass | composed by `Prepare` |
| `Prepare` | what becomes of a pipeline before it runs | shows that `PipelineGraph`'s assumption holds of its results (INSTANCE) |
| `Outcomes` | statuses, join policies, fan-in ranking | extended by `Engine`, `FanOut` |
| `Engine` | the loop of `execute()`, with `initialize` and `finalize` | refines `PipelineRun` |
| `PipelineRun` | what a run promises, whatever its stages do | |
| `FanOut` | the goroutines of one parallel stage | justifies the results `Engine` takes for possible |
| `ManagerLoop` | branches that are manager loops, over one context | extends `FanOut` |
| `Emitter`, `Broadcaster` | the two halves of the event path | composed by `EventStream`; `Emitter` also by `Recorder` |
| `Recorder` | engine, handlers and the drain goroutines of engine and agents appending to one log | extends `Emitter` |
| `EventStream` | run, emitter, broadcaster, connections | refines `EventFeed` |
| `EventFeed` | what a client of the stream is promised | |
| `HTTPInterviewer` | questions and answers | extended by `RunManager` |
| `RunManager` | runs from submission to the end of the process | |
| `LoopDetector` | the window and its three patterns, and what a loop is | extended by `Session` |
| `Session` | `Run` and the calls of other goroutines | extended by `Requests` |
| `Requests` | what each adapter sends of the conversation | |
| `SubagentManager` | children of a session | |
| `StreamEvents` | what the providers' streams have in common | |
| `AnthropicStream`, `OpenAIStream`, `GeminiStream` | a server's protocol, and what the provider makes of each event of it | extend `StreamEvents` |
| `LLMStream` | one streamed turn, with any of the providers | extends the three |
| `EngineProofs` | theorems about `Engine` and `PipelineGraph` | extends `Engine` |
| `FanOutProofs` | about `FanOut` and `ManagerLoop` | extends `ManagerLoop` |
| `EventStreamProofs` | about the event path | extends `EventStream` |
| `RunManagerProofs` | about `RunManager` and `HTTPInterviewer` | extends `RunManager` |
| `AgentProofs` | about `Session`, `LoopDetector`, `Requests` and `SubagentManager` | extends `Requests` and `SubagentManager` |
| `LLMStreamProofs`, `RecorderProofs` | about the module they are named after; the first also about the three providers' | extend it |
| `PrepareProofs` | about `Prepare` and the three it composes | extends `Prepare` |
| `MC...` | constants of the runs | |

`PROJECT.json` maps each definition to its lines. An operator named `X_Fault`
is `X` with a plausible fault; it is used nowhere, and replaces `X` to show that
a property notices.

### State and actions against the code

**Engine.** `pc = "loop"` is the top of the loop (`engine.go:316`), `"exec"` a
handler that has been called, `"backoff"` the delay of a retry, `"finalize"` and
`"closing"` the two halves of `finalize()`. `counters`, `completed`, `latest`
are `retryCounters`, `completed` and the last entry of each stage in `visitLog`;
`disk` is `checkpoint.json`, replaced as a whole because it is renamed into
place; `manifest` the status in `manifest.json`. One action is one pass through
an iteration up to the next point where the goroutine blocks, with the save at
its end. The order inside is kept where it shows: the visit is logged before the
status is settled (402, 432), the checkpoint at the exit names the gate and not
the retry target (337). Handlers are a choice from `Outcome[n]`; a parallel
stage chooses the results of its branches from `FanOutResults` and joins them as
the code does; that it leaves out nothing that the goroutines of `FanOut` can
bring about is `ResultsExplained`, for both use one operator (`JoinedResults`).
Merging the branches' updates follows the order of a Go map: any order. Two actions
happen while the engine waits for a handler (`HandlerStep`): `ChildEngine` merges what
each child of a manager loop returns into the context at once (542-544), so that a
crash loses it, and a fan-out that is a branch or a child leaves its results there
(`handler/parallel.go:125`). The keys of the context that the engine sets for itself
are left out: `current_node` (356) and `internal.preamble` (564), which are set
before each handler and, where no checkpoint follows, behind it, and the copies of the
retry counters.

**FanOut.** One action for each point at which a branch can be overtaken: the
select on slot and context, the second look at the context, the call of the
engine, setting and reading the preamble, the end.

**ManagerLoop.** Some branches are manager loops; from the call of the handler
(`pc = "running"`) to its return `at` tells where in `Execute` they are.
`cycle` counts the executions of the children, which is the code's `cycle` at the
head of the loop (line 60). `status` and `met` stand for the entries of the
context that `observe` reads; any child of any manager may change them when it
returns (`engine.go:542`).

**EventStream.** `queue` and `delivering` are the emitter's channel and the
event its drain goroutine holds; `chan`, `subs`, `closes` the subscriptions;
`seq` and `skip` the variables of `handleEvents`. Operations under the
broadcaster's mutex are one action. `dropped` and `missed` record, as history,
what a full channel or a trimmed history lost.

**RunManager.** `gopc[r]` walks through the goroutine of `Submit`: Execute
returned, status set, then the three deferred calls in their order. Registration
and `wg.Add` are two actions because the lock is released between them. `Ask`
has a waiting and a leaving phase (the deferred delete), `SubmitAnswer` a lookup
and a send. Shutdown waits for one wait group after another (`PassWaitGroup`,
`manager.go:253-255`): a run whose group is at zero is passed for good, and may
be launched while Shutdown waits for the next one. `launched` are the runs of
the snapshot that were launched when it began to wait. When Shutdown is through,
the process ends and everything stops.

**Session.** `pc` tells where `Run` is blocked or has released the mutex. A
message is its role with the round and the position it belongs to, so that "this
result answers that call" can be stated without any text. A session streams or
does not (`coding_agent.go:161`); a call that is not streamed comes back when it is
canceled, one that is streamed may block for good (`StreamBlocks`, see `llm_cancel`).

**SubagentManager.** A child is registered, runs, has a result to send, has
ended. `closing` are the children that `Close` took from the map and has not
canceled yet.

**LLMStream.** `reader` is the turn, `producer` the provider's goroutine;
`ch`, `closed`, `resp`, `err` the stream; `given` is what Next gave the reader. What
`streamTurn` passes on to the listeners of the session is less: only the names of
the response and the deltas (`session.go:299-310`), through an emitter that may drop
them; that is not modelled. The server sends any sequence its
protocol allows, and the body may end or break anywhere. What it says in one
event is one fragment of text, the number of the event. `pending` are the
unified events one event of the server becomes; each is sent in a step of its
own. A choice from a Go map (`openai_stream.go:239`, `gemini_stream.go:160`) is
any element, or any order. The provider `"whole"` is one that cannot stream: its
answer is put into a stream that is complete before it is read
(`CompleteToStream`).

**Requests.** A block of a request is a text, a call or a result, with the
message of the conversation it is about. The texts themselves, tools, sampling
parameters and cache marks are left out. `Silent` are the rounds in which the
model asks for tools without a word, where the adapters differ: Anthropic's sends
an empty text for a message without parts, Gemini's leaves the message out.

**Recorder.** `context` is the server's log, `head` what the recorder takes for
its end; a turn is its type, whom it tells of (the engine or an agent) and its number
there. `pending[a]` is what the emitter of agent a's session has still to deliver:
its channel, behind the event its drain goroutine has taken out (`held`). Emit drops
when the channel is full (`agent/event/event.go:85-89`), `OnAgentEvent` is called
back by the drain goroutine, and `Session.Run` returns when its deferred Close has
seen the channel empty (`session.go:113-116`, `event.go:93-103`). The
recorder's mutex is held during the request, so an append is one step; it may
fail, done or not. `pc` is where the engine is between two calls that emit,
checkpoint or close. `saved` is what a checkpoint says of the stages done, and
the head in it.

**DotParser, Stylesheet, Validation, Prepare.** A text is a sequence of
statements, each chosen when it is read, so that a run of the model is a parse.
`defaults` is the stack of the scopes entered, which in the code is the recursion
of `parseStmtList`. Attributes are functions from the keys that are set, as in
the code. The tokens of a statement are left out: where they do not fit, the
parse ends with an error (`UnexpectedToken`). `MeaningOfText` says what a text
means without parsing it.

## 3. Runs

Checked with `tlc -config <run>.cfg <module>.tla`. Only `recording` uses
symmetry, of its two agents: it checks invariants only, and the agents are told
apart nowhere. Most others check liveness, for which TLC's symmetry reduction is
unsound, and they are small enough without. Deadlock is not checked because
every one of these systems may stop: runs end, sessions return, clients go away,
and that something ends when it should is stated as a liveness property instead.

| run | instance | states | shows |
|---|---|---|---|
| `engine_gates` | 8 stages, two goal gates with retry targets, a fail-fast fan-out with a branch without handler; writes may fail; 2 processes | 37 000 | `TypeOK`, `RetryBudget`, `GatesHold`, `GatePassedSatisfied`, `DurableProgress` |
| `engine_resume` | 12 stages, manager loop with a fan-out among its children, fan-out, fan-in, dead end, no retry targets; 2 processes | 6 200 | `CheckpointIsMemory`, `KeepsPromise` (implements `PipelineRun`), `Terminates` |
| `fan_out` | 4 branches, 2 slots, fail_fast, 2 of them manager loops of 2 cycles | 401 000 | `WithinLimit`, `ResultsExplained`, `CancelStopsManagers`, `BranchesEnd` |
| `event_stream` | 3 events, channels of 1 and 2, history of 2, a connection and its successor | 32 000 | `ChannelsSafe`, `DoneMeansAll`, `FeedsInOrder` (implements `EventFeed`), `StreamEnds` |
| `run_manager` | 2 runs, 1 question, 2 clients | 807 000 | `DoneIsFinal`, `CanceledOnRequest`, `NoOrphanQuestion`, `FirstAnswerWins`, `LaunchedRunsEnd`, `ShutdownEnds` |
| `session` | 4 rounds of up to 2 tool calls, 1 steering message and 1 follow-up from outside, streamed or not | 210 000 | `ToolCallsAnswered`, `InputsKept`, `HistoryReachesModel`, `NaturalExit`, `SessionEnds` |
| `subagents` | 2 names, 3 children, 2 callers with one Wait each | 44 000 | `NoOrphans`, `ResultOnce`, `ChildrenEnd`, `WaitReturns` |
| `llm_turn` | 4 providers, 2 blocks, one of them a tool call, 7 server events, channel of 1, 1 retry | 2 196 000 | `StreamedIsReturned`, `BodyClosedLast`, `UninterruptedTurnEnds` |
| `recording` | 1 parallel stage with 2 agents, or 2 stages without; 2 turns of an agent and the end of its session; queues of 1, 1 failure, 7 events of the engine | 3 774 000 | `TurnsInOrder`, `CheckpointCoversStages`, `RecordedBeforeClose` |
| `prepare` | every text of up to 4 of 14 statements over 3 nodes, 2 stylesheets | 130 000 | `ParsedAsWritten`, `StyleResolved`, `PreparedIsValid` |

Two runs end in a violation, of a statement the code does not keep: `llm_cancel`
and `session_openai` (section 4).

`TypeOK` is an invariant of the runs of `Engine`, where it is also proved; the
other modules define it for readers and for later proofs.

Why the bounds are enough to meet the cases:

- *Processes* (`MaxRuns = 2`): an original and a resumed one, the latter again
  crashing, being canceled or completing. Retry budgets of 1 let every counter
  reach its limit before a crash and be charged after it. `LoadFaults` is off in
  the runs: with it a process may begin anew, which `DurableProgress` and
  `CheckpointIsMemory` exclude; the budget and the gates are proved with it.
- *Branches*: four for two slots, so that two always wait; one may fail by itself,
  one has no handler, two are manager loops. Two cycles let a manager wait, be
  interrupted while it does, and execute its children again. The managers' setups
  differ in children (none, one, two), actions and stop condition.
- *Events*: more events than either channel or the history holds, so that
  dropping, trimming and a replay cut short all happen, and still two in a
  channel at once, so that order matters.
- *Run manager*: two clients race for one question; one run can be registered
  and not launched, or not yet be there, when Shutdown takes its snapshot; one can
  be launched after its wait group was passed, while Shutdown waits for the other.
- *Session*: four rounds exceed the three failures in a row of the circuit
  breaker; two calls in a round leave room for steering between them; three
  equal calls set the loop detector off.
- *Subagents*: three children for two names make a name be used again while its
  former owner still runs.
- *LLM turn*: seven events hold a complete answer with a text and a tool call
  whose deltas interleave, one with a block of three deltas, and, for Gemini,
  chunks that repeat, extend and end the answer; more than the channel holds.
- *Requests*: one silent round among speaking ones, rounds with one call and with
  two, steering before and after results.
- *Recorder*: the engine's drain goroutine, two handlers and the drain
  goroutines of their sessions take turns; the queues of one make events of both
  kinds be dropped, the end of a session among them, or be on their way when a
  session closes its emitter; the one failure may hit any append, done or not,
  or the write of a checkpoint. A stage without agents is enough for the order
  of checkpoints of consecutive stages. Seven events of the engine take the
  parallel stage to the checkpoint behind it and the one at the exit, and to the
  end of the pipeline if the stage or a checkpoint fails or the run is aborted;
  two stages without agents get to the second checkpoint, or to the end if the
  run is aborted.
- *Preparation*: four statements suffice for a subgraph with defaults around a
  node or a chain, a node named twice, a start, an exit and an edge with a
  stylesheet; texts that pass validation are among them. Of the rules that match a
  node two have the same specificity, and one matches only what another one sets.

`MCSession` also has TLC evaluate that the loop detector is right for all
sequences of up to eight calls of three kinds (an `ASSUME`).

### Fairness

Weak fairness, in the modules' `FairSpec`, only of the goroutines' own steps.

- *Engine*: of `EngineStep`. That handlers return is an assumption. Those that
  block on a process, a human or a model that is not streamed look at the context
  or have a timeout; a streamed call that is canceled may block for good, as
  `llm_cancel` shows, and then a coding agent's stage with `stream=true`, and the run,
  do not end. Nothing makes somebody cancel, crash or restart.
- *FanOut*, *ManagerLoop*: of each goroutine's next step, the return of handlers
  included, on the same assumption.
- *Session*: of `Run`'s next step: tools return, and so do calls of the model, but a
  streamed one that is canceled may block instead; `SessionEnds` excepts that.
- *SubagentManager*: of each goroutine's next step. That the session of a child ends
  is an assumption, for the same reason.
- *EventStream*: of the end of the run, the drain goroutine, each handler and
  each watcher. No client has to connect or disconnect.
- *RunManager*: of each run's goroutine, of `Ask` and of Shutdown. That Execute
  returns is the engine's assumption again: `ShutdownEnds` before the deadline needs
  it. No client has to answer, and no deadline has to pass.
- *LLMStream*: of reader and producer, each of which is blocked exactly when the
  code is. Servers answer or break off.
- *Recorder*, *Prepare*: none, their properties are about safety.

`Terminates` needs a pipeline whose edges have no cycle: only retries are
bounded by a budget, so a cycle of edges may loop for ever by design. `Terminates`,
`BranchesEnd`, `ShutdownEnds` (before the deadline), `ChildrenEnd` and `WaitReturns`
are to be read with the assumption that what is called returns: they say that
nothing else in the code keeps a process, a branch, a shutdown, a child or a waiter.

## 4. Where code and documents differ

Two runs show a statement of the repository to fail (`findings` in
`PROJECT.json` gives the lines):

- `llm_cancel`: when Send gives up, the provider's goroutine leaves without
  Finish, and the reader of the stream waits for ever.
- `session_openai`: the OpenAI adapter sends the texts of a conversation only, so
  that the model never sees what its tool calls returned.

Modelling met more. The properties named here are in the modules, marked as not
kept; each is refuted by TLC when it is added to the named module's run with an
instance as small as one gate, two branches, one run or one child. Those without
a name show in the definitions.

| property | statement and code |
|---|---|
| `GatePassedSatisfied` (`Engine`, with allow_partial on a goal gate) | `docs/design/graph-model.md:60` "Accept partial success when retries exhausted". The visit log keeps the status RETRY (`engine.go:402`, before the rewrite at 432), so the gate is unsatisfied at the exit and, its retries being exhausted, fails the pipeline. |
| `ResumeSkipsCompleted` (`Engine`) | `docs/design/engine.md:199` "Already-completed nodes are skipped". The completed set is restored (`engine.go:285`) and not consulted, and the last checkpoint names no node (746): a process that dies before the manifest is written leaves a run that is executed anew. |
| `ResumesInFlight` (`Engine`, with retry targets) | `docs/design/runtime.md:104` "node to resume from". At the exit the checkpoint names the gate (`engine.go:337`), the run goes on at its retry target (338-341). |
| `InterruptedStageKept` (`Engine`) | `docs/design/engine.md:165` "A canceled context stops execution immediately." Handlers turn it into FAIL, and the engine completes the stage (`engine.go:463`) and saves the next (505). |
| `StageEventsPaired` (`Engine`) | `docs/design/engine.md:100` "emit StageCompleted or StageFailed event". A RETRY with retries exhausted emits neither (`engine.go:373-384`). |
| `CompletionNeedsGates` (`Engine`) | `docs/design/engine.md:138` "goal gates are hard requirements". A stage without outgoing edges ends a run without looking at them (`engine.go:489-491`). |
| `NoImplicitGateRetry` (`Engine`) | `docs/design/validation.md:69` "the goal gate has no retries and will fail immediately on first failure". The default of the graph, or 50, applies (`engine.go:442`). |
| `OwnPreamble`, `FullFindsNone` (`FanOut`) | `docs/design/fidelity.md:53, 66`. Branches share one key (`engine.go:564`), and an empty preamble is not set (563). |
| whose status (`Verdict` of `ManagerLoop`) | `docs/design/handlers.md:197` "returns SUCCESS if child completed, FAIL if child failed". The entry observed is one key of the pipeline's context (`manager_loop.go:68`): a manager stops on what another manager's children, or an earlier stage, said there. |
| the last cycle (`Loop` of `ManagerLoop`) | `docs/design/handlers.md:196` "Each subsequent cycle: observe". What the children did in the last execution allowed is not observed (`manager_loop.go:60, 107`); with `max_cycles=1` nothing is, and the stage fails. |
| `HistoryReplayed` (`EventStream`) | `sse/broadcaster.go:68` "All history events are replayed into the channel". The replay stops at a full channel (86-91). |
| `SkipsOnlyOld` (`EventStream`) | `docs/design/http-server.md:107` "events up to that ID are skipped". The id is a position in what the old connection was given (`handlers.go:91-98`), and the new one counts from 1 again: after drops or trimming, a client is spared events it never saw. |
| `AnswerUsed` (`HTTPInterviewer`) | `interviewer/http.go:78` "SubmitAnswer sends an answer to a pending question, unblocking the engine goroutine." A client that looked the question up before the first answer was taken (81-89) fills the channel again, and is told that it answered. |
| `ShutdownWaits` (`RunManager`) | `runmgr/manager.go:238` "cancels all running pipelines and waits for them to finish". A run is in the map before `wg.Add` (193-198), and its wait group may be passed before it, while Shutdown waits for another (253-255). `LaunchedRunsEnd` is what holds. |
| `NoRunLeftBehind` (`RunManager`) | `docs/design/http-server.md:209` "cancels running pipelines, waits for completion". A run submitted after the snapshot is in neither. |
| `SteeringInNextTurn` (`Session`) | `agent/session.go:96` "Steer injects a steering message into the next turn." Only behind tool results (273-282). |
| `CancelAborts` (`Session`) | `docs/design/agent-loop.md:58`: cancellation gives `Aborted = true`. During a call of the model it comes back as an error (`session.go:166-169`). |
| a second Wait (`SubagentManager`) | `docs/design/subagents.md:40` "blocks until the child completes". The one result is taken by the first (`subagent.go:93`); `WaitReturns` says what is left of the promise. |
| `EndWithoutStopIsFatal` (`LLMStream`) | `anthropic_stream.go:317` "Normal EOF without message_stop — treat as unexpected." The scanner reports the end as an error (`sse.go:91-93`), so it counts as a network failure and is retried. |
| Gemini's deltas (`SendsParts`) | `docs/design/llm-client.md:190` "Diffs successive chunks". Each chunk's whole text is sent as a delta (`gemini_stream.go:136`); `gemini_stream_test.go:63` knows. What is returned is right. |
| Gemini's identifiers (`GeminiIds`) | `llm-client.md:190` "Generates synthetic UUIDs for tool call IDs". The response gives each of several calls the identifier of any of them (`gemini_stream.go:177-187`), so that two calls may have the same. |
| OpenAI's stops (`OpenAIForwards`) | `llm-client.md:188` "`response.output_item.done` → `EventContentStop`". With several items open, of an item the iteration over a map comes to first (`openai_stream.go:234-247`). |
| turns of a conversation (`AnthropicMessage`) | `anthropic.go:174` "Convert messages with strict user/assistant alternation". Messages are translated one by one: two results are two messages of the user. |
| thinking blocks (`Responses` of `Session`) | `llm-client.md:98` "Thinking blocks round-tripped verbatim". The session keeps texts and calls of a response only (`session.go:425-439`). |
| names of Gemini's results (`GeminiContent`) | A function response is sent with the identifier of the call as its name (`gemini.go:191`), a function call with the name of the tool and no identifier. |
| `AgentTurnsInStage` (`Recorder`) | `docs/design/cxdb-integration.md:33-43` shows the turns of an agent between the start and the completion of its stage. The events of the pipeline and those of each agent pass through channels of their own, which different goroutines empty (`events.go:106`, `agent/event/event.go:105`), so that an agent's turns may stand before the start of its stage. |
| nodes of inputs (`RecordInput`) | `cxdb-integration.md:20` "Parallel branch events are distinguishable via `node_id`". The turn of an input does not name the node (`recorder.go:124-138`). |
| repeated node statements (`NodeStmt`) | `docs/design/dot-parser.md:69`: defaults are "applied to all subsequent node declarations". A statement that names a node again merges the defaults of that place over attributes it was given explicitly before (`parser.go:189-230`, `graph.go:48-54`). |
| defaults and styles (`Styled`) | `docs/design/stylesheet.md:56` "Explicit node attributes always take priority." So do defaults, which a node cannot be told apart from its own (`stylesheet.go:141-153`). |

## 5. Proofs

Checked with `tlapm <module>.tla`.

**Engine** (`EngineProofs`, which begins with lemmas about the graph). The theorems
hold for every graph that passes validation (`ValidGraph`), all sets of outcomes
the handlers may return (`EngineAssumption`) and any number of processes.

| theorem | under | statement |
|---|---|---|
| `TypeCorrect` | | `[]TypeOK` |
| `RetriesBounded` | | `[]RetryBudget` |
| `GatesEnforced` | | `[]GatesHold` |
| `CrashLosesLittle` | no faults | `[]CheckpointIsMemory` |
| `ResumesWhereInterrupted` | no faults, no retry targets | `[]ResumesInFlight` |
| `ProgressIsDurable` | reads do not fail | `DurableProgress` |
| `EngineKeepsPromise` | no faults, no retry targets | `KeepsPromise`: the engine implements `PipelineRun` |
| `GatesAreLeftSatisfied` | no goal gate has allow_partial; one that is a fan-out has branches, and is none of them | `GatePassedSatisfied` |

`TypeOK` is inductive: the lemmas say that graph queries return stages
(`GraphTypes`, `ConvergenceIsNode`, `ContinuationIsNode`, `RetryTargetIsNode`),
that edge selection always answers with an edge of the graph (`SelectIsEdge`),
and that results, contexts and visits are typed. `RetryBudget` is inductive
beside it because it speaks of memory and disk at once: a resumed process starts
within the budget because the checkpoint was, and `Charge` needs `RetriesLeft`.
`GatesHold` follows from the guard of `AcceptExit` and from the fact that a
stage that ends the run elsewhere is no exit (exits have no outgoing edges, but
a handler is never called for one). `CheckpointIsMemory` is inductive because
every step of the engine that changes the memory saves it, and what changes it
while a handler is at work is excepted by it: keys that hold what a stage wrote
that the handler executes (`WrittenByChild`), results of a fan-out among those
stages (`LeftByInnerFanOut`). When the handler returns a result, all of it is saved.
`DurableProgress` is an action property and needs the strengthening `NotBehind`:
whenever a process runs, its memory contains what the checkpoint records, also
if some checkpoints were not written. The refinement maps each step to `Begin`,
`Move`, `Stop`, `Succeed` or a stutter; it needs `ResumesInFlight`, to know what
`saved` is, and `EndsAtAnEnd`, that the run is at an exit or at a stage without
edges when it is about to succeed.

`GatesAreLeftSatisfied` needs its hypotheses: with allow_partial the visit log
keeps the status RETRY (section 4); and the visits of a fan-out's branches, or of
those that an earlier fan-out left in the context, are written after its own
(`engine.go:653-684`), so a fan-out that is its own branch, or one without
branches, is left with the status of something else.

**Fan-out and manager loops** (`FanOutProofs`).

| theorem | statement | inductive beside the types |
|---|---|---|
| `SlotsNeverLeak` | `[]WithinLimit` | `SlotsHeld`: the semaphore counts exactly the branches that execute |
| `ResultsAreExplained` | `[]ResultsExplained` | `Explained` |
| `ManagersAreHandlers` | `ManagedSpec => Spec` | |
| `InterruptedManagersStop` | `[]CancelStopsManagers` | `Stopping` |

`ResultsExplained` is what lets `Engine` take a parallel stage for one step:
once all branches have ended, their results are among `JoinedResults`, from
which the engine's handler chooses. It is not inductive: a branch is cut in the
step in which it ends, and only `Explained` says that the context is done by
then, that its result is one of an interruption, and that without a cancellation
from outside it is done because a branch that was *not* cut has failed under
fail_fast. Were that branch cut itself, the explanation would be circular.
`ManagersAreHandlers` carries both results over to branches that are manager
loops; it needs that the outcomes of a manager are exactly SUCCESS and FAIL
without an error (`ManagerAssumption`), which is what `manager_loop.go` returns.
`Stopping` says where a manager is that has begun one execution after the
interruption: behind the look at the context, in its children.

**Event path** (`EventStreamProofs`).

| theorem | statement | inductive beside the types |
|---|---|---|
| `NoPanicOnChannels` | `[]ChannelsSafe` | `ClosedOnce`: the channel of a connection was closed once if its subscription is gone, and not before |
| `NothingLostAtTheEnd` | `[]DoneMeansAll` | `EventsInOrder`, `AllAccounted` |
| `FeedsAreInOrder` | `FeedsInOrder`: the path implements `EventFeed` | `EventsInOrder` |

`DoneMeansAll` speaks of the end, its proof of every moment before it: each event
published so far was given to the connection, is in its channel, or is counted
as missed (`AllAccounted`), and whoever has closed the broadcaster had emptied
the emitter first (`ClosedInOrder`). For the refinement, everything on the way
from the emitter to a client is in increasing order and above what is already
behind it: the emitter's channel above the event being delivered, that above the
history, a client's channel above what the client was given (`EmitterInOrder`,
`StreamInOrder`). Only so can no interleaving of replay and live events give a
client an event twice.

**Runs and questions** (`RunManagerProofs`).

| theorem | statement | inductive beside the types |
|---|---|---|
| `TheFirstAnswerCounts` | `[]FirstAnswerWins` | `FirstIsKept` |
| `StreamEndsLast` | `[]DoneIsFinal` | `RunInOrder` |
| `NobodyCanceledByItself` | `[]CanceledOnRequest` | `RunInOrder` |
| `QuestionsHaveRuns` | `[]NoOrphanQuestion` | `RunInOrder` |
| `ShutdownWaitsForLaunched` | `[]LaunchedRunsEnd` | `Counted`, `WaitInOrder` |

`FirstIsKept`: until the run has taken its answer, the channel holds the first
one accepted, however many clients that looked the question up in time send
theirs after it. `RunInOrder` ties the four steps in which the goroutine of a run
ends to the status, the context and the stream: a status is final from the first
of them on, the stream is closed in the third, and the context was canceled by
request unless the goroutine is past the first. `Counted` says what the wait
group of each run counts. `WaitInOrder` says that a run that was launched when
Shutdown began to wait, and whose wait group it has passed, has ended: it was passed
at zero, and a run that has ended is not launched again. Of other runs nothing
follows, for one that is passed at zero may be launched behind its back.

**Agent sessions** (`AgentProofs`).

| theorem | statement | inductive beside the types |
|---|---|---|
| `DetectorHoldsWindow` | trimming at each call leaves what trimming once would | |
| `RecordReportsLoops` | see below | |
| `SessionBounded` | `[]TypeOK` | `Typed` |
| `RequestsAreWellFormed` | `[]ToolCallsAnswered` | `CallsInOrder` |
| `NothingLeftToDo` | `NaturalExit` | `CallsInOrder` |
| `EverythingSaidIsKept` | `[]InputsKept` | `InputsKept` itself |
| `ConversationIsSent` | `[]HistoryReachesModel`, for Anthropic and Gemini | `CallsInOrder`, `RoundsApart` |

`RecordReportsLoops`: with a window of six or more, Record reports a call if and
only if, among *all* calls of the session, the last ones are a pattern of one
call three times or of two or three calls twice. With a smaller window the
longest pattern is never seen. `Typed` needs a budget: the warnings a session
gives itself are bounded by its rounds and tool calls, but for those of the
current round that are still to come (`Ahead`). `ToolCallsAnswered` is about the
moments at which the model is called, and its proof about those between: while
tools run, exactly one response lacks results, it is that of this round, the
results it has are behind it in order, and nothing else is (`Answering`); that
the result appended next has the right number is a count, for the messages of
earlier rounds carry smaller numbers. `InputsKept` looks at the conversation and
a queue put together, which moving messages from one to the other does not
change (`QueueMoves`), nor does a message of another role between them
(`OthersBetween`).

`ConversationIsSent` is about a function of the state, so that its work is in the
lemmas: a request stands for the conversation if an increasing map takes each of
its messages to the one it was made from, and misses no message that says
something (`StandsFor`). That the adapters' requests do is `StandsFor` again for
each stage a message passes (the part kinds, the adapter's format, Gemini's
leaving out of empty ones), and selections keep the order because the rank of a
place is its position among those picked (`PickedInOrder`). What it takes from the
session is that calls and results are in place and that a round has one answer,
without which two blocks of a request could be the same. Its hypothesis
`Adapters \subseteq {"anthropic", "gemini"}` is what section 4 is about: with
OpenAI's adapter the property is false, and `session_openai` shows it.

**Subagents** (`AgentProofs`). `NoChildForgotten` (`[]NoOrphans`) is
inductive with the types. `OneWaitGetsTheResult` (`[]ResultOnce`) needs
`ResultMoves`: a result is in its channel or was taken, never both, and neither
before the child has ended.

**LLM streams** (`LLMStreamProofs`).

| theorem | statement | inductive beside the types |
|---|---|---|
| `BodyOutlivesReader` | `[]BodyClosedLast` | `FinishedLast`: a closed channel has no goroutine that still sends |
| `ReaderGotTheAnswer` | `[]StreamedIsReturned` | `InStep`, `FinishedLast` |

`StreamedIsReturned` looks at the end of a turn. Its proof looks at the events on
their way (`OnTheWay`): those the turn was given, then those in the channel, then
those the goroutine has still to send. Sending and reading only move an event
along, so whatever is true of the whole stays true (`SentStays`, `GivenStays`).
Two things may get lost: an event whose Send does not look at its result, when the
context is done, and all that is left when the goroutine gives up. Of the first
kind only events that say nothing of the content are (`Careful`, `LossTells`);
after the second the channel is never closed and the turn returns no response.

What remains is that the whole says what the goroutine has gathered. For Anthropic
and OpenAI that is said block by block (`BlocksTold`): the blocks begun are those
started, the text gathered for a block is spelled by its deltas, and a finished
block is a part with that text and its identifier. For Gemini a delta repeats the
text of its part, so the last one counts and the number of parts is what has to be
kept (`PartsTold`, `Ordered`, `Repeats`); an identifier is one that was announced
with some tool call, which is what the property says and no more. An answer that
comes at once is put into the channel as a whole (`WholeTells`). One lemma per
event a server may send does the step for each provider (`AnthropicTells`,
`OpenAITells`, `GeminiTells`). `InStep` was checked by TLC as an invariant on a
small instance before it was proved.

**Recorder** (`RecorderProofs`).

| theorem | statement | inductive beside the types |
|---|---|---|
| `EveryStoryInOrder` | `[]TurnsInOrder` | `ToldInOrder` |
| `CheckpointsAreComplete` | `[]CheckpointCoversStages` | `Covered` |
| `NothingPendingAtClose` | `[]RecordedBeforeClose` | `ClosedLast`, `Accounted` |

`ToldInOrder`: what is on its way from the engine (`EventsInOrder`) and from
each agent (`PendingInOrder`) is in order and above all that the context has of
them (`AgentsInOrder`), whatever was dropped and whether or not the server did
the appends that failed. `Covered`: turns that were acknowledged are within the
head (`Acknowledged`), and the agents of all stages before the one the
checkpoint names are through (`StagesInOrder`); an agent that is through has
nothing on its way (`AgentsTyped`), for its session returned from the Close of
its emitter, so nothing of it can be acknowledged behind that head. `Accounted`
is the invariant of the event path again, with the log in place of the clients.
The proofs assume that stages of one run have agents of their own
(`RecorderAssumption`): in the code an agent lives for one execution of one
stage, so a stage that is executed twice is two stages here.

**Preparation** (`PrepareProofs`). For every set of statements and stylesheets of
the types stated in `ParserAssumption` and `PrepareAssumption`, and texts of any
length.

| theorem | statement | inductive beside the types |
|---|---|---|
| `TextIsParsedAsWritten` | `[]ParsedAsWritten` | `AsWritten`: scopes, nodes, edges and the graph's attributes, each as the text read so far means them |
| `StyledBySpecificity` | `[]StyleResolved` | `StyledGraph`: the attributes are those written, on top of what the rules say |
| `PreparedForTheEngine` | `[]PreparedIsValid` | `Validated`: a graph that is let pass has no errors |

The provers cannot instantiate the induction theorems of the library, so the
module begins with induction over sets of numbers: a set without a least element
is empty (`LeastNumber`, for < is well-founded), hence a set that contains 0 and with
each number the next contains all (`Induction`), hence the recursive functions of
the folds exist and satisfy their equations (`Recursion`). With that, the
flattening of a list of sequences, the nodes a chain of edges adds (`ChainEnsured`)
and the walk of the reachability rule (`WalkStays`) are lemmas like others.

`AsWritten` compares the parser's state with `MeaningOfText` of the statements
read, whatever the depth of the subgraph they stand in. The difficult part is that
the meaning of what was read does not change with what is read next
(`MeaningKept`, `ScopeInForce`), and that a node named again is assigned over what
it has, not anew (`NodesStep`). For the stylesheet, the rules are applied in
passes of growing specificity, in each in the order of the text (`InOrderHolds`);
`Cascade` says that the last rule that says something of a key is then the last
among the most specific. `PreparedForTheEngine` is what makes the engine's theorems
worth having: their assumption on the graph, `ValidGraph`, is derived from what
`validate/rules.go` lets pass. Reachability is stated there by closed sets, and
the proof is that the walk of the code stays in each of them.

**Only model-checked.** Liveness: `Terminates`, `BranchesEnd`, `StreamEnds`,
`ShutdownEnds`, `SessionEnds`, `ChildrenEnd`, `WaitReturns` and
`UninterruptedTurnEnds`. `ENABLED` and fairness are out of the prover's reach.
Every invariant and every other action property of the passing runs is stated by a
theorem, some under the hypotheses given there. The modules with theorems use no
recursive operators.

## 6. Not modelled, and why

- Characters: the lexer of DOT, the syntax of conditions, durations, JSON, prompts
  and their variables, preambles, the parsing of responses. Sequential conversions
  of data; the models begin behind them.
- Data races on Go values: concurrent branches set fields of one handler instance
  (`engine.go:559`), a handler reads the engine's context while it is being set
  (`handlers.go:173`). Nothing the models keep depends on the values.
- Files and processes of tools: the operating system's.
- Lengths of delays: the models keep that there is one and what may happen in it.
- The artifact store: the engine creates one and nothing puts anything into it.
- Timeouts of commands (`execenv/local.go`): when a process ends after a signal is
  the operating system's.
- The emitter's goroutine that is left behind when `Prepare` fails.

## 7. What is left

All four layers are modelled, with the preparation of a pipeline, the recorder and
all providers' streams and requests; their safety properties are checked and
proved, their liveness is checked. What would be worth adding:

1. The tools and their execution environment, of which the models keep that a call
   has a result or is interrupted.
2. The properties of section 4 that the code does not keep, turned into invariants
   of the runs once it does.
