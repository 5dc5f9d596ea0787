# Keyring Gavryn: a verification development

Gavryn runs "agent runs". A Go control plane keeps the runs in Postgres (or in
memory) and streams their events to a React frontend. A Go worker executes
Temporal workflows that call language models and tools. Two Node services
execute the tools and drive a browser. This directory holds TLA+ models of the
parts where several processes share state, the TLC configurations that check
them, and TLAPS proofs.

`tlc -config X.cfg M` checks a run; the module of each configuration is in the
tables below. `tlapm M_proofs.tla` checks the proofs of a component.

## 1. Inventory

Paths are under `src/`; `internal/` is `control-plane/internal/`.

| Component | State | Operations | Interacts through | What is hard |
|---|---|---|---|---|
| Event broker and stream (`internal/events`, `internal/api/server.go`) | per-run counter row, event table, subscriber sets, buffered channels, the clients' cursors | `ingestEvent`, `NextSeq`, `AppendEvent`, `Publish`, `Subscribe`, `streamEvents` | HTTP from worker and tool runner; SSE to the frontend; the worker's direct fallback to the table | number, INSERT and publish are three unsynchronised steps; full buffers; a channel closed while a copy of the set is in use; replay then subscribe |
| Run workflow (`internal/workflows/run_workflow.go`, `service.go`) | signal channel, place in the turn, cancelled context | receive a message, plan, execute, verify, handle failure | Temporal signals, activities | signals during a turn, cancel at any point, single-attempt activities whose worker dies |
| Activities (`internal/workflows/activities.go`) | none but the events they emit and the files they write | `PlanExecution`, `ExecutePlan` / `GenerateAssistantReply`, `VerifyExecution`, `HandleRunFailure` | events, LLM calls, tool calls | an activity that goes on after a cancel; the verifier reading other turns' events |
| Assistant reply loop (`activities.go:460-1066`) | reprompt counters, the tool results so far, a pending tool block | generate, parse tool calls, run a batch, reprompt, recover, reply | LLM retry, research, tool runner, events | fifteen ways out, each of which must report what happened |
| LLM retry and failover (`activities.go`, `internal/llm`) | candidates, attempt, time budget | resolve the settings, try, wait, switch provider | HTTP | late answers, budget, which key goes to which provider |
| Web research recovery (`activities.go`, `autoDeepenWebResearch`) | visited addresses, records of hosts, quotas, evidence | open seeds, rank and follow links, read | tool runner, browser worker | a browser that is not where the loop believes it to be; links ranked long before they are followed |
| LLM settings (`internal/api/llm_settings.go`) | one row with provider, base URL and an encrypted key | save, test | store, worker | a key or a base URL that belongs to an earlier provider; a test that fills gaps from elsewhere than the save |
| Run handlers (`server.go`, `runs.go`) | rows of runs and messages | create, list, message, cancel, resume, delete | store, Temporal, broker | dropped errors; event after signal |
| Automations (`automations.go`, `automation.go`) | row with `in_progress`, inbox entries, one mutex, goroutines | create, edit, run now, process due, delete, read marks, the job | store, runs, notifications | writers with and without the mutex; restart during a job |
| Store projections (`store/postgres`, `store/memory`, `run_steps.go`) | run row, steps | `AppendEvent`'s projections, step merge | called for every event | two implementations of one thing, late events |
| Derived artifacts and processes (`runs_artifacts.go`, `runs_processes.go`) | rows by identity | upserts after an event | store | repeated events |
| Tool runner (`workers/tool-runner`) | answers by idempotency key, managed processes, workspaces | execute, process start, stop, clean up | HTTP from the worker, events | concurrent requests with one key; a process that exits while it is stopped |
| Browser worker (`workers/browser`) | browser sessions | tool calls | HTTP | the browser itself |
| Skills, context files, memory index, personality, configuration, notifications, LLM clients | tables, files | CRUD, external calls | store, HTTP | little concurrency of their own |
| Frontend (`frontend`) | what it shows, the stream's cursor | EventSource, REST calls | HTTP | reconnection, deduplication by number |

What makes each of them correct, and is stated here or planned:

- **Stream**: a number names one event; nothing is shown that is not stored; a
  writer's events stay in order on every connection, those it gave up apart; a
  connected client misses nothing but through named losses; emitters never wait
  for clients.
- **Run**: one activity at a time; every turn ends in one verdict that the row
  shows; a run that says "running" is; cancelled stays cancelled; a message
  that reached the channel is served.
- **Automations**: one execution at a time; `in_progress` says whether there is
  one; an entry of the inbox advances and ends; the mutex is always released.
- **Projections**: both stores show the same run for the same events; a step
  shows what the worker last reported; a process row says "exited" only of a
  process that is over; a deleted run stays deleted.
- **Reply**: every way out of the loop posts one reply and, if no reporting call
  fails, one verdict; failed tools and missing sources show in it.
- **LLM calls**: the time budget holds; a failure that may pass is returned
  only when no provider is left; settings that were tested as they are saved
  serve a turn.
- **Research**: no page is followed twice, nor one that was read before; a host
  that gives nothing is left alone.
- **Tool runner**: one key, one execution; a cleaned-up run has no process.

`PROJECT.json` lists the hazards at their lines, with the properties that
cover them.

## 2. Plan

| # | Module | Models | Abstract specification | Proof module | State |
|---|---|---|---|---|---|
| 1 | `RunEvents` | stream, composed with `EventLog` by refinement | `EventLog`: numbers are handed out once, stored once, or given up | `RunEvents_proofs` | done |
| 2 | `RunLifecycle` | workflow, activities' control, run handlers | | `RunLifecycle_proofs` | done |
| 3 | `Automations` | row, inbox, mutex, jobs | | `Automations_proofs` | done |
| 4 | `ToolRunner` | answer cache, concurrent requests, processes, clean-up | | `ToolRunner_proofs` | done |
| 5 | `RunProjection` | run row, steps, processes and artifacts in both stores | the two stores are each other's reference | `RunProjection_proofs` | done |
| 6 | `AssistantReply` | the reply loop of a turn | | `AssistantReply_proofs` | done |
| 7 | `LLMRetry`, on `LLMProviders` | settings, candidates, attempts, budget | | `LLMRetry_proofs` | done |
| 8 | `WebResearch` | the worker's round of web research | | `WebResearch_proofs` | done |
| 9 | later | the calendar of automations (`computeNextRun`, the due window), the token file of Codex, the workspace's files | | | open |

`RunLifecycle` takes an emitted event as one step and keeps what it does to the
row; `RunEvents` takes that step apart. `Automations` reduces the run it waits
for to its answer. Each module uses the guarantee of the one below it: an
emitted event of a reachable store is stored (`DurableBeforeVisible`), and a
turn ends in a verdict (`SettledWhenIdle`). `RunProjection` takes the stored
events as they come and keeps all the rows that are derived from them.
`AssistantReply` is what `RunLifecycle` has as the one step of `ExecutePlan`:
its outcomes there (a verdict, or an error without one) are what `Reported`
says of the loop. In `AssistantReply` in turn a call of the model is one step,
whose time and providers `LLMRetry` has, and so is a round of research, which
is `WebResearch`.

Every safety property that a run checks is also a theorem; what is only
model-checked is in section 12.

## 3. RunEvents

`RunEvents.tla` follows an event through the code. An emitter (an activity, the
tool runner, the API) makes one call at a time (`Call`); a writer is the handler
that carries one out, and `GiveUp` is the emitter that stops waiting for it,
after `requestTimeout` or a broken connection: the worker then goes on, with a
copy of its own or without, while the handler it left may still number, store
and publish. `TakeNumber` is `NextSeq` (one SQL statement, so atomic),
`AppendEvent` the INSERT under the unique index, `PublishSnapshot` the copy of
the subscriber set under the read lock, one `PublishSend` per channel, and
`PublishReturns`. Handlers drop the errors of `NextSeq` and `AppendEvent` and go
on, which `TakeNumberFails` (number 0) and `AppendEventFails` do; both may also
fail because net/http has cancelled the request of a caller that is gone
(`CallFails`). An event is "durable", "transient" (published, not stored) or
"local" (an activity whose POST failed writes to the table itself and publishes
nothing). A client is `Connect` (up to `ListEvents`), `SendStored` per row,
`Subscribe`, `SendLive`, `Disconnect`; its cursor outlives the connection. The
goroutine that `Subscribe` starts is `Unsubscribe` and `CloseChan`, in two steps
because `close` comes after the unlock; a `Publish` with an old copy then panics
(`PublishPanics`, recovered by net/http).

| Run | Instance | Shows |
|---|---|---|
| `stream_clients` | 2 emitters with a writer each, 2 clients with one connection each, buffer 1, 2 events, one failing store call besides those of given-up handlers | types; nothing is visible before it is stored or its INSERT failed; an established stream loses events only to its own full buffer, a panic of the publisher, or the fallback |
| `stream_reconnect` | 1 emitter with two writers, a client with two connections, 2 events, durable and local, only given-up handlers fail; fair writers | the order of an emitter's events across the seam of replay and live, those it gave up apart (`WriterOrder`); handlers end; `EventLog` is implemented |
| `stream_replay` | 2 emitters, one connection, buffer 2 | **refutes** `docs/workflows.md:307`, the client receives all events from its cursor on: an event stored after `ListEvents` and published before `Subscribe` is never shown |

Bounds. Two writers are enough for every order of two handlers, be they of two
emitters or of one that gave the first up. What each property excludes involves
at most two events (a pair out of order, a duplicate, a collision on 0), and
buffer 1 makes overflow happen at once. Two
connections give one reconnection, whose cursor is all that is carried over.

Fairness. Only `WriterStep` is weakly fair: a handler that has started runs on,
as no step of it waits. Clients are not: `EmittersReturn` holds even if nobody
reads.

Proved (`RunEvents_proofs`), for any writers, clients, capacity and bounds.
`TypeCorrect` needs `Shape`: `TypeOK`, a handler that is past `ListEvents` has a
connection, a writer in a handler holds its own event. `NumbersUnique` needs
that the counter is ahead of every number taken (`CounterAhead`): a new number
is then new; uniqueness alone is not inductive. `VisibleIsDurable` follows an
event backwards: what was shown was queued, replayed rows are stored, what is
queued was in the hand of a writer past its INSERT (`HandSettled`,
`BacklogSettled`, `QueueSettled`, `SeenSettled`). `HandlersImplementLog`: every
step maps to a step of `EventLog` or stutters; it uses the unique numbers to
know that the stored number leaves exactly its own hand. `LiveStreamIsComplete`
follows a publish: a live client's channel is in the subscriber set
(`LiveSubscribed`), and an event being published either still has that channel
ahead of it or is delivered (`PublishReaches`); the event leaves its writer's
hand only then (`OutOfHand`). `WritersInOrder` orders the whole way of an event,
emitter by emitter (`OrderInv`): screen, remaining rows of the replay, buffer,
and the writer's hand, which is newer than everything of its emitter's (`Old`).
Events that were given up stand outside that order (`late`); it holds of the
rest because an emitter waits for one handler at a time (`WaitInv`). Without the
exception it is false, as the run shows when `late` is left out: the abandoned
handler publishes its event after a newer one. A channel that was not made yet
is empty and nobody's target (`Unmade`), so that nothing is buffered when the
replay ends.

## 4. RunLifecycle

One run. The workflow waits in `select`, receives a message
(`ReceiveMessage`), and executes activities one after another (`Schedule`,
`Proceed`, `EndTurn`): plan, execute, verify, or after an error the failure
activity. A cancelled context answers every activity with an error at once,
and a pending future fails (`FutureCancelled`) while the activity itself, which
does not heartbeat, goes on. An activity is a task: queued, running, and for
the verifier "read" between reading the events and writing. `WorkerCrash` takes
all tasks a worker has; their future times out (`TaskTimesOut`, one attempt).
`Report` is what a terminal event does to the row. The handlers are split where
the code makes two calls: `CancelWorkflow` / `EmitCancelled`, `ResumeCheck` /
`ResumeSignal` / `EmitResumed`. `addMessage` drops the error of its signal.

An activity that is late but alive after its timeout has its context cancelled
by the same deadline; it is covered as a crash and a timeout.

| Run | Instance | Shows |
|---|---|---|
| `run_turns` | 3 messages, 1 cancel, 2 crashes, no resume, symmetric messages | types, `RunningIsAlive`, `SettledWhenIdle`, `OneActivity`, `CancelSticks` |
| `run_served` | 2 messages, 1 cancel, 1 crash, resume, calls that fail; fair | a message in the channel is received and its turn ends, or the workflow closes (`MessagesServed`); a turn has one verdict, also when a cancelled execution's activity goes on beside the resumed run (`OneVerdict`) |

Bounds. Three messages: one in a turn, one that waits in the channel, one that
arrives after a crash or cancel. Two crashes: one in a turn, one in the
`HandleRunFailure` of that turn. One cancel: a second one changes nothing of
the workflow.

Fairness. The Temporal server keeps running workflow tasks and dispatching
activity tasks, activities and handlers run to their end or time out. Clients
need not call, workers need not crash.

Proved (`RunLifecycle_proofs`), for any messages, crashes and cancels.
`TypeCorrect`, `TurnsKeepApart` and `VerdictsAgree` without assumptions.
`TurnsKeepApart`: a resumed run starts a new execution while the activity that a
cancelled one left behind goes on, so two activities may work on the run, but
never on one turn (`Apart`: a task is scheduled only in a turn without one,
because after the context is cancelled nothing is scheduled until the turn has
ended). `VerdictsAgree` rests on it: a turn is unreported until its executor
reports, and the verifier's "no verdict" is still true of its own turn when it
writes, whatever the other turn's activity has reported meanwhile. The rest is
about a run without resume (`~CanResume`): `resumeRun` writes `run.resumed`
after its signal, over a verdict that came in between. `OneActivityAtATime`: the
bound on the set of tasks is not inductive; `Solo` adds that until the context
is cancelled the task is the awaited one, so a settled future means that there
is none, and that a cancelled context schedules nothing. `RunningMeansAlive`
adds `EndInv`: what each place of a task and of the workflow knows of the row (a
verifier that read a verdict, a failure activity that is leaving, a turn whose
failure activity died). `TurnsSettle` and `CancelIsFinal` assume also that calls
to Temporal arrive (`~CallsFail`), without which a cancel shows in the row and
never reaches the workflow.

## 5. Automations

One automation. `queueAutomationExecution` is `QueueLoad` (lock, read, refuse),
`QueueMark`, `QueueSpawn` (entry and goroutine, unlock), with `QueueFails` and
`QueueUndo` for a failing INSERT; it is called by hand (`RunNow`) and by the
poll (`PollList`, `PollSave`). `executeAutomationJob` is `JobStart`,
`JobAnswer`, `JobRecord`, `JobRelease`. `updateAutomation` (`EditLoad`,
`EditSave`) and the poll write the whole row they read, without the mutex. The
history variable `stale` records that such a write changed `in_progress`, or
that a call under the mutex failed and was ignored. `Restart` drops goroutines
and the mutex and keeps the tables. What the job's run answers is one of
`Outcomes`; the run itself is `RunLifecycle`.

| Run | Instance | Shows |
|---|---|---|
| `automations` | 2 executions, 1 restart, 1 failing call, two outcomes, any number of edits, polls and calls; fair | types, `OneJob`, `InProgressExact`, `EntriesAdvance`, `EntriesComplete` |

Bounds. Two executions are what `OneJob` forbids to overlap. The outcomes
"timeout" and "error" are the two whose status the code changes; the others
are stored as they are.

Fairness. Strong for the steps that wait for the mutex (a Go mutex is handed to
a waiter after a millisecond), weak for the second half of an edit or a poll.

Proved (`Automations_proofs`), for any executions, restarts and failing calls:
`TypeCorrect`; `OneExecution` and `FlagExact` from `LockInv` (who is past `Lock`
holds it; a poll queues only after it saved) and `FlagInv` (unless `stale`, an
execution excludes another and the queueing of the next, and `in_progress` is
set while there is any). Neither is inductive alone: the mutex protects the
queueing, the flag protects the execution that runs without the mutex.
`EntriesOnlyAdvance` needs `EntryInv`: a job that has not answered has no final
record, and only a final record is unread.

## 6. ToolRunner

One run's requests to the Node service. Node runs a handler up to its next
`await` without interruption, so each `await` of `server.js` is a step boundary:
`Arrive` (cache lookup, then the event `tool.started`), the tool, `Emit` (the
event `tool.completed` or `tool.failed`), `Answer` (`res.json`, which remembers
the answer first). `process.start` is `StartPrepare`, then `StartFails` or
`Spawn`; `process.stop` is `StopUnknown`, `StopOver`, `StopForced`, or
`StopAsked` followed by whichever of `StopSeen` (interval) and `StopGrace`
(timeout, SIGKILL) comes first. A process has a state in the table (`info`) and
one in the operating system (`os`); `OnError` and `OnClose` carry the second
over to the first. `Expire` and `Pruned` are the cache's two losses, `Forget`
the table's. `Cleanup` is one step, because with `force` it awaits nothing that
is not settled. Tools other than these two go through the cache as
`process.start` does and leave no process. The repeat of a request has the
input of the first, as the worker's keys name one tool call.

| Run | Instance | Shows |
|---|---|---|
| `tools` | 3 requests, two keys of `process.start`, one of `process.stop`, a cache of one answer, 1 cleanup; requests interchangeable (symmetry) | types; a live process is in the table and marked running (`AliveIsListed`); an answered stop holds (`StoppedIsOver`); a key executes once, unless its answer expired, was evicted or was an error, or a second request came before the first was answered (`OncePerKey`) |

Bounds. Three requests are a start, a stop and the repeat of either, or two
starts that evict each other's answer and a repeat. One cleanup suffices: it
carries nothing over to the next. The history `excused` names the cases in
which the cache does not protect a key; each of them happens in the instance.

Nothing is fair here: a child process need not end, and no liveness is claimed.

Proved (`ToolRunner_proofs`), for any requests, keys, cache limits and cleanups.
`TypeCorrect` needs the length of the cache, so facts about `RemoveAt`,
`Without` and `Remember` come first, each shown element by element.
`AliveAlwaysListed` is inductive as it stands. `ExecutesOnce` adds that a key
that ran is excused, has its answer in the cache, or has its one request still
under way (`Alone`, `Missed`, `Kept`). `StopHolds` follows an answer: a stop
that was answered has seen its process over or unknown, a process that is over
stays over (`OverStays`), and what the cache replays was such an answer
(`OwnCached`, `OwnReply`).

## 7. RunProjection

One run's rows, in the two stores, fed with the same events. An event takes its
number (`Draw`), is stored with the run row and the step it belongs to
(`StoreEvent`, one transaction or one critical section), and is then turned
into process and artifact rows (`DeriveRows`), outside that transaction. The
database may refuse each of the three calls (`Refused`): the handler drops the
error and goes on, without a number, without the event, or without the rows.
The worker posts one event at a time, waits 10 s for it, then stores a copy with
a number of its own, or without one gives the report up: `PostTimesOut` leaves
the handler running, `AnswerLost` has it finished, `Crash` takes it away. The
tool runner and the API have any number of requests under way. So events
overtake each other, of one process too, come twice, or not at all. `told` and
`process` say what the rows should show; `unsaved` names the steps whose last
report could not be stored. Because an event may have no number, its time tells
which is the newer.

The status that `GET /runs` lists is not the column: it is that of the newest
event, if it is of one of five types, and else the column. The newest has the
highest number in Postgres (`PgListed`) and was stored last in memory
(`MemListed`), so that the two disagree while the event stored last has
overtaken a newer one; `StoresAgree` says so.

| Run | Instance | Shows |
|---|---|---|
| `projection` | 1 step, 1 process, 1 artifact id, 4 events, copies included, of which 2 at a time are under way, 2 refused calls, 1 crash, 1 deletion | types; the stores show the same phase, steps, processes, artifacts and, but for the named cases, listed status and reason, until Postgres refuses a second event without a number (`StoresAgree`); a step shows what the worker reported last, unless a handler it had given up stored an older event over a newer or the last report could not be stored (`StepShowsWorker`); "exited" only of a process that is over, although its events overtake each other (`ExitedIsOver`); Postgres keeps nothing of a deleted run (`DeletedStaysGone`) |

Bounds. Every exception named by a property needs two events under way, one of
which may be a copy; of the four events `createRun` has made one, and three are
the start and the end of a step with a copy of either, or the start, the status
and the stop of a process. Two refused calls make two events without a number,
or one that fails at its post and at its copy. Deadlock is not checked: when the
events are used up, nothing need happen.

Proved (`RunProjection_proofs`), for any steps, processes, numbers, and any
number of handlers, refused calls and crashes. `ProjectionTyped`: the types,
where the ids of steps must differ from the other ids (section 11).
`ExitedRowsAreTrue` and `DeletionIsFinal`: an event that says "exited" is true
from the moment it is drawn, in every copy of it (`Truthful`), and a process
that is over stays over. `StoresShowTheSameRun`: the two stores keep different
columns, so `Coupled` relates them column by column, with their lists of events,
and every step stores one event in both or in neither; the listed status follows
when the last event of the list is also the one with the highest number.
`StepsShowTheWorker` needs `Faithful`: from some time on, every event of a step
says what the worker last said, and the event of that time is stored or still
waited for, or the step is in `unsaved` (`Reported`, on `Timed`); the row
follows the event of the step that was stored last (`RowFollows`), which, if
they were stored in the order they were made, is not older. `Shapes` reduces the
actions to the few things a step can do to the events and the rows.

## 8. AssistantReply

`GenerateAssistantReply`, the activity that answers a turn. A pass of the loop
is `NoContent`, `Transient` or `Fatal` (the model fails), or a reply that
parses as a tool block without a call (`ToolBlock`), as prose, as calls that
cannot run (`Unavailable`), or as calls (`ToolBatch`). What follows is a branch
(`AfterBatch`, `NoToolYet`, `Promise`, `ThinAnswer`, `Answer` and so on), if
need be after the recovery of web research (`Deepen`). Each branch continues or
ends with a reply, two statuses and a reason (`EndWith`). `PostMessage` posts the
reply and, for some requests, asks for a document of it; `CloseStep` reports the
step, `Complete` the verdict, `Cleanup` and `Title` follow. The errors of these
two reports are dropped in the code (`emitEvent` and `postCompletionEvent` fall
back to a copy, whose error nobody reads): `Emit` leaves the event in the store
once, or, with `failed`, not at all, once, or twice (the handler of a lost
answer stored it beside the copy). `pending` keeps the incomplete tool block
that the next reply may continue. A tool result counts only as a source gained
or lost; what a reply says only by what it parses as, whether it promises,
narrates, and cites enough.

| Run | Instance | Shows |
|---|---|---|
| `turn` | the source's own limits (4 and 18 passes, 2, 1, 1 and 2 reprompts), batches of at most 3 calls, 3 sources asked for | types and bounds of the counters; one reply, then the close of the step, then the verdict of the way taken, never another, and each of the two once unless a call that reports it failed (`Reported`); a tool that failed in the loop or the recovery shows in the verdict (`ErrorsShow`); research is completed only on enough sources (`ResearchVerdict`); the activity returns (`ReplyEnds`) |

Bounds. Only `MaxToolCalls` is smaller than in the code (12): a batch matters by
what it adds to the sources, of which three are asked for, and by whether a
call failed.

What the properties do not promise: a verdict whose two reports both fail is
nowhere, and the run stays as it was; and the failure of the document call
(`document.create_docx`), which comes after the message, shows in no verdict.

Fairness. The activity is one goroutine whose calls all have timeouts: weak
fairness of its steps.

Proved (`AssistantReply_proofs`), for every limit with which a turn cannot end
on empty answers alone (`ReplyAssumption`). `TypeCorrect` needs `Bounded`:
branches are decided in a pass that is not the last, the recovery runs once, and
without an answered call every pass was counted as an empty one. The last also
excludes the silent exit after the loop, where `lastResponse` is still empty,
and so carries `TurnIsReported` (`Logged`: at each place, what has been
reported, and how often if no call failed: `Closed`, `Decided`).
`ErrorsAreShown` and `ResearchIsJudged` come from `Judged`, what every ending
has to show, and `Unseen`: enough sources are noticed at once, so that a plain
answer is never accepted with them, nor without them.

## 9. LLMProviders and LLMRetry

`LLMProviders` follows an API key and a base URL from the settings to the call:
`UpdateSettings` (an empty field keeps what is stored, the key and the address
too), the slot of `llm.Config` that the worker puts the key in (`Keys`),
`resolveConfig` (`Resolves`), and `buildProviderCandidates` (`Candidates`, of the
message's route or the fallback, all at the saved address but a fallback with
its own). A key is known by the provider that issued it, an address by the one
that answers there (`Host`); a call works if the key is its host's (`Works`).
The settings test (`Tested`, `Connects`) is `buildLLMConfig`: what the request
leaves empty comes from the environment and not from the row, except a key that
the provider needs. What was tested is therefore what a save of the same request
stores only if row and environment agree on every field left empty
(`SameBlanks`), and `tested` counts only those. API and worker have the same
environment; model names matter only where they tell candidates apart. `LLMRetry` is
`generateWithRetry` with a clock: `Check` (is there budget left, how long may
the attempt last), `Announce` (the post of `model.request.started`), `Generate`,
`Confirm` or `Complain` (the post of the outcome), then the delay and the next
attempt, or the next provider. Time passes (`Tick`) while something is awaited.

| Run | Instance | Shows |
|---|---|---|
| `provider` | 4 providers and an unknown one, the address of another provider as base URL, an OpenAI key in the environment, a fallback of a second model, routes of up to 2 entries, one save of the settings; a budget of 6 units, request timeout 3, delay 1, 2 attempts | types; no attempt gets time beyond the budget, and the call is over two posts and a delay after it (`WithinBudget`); a failure that may pass is returned only after every candidate was called or the budget used up (`FailsOver`); settings that were tested as they are saved serve a turn that asks for nothing else, of every provider but OpenCode Zen (`TestedIsServed`) |
| `provider_saved` | no key in the environment, no fallback | **refutes** `docs/configuration.md:136`, OPENCODE_API_KEY as the key of OpenCode Zen: `resolveConfig` asks for the OpenAI key, so saved and tested settings fail every turn |

Bounds. The fifth provider, `kimi-for-coding`, is in `provider_saved`; in the
worker it is treated as `openai` is. One address besides the providers' own is
enough for one that is kept over a change of provider, or that differs between
row and environment. The request timeout and the budget are in the source's
proportion (10 s, 20 s; 250 ms is rounded up to a unit). Two route entries give
a switch of provider; a second model of the same provider gives the duplicate
that is left out.

Proved (`LLMRetry_proofs`), for all timeouts, delays, attempts, routes and
settings. `BudgetHolds`: `Waits` says at each place how far what is awaited may
lie beyond the budget. `CandidatesTyped`: the candidates are known providers
with a model and the key of some slot, none there twice; `Usable` is a recursive
function, and what it returns is shown by induction over the entries
(`UsableListed`; section 12 says how). `EveryCandidateIsTried`: each candidate
before the one tried was called, and so was that one once its failure is judged
(`Tried`). `TestedSettingsServe`: a save of what was tested leaves a row whose
key is that of its host (`SavePasses`, `Passed`, for any number of saves); the
saved provider, which is known, is the first candidate, and every provider but
OpenCode Zen finds the saved key in the slot that it reads. It says nothing of a
turn with an override or a route, nor of the fallback (section 13).

## 10. WebResearch

`autoDeepenWebResearch`. `Init` takes any research that the model did before,
and from it the seeds (`FoundSeeds`, `Merge`). `OpenSeed` ranks a seed's links;
`Click` follows one, `Open` opens its page if the click does not pass for having
led there, `ReadArticle` reads it, and if nothing can be extracted from it
`FollowDeeper` follows its links. `SkipSeed`, `SkipLink`, `SkipDeeper`,
`EndLinks`, `EndDeeper` and `EndSeeds` are the loops' guards. `reads` counts how
often a page was taken up, by the model's own research or as a link.

The model says nothing of where the browser is. The loop never goes back to the
seed between two links, so that a click is made on whatever page the last call
left; a click may still be under way when the next call comes, and so may a page
that timed out. Whether a click passes for its link (`Landed`), and what the
diagnostics of an extraction say (`Reasons`), is therefore free at each call. For
the same reason there is no property of whose text an extraction is: the browser
worker takes `page.url()` before it reads the text, with several awaits between
(`workers/browser/src/server.js:1831-1875`), the Go code falls back to its own
idea of the address, and nothing in either makes the two agree. What a round adds
to the evidence is not modelled; pages are told apart by their addresses, hosts
without their subdomains.

| Run | Instance | Shows |
|---|---|---|
| `research` | 7 pages (a news site's index and four articles, an article elsewhere, a search page), up to two of them found before, 3 seeds of which one is kept for the fallback, quotas of 3 links, 2 of a seed, 2 deeper; 2 failures give a host up | types with the quotas, each of which may be passed by one; no link is followed twice, nor to a page that was read before the round (`FollowedOnce`); a host that is given up is not asked again, whatever was ranked or clicked before (`GivenUpStays`) |

Bounds. Four articles of a site can be ranked on its index, on the search page
and on each other before any is read; two of them give the host up and two are
left over. With these quotas each can be filled by links, by deeper links and by
a mixture. The limit of 2 failures is the source's.

Nothing is fair here: that the loops end is left to their finite lists.

Proved (`WebResearch_proofs`), for every web, ranking and quota:
`NoneFollowedTwice`: what was taken up, by the model or as a link, is visited
(`Followed`). `HostsStayGivenUp`: a link that is being opened or read is of a host
that is not given up (`Asked`), so that its outcome cannot speak for one that is.
`ResearchTyped` needs `Typed`: a link that is followed is the first of the links
of the first seed, and what each place of the loop knows of the quotas, which is
why they may be passed by one article and no more. Of the seeds' algorithms,
for all inputs: `SeedsOfFound` (pages that were found, no search engine, one of
a host) and `FallbackHasItsShare` (`mergeResearchSeeds` takes no page twice, and
the fallback has the places meant for it, unless all of it is there). They
follow from `CollectInduction`, the induction over the pages offered.

## 11. Assumptions on the constants

`BufferCapAssumption` (a buffer has room for one), `BoundsAssumption`,
`KindsAssumption`, `LifecycleAssumption`, `AutomationsAssumption`,
`ProjectionAssumption`, `RetryAssumption` (types of the bounds),
`JobsAssumption` (a job is no other holder of the mutex), `RunnerAssumption`
(the key sets are disjoint), `ReplyAssumption` (no limit of passes is reached
by empty answers alone, at least three sources are asked for),
`ProvidersAssumption` (at most one fallback), `WebResearchAssumption` (types,
finitely many pages, and a share of fallback seeds that fits), `IdAssumption`
(the id of a step is none of a process, an artifact or a call: the steps' names
are fixed in `activities.go:274-366`, or `tool-` and a number in
`run_steps.go:88-92`, while the others are issued as UUIDs or paths). TLC
evaluates each in the runs of its module.

## 12. Only model-checked

- Liveness under fairness: `EmittersReturn`, `MessagesServed`,
  `EntriesComplete`, `ReplyEnds`. The proof system has no ENABLED.
- The refuted formulas, which have counterexamples.

No safety property is only model-checked. What a recursive function computes is
proved without the library's induction theorems, which take an operator as a
parameter: `NatInductionSet` says that a set of numbers with 0 and every
successor holds all of them, from the well-foundedness of < (`WFMin`), and the
claim about a list becomes the set of the lengths for which it holds. No module
declares a RECURSIVE operator. The theorems of `RunLifecycle` that assume a run
without resume are false without that assumption: the row then says "running"
of a run that is over (section 13), and a cancelled execution's activity works
beside the next one's.

## 13. Observations without a run

Stream and runs:

- `docs/api-reference.md:177` says "Strictly monotonic seq"; handlers publish
  in any order (`internal/events/events.go:61`), and one that the worker gave up
  may publish its event after the worker's later ones.
- `resumeRun` (`internal/api/runs.go:246`) writes `run.resumed` after its
  signal, over a verdict in between: the row then says "running", and the run
  cannot be resumed. Cancelling a workflow that waits does not close it
  (`run_workflow.go:83`), against `docs/workflows.md:60`.
- A run that is cancelled and resumed has two activities at work, if the first
  one's is still going: it is not told of the cancel, and both write messages,
  steps and the workspace. `OneActivity` fails with resume, after eleven steps.
- The verifier accepts a terminal event of an earlier turn
  (`activities.go:417`).

Automations and tools:

- `queueDueAutomations` (`automations.go:566-574`) queues an automation only if
  the poll comes within one second after its minute, while the frontend polls
  once a minute (`frontend/src/App.tsx:669`). `updateAutomation` may write an
  old `in_progress` back (`automations.go:443`), which `stale` excuses.
- An entry whose wait timed out is final with status "running".
- A `process.start` under way during a cleanup spawns after it (`server.js:577`).

Projections:

- The stores differ in `checkpoint_seq`, in a step's optional fields (newest in
  Postgres, first in memory) and number, in an empty completion reason (it
  erases the earlier one in memory), and in a process's command ("process" over
  the real one in Postgres after `process.logs`). The memory store accepts
  events of a deleted run.
- `GET /runs` lists the status of the event with the highest number in Postgres
  (`postgres.go:128-157`) and of the one stored last in memory
  (`memory.go:247-255`): after an overtaken verdict they list different ones.
- A second event of a run without a number (`NextSeq` failed twice) is refused by
  the unique index of Postgres and taken by memory.
- An event that cannot be stored is answered with success (`server.go:486`), so
  that neither the worker nor the tool runner repeats it: its step keeps its old
  status, its process no row.
- A late `step.started` brings a finished step back to "running", and a step
  that is started again keeps its error. A tool's steps `tool-<seq>` of
  `tool.started` stay "running". The answer of `process.logs` carries no status,
  so that an ended process's row says "running" again; so does a late event of
  the process's start or status.
- Copies that the worker stores itself never become process or artifact rows.

Reply and research:

- At the limit of passes a request that needs tools can end as success without
  one (`activities.go:1013`).
- Without a tool runner, a pending tool block stays pending after its calls: the
  next plain answer is taken as its continuation and ends as
  `invalid_tool_payload`.
- On the paths after a failing model, `step.completed` may say "completed" of a
  turn whose run is partial. The synthesis of a research answer is always
  replaced by the summary.
- `docs/api-reference.md:89` lists other completion reasons than the code's.
- A verdict whose post and copy both fail is in no store, and the activity
  returns as if it were (`activities.go:1079-1083`); the failure of
  `document.create_docx` after the reply shows nowhere (`activities.go:5568`).
- An article counts after its deeper links, so that both quotas may be passed by
  one. An extraction may carry the text of one page under the address of
  another (section 10).

Providers:

- Another provider without a new key keeps the old one's key, and without a new
  base URL the old one's address (`llm_settings.go:106-109`): its calls go to the
  earlier host. The settings test takes the fields left empty from the
  environment (`llm_settings.go:221`), so that it may connect where a turn with
  the saved row fails. Overrides and routes keep the saved address, and so does
  a fallback without its own. A route entry without its key is
  accepted and fails in a way that is not retried, so that the next is never
  tried.
- Local mode still asks for a key, and its provider always fails.
- The posts around an attempt can stretch a call to twice its budget.

## 14. Not modelled

The files of a run's workspace and of `deleteRun`; listings; the content of
messages, plans, tool calls and artifacts; the calendar of automations;
notifications; the tool runner's tools without a process; the browser worker,
whose state is the browser's; personality, skills, context files and memory
index (CRUD by one writer, and text processing); the encryption of keys; Codex
login and its token file; the frontend's rendering; start-up. A crash of the
control plane between an INSERT and a publish is in `RunProjection`, not in
`RunEvents` (its clients lose their connections with it). The Temporal server,
Postgres, net/http and the language models are external and modelled as the
code uses them.
