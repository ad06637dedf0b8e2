# agent-os-v2: TLA+ models and proofs

This directory holds TLA+ models of the concurrent and recoverable core of
agent-os-v2, the TLC instances that check them, and TLAPS proofs of what
matters most. All paths below are relative to the repository; `engine.py`,
`journal.py` and `worktree.py` without a directory are those of
`services/orchestrator/src/harness/workflow_engine/`.

## 1. The system

agent-os-v2 is a set of Python services around an *orchestrator* that runs
language-model agents. The orchestrator is one asyncio process: its concurrency
is that of tasks which interleave at every `await`, and its persistent state is
SQLite.

| component | state it keeps | operations | interacts with | what must be right |
|---|---|---|---|---|
| workflow engine, `run` (`engine.py`) | per call: semaphore, budget lock, abort event, `total_usage`, `budget_tripped` | fan out N nodes, gather, fold the results | spawns agents, writes the journal, emits events | budget is not bypassed by concurrency, a trip stops siblings, no slot lost, every node settled once |
| `pipeline` | a queue and a worker per stage, one semaphore | push M items through N stages, poison pill | same | order, values after failures, clean end, no hang |
| `loop` | `seen`, `dry_counter`, usage | finder rounds until dry, over budget or at the limit | same | converges, counts right, resumable |
| journal (`journal.py`) | tables `workflow_run` and `workflow_event`, a connection per call | start_run, append_event, mark_completed, resume | written by the engine, read by resume, file shared by all calls | finished agents are not run again, half-done ones are, usage counted once, a completed run left nothing over but what its budget or abort cut off |
| worktree manager (`worktree.py`) | path per node, a semaphore, the process's working directory | acquire, chdir, release | awaited inside a node | one directory at a time, restored, released |
| workflow tools (`tools/composite/v2_workflow.py`) | none | build journal, engine and context, run | engine, journal, worktree | status dictionaries instead of raises |
| memory write queue (`memory/write_queue.py`) | semaphore, lock per agent, `_inflight`, `_shutdown` | submit, fire, shutdown, drain | called by chat turns and by the hooks of the memory event bus | order per agent, nothing lost at shutdown, no deadlock |
| memory watcher and maintenance loops (`memory/db_watcher.py`, loops of `engine.py`, `/memory/notify`) | watermark, write clock, extraction clocks, lock per agent | poll, chain prune/forget/migrate, extract, consolidate, notify, daily sweep | memories table, other processes that write it | does not wake itself, waits out a burst of writes, extracts everything in the end |
| memory migrator (`memory/migrator.py`) | buffers per level | buffer, flush, migrate | memory service | nothing lost or stored twice while it awaits |
| memory event bus (`memory/event_bus.py`) | handlers per event | fire to all handlers | hooks, write queue | one failing hook stops no other |
| flow scheduler (`harness/flow.py`) | state, in-degree, `_pending` per node; wrapped emitters | run a DAG of harness turns, cancel | harness clients, session registry | completions reach the right node, merges run, statuses final |
| native sessions (`harness/routes.py`, `session_store.py`, `native_agent.py`) | `_sessions` records with their message history, rows of `orch_sessions`, `_async_turn_tasks` | create, turn, async turn, cancel, fork, archive, delete, restore | HTTP callers, observe | row and record agree, no turn lost but by an overlap, deleted stays deleted |
| client sessions (`harness/routes.py`, `claude.py`, `openclaw.py`) | `_sessions` clients, rows, turn lock and native id of `ClaudeClient`, link, pending requests and dispatcher of `OpenClawClient` | create, turn, fork, spawn, archive, reconnect, delete, restore | claude processes, the gateway | one client per session, answers that are true, every tick closed, native id recorded |
| concurrency controller (`concurrency/controller.py`) | agent slots, `_active_agents`, queue, dependencies | acquire, release, submit, run_pending, cancel | the three execution endpoints | slots conserved, ends |
| orchestration (`api/routes/orchestrate.py`, `chat.py`, `graph/`, `managers`) | agents and their status, subagents in registry, session and table | `/execute`, `/execute_parallel`, `/orchestrate` | slots, state graph, communication bus, agents table | slots go round, status true, subagents transient, requests end |
| communication bus (`communication/bus.py`) | queue per agent, pending responses | send, broadcast, request, respond, close | agents, SSE | delivery, correlation |
| state graph (`graph/`) | graph state, checkpoints | run nodes along edges, resume | orchestration | merges, latest checkpoint |
| KG write lock (`memory/kg_write_lock.py`) | locks per branch | acquire, release, cleanup | knowledge graph | mutual exclusion |
| observe service (`services/observe`) | events, sessions | ingest, replay from a cursor, fan out | all services, TUI | nothing skipped in replay |
| the rest | memory stores, knowledge graph, scoring, profiles, HTTP API, managers, TUIs | storage, text, real-valued scores, rendering | | not control logic a model checker helps with |

`PROJECT.json` lists every component with its status, and under `hazards`
everything in this code that is hard to test, at its line, with the properties
that cover it or the reason none does yet.

## 2. Modules

| module | models | state and code |
|---|---|---|
| `FanOut` | what a fan-out promises its caller | one `settled` value per node, one `verdict` |
| `WorkflowRun` | `WorkflowEngine.run`, `_bounded`, `_spawn_agent`, `_spawn_agent_inner` | `pc` is where the task of a node awaits, `free`/`holder` the semaphore and `budget_lock`, `total`/`tripped`/`abort` the fields of `ctx`, `result` the `WorkflowResult` |
| `WorkflowJournal` | `WorkflowJournal` and the journaling of the engine, with crash, cancel, resume | `row`, `rowUse`, `events` are the committed tables, `conn` the transaction each connection is in, `call` and `pc` the engine call of a run and its nodes, `bounded` whether it has a budget or an abort, `skipped` the nodes it answers "skipped" |
| `WorkflowPipeline` | `WorkflowEngine.pipeline` and its stage workers | `queues`, `worker` and `current` (message in hand) per stage, `free`, `results`, `main` |
| `MemoryWriteQueue` | `MemoryWriteQueue` and the server's shutdown | `slots` and `locks` are the asyncio primitives as arrival sequences, `inflight`, `shut`, and the state of `drain()` |
| `NativeSession` | the handlers of `routes.py` on sessions of the native harness | `reg` and `hist` are `_sessions` and the messages of its records, `row` the table, `garbled` the rows that do not decode, `req` each handler with its locals and the await it stands at, `tasks` the async turns |
| `ClientSession` | the handlers of `routes.py` on claude-code and claw sessions, `ClaudeClient`, `OpenClawClient` | `reg`, `row` as above; `native` the native id a client knows, `open` the ticks; link, stale clients and the messages the gateway accepted; `unsaved` the clients whose last `on_native_sid` failed |
| `FlowScheduler` | `harness/flow.py`: several `FlowScheduler` objects over shared sessions | `status`, `node`, `indegree`, `pending` per flow, `task` the locals of each `_run_node`, `wrapper` whose `flow_emit` an emitter carries, `turns` under way |
| `MemoryMaintenance` | the poll loop, both tiers of `DbWatcher`, `/memory/notify`, the daily sweep | `max` is `MAX(updated_at)`, `watermark`, `age`/`since` the clocks in poll intervals, `locks`, `item` per memory, `proc` each coroutine |
| `Orchestration` | `/execute`, `/execute_parallel`, `/orchestrate` over agent slots, graph, subagents | `free`, `waiters`, `active` the controller, `gen` the stream of a request, `work` the graph node it runs, `worker` its branches, `agents`, `members`, `rows` the subagents |

`MC<module>` gives an instance the constants a `.cfg` cannot write, and its
symmetry; `<module>Proofs` holds the theorems of a module, and
`WorkflowEngineProofs` those of `WorkflowPipeline` and `WorkflowJournal`.

A step of every model is what a task does between two awaits; interleavings of
tasks are interleavings of steps. Data is reduced to what the properties tell
apart: an item's value in the pipeline is the set of stages whose output it
contains, a message history the set of turns in it, a journal key a value, a
usage a number (in the journal: the agent runs it adds up), a timestamp its
order. *History* variables (named as such where
they are declared) record what happened; no guard of the code's actions reads
them, but that of `used` in `NativeSession`, which makes a new session id new.

`NativeSession` and `ClientSession` divide one registry: the harness type of a
session never changes, and no handler reads the entry of another session but
`fork`, whose source and branches have one type. The only thing they exchange is
in `NativeSession`: archiving a native session that is known to the store only
registers an OpenClaw client (`routes.py:1190`), which appears there as `Client`.
`FlowScheduler` takes of a client only its emitter and its turns.
`Orchestration` composes the controller, the state graph, the agent manager and
the bus, since each of them is only wrong together with the endpoints.

What each module assumes of code it does not model:

- asyncio's `Semaphore` and `Lock` hand over in arrival order and `gather`
  starts its tasks in argument order (CPython 3.12, the version the services
  require). In `WorkflowRun` the order is that of the spec (`FirstAt`); in
  `MemoryWriteQueue` the primitives are the sequences of those who asked; in
  `Orchestration`, `Hand` is the `Semaphore` of 3.12, which counts a slot for a
  waiter when it wakes it.
- SQLite in WAL mode under `sqlite3`'s implicit transactions (`Blocked`,
  `AfterCommit`, `AfterBusy`, `AfterBusyAppend`): a write statement opens a
  transaction, a failed one leaves it open; one connection writes at a time; a
  transaction that has read an old snapshot cannot become a writer after
  another commit. `busy_timeout` is taken to run out: while a connection holds
  the write lock its process is awaiting an agent, which takes longer than 5 s.
  `OrchSessionStore` and the memory store run their statements without an
  await, so a statement is a part of the step that issues it.
- A statement of `OrchSessionStore` that raises has changed nothing. In
  `NativeSession` every INSERT, UPDATE and DELETE may raise, and a stored history
  may not decode, `MaxFaults` times in all. In `ClientSession` the save of a
  native id may fail at any time; a failing INSERT or DELETE there, and a failing
  SELECT in both, is not modelled.
- A cancelled task unwinds through `finally` and context managers only, since
  `CancelledError` is no `Exception` and nothing in the modelled code catches
  `BaseException`.
- Starlette and anyio cancel the stream of a client that disconnects at its
  await, and again at every later one (`Leaving`).
- The gateway answers `sessions.send` at most once and accepts what it answers;
  a claude process makes a native session of its own when it is not told to
  resume one. An agent run ends, with a usage or with an exception.

Where the words of the repository and its code differ, the models follow the
code. Section 3 has three findings that a run shows. What else was met while
modelling is in section 6.

## 3. What the runs check

**workflow_run** (`WorkflowRun.cfg`, 4 nodes, 2 slots, limit 2, prior usage up
to 3, usage up to 2 per agent; 14 144 states). The caller chooses with or
without a budget, how much usage the context already carries (also above the
limit) and when to abort. Any node may fail or raise while its agent is built.
`BudgetBound`: usage overshoots the limit by at most one agent run.
`SpentInOrder`: what a budget cuts off is a suffix of the spec.
`NoSpawnAfterTrip`, `SlotsConserved`, `BudgetSignalExact`, `Termination`, and
`ImplementsFanOut`, the refinement of `FanOut` with its liveness. Four nodes
give one that runs, one that waits for the lock holding a slot, one that waits
for a slot, and one that has not taken its first step.

**journal** (`WorkflowJournal.cfg`, one run, 3 nodes, 3 deaths; 8 930 states).
The process may crash and the call be cancelled at any step, also while it is
being resumed; the call may have a budget or an abort, and then answer any
pending node "skipped". `SettledNeverRerun`, `UsageExact`, `CompletedCoversAll`,
`Recovers`. A completed run is *not* one whose nodes all ran: a node the budget or
the abort cuts off gets no journal row (`engine.py:286-304`, `541-548`), the run is
marked completed all the same (`engine.py:615-623`), and no resume will run the
node. `CompletedCoversAll` says that this, and a build that raised, is the only
way: each other node has settled, and a node is only left over by the very call
that completed the run, which no resume came before. For a resume makes its
context of the row, without budget or abort (`journal.py:385`): it runs what the
call that died had skipped. (The one journaled caller, `v2_workflow.py:278-290`,
sets neither; the engine's context has both.) Three deaths make a crash, a crash
of the resume and a crash of the resume of that. A usage says how often it counts the agent of each node, so
`UsageExact` is exact whatever the agents use; the fields `_usage_dict` does not
write (`engine.py:995`) are below its level of detail.

**journal_sibling** (finding). Two runs on one database file. One connection's
failed INSERT, the duplicate `started` of a resumed node, leaves its
transaction open with the write lock while the node's agent runs; the other
run's result row is refused and the refusal swallowed; after a crash its
finished agent is run again. Alone on the database the property holds (run
**journal**, theorem `AloneNeverReruns`).

**pipeline** (`WorkflowPipeline.cfg`, 3 stages, 3 items, 2 slots; 16 892
states). `SinkInOrder`, `ResultsKeepSuccesses` (a failing stage neither loses
the value so far nor lets its own through), `NothingLeftBehind`,
`ReturnsUnlessWorkerDies`. Three stages and two slots make workers compete for
the semaphore, and put the pill, an item and a failed item in the chain at once.

**pipeline_raise** (finding). `EveryItemComesOut` fails: when an agent cannot
be built, the exception ends the worker and `pipeline()` never returns.

**write_queue** (`MemoryWriteQueue.cfg`, two turns and two fired tasks of two
agents, 3 slots; 24 383 states). `WritesInOrder` (writes of one agent that go
through the pool never overlap and keep the order of `submit()`),
`NothingHeldWhenOver`, `DrainAccounts`, `EveryCallEnds`. A shutdown may come at
any step and its drain may time out at any step. Three slots for two fired
tasks is the smallest pool in which the nested submits always find a slot.

**write_queue_fires** (finding). As many fired tasks as slots, or more: each
holds a slot while the submit nested in it waits for another.

**native_session** (`NativeSession.cfg`, any 3 requests on 2 sessions, one
restart, one branch per fork, one fault of the store: a statement that raises or
a stored history that does not decode; 1 935 844 states).
`TurnLostOnlyByOverlap`: a turn that history or row held is dropped at the end of
a run only if it was stored after a turn of the session began that was stored,
too. `RowHoldsHistory`: what a restart would lose is a fork that has not turned
yet and what the store failed to keep, and nothing else. A save that fails is
only logged, after the record took the new history (`routes.py:275-283`): a record
is excepted from a failed save to its next one, which makes up for all of it. A
row that does not decode is taken for empty (`routes.py:262-272`) and overwritten
by the next save: this is the other way to lose turns, and what such a row held
is excepted (`garbled`, `Loaded`). `HistoryIsOwn`, `DeleteIsFinal`,
`CancelIsFinal`. Sessions that had two records at once (`twins`: two requests
built one session between check and write) are excepted where two records cannot
agree with one row; the run reaches such states, and the other properties hold in
them. Three requests give a save that fails between two that do not, or before a
restart and a turn behind it.

**client_session** (`ClientSession.cfg`, any 3 requests on two claude-code
sessions, one of which was restored, and one claw session; one lost link, one
restart; 752 607 states). `SentMeansAccepted`: a turn answered "sent" was
accepted by the gateway, also one on an unknown key, which waits for a client,
finds it not running and reconnects once more (`EnsureEnds`). `OneTurnPerNative`:
no two processes work on one native session, but for `twins`. `NativeRecorded`:
without twins the row names the native session the client knows, unless the
client's last `on_native_sid` failed, which is only logged
(`claude.py:195-198`). `TickOpenOnlyIfHalted`: a started tick is completed on
every path, but for a turn that was queued when its client was stopped. What
becomes of the connection of a claw client that was replaced and that no handler
holds, nobody observes; `Connected` and `LinkLost` leave it alone (`Referenced`).
Claude-code and claw sessions share neither a client nor a row; instances of one
harness each hold with more: four requests on the claude-code sessions (446 255
states), where two clients of a session can be built at once while others use
it, and two lost links on the claw session (431 544 states).

**flow_scheduler** (`FlowScheduler.cfg`; 185 974 states). Flow f: `a` on a
claude session and `b` on a claw session, merged by `c`, with a conditional edge
a-c; flow g: `d` on the same claw session. Each flow runs once, a stranger gives
the claw session one turn, and flows may be cancelled, nodes time out and sends
fail at any moment. `MergeIsExact`: a merge starts at most once, when all its
edges were traversed, and is not forgotten, even by a flow that is cancelled.
`CancelHolds`: a flow cancelled after its start starts no further node.
`ResultStands`: a node that has its result keeps it. `FlowEnds`.

**memory_maintenance** (`MemoryMaintenance.cfg`, a registered agent and one
that only owns memories, a memory each, one `/notify`, idle threshold 1, cadence
2, batch limit 1; 636 580 states). `OwnWritesQuiet`: when nothing runs, a
change that the next poll will find was made by somebody else.
`DebounceHolds`: extraction waits until the clock has counted every external
write made while nothing ran. `AllDigested`: every memory is extracted in the
end, though one extraction fails.

**orchestration** (`Orchestration.cfg`, an `/orchestrate` with two branches and
an `/execute` of one agent, an `/execute` and an `/execute_parallel` of two
others, 2 slots, one fault: a client that leaves, a failing statement or a
crash; 161 310 states). `SlotsGoRound`: no slot is given back twice, and none is
lost while no agent has two requests and nobody leaves where no `finally` gives
it back. `StatusTellsTheTruth`, `SubagentsAreTransient`, `EveryRequestEnds`.
Four requests on two slots with two of one agent give overlap, waiting and a
hand-over in one instance.

`CHECK_DEADLOCK FALSE` is set where the system really may stop: a pipeline
whose worker died, the hung write queue, and the instances in which every
request or run is used once.

### Fairness

Liveness is checked under weak fairness of what the event loop takes once a task
is ready: of one action, the disjunction of all such steps, in the workflow
modules, the write queue and `FlowScheduler`, and of one action per handler in
`MemoryMaintenance` and `Orchestration`, where a task that is ready is run
whatever the others do. That is what an asyncio loop does; that agents, writes
and timers end is part of it. In `FlowScheduler` a turn need not end:
`NODE_TIMEOUT` makes `FlowEnds` true. Calls that come from outside are never
fair: the caller's abort, new requests, submits and fires, external writes, the
shutdown, crashes, cancellations, clients that leave and the start of a run. In
`WorkflowJournal` the resume is fair: `Recovers` says what an operator who
resumes unfinished runs gets. `NativeSession` and `ClientSession` have safety
properties only, and no fairness.

### Bounds

Bounds that the code does not have: `MaxPrior` and `MaxUse` (usages),
`MaxDeaths`, `MaxRestarts`, `MaxLosses` and `MaxFaults` (crashes, cancellations,
lost links, clients that leave, failing statements, rows that do not decode), `MaxBranches` (targets of a fork), `MaxRuns`,
`MaxTasks`, `MaxStrays` (runs of a flow, tasks of a node, turns of strangers),
`MaxOwn`, `MaxFailures`, `MaxSweeps` (optional writes and failing extractions).
All are constants used in guards or ranges. Everything else that is finite in an
instance is a parameter of the code (nodes, stages, items, slots, requests,
sessions, agents). A request is used once, so the number of requests bounds the
length of a session's history; three are the smallest number that shows an
overlap together with a third party (a delete, a fork, a reconnect). The
theorems of section 4 remove these bounds for every safety property, but for
what their own hypotheses say.

## 4. What is proved

The theorems hold for every value of the constants allowed by the modules'
assumptions, which the runs evaluate. The type
invariant of a module is the base of the others.

`WorkflowRunProofs`:

- `RunTypeOK`, `SlotsAreConserved`: the slots are counted through the
  cardinality of `Holders`, which each step changes by at most one element.
- `BudgetIsBounded`: needs that a node in `run` with a budget holds the lock,
  and that usage was within the limit when it was taken; the total of a held
  lock is therefore at most the limit.
- `NothingSpawnsAfterTrip`: after a trip, usage is above the limit and no node
  is running, so `OverBudget` holds at every later `Spawn`.
- `BudgetSpentInOrder`: tasks leave each waiting place in spec order, so a
  node that ran has no short-circuited node before it.
- `BudgetSignalIsExact`: `tripped` is equivalent to some node being refused.
- `RunImplementsFanOut`: `Spec => Promise!Spec`, one case per action, each of
  which settles one node, closes, or stutters. The liveness half of
  `ImplementsFanOut` is checked by TLC.

`WorkflowEngineProofs`, of the journal:

- `JournalTypeOK` and `UsageIsNeverTooHigh`, for any keys and any runs that share
  the database: `UseInv` says that a result row stands for an agent run that took
  place, that there is one row for a key, and that no total, neither that of a
  call nor that of a run row, counts a node more often than its agent succeeded.
  `SuccessIsOneRow` replaces the induction a sum
  would need: rows of one run and node are one row.
- `CompletedRunsAreCovered`, under `DistinctKeys` (two nodes of a run have
  different cache keys): the invariant `CoverInv` says that result rows are true
  (their node did settle), that an idle node of a live call settled, could not be
  built or was skipped, that only the call of a bounded run skips, and that nodes
  of calls that are not live are idle. No call is live once its run is completed,
  so `skipped` then is what the completing call cut off. Failed writes are
  included.
- `AloneNeverReruns`, under `DistinctKeys` and for one run on the database: no
  connection is ever stale nor blocked by another, so every settled node has its
  row, and `Resume` passes it over.
- `AloneUsageIsExact`, under the same: the rows hold what was spent (`ExactInv`),
  so what a resume adds up from them is what the calls before it had. With a
  second run this is false for the reason of **journal_sibling**, and only the
  inequality of `UsageIsNeverTooHigh` is left.

`WorkflowEngineProofs`, of the pipeline, for any number of stages, items and
slots:

- `PipelineIsTyped`, `ItemsLeaveInOrder`, `ValuesAreKept`,
  `PillEmptiesTheChain`. Over all of them stands `Line(p)`: there are numbers
  `p[s]`, how many messages have left the queue of stage s, such that the items
  stand in the chain in the order of the input, the worker holds the one that
  left last, and its value is the outputs of the stages that succeeded for it.
  `PillAt(q)`: while the chain closes, its only message is the pill, on queue q;
  the workers before q have gone, the others are idle. `SlotsInv`: the workers
  that run and the free slots make up the semaphore.

`MemoryWriteQueueProofs`:

- `PoolWritesInOrder`: for each agent, the sequence of its lock and the log of
  `submit()` agree: of two logged calls of the agent, the earlier is over or
  stands before the later in the lock, and only the head of the lock may write.
  Leaving a queue (`Without`) keeps the order of the others; this and the facts
  about `Append` and `Head` are lemmas. What a shutdown cancels is covered.
- `QueueTypeOK`, `NothingStaysHeld`, `DrainTellsTheTruth`, from `HoldInv`: who
  stands in the queue of the semaphore is told by where the calls are
  (`SlotsInv`, as `QueuedExactly` does for the locks), `_inflight` is the calls
  in their write and the fired tasks not over (`InflightInv`), and from the
  shutdown on nothing fired joins it: all of it was in the snapshot of `drain()`
  (`DrainInv`). `WithoutKeeps` is the one lemma about a queue they need: the
  entry that leaves goes, each other stays and stands there once.

`FlowSchedulerProofs`, for any flows, graphs, conditions, sessions and stray
turns:

- `FlowsAreTyped`: with it, a flow waits for tasks of its own and for one of each
  node (`RemoveCloses`, `WithoutDrops` and `WatchedAdds` are the lemmas about
  `_pending`), and a turn under way has a client, so that what a harness emits
  is heard by a flow that exists or by none.
- `MergesAreExact` (`GraphInv`): in a first run a node has one task; an edge that
  was traversed has a source that is over, so the edges a task traverses at its
  end are new; `indegree` is therefore the number of edges to come (`CountInv`);
  and a node has run exactly when there is none (`MergeInv`). All steps but the
  start of a flow, a report and those of `run()` itself are `Quiet`: they spawn
  nothing and bring nothing back.
- `CancelsHold` (`HeldInv`): a flow cancelled when its start nodes are there has
  no task left that could take a step, and a step of another flow spawns nothing
  in it (`OutcomeElsewhere`).
- `ResultsStand` (`ResultInv`): an entry of `_pending` belongs to a task that
  waits or has its answer, and its node has no result yet; a result is given
  only together with the removal of the entry.
  These three are about the first run of a flow, or about the run that was
  cancelled: `run()` does not reset `_indegree`, nodes or `_pending`.

`NativeSessionProofs`, for any number of requests, sessions, branches and
restarts:

- `SessionTypeOK` with `Handler`: which locals a handler has at which await.
- `ForksStayApart` (`OwnInv`): also what a handler carries in its locals is its
  session's own or given to it by its fork.
- `CancelledTurnsNeverWrite` (`StoppedInv`): a turn answered for is at no await
  from which it can reach its write.
- `DeleteIsTheLastWord` (`DeleteInv`): while a delete is the last word on a
  session (every other request that names it was over when it arrived), the
  registry has no entry, and once the delete is done, the table has no row.
- `RowsHoldHistories` (`RecordInv`): without twins, all who use a record of a
  session, the registry included, use the same one, and the row agrees with it but
  for a fork that has not turned, a row that does not decode and a record whose
  last save failed. For a record that is being built, `ReadInv` says that what was
  read is still what the row gives.
- `LossNeedsOverlap` (`LossInv`): a turn is `Held` by a session if its row gives
  it, or a history or a run in use has it. It is `Overlapped` if another stored
  turn of the session began without it. `Accounted`: a turn that is held is in
  each history in use, and in each run that began after it was stored, unless it
  is overlapped.

`ClientSessionProofs`, for any number of requests, sessions, restarts and lost
links. Each action is first shown to move one request in one of a few ways
(`Moves`), or to leave a harness alone (`Elsewhere`, `Aside`); the invariants are
then proved against these.

- `ClientTypes`, `SentIsAccepted`, `TicksAreClosed` (`OpenInv`: an open tick
  belongs to a turn that is at work, queued, or halted).
- `TurnsPerNative`: `OwnInv`, a native session belongs to one session of the
  registry; `MutexInv`, the turn lock of a client; and `OneInv`, all users of a
  session without twins share one client. Together two processes on one native
  session would share a lock.
- `RowsNameTheSession`: `RowsInv` adds what a creation and a rebuild still at
  their await know of the row. A client whose last save failed is excepted until
  a later one succeeds.

`OrchestrationProofs`, for any requests, agents, graphs, slots and faults:

- `SlotsAreKept`: `SlotInv` counts the free slots and the requests that hold
  one; `Alone`, that without overlap an agent has one unanswered request, makes
  the entry in `_active_agents` the entry of the request that releases.
- `StatusIsTrue` (`StatusInv`) from the same.
- `SubagentsComeAndGo` (`SubInv` with `Agree`, which ties a worker's place to
  that of its request).

`MemoryMaintenanceProofs`, for any agents, memories, requests and writers:

- `OwnWritesAreQuiet`: `LockInv`, a held lock of an agent has a holder in the
  chain or a tier, who reads `MAX(updated_at)` again before it lets go;
  `QuietInv`, a change that is maintenance's own is behind somebody's next
  anchor, or behind a poll that will still look at an agent. It needs a
  registered agent (`Agents # {}`): a poll with nobody to look at sets the
  watermark to the stamp it read earlier, and leaves what a `/notify` for an
  unregistered owner wrote in between.
- `ExtractionIsDebounced` (`OwedInv`): writes the clock owes are found by the
  next read of the poll, so they are counted before a tier starts.

Only model-checked: the liveness properties (fairness and ENABLED are beyond the
prover), the liveness half of `ImplementsFanOut` among them. Every invariant and
every action property of a passing run is a theorem; `SettledNeverRerun` and
`UsageExact` under the hypotheses named above, `OwnWritesQuiet` with a registered
agent. The type invariants that are no property of a run (`TypeInv` of flows,
sessions and maintenance, with what a handler holds at which await) are theorems
or lemmas of the proof modules.

## 5. Not modelled, and the plan

What comes next, in this order:

1. **Refinement**: an abstract specification of a durable fan-out, to be
   implemented by `WorkflowJournal` as `FanOut` is by `WorkflowRun`.
2. **Worktree** (`worktree.py` with the tool handlers): the working directory of
   the process, nodes of one and of two calls, isolated and plain.
3. **Loop** (in the engine), refining a bounded search; its journal keys.
4. **Migrator** buffers, and the daily sweep in full: `SweepWrites` has its
   writes, not its walk over the agents.
5. **Observe replay**: the cursor of a consumer against concurrent ingestion.

Larger instances that were left out for their size: a flow that is run again or
whose node has several tasks; several batches of one extraction; a journal with
shared keys or with two resumes of one run; forks with two branches.

No caller in the repository, and therefore not modelled: `run_pending`, priority
queue, dependencies and tool slots of the controller; checkpoints and resume of
the state graph; `request`/`respond` of the bus; `kg_write_lock.py`.

Out of reach or without a state of their own: subprocess and network adapters
of the harness clients, memory stores and scoring (SQL and real numbers),
sideline agents (text from a language model), the knowledge graph's heuristics,
the resource and prompt managers, the terminal interfaces. They are most of the
repository's lines, so the models cover a small share of it: its concurrent and
recoverable part.

## 6. Where code and words differ, and what the models show besides

No run has these as its question; they are states and steps the models contain,
and the properties of section 3 except them by name.

- `engine.py:723` says that an item whose stage failed is not spawned in later
  stages; every later stage runs on the previous value, and so does `PassOn`.
- `claude.py:181` says that the decision to resume is made inside the lock, so
  that two turns do not each make a native session. Half of it is made before, in
  `routes.py:756`: two turns that arrive before the first has a native id both
  run as first turns, and the later one's native session replaces the earlier's.
- `docs/adr/pydantic-ai-v2-adoption.md:146` says that a restart loses no context
  of a native session; the messages a fork was given are in memory only until its
  first turn (`RowHoldsHistory`).
- A run is final once its call returns, and errors are a matter of its nodes
  (`engine.py:616-618`); the nodes its budget cut off are left for good with it.
  The same run, killed one step earlier and resumed, runs them, without the
  budget.
- A save that fails is not tried again: a history waits for the next turn
  (`routes.py:282`), a native id for the native session to change
  (`claude.py:192-198`). A history that does not decode is started afresh and
  overwritten (`routes.py:270`).
- `flow.py:470` says that no dependents are scheduled after a cancel; one that
  comes while `run()` connects its emitter finds no task to cancel, and the flow
  goes on. `CancelHolds` is therefore about flows that have started (`held`).
- A turn can be lost although it was stored before the run that drops it began:
  through a chain of overlaps the row lost it, and an older run brings back a
  history without it. `TurnLostOnlyByOverlap` says an overlap is needed.
- Archiving a native session that only the store knows registers an OpenClaw
  client for it; deleting a native session leaves `_active` as it was; a stale
  claw client is replaced without being stopped.
- A slot is lost for good by two overlapping requests of one agent (also when a
  client asks again upon `execution_complete`, before the stream ends), by a
  client that leaves at the first yield (`chat.py:327`, `orchestrate.py:236`), or
  by a second cancellation inside `emitter.close()` (`chat.py:365`). An agent
  whose `/execute` was left stays shown as running.
- A subagent whose process crashes comes back as an ordinary agent: the agents
  table has no `is_subagent` column.
- Two branch specs of one role make one branch (`multi_agent_graph.py:207`);
  `ParallelNode` reports the status "running" of branches that are over.
- The daily sweep writes without the agent's lock (`engine.py:648`).
