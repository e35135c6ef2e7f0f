# Verification of sovereign-agent

TLA+ models of the parts of `sovereign_agent/` that carry control: the queue that
decides which session runs, the orchestrator with the records, files and workers
it drives, the approvals of humans, the components that carry out work (scheduler,
tickets, worker backends and their confinement, plans, batches of tool calls, rules,
message directories), and
the files of a session that outlive its processes (handoffs, memory, parents).  TLC
checks every module on small instances; TLAPS proves, for every value of the constants,
every safety and action property that holds, and that the queue implements its abstract
service.  Paths are relative to `sovereign_agent/` unless
they name a top-level directory of the repository.

## The system

sovereign-agent is a framework for agents whose whole state lives in a *session
directory*.  One process, the orchestrator, runs an asyncio event loop; command
line tools and (optionally) worker subprocesses touch the same directories.

| component | state | operations | interacts with |
|---|---|---|---|
| session queue (`session/queue.py`) | per session: active, idle flag, pending list, input directory, retry count; global: waiting list, slot counter, worker table, shutdown flag | enqueue_*, run, fail and back off, give up, release slot, start from waiting, register/unregister container, notify_idle, shutdown | calls `process_session`; writes the `_close` sentinel |
| orchestrator (`orchestrator/main.py`) | running flag, subtasks, tool cache | resume on startup, process_session, dispatch loop or structured half, watcher callbacks, shutdown | queue, watcher, session records, loop half |
| session records (`session/directory.py`, `session/state.py`) | `session.json` and one in-memory copy per handle | create, load, update_state, mark_*, archive | every writer of a session |
| loop half, planner, executor (`halves/loop.py`, `planner/`, `executor/`) | subgoals, turn counter, handoff flag, approval pause | plan, act, dispatch a batch of tools, answer, give up; resume_from_approval | model, tools, tickets, approvals |
| IPC watcher and protocol (`ipc/watcher.py`, `ipc/protocol.py`) | files of `ipc/` | poll, archive and dispatch handoff and completion; quarantine; read_and_consume | orchestrator callbacks |
| approvals (`ipc/approval.py`) | request, granted, denied and log files | write request, list, record decision, find decision | executor, command line |
| handoff files (`handoff/`) | `ipc/handoff_to_*.json`, `logs/handoffs/` | write, read, read archived | halves, watcher |
| scheduler (`scheduler/drift_corrected.py`) | task table with next_run, running flag | register, unregister, run, tick, fire, compute_next_run, shutdown | the wall clock; callers' functions |
| tickets (`tickets/`) | `state.json`, `manifest.json`, `summary.md` | start, succeed, skip, fail, list | planner, executor |
| memory (`memory/`) | fact files, `index.json`, `working.md` | write, read, delete, consolidate | tools |
| session resume (`session/resume.py`) | `resumed_from` links | resume, summarise, find ancestors | command line |
| structured half, verifiers (`halves/structured.py`, `halves/verifiers.py`) | none | run rules, verify | library users |
| worker backends (`orchestrator/worker.py`, `worker_entrypoint.py`) | a coroutine or a subprocess per call | run one step, time out | library users; session records |
| isolation (`_internal/isolation.py`, `landlock_shim.py`) | the ruleset of a process being started | choose a policy, wrap the command, restrict, execute | worker backends; the kernel |
| mounts, path checks, credentials, configuration, model client, observability, voice, discovery, errors | none that changes | policy, I/O, reporting | - |

`chapters/`, `examples/`, `lessons/`, `scripts/` and `tools/` hold teaching copies of
these modules, demonstrations and build scripts; they are not part of the program
modelled here.

### What is hard here

* **Interleaving.**  A worker suspends whenever it waits for the model.  The
  watcher, other workers, retries, new tasks and shutdown run in between, and
  command line processes run at any time.
* **Stale handles.**  `update_state` compares the transition with the handle's own
  copy of the state, read when the task started.
* **Several writers of one fact.**  The end of a session is decided by the worker,
  by a completion file and by a handoff file; a slot is recorded in a flag, a
  counter and a table.
* **Crashes and restarts.**  What is in memory is lost; the next start sees records
  and files only.
* **Retries and timeouts.**  Backoff sleepers race with new tasks and with shutdown;
  the grace period races with workers about to finish; a worker step is killed while
  its record may already be final.
* **Several files for one fact.**  A ticket is three files, a memory fact two, a
  session two; each is written whole, but a process may die, or a write fail, between
  them.
* **Polling.**  A message or a handoff is read in one step and moved in another;
  another consumer, or the writer, may act in between.
* **Files that cannot be read.**  Some reads are caught and taken for an absent file, some
  for a malformed one, and some leave the call; what was done before them stays done.
* **Failing closed.**  A confined process restricts itself in several system calls; a plan
  or an answer of the model may have any form.
* **Clocks.**  Timers are due by the wall clock, which leaps and is set back; audit
  entries are named after its second, messages after its millisecond.

`PROJECT.json` lists these hazards at their lines with the properties that watch
them.

## Models

### SessionQueue - `session/queue.py`

One action per method body between two suspension points.  The asyncio lock never
suspends anybody (no critical section awaits), so a body is atomic.  `Admit` is
`_enqueue` after its early return, split by its three exits `Serialize`, `Hold` and
`Launch`; `AfterTask` and `FreeSlot` are `_after_task` and `_release_slot`, each with the
pass of `_maybe_start_from_waiting` it ends with.  `Succeed`, `FailAndBackOff` and
`GiveUp` are the three ends of `_run_task`; `Retry` is `_delayed_retry` waking up;
`BeginShutdown`, `GraceSuffices` and `GraceElapses` are `shutdown` before and after its
`wait_for`.  `running`, `backoff` and `awaited` are the coroutines on the loop, `outcome`
is history.  The calls of a worker spawner (`register_container`, `notify_idle`) have no
caller in the package; their guards say when a spawner can make them.  A scheduled task may
be `Anonymous` (an empty `task_id`): its retry comes to nothing (`queue.py:258`), and the
tasks listed behind it stay where they are (`Stranded`).

* `TaskService` is the abstract specification: a task has a stage, stages move along
  fixed edges, at most one task of a session and `MaxConcurrent` tasks in all run.
  `ServiceSpec` states that SessionQueue implements it under the mapping `StageOf`.

### Orchestrator - `orchestrator/main.py` and what it drives

`disk` is the state field of `session.json`; `job[s].handle` is the running worker's
copy of it.  `ProcessSession` runs to the first suspension; `PlannerReturns`, `CallTools`,
`ToolsReturn`, `Answer`, `Exhausted` and `StepFails` are the segments of `LoopHalf.run` and
`_react_loop` between model calls and tool awaits, with `Finish` and `NextSubgoal` as what
`_dispatch_loop_half` does with the answer.  `Tick` is one pass of the watcher over a
session with both callbacks; `CrashInTick` dies between archiving a file and acting on
it.  Reads and writes of a session's files may fail: in `Start` (`list_sessions` passes over
the record), in `DispatchFails` (the record, the trace or the escalation), in `StepFails` (the
failure itself is not saved) and in `TickFails`; `faults` counts them per session and
process, and the properties say what they excuse.  `CreateSession` and `ArchiveSession` happen in other processes.  The queue is
represented by what `TaskService` promises: a session's tasks run one at a time, and
each is started some time (`MayStart`).  `Shutdown` stops the watcher, `Exit` ends the
process at any time after.

Abstracted: the reply of the model is any plan of `Plans`, any set of files written,
any approval request or an exception; a half other than `loop` and `structured` is
`research`; `handed_off_to_research` is left out because nothing in the package writes a
handoff to it.

### Approvals - `ipc/approval.py`, its callers in `executor/` and `cli/`

The variables are the five kinds of file of the protocol, where the executor of every call
stands (`stage`), what every run of `resume_from_approval` has heard (`run`) and the locals of
`record_decision` in every decider (`desk`).  Each
file operation is a step: `Ask` and `LogRequest` are `write_approval_request`, `DieAsking` a
crash between them; `FindRequest`, `ReadRequest`, `WriteVerdict`, `LogVerdict` and
`RemoveRequest` are `record_decision`; `LookForGrant` and `LookForDenial` are `find_decision`
inside `resume_from_approval`: a granted file that cannot be read is passed over, a denied
one that cannot be read makes the call raise.  Without fairness any process may stop
anywhere, so crashes of deciders need no action.  A request may be resumed any number of
times, by several at once (`Resumer`); each goes on in a loop of its own (`resumed`), which
may ask for another call (`ResumedAsks`) or come to an end (`ResumedEnds`).  `IdOf` is any map from calls to request ids:
`make_request_id` keeps eight characters of each of its arguments.  A decision is the pair
of its decider and the request merged into it; reasons, overrides and the hash of the
arguments, which nothing compares, are left out.  The link to Orchestrator is the
`approval` field of a job: what `LoopHalf.run` does with a pause is `ToolsReturn` there.

### Scheduler - `scheduler/drift_corrected.py`

The table of timers, each row spread over `registered`, `enabled` and `nextRun`, and the
number of `run()` coroutines.  `_tick` has no suspension point, so a `Pass` over the table
is one step; the set `Ready` is what it fires.  A timer for which `compute_next_run`
raises makes `run()` return in the middle of the pass: `before` are the timers that came
earlier in the table, whose order is any.  `Skipped` gives the result of the catching-up
loop in closed form.  `TimePasses` and `SetBack` are the clock, with any leap.  `anchor`
and `spent` are history.

### Tickets - `tickets/`, `_run_planner_via_ticket`, `_run_executor_via_ticket`

`state`, `manifest`, `summary` and `output` are the files of a ticket, `at` is where the
operation stands that owns it, between two writes.  Each write is a step, may fail
(`WriteFails`: inside the `try` the ticket is failed, outside of it the exception goes to
the caller), and the process may die before it (`Die`).  `told` is what the caller got.

### Workers - `orchestrator/worker.py`, `worker_entrypoint.py`, `advance_session_once`

A call of `run_session` (`call`), the step it stands for (`step`) and the session record
between them.  `Load` to `Report` are `advance_session_once` cut at the model calls and at
`session.json`; `Save` is `update_state`, which moves the handle before it writes.
`LoadFails`, `TraceFails`, `MarkFailedRaises` and `ReloadFails` are its ways out by an error;
what the entry point of the process makes of an exception, and a bare worker does not, is
`Escapes`.  `Collect`,
`TimesOut`, `WorkerDies`, `SpawnFails` and `CallerCancelled` are the ends of `run_session`; what
differs between the backends is where a step can be stopped (`Stoppable`) and that only a
process survives its caller.

### Confinement - `_internal/isolation.py`, `_internal/landlock_shim.py`

How the subprocess of a step is started under each policy on each platform: `MakeWorker`
chooses, `SpawnUnconfined`, `SpawnShim` and `WriteProfile` are `wrap_command`, and from
`CreateRuleset` to `Exec` the shim goes from one system call to the next, each of which
may fail (`ShimFails`).  `access` is what the kernel lets the process do, by groups of the
bits of Landlock and by its version.  Paths may vanish meanwhile.

### Plans - `_parse_subgoals` in `planner/`

The reply of the model item by item: `AddSubgoal` takes an id, makes one up from the
position or puts a token behind one that is in use; `ParseRaises` are the replies nothing
can be made of.

### ToolBatch - `_dispatch_tool_calls`, `_invoke_tool`, `execute`

`BeginsRun` says where the list of calls is cut under each policy, `RunOf` what is gathered;
`StartCall` is `_invoke_tool` up to the tool, which raises if the arguments are no mapping,
`Answers` is a tool that returns.  `CancelBatch` is the cancellation of the executor.

### Rules - `halves/structured.py`, `halves/verifiers.py`

`StructuredHalf.run`, one step per evaluation.  A check is a callable, a classifier, a
judge, a verifier of the user's own or something that cannot be called; the operators
`EvaluateCallable`, `EvaluateClassifier` and `EvaluateJudge` give the answer from what the
function or the model does.  A built-in verifier turns its own failures into "no".  What
escapes escalates: the exception of the user's own verifier, a judge whose template
cannot be filled, and one that answers with JSON that is no object.  A judge's decision
that is a text counts as true whatever it says.

### Mailbox - `ipc/protocol.py`, the output part of `ipc/watcher.py`

Message files of several writers and `read_and_consume` of one or more consumers: listing
in the order of names (`Listings`; names of one millisecond are not ordered), reading,
moving, and handling what was moved.  A name is the millisecond of the wall clock (`stamp`)
and a random number, which may be drawn twice (`Publish`); the clock may be set back, which
also makes files young again (`ClockTurnsBack`).  A file is good, malformed (no JSON) or
undecodable (no UTF-8): only the second kind is quarantined, the third leaves the call by
an exception (`LetsGo`).  `FileFails` is any failing file operation, `CrashConsumer` a process
that dies with messages in its hands; `lost` are the messages that were archived and are
in nobody's hands.  Left out: a write that takes longer than the grace period and so
replaces a file that is being consumed.

### Handoffs - `handoff/`, `_process_handoffs`, `_process_complete`

The file of each half, the audit directory by half and second, and the watcher's pass
over them step by step, with writers that replace a file at any moment.  `_malformed`
holds what `Discard` moved there under its bare name, one per half, and what `Quarantine`
moved there under a name with the millisecond.  Orchestrator has the same pass as one step,
with what the callbacks do; here the steps matter.

### Memory - `memory/`

Fact files per type and id, the index, the working text, and where the call of each
process stands (`desk`).  `WriteFactFile`, `Unlink`, `ReadIndex`, `WriteIndex` and
`ClearWorking` are the file operations of `write_fact`, `delete_fact` and `consolidate`.
The content of a fact is the number of the working text it was, or something else.

### Lineage - `session/resume.py`, `create_session`, `archive_session`, `parent_session`

Making a session write by write (`Begin` to `FillBrief`), its first planning
(`PlanSession`), archiving, the reuse of an archived id, and `find_ancestor_chain` reading
one record per step (`WalkStep`), which may be there and not be readable (`ReadFails`).

### MCExecution and MCSessionStores

The components Scheduler, Tickets, Workers, Confinement, Plans, ToolBatch, Rules and
Mailbox, and those from Handoffs to Lineage, share no
state among each other: no file, no variable.  Their product would say nothing more than
its factors, so the two modules put them side by side, and a behaviour is one of one
component (`component`), the others resting in one initial state.  A resting component
has nothing its fairness could oblige it to.

## Runs

| run | instance | states | question |
|---|---|---|---|
| `queue_safety` | 2 sessions, 4 tasks (3 of one session, one of each kind), 1 slot, 1 retry, one anonymous scheduled task, one preemptible session | 92 k | types, cap, slot accounting, no task lost or doubled, sentinel, urgency |
| `queue_capacity` | 3 sessions, 5 tasks (3 of one session, one of them scheduled and anonymous), 2 slots, 1 retry, fairness | 353 k | sessions are serialized, slots are used, `TaskService` is implemented, tasks settle, shutdown drains |
| `queue_kill` | as `queue_safety` | - | violation: shutdown cancels workers |
| `queue_drain` | as `queue_safety` | - | violation: pending tasks passed over after a failure |
| `orchestrator` | 1 session, plans of up to 2 subgoals with every half, 2 turns, 1 retry, 3 starts, 2 errors of the file system per process, fairness | 86 k | stale handles, finality of failure, futile retries, handoffs and resumed sessions |
| `orchestrator_final` | 1 session, 1 start | - | violation: a completed session moves again |
| `orchestrator_pickup` | 1 session, 1 start, fairness | - | violation: a planned handoff waits for a restart |
| `orchestrator_approval` | 1 session, 1 start | - | violation: a paused session goes on |
| `approvals` | 3 calls, 2 of them with one id, one granting and one denying decider, 2 resumptions that may overlap | 872 k (symmetric) | audit, lost requests, late deciders, grants that stick, unanimity without a race |
| `approvals_audit` | as `approvals` | - | violation: a response that is in no log |
| `execution` | 4 timers (once, interval 2, malformed, expression 3), clock to 3, one setback, 2 loops; 2 tickets; 2 worker calls of each backend; batches of up to 4 calls; rule lists: none, one with any check, two whose first condition is any check or all of whose checks are callables; every host and policy with 2 paths of the runtime; replies of up to 3 items, 2 tokens; 2 messages, 1 or 2 consumers, 4 milliseconds, 2 faults; fairness | 317 k | instants and phases, timers that stay due, endings and callers, outcomes, barriers and slots, consent, confined or not run, subgoals told apart, delivery once and in order |
| `session_stores` | 2 halves, 4 handoffs, 2 seconds, one mishap; 2 processes, 2 types of facts, 2 ids, 1 working text, one death; 3 sessions | 6.1 M | audit against dispatch, what a handoff vanishes under, index against files, consolidation, ancestors, briefs |

Bounds.  In the queue, three tasks of one session are the least that show a pending
list with an order in it behind a running task; the fourth task is the competitor for
the slot.  With two slots there are three sessions, one of which has an anonymous task
beside two others, so that `EveryTaskSettles` meets a stranded list and lists that are not.  Each task is handed over once, so behaviours are finite without a counter;
`MaxRetries` 1 gives a failure that is retried and one that is not.  In the
orchestrator sessions share nothing but the process and the queue's cap, which only
delays (`MayStart`), so one session is enough for the properties, all of which speak of
one session at a time; two turns allow a file written in one turn to be delivered in
the next; three starts allow a crash of a process that recovered from a crash; two errors of
the file system (`MaxFaults`) let a retry meet one that an earlier one has caused, and let
`HandoffsAreResolved` and `ResumedSessionsMove`, which excuse an error that comes later, be
asked after one that came before.  The violation runs have none.  In the approvals two deciders are
the least that race, one for each verdict; two calls with one id and one with its own
show both cases of `IdOf`; two resumers are what `GrantsStick` compares, and nothing tells them
apart (`Resumers` is a symmetry of that run, which has no liveness).

In `execution` an interval of 2 and a clock to 3 let a timer miss a run and fire late and
on time; two loops let one raise while the other serves; two registrations allow a timer
to be registered again.  Two tickets and two calls are the least that could be mixed up; the
second call comes to the record the first has left or is still writing.  Four calls hold
two runs of two, and an unsafe call with neighbours on both sides.  Two paths of the
runtime let one be granted and the other be gone.  Three items are the least where an id
made up for the second meets the id of the third.  The types of the approvals are proved and
not run.  Two messages of one writer hold a tie, a bad one before or behind a good one and
two in order; two consumers race for each; four milliseconds (`MaxMillis`; messages are
written before the last) leave time to set the clock back between two of them; two faults
(`MaxFaults`) let a consumer fail after a setback or a crash.  In `session_stores` four handoffs and two seconds let a file
be replaced, an entry be written over, and two polls find two files each; one id filed under two types and one drawn by consolidation show both kinds
of facts; three sessions make the shortest cycle that is not a pair.  Nothing tells
sessions apart there, so that `Alike` is a symmetry; it is a run of invariants only.

`CHECK_DEADLOCK FALSE`: all tasks may be settled and the queue stopped; the process may
be down for good; all approvals may be decided; all messages may be handled; a ticket, a worker call, a batch or a list of
rules comes to its end, and the stores run into their bounds.

Fairness.  Workers end (`WF(WorkerEnds)`, `WF(WorkerStep)`) because model calls time out
and turns are bounded; sleeps end (`WF(Retry)`, `WF(RetryWakes)`, `WF(GraceElapses)`)
because timers fire; the watcher polls (`WF(Tick)`).  `WF(ProcessSession)` is the promise
`EveryTaskSettles` checks of the queue; the orchestrator and its callbacks enqueue no anonymous
task.  The scheduler's loop wakes from
its sleep (`WF(Wake)`), and a consumer that polls goes on (`WF(ConsumerStep)`, one per
consumer).  In Mailbox time passes (`WF(Tick)`, `WF(Ripen)`): a grace period of 100 ms ends.
Nothing forces a start, a shutdown, a creation, an archiving or the scheduler's clock, and no
strong fairness is used.

## What the code does not do as documented

* `WorkersAreNotKilled` - "Does NOT kill workers" (`session/queue.py:331`).  `wait_for`
  cancels the gather and the gather its workers; their slots stay taken.
* `SessionDrainsByPriority` - "Priority-draining per session" (`session/queue.py:12`).  A
  failure releases the slot over the head of the pending list.
* `TerminalIsFinal` - "it cannot move again" (`session/state.py:14`).  The transition is
  checked against the worker's copy.
* `HandedOffIsPickedUp` - "one writes a handoff file, the other picks it up"
  (`docs/architecture.md:46`).  A subgoal the planner assigns to the structured half
  leads to a state with no file and no task behind it.
* `SessionIdlesForApproval` - "resumes when a human decides" (top-level `README.md:131`),
  "the session can idle for hours" (`ipc/approval.py:24`).  `LoopHalf.run` takes a pause for
  a success: the next subgoal runs, or the session is completed.
* `EveryResponseIsLogged` - "every request and response lives in `logs/approvals/`"
  (`ipc/approval.py:23`).  Two deciders that both found the request pending write their
  entries under one name.

Losses and gaps the properties excuse, each because the code has it:

* A scheduled task without an id that fails is not retried, and the tasks listed behind it
  wait until a caller hands the session another (`session/queue.py:258`; `Stranded`).
* `process_session` returns `False` or raises without marking the session when the record
  cannot be loaded (`orchestrator/main.py:165`), the trace cannot be written (`:171`) or
  `mark_failed` raises, which is swallowed (`:190`); the queue's retry then finds an unfinished
  session.  `list_sessions` passes over a record it cannot read, so that the session waits
  for the next start (`session/directory.py:394`), and a handler that cannot load the session
  drops the handoff (`orchestrator/main.py:270`).
* A granted file that cannot be read is passed over and a denied one is heard instead
  (`ipc/approval.py:341`).
* A worker's step whose record cannot be loaded, before or after, is reported as idle, even
  if it has ended the session (`orchestrator/main.py:378`, `:448` with
  `worker_entrypoint.py:101`).
* A message file that is not UTF-8 is never moved, although a docstring says of every file
  that is read "each file is MOVED" (`ipc/protocol.py:81`).  It keeps what lies behind it from being consumed, and messages
  archived by the call that met it are handled by nobody (`ipc/protocol.py:121`); errors at
  `ipc/protocol.py:123` and `:130` have the same effect for once.
* A clock that is set back reorders the messages of one writer, and two of one
  millisecond may draw one name, of which the later replaces the earlier
  (`_internal/atomic.py:135`).
* A malformed handoff goes to `_malformed` under its bare name and destroys the one of its
  half that went there before (`ipc/watcher.py:150`).
* A parent whose record is there and cannot be read or parsed ends the chain of ancestors as
  an archived one does, and bytes that are no text raise (`session/directory.py:210`).

Observed while modelling, without a run of their own: the docstring of
`ipc/approval.py` says that no further tool calls of the turn are executed after the one
that wants approval, while the whole batch has been dispatched by then, and only the
first of several such calls is asked about (the `others` of `Ask`); a decided request is
still listed as pending until its file is removed (`ipc/approval.py:235`); a call that
heard a denial may hear a grant when it is resumed again, because a grant is looked
for first (`GrantsStick` is the direction that holds).

Also without a run: the context of the parent that `resume_session` puts before the task
does not reach the planner, although `session/resume.py:126` says "The planner reads
SESSION.md at the start of every run": `_read_task_from_session_md` cuts out the section
"Task description" and nothing else.  An outcome of a step that timed out says `advanced`
is false even if the step had saved a new state (`cut` in `OutcomesTellTheTruth`).  A
timer for which `compute_next_run` raises can be registered with a first run of its own,
fires, and ends the loop for all timers; `run()` of a second loop clears the flag the
first one looks at.  Under Landlock 3 and later truncation is governed but granted for
no path, the session's directory included (`_internal/landlock_shim.py`).  A completion file that cannot be moved is reported at every poll
(`ipc/watcher.py:188`).  Handoffs archived in one second under one half overwrite each
other (`ipc/watcher.py:160`).  `read_and_consume` quarantines a good message when reading it
fails for a passing reason (`ipc/protocol.py:121`).  A judge that answers
`{"decision": "false"}` consents (`halves/verifiers.py:352`).

Observed while modelling and stated by properties that hold: retries of the queue never
help a session, because whatever the model, the planner or a tool does to make
`process_session` return `False` has already marked it failed, and only an error of the file
system leaves something to retry (`RetriesAreFutile`, against "transient failures don't take down a
session", `session/queue.py:9`); and the priority test in front of idle preemption
(`session/queue.py:147`) is always true (lemma `PreemptionTestPasses`).

## Proofs

`SessionQueueProofs` proves, from `QueueAssumption` alone, `TypeOK`, `Serialized`,
`WithinCapacity`, `SlotsAccountedFor`, `WorkConserving` and `IdleWorkerToldToLeave`.  None of
these but the type invariant is inductive.  `Core` makes them so: pending lists hold
their session's tasks, a live worker owns its session's slot and is the one the table
names, the counter is the number of active sessions and stays within the cap, and
until the grace period runs out an active session has a live worker.  The lemmas go
operator by operator (`Inserted`, `Without`, taking and leaving a slot), then exit by
exit of `_enqueue`, `_release_slot` and `_after_task`.  `WorkConserving` and
`IdleWorkerToldToLeave` are inductive on top of `IInv`.

`OrchestratorProofs` proves, from `OrchestratorAssumption`, `TypeOK`,
`StaleOnlyBehindWatcher`, `RetriesAreFutile` and the action property `FailureIsFinal`.
The inductive invariant relates record, retries and worker of each session
(`Coherent`): a handle that differs from the record is behind a delivery or an
archiving, and a sleeping retry means the session failed or is gone and has no worker, or
met an error of the file system.  `FailureIsFinal` follows because no worker can hold a failed or escalated session.

`ApprovalProofs` proves, from `ApprovalAssumption`, `TypeOK`, `VerdictsAreAudited`,
`AnsweredIsClosed`, `NoRequestVanishes`, `UncontestedIsUnanimous` and `GrantsStick`, for
any number of calls, deciders and shared ids.  The invariant adds more: files and deciders
are about calls of their id (`AboutItsId`); what a decider has done is there to be seen, and a decider at work on a
request that is gone finds it logged already (`WorkShows`), which is what makes a late
`WriteVerdict` harmless to the audit; and nobody is asked about a call that still runs
(`AskedFirst`), so that a closed request cannot be posted again.  What a resumption has heard
stands in the files or was overwritten there, and comes from a decider that read a request
of that id (`Written`, `Traced`); a grant that was heard is never removed, so whoever looks
later hears it or was blind to it (`GrantsKept`).

`ServiceProofs` goes on from `Core`.  `Places` says that every list is sorted by priority and
without repeats (`ListsTidy`), and that the worker's slot, the lists and the backoff
sleepers hold no task in common (`Apart`); each operator of the queue is shown to keep a
list tidy, and each exit to move one task.  From this follow `EachTaskInOnePlace`, and the
action properties `MostUrgentFirst` and `ShutdownOnlyDrains`, which need to know where a
task that starts came from (`Starts`).  `QueueImplementsService` is the refinement: `Init`
maps to the initial state of `TaskService`, and every step to a step of one task or to
none.  The only fact about numbers that induction would give, that a set of naturals has
a least element (`Landing` needs the first place behind which a task fits), is had in
`LeastElement` from the well-founded order of finite sets, because the induction theorems
of the library take operators as parameters.

`RuntimeProofs` is about what runs beside the queue.

* Scheduler, from `SchedulerAssumption`: the types, `EachInstantOnce` and the action property
  `LandsOnNextInstant`.  The invariant adds the phase (`nextRun - anchor` is a multiple of the
  interval) and that whatever was fired lies before what is waited for; the arithmetic of
  `Skipped` is a lemma of its own: the result is after the clock, not more than a period,
  and a whole number of periods on.
* Workers, without assumptions and for any number of calls: the types,
  `OutcomesTellTheTruth` and the action property `EndedUnlessAbandoned`.  Unless a process was
  abandoned, at most one step is at work, and it is the one whose caller waits; its
  handle is the record unless it was cut, and what it reports of the record is true unless
  it was cut.  A step that could write to an ended record
  would have to hold an ended handle, from which no transition leads.
* Confinement, without assumptions and for any host and paths: `ConfinedOrNotAtAll`.  The
  invariant follows the ruleset of the shim path by path (`RulesetInv`) and says what the
  kernel makes of it (`AccessInv`); a ruleset is sealed only when every path is granted.
* Mailbox, from `MailboxAssumption`: `HeardOnceInOrder`.  What a consumer holds was archived by
  it, is readable and in no other hands (`Holdings`), what it lists has outlived its grace
  period (`Desks`); and of two messages of a writer the later one is listed, held or handled
  only behind the earlier (`Behind`).  This last part rests on a listing being of everything
  that is there: a sequence without repeats, as long as a finite set, has all of it
  (`ListsAll`), and only finitely many messages have been sent.

`ExecutorProofs` is about carrying out a plan.

* Tickets, without assumptions: the types, `EndsAreProven` and `CallerAndTicketAgree`.  The
  invariant says, for every position of the owner, which files are there and what they
  tell; an ended ticket has no owner that will write again.
* ToolBatch, from `ToolBatchAssumption`: the types and `BatchKeepsOrder`, for batches of any
  length.  The invariant is how far the dispatch has come: everything before the run in
  progress is answered and in its slot, nothing behind it has begun.  That runs are
  intervals (`RunsAreIntervals`) makes it hold at the end of each run.
* Plans, from `PlansAssumption` (replies have one of the forms that the parser tells apart):
  `PlanTellsApart` for replies of any length.  `seen` is what the plan holds so far, and a
  token put behind an id makes it another.
* Rules, from `RulesAssumption` (a rule is a condition, perhaps one that escalates, and an
  action): `FirstConsentActs` for rules of any number.  The rules before the present one
  declined, and the present one is asked to escalate only after its condition agreed.

`StoreProofs` is about the files that outlive their processes.

* Handoffs, from `HandoffAssumption`: `AuditTellsWhatWasDispatched`.  Every handoff written is in
  a file, replaced, set aside, overwritten there or filed (`Accounted`); what the watcher has listed cannot
  go (`Listing`), and what it read is still there or was replaced by a later one (`Held`);
  whatever is filed was handled or stands for an earlier one that was (`Told`); and as long
  as the clock is not turned back the entry of a dispatched handoff is the latest of its
  half (`Dated`, `Latest`).
* Memory, from `MemoryAssumption`: `IndexTracksFiles` and `WorkingTextSurvives`.  That an id
  never filed under two types has
  one file (`OneFile`) holds whatever overlaps; the rest holds as long as calls do not
  (`SerialInv`): what a call in progress may rely on (`Relies`), that the index tells of
  every id but those in the middle of a call or torn by a crash (`Tracked`), and that every
  text is somewhere (`Kept`).
* Lineage, from `LineageAssumption`: `TaskReachesPlanner`, from what is in the brief at each
  stage of its making (`Briefed`), and `AncestorsOnce`.  The sessions can be ranked such that
  every link leads to a lower rank (`Ranked`: there is such a ranking, no variable holds
  it), so that a walk cannot come back; making a session under a new id moves it to the
  top.  The ranking is lost when an archived id is used again, which is the one way a
  cycle can come about.

TLC checked the inductive invariants of Memory, Lineage and Mailbox on small instances of
each before they were proved, that of Lineage with ranks up to the number of births.

Only model-checked: `EveryTaskSettles`, `HandoffsAreResolved`, `ResumedSessionsMove`,
`DueTimersFire` and `EveryMessageArrives`, because liveness and ENABLED are beyond the
prover.  Every other property of a run that passes is a theorem.

## Plan

In order; what is above exists.

1. **SessionQueue** with `TaskService` (modelled and proved, the refinement included),
   because every other component runs inside it.
2. **Orchestrator** (modelled and proved), which takes from `TaskService` what it needs of
   the queue.
3. **Approvals** (modelled and proved).
4. **Scheduler** (modelled and proved).
5. **Session files** (modelled and proved): Tickets, Mailbox, Handoffs, Memory, Lineage.
6. **ToolBatch** (modelled and proved), which details the step from `CallTools` to
   `ToolsReturn`.
7. **Workers** (modelled and proved), with the session record they share with
   Orchestrator, and **Confinement** (modelled and proved), the launch of the process a
   step runs in.
8. **Rules** and **Plans** (modelled and proved), what is made of answers of models.

Left: to state as refinements what the Orchestrator takes in one step of Handoffs (`Tick`),
ToolBatch (`CallTools` to `ToolsReturn`) and Plans (`PlannerReturns`).

## Not modelled

* Mounts, path checks, credentials, configuration: decided once per process
  from the environment and the kernel; no state that changes.
* Network access under isolation: for Landlock the flag is advisory, the profile of
  sandbox-exec carries it through.
* The model client: a remote service, represented by every reply it may give.
* `_internal/atomic.py`: taken for what it is used as, a write that happens or does not.
  Appending to a log, which no property is about, is left out.
* Observability, voice, discovery, error classes: reporting, placeholders and data.
* `run_task`: creates a session and processes it once in the caller's process, without
  queue and watcher.
* Retrieval of memories and `list_facts`: they only read.
* `chapters/`, `examples/`, `lessons/`, `scripts/`, `tools/`: teaching copies, demonstrations
  and build scripts around the package, without state of the program in them.
