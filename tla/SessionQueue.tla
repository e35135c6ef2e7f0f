---------------------------- MODULE SessionQueue ----------------------------
(***************************************************************************)
(* sovereign_agent/session/queue.py: the coordinator that decides which    *)
(* session's work runs, and when.                                          *)
(*                                                                         *)
(* The program is one asyncio event loop.  No critical section of the      *)
(* queue contains a suspending await (the asyncio.Lock is always free when *)
(* it is asked for), so every method body between two suspension points is *)
(* one action.  The suspension points are: the user's process_fn or        *)
(* scheduled_fn, the sleep of a delayed retry, and shutdown's wait_for.    *)
(***************************************************************************)
EXTENDS Integers, FiniteSets, Sequences

CONSTANTS
  Session,        \* session ids
  Task,           \* units of work callers hand to an enqueue_* method
  SessionOf,      \* [Task -> Session]: QueuedTask.session_id
  KindOf,         \* [Task -> Kind]: QueuedTask.kind
  Anonymous,      \* scheduled tasks enqueued with an empty task_id
  Preemptible,    \* sessions whose worker registers an IPC input directory
  NoTask,         \* absence of an entry in _active_workers
  MaxConcurrent,  \* SessionQueue.max_concurrent
  MaxRetries      \* SessionQueue.MAX_RETRIES

Kind == {"scheduled", "handoff", "executor", "planner"}

ASSUME QueueAssumption ==
  /\ IsFiniteSet(Session)
  /\ IsFiniteSet(Task)
  /\ SessionOf \in [Task -> Session]
  /\ KindOf \in [Task -> Kind]
  /\ Anonymous \subseteq {t \in Task : KindOf[t] = "scheduled"}
  /\ Preemptible \subseteq Session
  /\ NoTask \notin Task
  /\ MaxConcurrent \in Nat \ {0}
  /\ MaxRetries \in Nat

VARIABLES
  \* _SessionState, one per session
  active,         \* a worker holds this session's slot
  idleWaiting,    \* the worker said it is idle
  pending,        \* tasks serialized behind the active one
  container,      \* an ipc_input_dir is registered
  retryCount,     \* consecutive failures of the session
  \* SessionQueue
  waiting,        \* _waiting: tasks held back by the concurrency cap
  activeCount,    \* _active_count
  worker,         \* _active_workers
  phase,          \* "serving", then "grace" while shutdown waits, then "stopped"
  \* coroutines on the event loop
  running,        \* tasks with a live _run_task coroutine
  backoff,        \* tasks with a sleeping _delayed_retry coroutine
  awaited,        \* tasks whose workers shutdown snapshotted and gathers
  \* files
  closing,        \* sessions with a _close sentinel in their input directory
  \* history: what became of each task
  outcome

slotVars == <<active, activeCount, waiting, worker, running>>
lifeVars == <<phase, awaited>>
vars == <<active, idleWaiting, pending, container, retryCount, waiting,
          activeCount, worker, phase, running, backoff, awaited, closing,
          outcome>>

Outcome == {"new", "accepted", "refused", "done", "gaveUp", "lapsed", "cancelled"}

-----------------------------------------------------------------------------
\* Priorities and the two sorted lists.

\* TaskPriority: the lower number drains first.
Priority(t) ==
  CASE KindOf[t] = "scheduled" -> 0
    [] KindOf[t] = "handoff"   -> 1
    [] KindOf[t] = "executor"  -> 2
    [] OTHER                   -> 3

\* Mutant of Inserted: append without the sort.
InsertedLast(q, t) == Append(q, t)

\* list.append followed by the stable list.sort(key=priority), on a list that
\* is already sorted: t lands behind every task of its own or a more urgent
\* priority and the rest move up by one.
Inserted(q, t) ==
  [i \in 1 .. Len(q) + 1 |->
     IF i <= Len(q) /\ Priority(q[i]) <= Priority(t) THEN q[i]
     ELSE IF i = 1 \/ Priority(q[i - 1]) <= Priority(t) THEN t
     ELSE q[i - 1]]

\* del q[i]
Without(q, i) ==
  [j \in 1 .. Len(q) - 1 |-> IF j < i THEN q[j] ELSE q[j + 1]]

Tasks(q) == {q[i] : i \in DOMAIN q}

shuttingDown == phase # "serving"

-----------------------------------------------------------------------------
Init ==
  /\ active = [s \in Session |-> FALSE]
  /\ idleWaiting = [s \in Session |-> FALSE]
  /\ pending = [s \in Session |-> <<>>]
  /\ container = [s \in Session |-> FALSE]
  /\ retryCount = [s \in Session |-> 0]
  /\ waiting = <<>>
  /\ activeCount = 0
  /\ worker = [s \in Session |-> NoTask]
  /\ phase = "serving"
  /\ running = {}
  /\ backoff = {}
  /\ awaited = {}
  /\ closing = {}
  /\ outcome = [t \in Task |-> "new"]

-----------------------------------------------------------------------------
\* Enqueueing.

\* _send_close: no registered directory, no sentinel.
SendClose(s) ==
  closing' = IF container[s] THEN closing \union {s} ELSE closing

\* The test that guards idle preemption inside _enqueue, q being the list the
\* new task was just sorted into.
PreemptionTest(q) ==
  \E i \in DOMAIN q : Priority(q[i]) < Priority(q[Len(q)]) + 1

\* Mutant of Serialize: never asks an idle worker to leave.
SerializeQuietly(t) ==
  /\ active[SessionOf[t]]
  /\ pending' = [pending EXCEPT ![SessionOf[t]] = Inserted(@, t)]
  /\ UNCHANGED <<slotVars, closing>>

\* _enqueue on a session that holds a slot: queue behind the current task, and
\* ask an idle worker to leave.
Serialize(t) ==
  LET s == SessionOf[t]
      q == Inserted(pending[s], t)
  IN /\ active[s]
     /\ pending' = [pending EXCEPT ![s] = q]
     /\ IF idleWaiting[s] /\ PreemptionTest(q)
          THEN SendClose(s)
          ELSE UNCHANGED closing
     /\ UNCHANGED slotVars

\* _enqueue at the concurrency cap: hold the task in the global list.
Hold(t) ==
  /\ ~active[SessionOf[t]]
  /\ activeCount >= MaxConcurrent
  /\ waiting' = Inserted(waiting, t)
  /\ UNCHANGED <<active, pending, activeCount, worker, running, closing>>

\* Mutants of Launch: the check of the session, or of the cap, is lost.
LaunchRegardless(t) ==
  /\ activeCount < MaxConcurrent
  /\ active' = [active EXCEPT ![SessionOf[t]] = TRUE]
  /\ activeCount' = activeCount + 1
  /\ worker' = [worker EXCEPT ![SessionOf[t]] = t]
  /\ running' = running \union {t}
  /\ UNCHANGED <<pending, waiting, closing>>

LaunchOverCap(t) ==
  /\ ~active[SessionOf[t]]
  /\ activeCount <= MaxConcurrent
  /\ active' = [active EXCEPT ![SessionOf[t]] = TRUE]
  /\ activeCount' = activeCount + 1
  /\ worker' = [worker EXCEPT ![SessionOf[t]] = t]
  /\ running' = running \union {t}
  /\ UNCHANGED <<pending, waiting, closing>>

\* _enqueue with a free slot: take it and create the worker.
Launch(t) ==
  LET s == SessionOf[t]
  IN /\ ~active[s]
     /\ activeCount < MaxConcurrent
     /\ active' = [active EXCEPT ![s] = TRUE]
     /\ activeCount' = activeCount + 1
     /\ worker' = [worker EXCEPT ![s] = t]
     /\ running' = running \union {t}
     /\ UNCHANGED <<pending, waiting, closing>>

Admit(t) == Serialize(t) \/ Hold(t) \/ Launch(t)

\* A caller hands over a task it has not handed over before.
Enqueue(t) ==
  /\ outcome[t] = "new"
  /\ ~shuttingDown
  /\ Admit(t)
  /\ outcome' = [outcome EXCEPT ![t] = "accepted"]
  /\ UNCHANGED <<idleWaiting, container, retryCount, backoff, lifeVars>>

\* The early return of _enqueue.
Refuse(t) ==
  /\ outcome[t] = "new"
  /\ shuttingDown
  /\ outcome' = [outcome EXCEPT ![t] = "refused"]
  /\ UNCHANGED <<slotVars, idleWaiting, pending, container, retryCount, backoff,
                 closing, lifeVars>>

-----------------------------------------------------------------------------
\* The end of a task.

\* Mutants of FreeSlot: nobody is started, or the first waiting task is started
\* whether or not its session is active.
FreeSlotQuietly(t) ==
  /\ idleWaiting' = [idleWaiting EXCEPT ![SessionOf[t]] = FALSE]
  /\ active' = [active EXCEPT ![SessionOf[t]] = FALSE]
  /\ activeCount' = activeCount - 1
  /\ worker' = [worker EXCEPT ![SessionOf[t]] = NoTask]
  /\ running' = running \ {t}
  /\ UNCHANGED waiting

FreeSlotToFirst(t) ==
  \/ waiting = <<>> /\ FreeSlotQuietly(t)
  \/ /\ waiting # <<>>
     /\ idleWaiting' = [idleWaiting EXCEPT ![SessionOf[t]] = FALSE]
     /\ active' = [active EXCEPT ![SessionOf[t]] = FALSE,
                                  ![SessionOf[Head(waiting)]] = TRUE]
     /\ worker' = [worker EXCEPT ![SessionOf[t]] = NoTask,
                                  ![SessionOf[Head(waiting)]] = Head(waiting)]
     /\ running' = (running \ {t}) \union {Head(waiting)}
     /\ waiting' = Tail(waiting)
     /\ UNCHANGED activeCount

\* Give the slot of t's session back.  The rest of _maybe_start_from_waiting
\* runs in the same step: the first waiting task whose session is not active
\* gets the slot.  One pass of its loop is enough, because a second pass would
\* start something only in a state WorkConserving excludes.
FreeSlot(t) ==
  LET s        == SessionOf[t]
      freed    == [active EXCEPT ![s] = FALSE]
      left     == IF activeCount > 0 THEN activeCount - 1 ELSE 0
      runnable == {i \in DOMAIN waiting : ~freed[SessionOf[waiting[i]]]}
      idle     == [worker EXCEPT ![s] = NoTask]
  IN /\ idleWaiting' = [idleWaiting EXCEPT ![s] = FALSE]
     /\ \/ /\ runnable = {} \/ left >= MaxConcurrent
           /\ active' = freed
           /\ activeCount' = left
           /\ worker' = idle
           /\ running' = running \ {t}
           /\ UNCHANGED waiting
        \/ /\ left < MaxConcurrent
           /\ \E i \in runnable :
                LET next == waiting[i]
                IN /\ \A j \in runnable : i <= j
                   /\ active' = [freed EXCEPT ![SessionOf[next]] = TRUE]
                   /\ activeCount' = left + 1
                   /\ worker' = [idle EXCEPT ![SessionOf[next]] = next]
                   /\ running' = (running \ {t}) \union {next}
                   /\ waiting' = Without(waiting, i)

\* Mutants of AfterTask: the next task is peeked at and not popped, or the slot
\* is given back although tasks are pending.
AfterTaskPeeks(t) ==
  LET s == SessionOf[t]
  IN \/ /\ pending[s] # <<>>
        /\ idleWaiting' = [idleWaiting EXCEPT ![s] = FALSE]
        /\ worker' = [worker EXCEPT ![s] = Head(pending[s])]
        /\ running' = (running \ {t}) \union {Head(pending[s])}
        /\ UNCHANGED <<active, activeCount, waiting, pending>>
     \/ pending[s] = <<>> /\ FreeSlot(t) /\ UNCHANGED pending

AfterTaskIgnoresPending(t) == FreeSlot(t) /\ UNCHANGED pending

\* _after_task: the session keeps its slot while it has pending tasks.
AfterTask(t) ==
  LET s == SessionOf[t]
  IN \/ /\ pending[s] # <<>>
        /\ pending' = [pending EXCEPT ![s] = Tail(@)]
        /\ idleWaiting' = [idleWaiting EXCEPT ![s] = FALSE]
        /\ worker' = [worker EXCEPT ![s] = Head(pending[s])]
        /\ running' = (running \ {t}) \union {Head(pending[s])}
        /\ UNCHANGED <<active, activeCount, waiting>>
     \/ /\ pending[s] = <<>>
        /\ FreeSlot(t)
        /\ UNCHANGED pending

\* process_fn returned True, or scheduled_fn returned.
Succeed(t) ==
  /\ t \in running
  /\ retryCount' = [retryCount EXCEPT ![SessionOf[t]] = 0]
  /\ AfterTask(t)
  /\ outcome' = [outcome EXCEPT ![t] = "done"]
  /\ UNCHANGED <<container, backoff, closing, lifeVars>>

\* Mutants of FailAndBackOff: one retry too many, or the slot is kept while the
\* retry sleeps.
FailOnceMore(t) ==
  /\ t \in running
  /\ retryCount[SessionOf[t]] <= MaxRetries
  /\ retryCount' = [retryCount EXCEPT ![SessionOf[t]] = @ + 1]
  /\ FreeSlot(t)
  /\ backoff' = backoff \union {t}
  /\ UNCHANGED <<pending, container, closing, outcome, lifeVars>>

FailHoldingSlot(t) ==
  /\ t \in running
  /\ retryCount[SessionOf[t]] + 1 <= MaxRetries
  /\ retryCount' = [retryCount EXCEPT ![SessionOf[t]] = @ + 1]
  /\ worker' = [worker EXCEPT ![SessionOf[t]] = NoTask]
  /\ running' = running \ {t}
  /\ backoff' = backoff \union {t}
  /\ UNCHANGED <<active, activeCount, waiting, idleWaiting, pending, container,
                 closing, outcome, lifeVars>>

\* process_fn returned False or raised, with retries left: release the slot
\* and sleep.  The session's pending tasks stay where they are.
FailAndBackOff(t) ==
  LET s == SessionOf[t]
  IN /\ t \in running
     /\ retryCount[s] + 1 <= MaxRetries
     /\ retryCount' = [retryCount EXCEPT ![s] = @ + 1]
     /\ FreeSlot(t)
     /\ backoff' = backoff \union {t}
     /\ UNCHANGED <<pending, container, closing, outcome, lifeVars>>

\* The session's failures exceed MAX_RETRIES: forget them and move on.
GiveUp(t) ==
  LET s == SessionOf[t]
  IN /\ t \in running
     /\ retryCount[s] + 1 > MaxRetries
     /\ retryCount' = [retryCount EXCEPT ![s] = 0]
     /\ AfterTask(t)
     /\ outcome' = [outcome EXCEPT ![t] = "gaveUp"]
     /\ UNCHANGED <<container, backoff, closing, lifeVars>>

\* Mutant of Retry: the sleeper does not look at _shutting_down.
RetryRegardless(t) ==
  /\ t \in backoff
  /\ backoff' = backoff \ {t}
  /\ Admit(t)
  /\ UNCHANGED <<outcome, idleWaiting, container, retryCount, lifeVars>>

\* _delayed_retry wakes up.  The delays (5s, 10s, ...) are abstracted to "some
\* time later", so the timers of two failures may fire in either order.
Retry(t) ==
  /\ t \in backoff
  /\ backoff' = backoff \ {t}
  /\ \/ /\ ~shuttingDown
        /\ t \notin Anonymous
        /\ Admit(t)
        /\ UNCHANGED outcome
     \/ /\ shuttingDown \/ t \in Anonymous
        /\ outcome' = [outcome EXCEPT ![t] = "lapsed"]
        /\ UNCHANGED <<slotVars, pending, closing>>
  /\ UNCHANGED <<idleWaiting, container, retryCount, lifeVars>>

-----------------------------------------------------------------------------
\* The worker side of idle preemption.  The callers are worker spawners; the
\* guards say when a spawner can make the call.

\* register_container: before the worker it spawned can report idle.
RegisterContainer(s) ==
  /\ s \in Preemptible
  /\ worker[s] \in running
  /\ ~idleWaiting[s]
  /\ container' = [container EXCEPT ![s] = TRUE]
  /\ UNCHANGED <<slotVars, idleWaiting, pending, retryCount, backoff, closing,
                 outcome, lifeVars>>

\* unregister_container
UnregisterContainer(s) ==
  /\ container[s]
  /\ container' = [container EXCEPT ![s] = FALSE]
  /\ UNCHANGED <<slotVars, idleWaiting, pending, retryCount, backoff, closing,
                 outcome, lifeVars>>

\* notify_idle, called by the session's live worker.
NotifyIdle(s) ==
  /\ s \in Preemptible
  /\ worker[s] \in running
  /\ idleWaiting' = [idleWaiting EXCEPT ![s] = TRUE]
  /\ IF pending[s] # <<>> THEN SendClose(s) ELSE UNCHANGED closing
  /\ UNCHANGED <<slotVars, pending, container, retryCount, backoff, outcome,
                 lifeVars>>

\* A spawner removes the sentinel a departed worker left behind.
ClearClose(s) ==
  /\ s \in closing
  /\ worker[s] \notin running
  /\ closing' = closing \ {s}
  /\ UNCHANGED <<slotVars, idleWaiting, pending, container, retryCount, backoff,
                 outcome, lifeVars>>

-----------------------------------------------------------------------------
\* Shutdown.

\* shutdown: refuse new work and gather a snapshot of the live workers.
BeginShutdown ==
  /\ phase = "serving"
  /\ phase' = "grace"
  /\ awaited' = {worker[s] : s \in Session} \ {NoTask}
  /\ UNCHANGED <<slotVars, idleWaiting, pending, container, retryCount, backoff,
                 closing, outcome>>

\* Every gathered worker finished within the grace period.
GraceSuffices ==
  /\ phase = "grace"
  /\ awaited \intersect running = {}
  /\ phase' = "stopped"
  /\ UNCHANGED <<slotVars, idleWaiting, pending, container, retryCount, backoff,
                 awaited, closing, outcome>>

\* The grace period runs out.  asyncio.wait_for cancels the gather, which
\* cancels the workers it gathers; CancelledError is not an Exception, so
\* neither _after_task nor _handle_failure runs and the slots stay taken.
GraceElapses ==
  /\ phase = "grace"
  /\ awaited \intersect running # {}
  /\ phase' = "stopped"
  /\ running' = running \ awaited
  /\ outcome' = [t \in Task |-> IF t \in awaited \intersect running
                                  THEN "cancelled" ELSE outcome[t]]
  /\ UNCHANGED <<active, activeCount, waiting, worker, idleWaiting, pending,
                 container, retryCount, backoff, awaited, closing>>

-----------------------------------------------------------------------------
WorkerEnds(t) == Succeed(t) \/ FailAndBackOff(t) \/ GiveUp(t)

Next ==
  \/ \E t \in Task : Enqueue(t) \/ Refuse(t) \/ WorkerEnds(t) \/ Retry(t)
  \/ \E s \in Session : \/ RegisterContainer(s) \/ UnregisterContainer(s)
                        \/ NotifyIdle(s) \/ ClearClose(s)
  \/ BeginShutdown \/ GraceSuffices \/ GraceElapses

Spec == Init /\ [][Next]_vars

\* Workers come to an end (a loop half is bounded by its turn limits, a worker
\* subprocess by its timeout), sleeps and the grace period elapse.
Fairness ==
  /\ \A t \in Task : WF_vars(WorkerEnds(t)) /\ WF_vars(Retry(t))
  /\ WF_vars(GraceSuffices) /\ WF_vars(GraceElapses)

FairSpec == Spec /\ Fairness

=============================================================================
