---------------------------- MODULE Orchestrator ----------------------------
(***************************************************************************)
(* sovereign_agent/orchestrator/main.py with the components it drives: the *)
(* records on disk (session/directory.py, session/state.py), the loop half *)
(* and its executor (halves/loop.py, executor/__init__.py), the IPC        *)
(* watcher (ipc/watcher.py) and the queue, represented by what TaskService *)
(* promises of it.                                                         *)
(*                                                                         *)
(* Everything runs on one event loop.  A worker suspends only while it     *)
(* waits for the model or for an async tool, so the watcher and the other  *)
(* sessions interleave with it there and nowhere else.  A worker reads     *)
(* session.json once, when its task starts, and writes from that handle    *)
(* until the task ends: the handle is its copy, disk is the record.        *)
(***************************************************************************)
EXTENDS Integers, FiniteSets, Sequences

CONSTANTS
  Session,     \* session ids
  Plans,       \* what a planner may return: the halves its subgoals name
  MaxTurns,    \* max_turns of DefaultExecutor.execute
  MaxRetries,  \* SessionQueue.MAX_RETRIES
  MaxStarts,   \* bound of the model: processes started over the sessions' life
  MaxFaults    \* bound of the model: errors of the file system a process meets
               \* in the files of one session

Half == {"loop", "structured", "research"}

ASSUME OrchestratorAssumption ==
  /\ IsFiniteSet(Session)
  /\ Plans \subseteq Seq(Half)
  /\ MaxTurns \in Nat \ {0}
  /\ MaxRetries \in Nat
  /\ MaxStarts \in Nat
  /\ MaxFaults \in Nat

VARIABLES
  \* files
  disk,      \* the state in session.json; "absent" and "archived" have none
  mailbox,   \* ipc/: handoff_to_structured.json, session_complete.json
  \* memory
  phase,     \* "down", "up", or "draining" once shutdown has stopped the watcher
  queued,    \* tasks of a session in the queue's lists
  retrying,  \* tasks of a session asleep until their retry
  failures,  \* _SessionState.retry_count
  job,       \* the session's process_session coroutine
  \* history
  parked,    \* sessions whose last task ended in a subgoal for an unknown half
  starts,    \* processes started
  faults     \* reads and writes of a session's files that failed in this process

queueVars == <<queued, retrying, failures>>
vars == <<disk, mailbox, phase, queued, retrying, failures, job, parked, starts, faults>>

Terminal == {"completed", "failed", "escalated"}
State == {"planning", "executing", "handed_off_to_structured"} \union Terminal
File == {"handoff", "complete"}

\* Mutant of Allowed: only a return to planning is refused.
AllowedUnlessPlanning(from, to) == to # "planning"

\* ALLOWED_TRANSITIONS without handed_off_to_research, which no code of the
\* package writes a handoff for.
Allowed(from, to) ==
  \/ from = "planning" /\ to \in {"executing", "handed_off_to_structured", "failed", "escalated"}
  \/ from = "executing" /\ to \in {"executing", "handed_off_to_structured"} \union Terminal
  \/ from = "handed_off_to_structured" /\ to \in {"executing"} \union Terminal

\* A read or a write of the session's files raises.
Fault(s) ==
  /\ faults[s] < MaxFaults
  /\ faults' = [faults EXCEPT ![s] = @ + 1]

Idle == [at |-> "idle"]
Busy == {s \in Session : job[s] # Idle}

Job(at, handle, todo, turn, handoff, approval) ==
  [at |-> at, handle |-> handle, todo |-> todo, turn |-> turn,
   handoff |-> handoff, approval |-> approval]

Init ==
  /\ disk = [s \in Session |-> "absent"]
  /\ mailbox = [s \in Session |-> {}]
  /\ phase = "down"
  /\ queued = [s \in Session |-> 0]
  /\ retrying = [s \in Session |-> 0]
  /\ failures = [s \in Session |-> 0]
  /\ job = [s \in Session |-> Idle]
  /\ parked = {}
  /\ starts = 0
  /\ faults = [s \in Session |-> 0]

-----------------------------------------------------------------------------
\* The command line and the library, in processes of their own.

\* create_session.  Nobody tells a running orchestrator.
CreateSession(s) ==
  /\ disk[s] = "absent"
  /\ disk' = [disk EXCEPT ![s] = "planning"]
  /\ UNCHANGED <<mailbox, phase, queueVars, job, parked, starts, faults>>

\* archive_session moves the directory of a terminal session, ipc/ included.
ArchiveSession(s) ==
  /\ disk[s] \in Terminal
  /\ disk' = [disk EXCEPT ![s] = "archived"]
  /\ mailbox' = [mailbox EXCEPT ![s] = {}]
  /\ UNCHANGED <<phase, queueVars, job, parked, starts, faults>>

-----------------------------------------------------------------------------
\* The life of the process.

\* run, up to its loop: _resume_on_startup enqueues one task for every session
\* that is neither terminal nor gone, whatever its state.  list_sessions passes
\* over a record it cannot read and says nothing.
Start ==
  /\ phase = "down"
  /\ starts < MaxStarts
  /\ phase' = "up"
  /\ starts' = starts + 1
  /\ \E unread \in SUBSET {s \in Session : disk[s] \in State /\ MaxFaults > 0} :
       /\ queued' = [s \in Session |->
                       IF disk[s] \in State \ Terminal /\ s \notin unread THEN 1 ELSE 0]
       /\ faults' = [s \in Session |-> IF s \in unread THEN 1 ELSE faults[s]]
  /\ UNCHANGED <<disk, mailbox, retrying, failures, job, parked>>

\* shutdown, up to the queue's grace period: the watcher is cancelled first.
Shutdown ==
  /\ phase = "up"
  /\ phase' = "draining"
  /\ UNCHANGED <<disk, mailbox, queueVars, job, parked, starts, faults>>

LoseMemory ==
  /\ phase' = "down"
  /\ queued' = [s \in Session |-> 0]
  /\ retrying' = [s \in Session |-> 0]
  /\ failures' = [s \in Session |-> 0]
  /\ job' = [s \in Session |-> Idle]
  /\ faults' = [s \in Session |-> 0]

\* The process exits, because shutdown is over or because it is killed.  Its
\* coroutines end where they are suspended.
Exit ==
  /\ phase # "down"
  /\ LoseMemory
  /\ UNCHANGED <<disk, mailbox, parked, starts>>

-----------------------------------------------------------------------------
\* The queue.

\* _run_task: the outcome of process_session.
TaskSucceeds(s) ==
  /\ failures' = [failures EXCEPT ![s] = 0]
  /\ UNCHANGED retrying

\* Mutant of TaskFails: the failure that exceeds the limit is not forgotten.
TaskFailsOnceMore(s) ==
  /\ failures' = [failures EXCEPT ![s] = @ + 1]
  /\ retrying' = [retrying EXCEPT ![s] = @ + 1]

TaskFails(s) ==
  \/ /\ failures[s] + 1 <= MaxRetries
     /\ failures' = [failures EXCEPT ![s] = @ + 1]
     /\ retrying' = [retrying EXCEPT ![s] = @ + 1]
  \/ /\ failures[s] + 1 > MaxRetries
     /\ failures' = [failures EXCEPT ![s] = 0]
     /\ UNCHANGED retrying

\* _delayed_retry: enqueue again unless the queue is shutting down.
RetryWakes(s) ==
  /\ retrying[s] > 0
  /\ retrying' = [retrying EXCEPT ![s] = @ - 1]
  /\ queued' = IF phase = "up" THEN [queued EXCEPT ![s] = @ + 1] ELSE queued
  /\ UNCHANGED <<disk, mailbox, phase, failures, job, parked, starts, faults>>

\* The queue starts a task some time after its session has become idle; the cap
\* on sessions only delays it.
MayStart(s) == phase # "down" /\ queued[s] > 0 /\ job[s] = Idle

\* Mutant of ProcessSession: a session found executing is left alone.
ProcessPlanningOnly(s) ==
  /\ MayStart(s)
  /\ queued' = [queued EXCEPT ![s] = @ - 1]
  /\ parked' = parked \ {s}
  /\ \/ /\ disk[s] = "archived"
        /\ TaskFails(s)
        /\ UNCHANGED <<disk, job>>
     \/ /\ disk[s] = "planning"
        /\ job' = [job EXCEPT ![s] = Job("planning", disk[s], <<>>, 0, FALSE, FALSE)]
        /\ UNCHANGED <<disk, retrying, failures>>
     \/ /\ disk[s] = "handed_off_to_structured"
        /\ disk' = [disk EXCEPT ![s] = "escalated"]
        /\ TaskSucceeds(s)
        /\ UNCHANGED job
     \/ /\ disk[s] \in Terminal \union {"executing"}
        /\ TaskSucceeds(s)
        /\ UNCHANGED <<disk, job>>
  /\ UNCHANGED <<mailbox, phase, starts, faults>>

\* process_session, up to its first suspension.  The kind of the task is not
\* looked at: the state on disk decides.
ProcessSession(s) ==
  /\ MayStart(s)
  /\ queued' = [queued EXCEPT ![s] = @ - 1]
  /\ parked' = parked \ {s}
  /\ \/ \* load_session raises
        /\ disk[s] = "archived"
        /\ TaskFails(s)
        /\ UNCHANGED <<disk, job>>
     \/ \* _dispatch_loop_half awaits the planner
        /\ disk[s] \in {"planning", "executing"}
        /\ job' = [job EXCEPT ![s] = Job("planning", disk[s], <<>>, 0, FALSE, FALSE)]
        /\ UNCHANGED <<disk, retrying, failures>>
     \/ \* _dispatch_structured_half, which has no rules
        /\ disk[s] = "handed_off_to_structured"
        /\ disk' = [disk EXCEPT ![s] = "escalated"]
        /\ TaskSucceeds(s)
        /\ UNCHANGED job
     \/ /\ disk[s] \in Terminal
        /\ TaskSucceeds(s)
        /\ UNCHANGED <<disk, job>>
  /\ UNCHANGED <<mailbox, phase, starts, faults>>

\* process_session fails before its first suspension and leaves the record as it
\* is: load_session raises although the session is there, or the trace event,
\* outside the try, cannot be written, or the escalation cannot be (the handle is
\* escalated by then, and mark_failed refuses to leave that state).
DispatchFails(s) ==
  /\ MayStart(s)
  /\ disk[s] \in State
  /\ queued' = [queued EXCEPT ![s] = @ - 1]
  /\ parked' = parked \ {s}
  /\ TaskFails(s)
  /\ Fault(s)
  /\ UNCHANGED <<disk, mailbox, phase, job, starts>>

-----------------------------------------------------------------------------
\* The worker.  update_state compares with the handle only, and the handle is
\* planning or executing here, from where every state written below is allowed.

\* The loop half answers and the session record is written; atomic_write_json
\* makes the directory again if it was archived.
Finish(s, state) ==
  /\ disk' = [disk EXCEPT ![s] = state]
  /\ job' = [job EXCEPT ![s] = Idle]
  /\ TaskSucceeds(s)
  /\ UNCHANGED parked

\* The loop half turns to the subgoals in rest, d being the records on disk.
NextSubgoal(s, rest, d) ==
  \/ /\ rest = <<>>
     /\ disk' = [d EXCEPT ![s] = "completed"]
     /\ job' = [job EXCEPT ![s] = Idle]
     /\ TaskSucceeds(s)
     /\ UNCHANGED parked
  \/ /\ rest # <<>> /\ Head(rest) = "loop"
     /\ disk' = d
     /\ job' = [job EXCEPT ![s] = Job("acting", "executing", rest, 0, FALSE, FALSE)]
     /\ UNCHANGED <<retrying, failures, parked>>
  \/ /\ rest # <<>> /\ Head(rest) = "structured"
     /\ disk' = [d EXCEPT ![s] = "handed_off_to_structured"]
     /\ job' = [job EXCEPT ![s] = Idle]
     /\ TaskSucceeds(s)
     /\ UNCHANGED parked
  \/ \* next_action "handoff_to_loop": the orchestrator does nothing with it
     /\ rest # <<>> /\ Head(rest) = "research"
     /\ disk' = d
     /\ job' = [job EXCEPT ![s] = Idle]
     /\ TaskSucceeds(s)
     /\ parked' = parked \union {s}

\* Mutant of PlannerReturns: the new state is set on the handle and not saved.
PlannerReturnsUnsaved(s) ==
  /\ job[s].at = "planning"
  /\ \E plan \in Plans : NextSubgoal(s, plan, disk)
  /\ UNCHANGED <<mailbox, phase, queued, starts, faults>>

\* planner.plan returns: the session is saved as executing.
PlannerReturns(s) ==
  /\ job[s].at = "planning"
  /\ \E plan \in Plans : NextSubgoal(s, plan, [disk EXCEPT ![s] = "executing"])
  /\ UNCHANGED <<mailbox, phase, queued, starts, faults>>

\* The model calls tools.  The files the synchronous tools write are there at
\* once; a batch with an async tool then lets others run.
CallTools(s) ==
  /\ job[s].at = "acting"
  /\ job[s].turn < MaxTurns
  /\ \E written \in SUBSET File, approval \in BOOLEAN :
       /\ mailbox' = [mailbox EXCEPT ![s] = @ \union written]
       /\ job' = [job EXCEPT ![s] = Job("tools", @.handle, @.todo, @.turn + 1,
                                        "handoff" \in written, approval)]
  /\ UNCHANGED <<disk, phase, queueVars, parked, starts, faults>>

\* The batch is over.  A tool that wants approval ends the subgoal as a success
\* and takes precedence over a handoff; LoopHalf.run does not look at
\* awaiting_approval and goes on with the next subgoal.
ToolsReturn(s) ==
  /\ job[s].at = "tools"
  /\ \/ /\ job[s].approval
        /\ NextSubgoal(s, Tail(job[s].todo), disk)
     \/ /\ ~job[s].approval
        /\ job[s].handoff
        /\ Finish(s, "handed_off_to_structured")
     \/ /\ ~job[s].approval
        /\ ~job[s].handoff
        /\ job' = [job EXCEPT ![s] = Job("acting", @.handle, @.todo, @.turn, FALSE, FALSE)]
        /\ UNCHANGED <<disk, retrying, failures, parked>>
  /\ UNCHANGED <<mailbox, phase, queued, starts, faults>>

\* A reply without tool calls is the answer to the subgoal.
Answer(s) ==
  /\ job[s].at = "acting"
  /\ job[s].turn < MaxTurns
  /\ NextSubgoal(s, Tail(job[s].todo), disk)
  /\ UNCHANGED <<mailbox, phase, queued, starts, faults>>

\* max_turns is exhausted: the loop half escalates.
Exhausted(s) ==
  /\ job[s].at = "acting"
  /\ job[s].turn = MaxTurns
  /\ Finish(s, "escalated")
  /\ UNCHANGED <<mailbox, phase, queued, starts, faults>>

\* Mutant of StepFails: the session is not marked.
StepFailsUnmarked(s) ==
  /\ job[s] # Idle
  /\ job' = [job EXCEPT ![s] = Idle]
  /\ TaskFails(s)
  /\ UNCHANGED <<disk, mailbox, phase, queued, parked, starts, faults>>

\* Something raises between two suspensions: the model, the planner's parser, a
\* tool, a ticket, the trace or the record.  The session is marked failed and the
\* queue is asked for a retry.  mark_failed may raise as well, and nobody hears
\* of it: because the disk refuses that write too, or because the handle already
\* had the state whose write was refused and is terminal.  The planner's executing
\* may have been saved before.
StepFails(s) ==
  /\ job[s] # Idle
  /\ job' = [job EXCEPT ![s] = Idle]
  /\ TaskFails(s)
  /\ \/ /\ disk' = [disk EXCEPT ![s] = "failed"]
        /\ UNCHANGED faults
     \/ /\ Fault(s)
        /\ \/ UNCHANGED disk
           \/ /\ job[s].at = "planning"
              /\ disk' = [disk EXCEPT ![s] = "executing"]
  /\ UNCHANGED <<mailbox, phase, queued, parked, starts>>

WorkerStep(s) ==
  \/ PlannerReturns(s) \/ CallTools(s) \/ ToolsReturn(s) \/ Answer(s)
  \/ Exhausted(s) \/ StepFails(s)

-----------------------------------------------------------------------------
\* The watcher.  Its handlers load the session afresh.

\* _on_handoff's update_state, and _on_session_complete's mark_complete: a
\* transition that is not allowed raises, and the exception is swallowed.
AfterHandoff(state) ==
  IF Allowed(state, "handed_off_to_structured") THEN "handed_off_to_structured" ELSE state

AfterComplete(state) ==
  IF state \notin Terminal /\ Allowed(state, "completed") THEN "completed" ELSE state

\* The record after the files were delivered one after the other.
Delivered(s, files) ==
  LET d == IF "handoff" \in files THEN AfterHandoff(disk[s]) ELSE disk[s]
  IN IF "complete" \in files THEN AfterComplete(d) ELSE d

\* Mutant of Tick: a handoff is enqueued only if it changed the state.
TickEnqueuesChanges(s) ==
  /\ phase = "up"
  /\ mailbox[s] # {}
  /\ mailbox' = [mailbox EXCEPT ![s] = {}]
  /\ disk' = [disk EXCEPT ![s] = Delivered(s, mailbox[s])]
  /\ queued' = IF "handoff" \in mailbox[s] /\ AfterHandoff(disk[s]) # disk[s]
                 THEN [queued EXCEPT ![s] = @ + 1] ELSE queued
  /\ UNCHANGED <<phase, retrying, failures, job, parked, starts, faults>>

\* _process_session of the watcher: archive the handoff and dispatch it, then
\* the completion.  The handoff is enqueued even if the state did not change.
Tick(s) ==
  /\ phase = "up"
  /\ mailbox[s] # {}
  /\ mailbox' = [mailbox EXCEPT ![s] = {}]
  /\ disk' = [disk EXCEPT ![s] = Delivered(s, mailbox[s])]
  /\ queued' = IF "handoff" \in mailbox[s] /\ disk[s] # "archived"
                 THEN [queued EXCEPT ![s] = @ + 1] ELSE queued
  /\ UNCHANGED <<phase, retrying, failures, job, parked, starts, faults>>

\* The same with errors of the file system.  A file that cannot be moved is left,
\* and a handoff is then not dispatched; a handler that cannot load the session
\* does nothing; one that cannot save it has been heard all the same.
TickFails(s) ==
  /\ phase = "up"
  /\ mailbox[s] # {}
  /\ \E left, heard, saved \in SUBSET mailbox[s] :
       /\ saved \subseteq heard
       /\ "handoff" \notin left \intersect heard
       /\ disk[s] = "archived" => heard = {}
       /\ mailbox' = [mailbox EXCEPT ![s] = left]
       /\ disk' = [disk EXCEPT ![s] = Delivered(s, saved)]
       /\ queued' = IF "handoff" \in heard THEN [queued EXCEPT ![s] = @ + 1] ELSE queued
  /\ Fault(s)
  /\ UNCHANGED <<phase, retrying, failures, job, parked, starts>>

\* The process dies between moving a file and acting on it.
CrashInTick(s) ==
  /\ phase = "up"
  /\ \/ /\ "handoff" \in mailbox[s]
        /\ mailbox' = [mailbox EXCEPT ![s] = @ \ {"handoff"}]
        /\ UNCHANGED disk
     \/ /\ "complete" \in mailbox[s]
        /\ mailbox' = [mailbox EXCEPT ![s] = {}]
        /\ disk' = [disk EXCEPT ![s] = IF "handoff" \in mailbox[s]
                                         THEN AfterHandoff(@) ELSE @]
  /\ LoseMemory
  /\ UNCHANGED <<parked, starts>>

-----------------------------------------------------------------------------
Next ==
  \/ Start \/ Shutdown \/ Exit
  \/ \E s \in Session :
       \/ CreateSession(s) \/ ArchiveSession(s)
       \/ ProcessSession(s) \/ DispatchFails(s) \/ RetryWakes(s) \/ WorkerStep(s)
       \/ Tick(s) \/ TickFails(s) \/ CrashInTick(s)

Spec == Init /\ [][Next]_vars

\* The queue starts what it holds (EveryTaskSettles of SessionQueueProperties: no
\* other session is enqueued again and again and keeps the slot),
\* a request to the model times out if it is not answered, sleeps end, and the
\* watcher polls.  Nothing makes anybody start, stop, create or archive.
Fairness ==
  \A s \in Session :
    /\ WF_vars(ProcessSession(s)) /\ WF_vars(WorkerStep(s))
    /\ WF_vars(RetryWakes(s)) /\ WF_vars(Tick(s))

FairSpec == Spec /\ Fairness

=============================================================================
