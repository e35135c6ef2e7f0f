------------------------------ MODULE Workers -------------------------------
(***************************************************************************)
(* Worker backends: a caller hands one step of a session to a worker and   *)
(* gets an outcome back.  A bare worker runs the step as a coroutine of    *)
(* the caller, a subprocess worker in a process that talks to the caller   *)
(* through session.json and the last line of its output only.  The step    *)
(* may outlive its timeout, die, or be abandoned by a cancelled caller.    *)
(*                                                                         *)
(* Callers hand over one step at a time; an abandoned process may still be *)
(* at work beside the next.                                                *)
(***************************************************************************)
CONSTANT Call   \* calls of run_session for the session

VARIABLES
  backend,   \* of this caller
  record,    \* state field of session.json
  call,      \* the caller's side of each call
  step,      \* the worker's side
  handle,    \* the worker's copy of the state
  before,    \* state_before, as loaded
  report,    \* the outcome the step computed
  outcome,   \* the outcome the caller got
  left,      \* history: the record when the caller got it
  cut        \* history: timed out, died, or a load or a save failed

workerVars == <<backend, record, call, step, handle, before, report, outcome, left, cut>>

Ended == {"completed", "failed", "escalated"}
Record == {"planning", "executing", "structured", "research"} \cup Ended

\* Pairs of ALLOWED_TRANSITIONS.
Permitted ==
  ({"planning"} \X {"executing", "structured", "failed", "escalated"})
  \cup ({"executing"} \X (Record \ {"planning"}))
  \cup ({"structured", "research"} \X ({"executing"} \cup Ended))

\* terminal and advanced of a WorkerOutcome.
Outcome == [terminal : BOOLEAN, advanced : BOOLEAN]
Nothing == [terminal |-> FALSE, advanced |-> FALSE]
Advanced(from, to) == [terminal |-> to \in Ended, advanced |-> to # from \/ to \in Ended]

\* The step is with the planner's or the executor's model, between its save and
\* its report, or over.
AtWork == {"starting", "planning", "executing", "dispatching", "reporting", "reported"}

-----------------------------------------------------------------------------
WorkersInit ==
  /\ backend \in {"bare", "subprocess"}
  /\ record \in {"planning", "executing", "structured", "research"}
  /\ call = [c \in Call |-> "unused"]
  /\ step = [c \in Call |-> "none"]
  /\ handle = [c \in Call |-> "planning"]
  /\ before = [c \in Call |-> "planning"]
  /\ report = [c \in Call |-> Nothing]
  /\ outcome = [c \in Call |-> Nothing]
  /\ left = [c \in Call |-> "planning"]
  /\ cut = [c \in Call |-> FALSE]

Goes(c, from, to) == step[c] = from /\ step' = [step EXCEPT ![c] = to]

callerVars == <<backend, call, outcome, left>>
RunSession(c) ==
  /\ call[c] = "unused"
  /\ \A d \in Call : call[d] # "waiting"
  /\ call' = [call EXCEPT ![c] = "waiting"]
  /\ step' = [step EXCEPT ![c] = "starting"]
  /\ UNCHANGED <<backend, record, handle, before, report, outcome, left, cut>>

\* The caller gets an outcome.
Hands(c, result) ==
  /\ call' = [call EXCEPT ![c] = "returned"]
  /\ outcome' = [outcome EXCEPT ![c] = result]
  /\ left' = [left EXCEPT ![c] = record]

-----------------------------------------------------------------------------
\* advance_session_once.

\* Reports without having done anything, or goes on to dispatch.
Load(c) ==
  /\ Goes(c, "starting", CASE record \in Ended \cup {"research"} -> "reported"
                           [] record = "structured" -> "dispatching"
                           [] OTHER -> "planning")
  /\ handle' = [handle EXCEPT ![c] = record]
  /\ before' = [before EXCEPT ![c] = record]
  /\ report' = [report EXCEPT ![c] = [terminal |-> record \in Ended, advanced |-> FALSE]]
  /\ UNCHANGED <<record, cut>> /\ UNCHANGED callerVars

\* The record cannot be loaded, which is reported as an idle step.
LoadFails(c) ==
  /\ Goes(c, "starting", "reported")
  /\ cut' = [cut EXCEPT ![c] = TRUE]
  /\ report' = [report EXCEPT ![c] = Nothing]
  /\ UNCHANGED <<record, handle, before>> /\ UNCHANGED callerVars

\* An exception leaves the step: the entry point of the process turns it into an idle
\* report, a bare worker hands it to the caller.
Escapes(c) ==
  /\ IF backend = "bare" /\ call[c] = "waiting"
       THEN step' = [step EXCEPT ![c] = "gone"] /\ call' = [call EXCEPT ![c] = "raised"]
       ELSE step' = [step EXCEPT ![c] = "reported"] /\ UNCHANGED call
  /\ report' = [report EXCEPT ![c] = Nothing]
  /\ UNCHANGED <<backend, outcome, left>>

\* The trace is written before anything is caught.
TraceFails(c) ==
  /\ step[c] = "starting" /\ record \notin Ended
  /\ handle' = [handle EXCEPT ![c] = record]
  /\ before' = [before EXCEPT ![c] = record]
  /\ Escapes(c)
  /\ UNCHANGED <<record, cut>>

\* update_state moves the handle and then writes; the write may fail, which leaves
\* the handle where the record is not.
Save(c, new, then) ==
  /\ <<handle[c], new>> \in Permitted
  /\ handle' = [handle EXCEPT ![c] = new]
  /\ \/ record' = new /\ step' = [step EXCEPT ![c] = then] /\ UNCHANGED cut
     \/ /\ UNCHANGED record
        /\ step' = [step EXCEPT ![c] = "raised"]
        /\ cut' = [cut EXCEPT ![c] = TRUE]

PlannerReturnsStep(c) ==
  /\ step[c] = "planning"
  /\ Save(c, "executing", "executing")
  /\ UNCHANGED <<before, report>> /\ UNCHANGED callerVars

\* The loop half answers complete, a handoff or escalate; for a half that has no
\* state of its own it answers nothing that is saved.
LoopHalfReturns(c) ==
  /\ step[c] = "executing"
  /\ \/ \E new \in {"completed", "structured", "escalated"} : Save(c, new, "reporting")
     \/ Goes(c, "executing", "reporting") /\ UNCHANGED <<record, handle, cut>>
  /\ UNCHANGED <<before, report>> /\ UNCHANGED callerVars

\* No rules are registered.
DispatchStructured(c) ==
  /\ step[c] = "dispatching"
  /\ Save(c, "escalated", "reporting")
  /\ UNCHANGED <<before, report>> /\ UNCHANGED callerVars

StepRaises(c) ==
  /\ step[c] \in {"planning", "executing"}
  /\ step' = [step EXCEPT ![c] = "raised"]
  /\ UNCHANGED <<record, handle, before, report, cut>> /\ UNCHANGED callerVars

\* mark_failed; it is refused by a handle that is ahead of the record, or its write
\* fails, and then the exception leaves the step.
MarkFailed(c) ==
  /\ step[c] = "raised" /\ <<handle[c], "failed">> \in Permitted
  /\ handle' = [handle EXCEPT ![c] = "failed"]
  /\ record' = "failed"
  /\ report' = [report EXCEPT ![c] = [terminal |-> TRUE, advanced |-> TRUE]]
  /\ step' = [step EXCEPT ![c] = "reported"]
  /\ UNCHANGED <<before, cut>> /\ UNCHANGED callerVars

MarkFailedRaises(c) ==
  /\ step[c] = "raised"
  /\ cut' = [cut EXCEPT ![c] = TRUE]
  /\ Escapes(c)
  /\ UNCHANGED <<record, handle, before>>

\* The report taken from the handle instead; only a mutant uses it.
ReportLoaded(c) ==
  /\ Goes(c, "reporting", "reported")
  /\ report' = [report EXCEPT ![c] = Advanced(before[c], before[c])]
  /\ UNCHANGED <<record, handle, before, cut>> /\ UNCHANGED callerVars

\* The session cannot be loaded again, after a save that may have ended it.
ReloadFails(c) ==
  /\ step[c] = "reporting"
  /\ cut' = [cut EXCEPT ![c] = TRUE]
  /\ Escapes(c)
  /\ UNCHANGED <<record, handle, before>>

\* The session is loaded again and compared with what it was.
Report(c) ==
  /\ Goes(c, "reporting", "reported")
  /\ report' = [report EXCEPT ![c] = Advanced(before[c], record)]
  /\ UNCHANGED <<record, handle, before, cut>> /\ UNCHANGED callerVars

-----------------------------------------------------------------------------
\* run_session of either backend.

\* The subprocess could not be started.
SpawnFails(c) ==
  /\ backend = "subprocess" /\ call[c] = "waiting"
  /\ Goes(c, "starting", "none")
  /\ Hands(c, Nothing)
  /\ UNCHANGED <<backend, record, handle, before, report, cut>>

Collect(c) ==
  /\ call[c] = "waiting"
  /\ Goes(c, "reported", "gone")
  /\ Hands(c, report[c])
  /\ UNCHANGED <<backend, record, handle, before, report, cut>>

\* Where a step can be stopped: a coroutine only while it awaits the model.
Stoppable(c) == step[c] \in (IF backend = "bare" THEN {"planning", "executing"} ELSE AtWork \cup {"raised"})

\* A timeout that leaves the process alone; only a mutant uses it.
TimesOutQuietly(c) ==
  /\ call[c] = "waiting" /\ Stoppable(c)
  /\ cut' = [cut EXCEPT ![c] = TRUE]
  /\ Hands(c, Nothing)
  /\ UNCHANGED <<backend, record, step, handle, before, report>>

\* wait_for runs out: the coroutine is cancelled, the process killed and awaited.
TimesOut(c) ==
  /\ call[c] = "waiting" /\ Stoppable(c)
  /\ step' = [step EXCEPT ![c] = "gone"]
  /\ cut' = [cut EXCEPT ![c] = TRUE]
  /\ Hands(c, Nothing)
  /\ UNCHANGED <<backend, record, handle, before, report>>

\* The process dies with a return code other than 0.
WorkerDies(c) ==
  /\ backend = "subprocess" /\ call[c] = "waiting" /\ step[c] \in AtWork \cup {"raised"}
  /\ step' = [step EXCEPT ![c] = "gone"]
  /\ cut' = [cut EXCEPT ![c] = TRUE]
  /\ Hands(c, Nothing)
  /\ UNCHANGED <<backend, record, handle, before, report>>

\* The caller is cancelled.  run_session catches a timeout only, so a process is
\* abandoned to run on.
CallerCancelled(c) ==
  /\ call[c] = "waiting" /\ Stoppable(c)
  /\ call' = [call EXCEPT ![c] = "cancelled"]
  /\ step' = IF backend = "bare" THEN [step EXCEPT ![c] = "gone"] ELSE step
  /\ UNCHANGED <<backend, record, handle, before, report, outcome, left, cut>>

WorkersNext == \E c \in Call :
  \/ RunSession(c) \/ Load(c) \/ LoadFails(c) \/ TraceFails(c) \/ PlannerReturnsStep(c) \/ LoopHalfReturns(c)
  \/ DispatchStructured(c) \/ StepRaises(c) \/ MarkFailed(c) \/ MarkFailedRaises(c)
  \/ Report(c) \/ ReloadFails(c)
  \/ SpawnFails(c) \/ Collect(c) \/ TimesOut(c) \/ WorkerDies(c) \/ CallerCancelled(c)

WorkersSpec == WorkersInit /\ [][WorkersNext]_workerVars

-----------------------------------------------------------------------------
WorkersTypeOK ==
  /\ backend \in {"bare", "subprocess"}
  /\ record \in Record
  /\ call \in [Call -> {"unused", "waiting", "returned", "raised", "cancelled"}]
  /\ step \in [Call -> AtWork \cup {"none", "raised", "gone"}]
  /\ handle \in [Call -> Record] /\ before \in [Call -> Record] /\ left \in [Call -> Record]
  /\ report \in [Call -> Outcome] /\ outcome \in [Call -> Outcome]
  /\ cut \in [Call -> BOOLEAN]

Abandoned == backend = "subprocess" /\ \E c \in Call : call[c] = "cancelled"

\* What run_session tells the caller is what happened to the record, unless a
\* cancelled call has left a process behind: a session reported as ended has ended,
\* whatever failed.  One reported as not ended has not, and a step reported as idle
\* changed nothing, unless the step was cut short or could not load or save the record:
\* then it is reported as idle even where it ended the session.
OutcomesTellTheTruth == ~Abandoned => \A c \in Call : call[c] = "returned" =>
  /\ outcome[c].terminal => left[c] \in Ended
  /\ ~outcome[c].terminal /\ ~cut[c] /\ step[c] = "gone" => left[c] \notin Ended
  /\ ~outcome[c].advanced /\ ~cut[c] /\ step[c] = "gone" => left[c] = before[c]

\* The record of an ended session does not move again, however steps time out,
\* die and are repeated: only a process abandoned by a cancelled caller can do it.
EndedUnlessAbandoned == [][(record \in Ended /\ ~Abandoned) => record' = record]_workerVars
=============================================================================
