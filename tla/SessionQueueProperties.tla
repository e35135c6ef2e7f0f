----------------------- MODULE SessionQueueProperties -----------------------
(***************************************************************************)
(* What is claimed of session/queue.py, and what its documentation claims. *)
(***************************************************************************)
EXTENDS SessionQueue

\* Type invariant of the queue's state.
TypeOK ==
  /\ active \in [Session -> BOOLEAN]
  /\ idleWaiting \in [Session -> BOOLEAN]
  /\ pending \in [Session -> Seq(Task)]
  /\ container \in [Session -> BOOLEAN]
  /\ retryCount \in [Session -> 0 .. MaxRetries]
  /\ waiting \in Seq(Task)
  /\ activeCount \in Nat
  /\ worker \in [Session -> Task \union {NoTask}]
  /\ phase \in {"serving", "grace", "stopped"}
  /\ running \subseteq Task
  /\ backoff \subseteq Task
  /\ awaited \subseteq Task
  /\ closing \subseteq Session
  /\ outcome \in [Task -> Outcome]

\* Guarantee 1 (queue.py:7): a session never has two workers at once, although
\* its tasks reach the queue from callers, retries and finished predecessors.
Serialized ==
  \A t, u \in running : SessionOf[t] = SessionOf[u] => t = u

\* Guarantee 2 (queue.py:8): the workers alive never outnumber the cap.
WithinCapacity == Cardinality(running) <= MaxConcurrent

\* The counter the cap is enforced with, the active flags and the table of
\* workers agree: a slot is counted once per active session, and until a grace
\* period has run out every active session has a live worker, so no slot leaks
\* on any path out of a task.
SlotsAccountedFor ==
  /\ activeCount = Cardinality({s \in Session : active[s]})
  /\ phase # "stopped" =>
       \A s \in Session : active[s] <=> worker[s] \in running

\* No slot stays free while a task held back by the cap could use it
\* (_maybe_start_from_waiting): what waits below the cap belongs to sessions
\* that are active.
WorkConserving ==
  activeCount < MaxConcurrent => \A t \in Tasks(waiting) : active[SessionOf[t]]

\* Every accepted task is in exactly one place, once: a list, a worker or a
\* sleeping retry; no other task is in any.  So no hand-over between the lists,
\* the workers and the retries loses a task or runs it twice.
EachTaskInOnePlace ==
  \A t \in Task :
    LET listed == Cardinality({i \in DOMAIN waiting : waiting[i] = t})
                    + Cardinality({i \in DOMAIN pending[SessionOf[t]] :
                                     pending[SessionOf[t]][i] = t})
        live   == (IF t \in running THEN 1 ELSE 0) + (IF t \in backoff THEN 1 ELSE 0)
    IN listed + live = (IF outcome[t] = "accepted" THEN 1 ELSE 0)

\* Decision 4: a session whose idle worker registered an input directory and
\* has tasks queued behind it has been sent the sentinel, whichever came first,
\* the idle report or the tasks.
IdleWorkerToldToLeave ==
  \A s \in Session :
    /\ worker[s] \in running
    /\ idleWaiting[s] /\ container[s] /\ pending[s] # <<>>
    => s \in closing

\* A slot that changes hands goes to the most urgent candidate: no task left
\* in the list the new one was taken from is both startable and more urgent.
MostUrgentFirst ==
  [][ \A t \in running' \ running :
        /\ t \in Tasks(pending[SessionOf[t]]) =>
             \A u \in Tasks(pending[SessionOf[t]]) : Priority(t) <= Priority(u)
        /\ t \in Tasks(waiting) =>
             \A u \in Tasks(waiting') :
               Priority(u) < Priority(t) => active'[SessionOf[u]] ]_vars

\* A task listed behind the active one of a session that nothing will activate
\* again: an anonymous scheduled task of the session failed, gave the slot back
\* and had its retry lapse, so that nobody drains the list until a caller hands
\* that session another task.
Stranded(t) ==
  LET s == SessionOf[t]
  IN /\ t \in Tasks(pending[s])
     /\ ~active[s]
     /\ \A u \in backoff : SessionOf[u] = s => u \in Anonymous
     /\ \E u \in Anonymous : SessionOf[u] = s /\ outcome[u] = "lapsed"

\* While the queue serves, every accepted task comes to an end, even when it is
\* held by the cap, listed behind a failed task or sleeping; only the lapsed
\* retry of an anonymous scheduled task leaves the tasks of its own session
\* behind.
EveryTaskSettles ==
  \A t \in Task :
    outcome[t] = "accepted" ~>
      outcome[t] # "accepted" \/ shuttingDown \/ Stranded(t)

\* Once shutdown has begun, the slots that come free only drain the tasks already
\* listed: a retry whose timer fires later does not start its task.
ShutdownOnlyDrains ==
  [][ shuttingDown =>
        \A t \in running' \ running :
          t \in Tasks(waiting) \union Tasks(pending[SessionOf[t]]) ]_vars

-----------------------------------------------------------------------------
\* The queue implements the service.

Listed(t) == t \in Tasks(waiting) \/ t \in Tasks(pending[SessionOf[t]])

StageOf(t) ==
  IF t \in running THEN "running"
  ELSE IF t \in backoff THEN "backoff"
  ELSE IF Listed(t) THEN "queued"
  ELSE IF outcome[t] = "new" THEN "new"
  ELSE IF outcome[t] \in {"done", "gaveUp"} THEN "finished"
  ELSE "dropped"

Service == INSTANCE TaskService WITH stage <- [t \in Task |-> StageOf(t)]

\* The lists, flags and counters implement the stages of TaskService.
ServiceSpec == Service!Spec

-----------------------------------------------------------------------------
\* Statements of the documentation that the code does not satisfy.

\* queue.py:331 "Does NOT kill workers (Decision 8). Active tasks continue to
\* run": no worker is ever cancelled.
WorkersAreNotKilled == \A t \in Task : outcome[t] # "cancelled"

\* queue.py:12 "Priority-draining per session": a task of a session starts only
\* when no more urgent task of that session is queued behind it.
SessionDrainsByPriority ==
  [][ \A t \in running' \ running :
        \A u \in Tasks(pending[SessionOf[t]]) : Priority(t) <= Priority(u) ]_vars

=============================================================================
