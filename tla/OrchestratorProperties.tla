----------------------- MODULE OrchestratorProperties -----------------------
(***************************************************************************)
(* What is claimed of the orchestrator and its sessions, and what its      *)
(* documentation claims.                                                   *)
(***************************************************************************)
EXTENDS Orchestrator

\* A worker awaits the planner with the handle it loaded, or acts on a subgoal.
PlanningJob ==
  [at : {"planning"}, handle : {"planning", "executing"}, todo : {<<>>},
   turn : {0}, handoff : {FALSE}, approval : {FALSE}]

ActingJob ==
  [at : {"acting", "tools"}, handle : {"executing"}, todo : Seq(Half) \ {<<>>},
   turn : 0 .. MaxTurns, handoff : BOOLEAN, approval : BOOLEAN]

JobType == PlanningJob \union ActingJob

\* Type invariant.
TypeOK ==
  /\ disk \in [Session -> State \union {"absent", "archived"}]
  /\ mailbox \in [Session -> SUBSET File]
  /\ phase \in {"down", "up", "draining"}
  /\ queued \in [Session -> Nat]
  /\ retrying \in [Session -> Nat]
  /\ failures \in [Session -> 0 .. MaxRetries]
  /\ job \in [Session -> JobType \union {Idle}]
  /\ parked \subseteq Session
  /\ starts \in 0 .. MaxStarts
  /\ faults \in [Session -> 0 .. MaxFaults]

\* A worker's copy of the state can be behind the record in one way only: the
\* watcher delivered a handoff or a completion during the task (and somebody
\* may have archived the session since).  No failure or escalation is ever
\* hidden from a running worker.
StaleOnlyBehindWatcher ==
  \A s \in Busy :
    \/ job[s].handle = disk[s]
    \/ disk[s] \in {"handed_off_to_structured", "completed", "archived"}

\* A failed or escalated session is left alone by workers, late retries and late
\* deliveries alike: the part of forward-only that the code does keep.
FailureIsFinal ==
  [][ \A s \in Session :
        disk[s] \in {"failed", "escalated"} => disk'[s] \in {disk[s], "archived"} ]_vars

\* A task the queue retries (_delayed_retry) finds nothing to do, because whatever
\* the model, the planner or a tool does to make process_session return False
\* leaves the session failed or its directory gone.  Only an error of the file
\* system in this session's files leaves work for a retry: it hid the record from
\* load_session, or kept mark_failed from writing it.
RetriesAreFutile ==
  \A s \in Session :
    retrying[s] > 0 => disk[s] \in {"failed", "archived"} \/ faults[s] > 0

\* A handoff file the executor's tool wrote leads to the end of the session while
\* the process serves, whether the watcher sees it before or after the worker
\* has saved the new state itself (_on_handoff, _dispatch_structured_half).  The
\* exception: a file left by an earlier process can be overtaken by the new
\* process's planner, whose plan may then stop at an unknown half.  What errors of
\* the file system came before does not matter, another one may (the handler that
\* cannot load the session drops the handoff).
HandoffsAreResolved ==
  \A s \in Session, n \in 0 .. MaxFaults :
    phase = "up" /\ "handoff" \in mailbox[s] /\ faults[s] = n
      ~> \/ disk[s] \in Terminal \union {"archived"}
         \/ s \in parked \/ phase # "up" \/ faults[s] > n

\* A session that is picked up at startup does not stay planning or executing,
\* unless its plan ended in a subgoal for a half the orchestrator does not have,
\* or another error of the file system stops it.
ResumedSessionsMove ==
  \A s \in Session, n \in 0 .. MaxFaults :
    phase = "up" /\ queued[s] > 0 /\ disk[s] \in {"planning", "executing"} /\ faults[s] = n
      ~> \/ disk[s] \notin {"planning", "executing"}
         \/ s \in parked \/ phase # "up" \/ faults[s] > n

-----------------------------------------------------------------------------
\* Statements of the documentation that the code does not satisfy.

\* state.py:14 "once a session reaches a terminal state (completed, failed,
\* escalated), it cannot move again"; README.md:54 "A session never transitions
\* backwards".
TerminalIsFinal ==
  [][ \A s \in Session :
        disk[s] \in Terminal => disk'[s] \in {disk[s], "archived"} ]_vars

\* docs/architecture.md:46 "The planner decides which half gets which subgoal.
\* [...] one writes a handoff file, the other picks it up": a session handed off
\* to the structured half is picked up while the process serves.
HandedOffIsPickedUp ==
  \A s \in Session :
    phase = "up" /\ disk[s] = "handed_off_to_structured"
      ~> disk[s] # "handed_off_to_structured" \/ phase # "up"

\* approval.py:24 "no thread or coroutine holds state across the wait - the
\* session can idle for hours and resume cleanly"; README.md:131 "The executor
\* exits cleanly, writes the request to disk, and resumes when a human decides":
\* the end of a batch that asked for approval neither completes the session nor
\* starts the next subgoal.
SessionIdlesForApproval ==
  [][ \A s \in Session :
        /\ job[s] # Idle
        /\ job[s].at = "tools"
        /\ job[s].approval
        /\ job'[s] # job[s]
        => job'[s] = Idle /\ (disk'[s] = "completed" => disk[s] = "completed") ]_vars

=============================================================================
