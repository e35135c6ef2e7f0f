------------------------- MODULE OrchestratorProofs -------------------------
(***************************************************************************)
(* Proofs about the orchestrator, for every set of sessions, every set of  *)
(* plans and every bound on turns, retries and starts.  What makes stale   *)
(* handles harmless to a failed or escalated session is that only the task *)
(* that fails or escalates it can do so, and that the task then ends.      *)
(***************************************************************************)
EXTENDS OrchestratorProperties, TLAPS

\* What relates the record, the sleeping retries and the worker of one session:
\* a handle that differs from the record is behind the watcher, and a sleeping
\* retry is all that is left of the work of a session that failed or is gone,
\* as long as no file of the session has failed.
Coherent(d, r, f, j) ==
  /\ j # Idle =>
       j.handle = d \/ d \in {"handed_off_to_structured", "completed", "archived"}
  /\ r > 0 => f > 0 \/ (d \in {"failed", "archived"} /\ j = Idle)

AllCoherent == \A s \in Session : Coherent(disk[s], retrying[s], faults[s], job[s])

IInv == TypeOK /\ AllCoherent

-----------------------------------------------------------------------------
\* Types.

\* A worker past the planner has the record of an acting one.
LEMMA ActingWorker ==
  ASSUME TypeOK, NEW s \in Session, job[s].at \in {"acting", "tools"}
  PROVE  job[s] \in ActingJob
<1>1. job[s] \in JobType \union {Idle}
  BY DEF TypeOK
<1>2. job[s] # Idle
  BY DEF Idle
<1>3. job[s] \notin PlanningJob
  BY DEF PlanningJob
<1>4. QED
  BY <1>1, <1>2, <1>3 DEF JobType

\* What follows the end of a subgoal, or the planner, is well typed.
LEMMA NextSubgoalType ==
  ASSUME TypeOK, NEW s \in Session, NEW rest \in Seq(Half),
         NEW d \in [Session -> State \union {"absent", "archived"}],
         NextSubgoal(s, rest, d),
         UNCHANGED <<mailbox, phase, queued, starts, faults>>
  PROVE  TypeOK'
<1>1. disk' \in [Session -> State \union {"absent", "archived"}]
  BY DEF NextSubgoal, State, Terminal
<1>2. rest # <<>> => Job("acting", "executing", rest, 0, FALSE, FALSE) \in JobType
  BY OrchestratorAssumption DEF Job, JobType, ActingJob
<1>3. job' \in [Session -> JobType \union {Idle}]
  BY <1>2 DEF NextSubgoal, TypeOK
<1>4. failures' \in [Session -> 0 .. MaxRetries] /\ retrying' = retrying
  <2>1. MaxRetries \in Nat
    BY OrchestratorAssumption
  <2>2. failures \in [Session -> 0 .. MaxRetries]
    BY DEF TypeOK
  <2>3. (TaskSucceeds(s) \/ UNCHANGED failures) /\ retrying' = retrying
    BY DEF NextSubgoal, TaskSucceeds
  <2>4. QED
    BY <2>1, <2>2, <2>3 DEF TaskSucceeds
<1>5. parked' \subseteq Session
  BY DEF NextSubgoal, TypeOK
<1>6. QED
  BY <1>1, <1>3, <1>4, <1>5 DEF TypeOK

\* Both outcomes of a task keep the queue's counters well typed.
LEMMA TaskEndType ==
  ASSUME TypeOK, NEW s \in Session, TaskSucceeds(s) \/ TaskFails(s)
  PROVE  /\ failures' \in [Session -> 0 .. MaxRetries]
         /\ retrying' \in [Session -> Nat]
<1>1. MaxRetries \in Nat
  BY OrchestratorAssumption
<1>2. failures \in [Session -> 0 .. MaxRetries] /\ retrying \in [Session -> Nat]
  BY DEF TypeOK
<1>3. QED
  BY <1>1, <1>2 DEF TaskSucceeds, TaskFails

\* One more error of the file system is counted up to the bound.
LEMMA FaultType ==
  ASSUME TypeOK, NEW s \in Session, Fault(s) \/ UNCHANGED faults
  PROVE  faults' \in [Session -> 0 .. MaxFaults]
<1>1. MaxFaults \in Nat /\ faults \in [Session -> 0 .. MaxFaults]
  BY OrchestratorAssumption DEF TypeOK
<1>2. CASE Fault(s)
  BY <1>1, <1>2 DEF Fault
<1>3. QED
  BY <1>1, <1>2

\* Every step of a worker keeps the types.
LEMMA WorkerType ==
  ASSUME TypeOK, NEW s \in Session, WorkerStep(s)
  PROVE  TypeOK'
<1>1. MaxTurns \in Nat
  BY OrchestratorAssumption
<1>2. ASSUME job[s].at \in {"acting", "tools"}
      PROVE  /\ job[s] \in ActingJob
             /\ job[s].todo \in Seq(Half) \ {<<>>}
             /\ job[s].turn \in 0 .. MaxTurns
  BY <1>2, ActingWorker DEF ActingJob
<1>3. CASE PlannerReturns(s)
  <2>1. [disk EXCEPT ![s] = "executing"] \in [Session -> State \union {"absent", "archived"}]
    BY DEF TypeOK, State
  <2>2. PICK plan \in Plans : NextSubgoal(s, plan, [disk EXCEPT ![s] = "executing"])
    BY <1>3 DEF PlannerReturns
  <2>3. plan \in Seq(Half)
    BY OrchestratorAssumption
  <2>4. UNCHANGED <<mailbox, phase, queued, starts, faults>>
    BY <1>3 DEF PlannerReturns
  <2>5. QED
    BY <2>1, <2>2, <2>3, <2>4, NextSubgoalType
<1>4. CASE CallTools(s)
  <2>1. PICK written \in SUBSET File, approval \in BOOLEAN :
          /\ mailbox' = [mailbox EXCEPT ![s] = @ \union written]
          /\ job' = [job EXCEPT ![s] = Job("tools", @.handle, @.todo, @.turn + 1,
                                           "handoff" \in written, approval)]
    BY <1>4 DEF CallTools
  <2>2. mailbox' \in [Session -> SUBSET File]
    BY <2>1 DEF TypeOK
  <2>3. job[s] \in ActingJob /\ job[s].turn + 1 \in 0 .. MaxTurns
    BY <1>1, <1>2, <1>4 DEF CallTools
  <2>4. Job("tools", job[s].handle, job[s].todo, job[s].turn + 1,
            "handoff" \in written, approval) \in ActingJob
    BY <2>3 DEF ActingJob, Job
  <2>5. job' \in [Session -> JobType \union {Idle}]
    BY <2>1, <2>4 DEF TypeOK, JobType
  <2>6. QED
    BY <1>4, <2>2, <2>5 DEF CallTools, TypeOK, queueVars
<1>5. CASE /\ NextSubgoal(s, Tail(job[s].todo), disk)
           /\ UNCHANGED <<mailbox, phase, queued, starts, faults>>
           /\ job[s].at \in {"acting", "tools"}
  <2>1. Tail(job[s].todo) \in Seq(Half)
    BY <1>2, <1>5
  <2>2. QED
    BY <1>5, <2>1, NextSubgoalType DEF TypeOK
<1>6. ASSUME NEW state \in State, Finish(s, state), UNCHANGED <<mailbox, phase, queued, starts, faults>>
      PROVE  TypeOK'
  BY <1>6, TaskEndType DEF Finish, TypeOK
<1>7. CASE ToolsReturn(s)
  <2>1. CASE /\ job' = [job EXCEPT ![s] = Job("acting", @.handle, @.todo, @.turn, FALSE, FALSE)]
             /\ UNCHANGED <<disk, mailbox, phase, queued, retrying, failures, parked, starts,
                          faults>>
    <3>1. job[s] \in ActingJob
      BY <1>2, <1>7 DEF ToolsReturn
    <3>2. Job("acting", job[s].handle, job[s].todo, job[s].turn, FALSE, FALSE) \in ActingJob
      BY <3>1 DEF ActingJob, Job
    <3>3. job' \in [Session -> JobType \union {Idle}]
      BY <2>1, <3>2 DEF TypeOK, JobType
    <3>4. QED
      BY <2>1, <3>3 DEF TypeOK
  <2>2. QED
    BY <1>5, <1>6, <1>7, <2>1 DEF ToolsReturn, State
<1>8. CASE Answer(s)
  BY <1>5, <1>8 DEF Answer
<1>9. CASE Exhausted(s)
  BY <1>6, <1>9 DEF Exhausted, State, Terminal
<1>10. CASE StepFails(s)
  <2>1. faults' \in [Session -> 0 .. MaxFaults]
    BY <1>10, FaultType DEF StepFails
  <2>2. disk' \in [Session -> State \union {"absent", "archived"}]
    BY <1>10 DEF StepFails, TypeOK, State, Terminal
  <2>3. job' \in [Session -> JobType \union {Idle}]
    BY <1>10 DEF StepFails, TypeOK
  <2>4. QED
    BY <1>10, <2>1, <2>2, <2>3, TaskEndType DEF StepFails, TypeOK
<1>11. QED
  BY <1>3, <1>4, <1>7, <1>8, <1>9, <1>10 DEF WorkerStep

\* Every step keeps the types.
LEMMA NextType == TypeOK /\ [Next]_vars => TypeOK'
<1> SUFFICES ASSUME TypeOK, [Next]_vars
             PROVE  TypeOK'
  OBVIOUS
<1>1. CASE Start
  <2>1. queued' \in [Session -> Nat]
    BY <1>1 DEF Start
  <2>2. starts' \in 0 .. MaxStarts
    BY <1>1, OrchestratorAssumption DEF Start, TypeOK
  <2>3. faults' \in [Session -> 0 .. MaxFaults]
    <3>1. PICK unread \in SUBSET {s \in Session : disk[s] \in State /\ MaxFaults > 0} :
            faults' = [s \in Session |-> IF s \in unread THEN 1 ELSE faults[s]]
      BY <1>1 DEF Start
    <3>2. MaxFaults \in Nat
      BY OrchestratorAssumption
    <3>3. QED
      BY <3>1, <3>2 DEF TypeOK
  <2>4. QED
    BY <1>1, <2>1, <2>2, <2>3 DEF Start, TypeOK
<1>2. ASSUME LoseMemory
      PROVE  /\ queued' \in [Session -> Nat] /\ retrying' \in [Session -> Nat]
             /\ failures' \in [Session -> 0 .. MaxRetries]
             /\ job' \in [Session -> JobType \union {Idle}]
             /\ phase' \in {"down", "up", "draining"}
             /\ faults' \in [Session -> 0 .. MaxFaults]
  BY <1>2, OrchestratorAssumption DEF LoseMemory
<1>3. CASE Shutdown \/ Exit
  BY <1>2, <1>3 DEF Shutdown, Exit, TypeOK, queueVars
<1>4. ASSUME NEW s \in Session, CreateSession(s) \/ ArchiveSession(s)
      PROVE  TypeOK'
  BY <1>4 DEF CreateSession, ArchiveSession, TypeOK, queueVars, State
<1>5. ASSUME NEW s \in Session, ProcessSession(s)
      PROVE  TypeOK'
  <2>1. queued' \in [Session -> Nat]
    BY <1>5 DEF ProcessSession, MayStart, TypeOK
  <2>2. failures' \in [Session -> 0 .. MaxRetries] /\ retrying' \in [Session -> Nat]
    <3>1. TaskSucceeds(s) \/ TaskFails(s) \/ UNCHANGED <<failures, retrying>>
      BY <1>5 DEF ProcessSession
    <3>2. QED
      BY <3>1, TaskEndType DEF TypeOK
  <2>3. disk[s] \in {"planning", "executing"}
          => Job("planning", disk[s], <<>>, 0, FALSE, FALSE) \in PlanningJob
    BY DEF PlanningJob, Job
  <2>4. job' \in [Session -> JobType \union {Idle}]
    BY <1>5, <2>3 DEF ProcessSession, TypeOK, JobType
  <2>5. disk' \in [Session -> State \union {"absent", "archived"}]
    BY <1>5 DEF ProcessSession, TypeOK, State, Terminal
  <2>6. QED
    BY <1>5, <2>1, <2>2, <2>4, <2>5 DEF ProcessSession, TypeOK
<1>12. ASSUME NEW s \in Session, DispatchFails(s)
       PROVE  TypeOK'
  <2>1. queued' \in [Session -> Nat]
    BY <1>12 DEF DispatchFails, MayStart, TypeOK
  <2>2. faults' \in [Session -> 0 .. MaxFaults]
    BY <1>12, FaultType DEF DispatchFails
  <2>3. QED
    BY <1>12, <2>1, <2>2, TaskEndType DEF DispatchFails, TypeOK
<1>6. ASSUME NEW s \in Session, RetryWakes(s)
      PROVE  TypeOK'
  BY <1>6 DEF RetryWakes, TypeOK
<1>7. ASSUME NEW state \in State \union {"absent", "archived"}
      PROVE  /\ AfterHandoff(state) \in State \union {"absent", "archived"}
             /\ AfterComplete(state) \in State \union {"absent", "archived"}
  BY DEF AfterHandoff, AfterComplete, State, Terminal
<1>13. ASSUME NEW s \in Session, NEW files
       PROVE  Delivered(s, files) \in State \union {"absent", "archived"}
  BY <1>7 DEF Delivered, TypeOK
<1>14. ASSUME NEW s \in Session, TickFails(s)
       PROVE  TypeOK'
  <2>1. PICK left, heard, saved \in SUBSET mailbox[s] :
          /\ mailbox' = [mailbox EXCEPT ![s] = left]
          /\ disk' = [disk EXCEPT ![s] = Delivered(s, saved)]
          /\ queued' = IF "handoff" \in heard THEN [queued EXCEPT ![s] = @ + 1] ELSE queued
    BY <1>14 DEF TickFails
  <2>2. disk' \in [Session -> State \union {"absent", "archived"}]
    BY <1>13, <2>1 DEF TypeOK
  <2>3. mailbox' \in [Session -> SUBSET File] /\ queued' \in [Session -> Nat]
    BY <2>1 DEF TypeOK
  <2>4. faults' \in [Session -> 0 .. MaxFaults]
    BY <1>14, FaultType DEF TickFails
  <2>5. QED
    BY <1>14, <2>2, <2>3, <2>4 DEF TickFails, TypeOK
<1>8. ASSUME NEW s \in Session, Tick(s)
      PROVE  TypeOK'
  <2>2. disk' \in [Session -> State \union {"absent", "archived"}]
    BY <1>8, <1>13 DEF Tick, TypeOK
  <2>3. queued' \in [Session -> Nat]
    BY <1>8 DEF Tick, TypeOK
  <2>4. QED
    BY <1>8, <2>2, <2>3 DEF Tick, TypeOK
<1>9. ASSUME NEW s \in Session, CrashInTick(s)
      PROVE  TypeOK'
  <2>1. disk' \in [Session -> State \union {"absent", "archived"}]
    BY <1>7, <1>9 DEF CrashInTick, TypeOK
  <2>2. mailbox' \in [Session -> SUBSET File]
    BY <1>9 DEF CrashInTick, TypeOK
  <2>3. QED
    BY <1>2, <1>9, <2>1, <2>2 DEF CrashInTick, TypeOK
<1>10. CASE UNCHANGED vars
  BY <1>10 DEF vars, TypeOK
<1>11. QED
  BY <1>1, <1>3, <1>4, <1>5, <1>6, <1>8, <1>9, <1>10, <1>12, <1>14, WorkerType DEF Next

\* The orchestrator's state is always well typed.
THEOREM TypeCorrect == Spec => []TypeOK
<1>1. Init => TypeOK
  BY OrchestratorAssumption DEF Init, TypeOK
<1>2. QED
  BY <1>1, NextType, PTL DEF Spec

-----------------------------------------------------------------------------
\* Records, retries and workers stay coherent.

\* It is enough to look at the one session a step is about.
LEMMA OneSession ==
  ASSUME AllCoherent, NEW s \in Session,
         \A x \in Session \ {s} :
           /\ disk'[x] = disk[x] /\ retrying'[x] = retrying[x]
           /\ faults'[x] = faults[x] /\ job'[x] = job[x],
         Coherent(disk'[s], retrying'[s], faults'[s], job'[s])
  PROVE  AllCoherent'
BY DEF AllCoherent

\* While a session has a worker, no retry of it sleeps unless a file has failed.
LEMMA WorkerHasNoRetry ==
  ASSUME IInv, NEW s \in Session, job[s] # Idle, retrying[s] > 0
  PROVE  faults[s] > 0
BY DEF IInv, TypeOK, AllCoherent, Coherent

\* The end of a subgoal, or of the planner, keeps handle and record coherent.
LEMMA NextSubgoalCoherent ==
  ASSUME IInv, NEW s \in Session, job[s] # Idle, NEW rest, NEW d,
         \/ d = [disk EXCEPT ![s] = "executing"]
         \/ d = disk /\ job[s].handle = "executing",
         NextSubgoal(s, rest, d), UNCHANGED faults
  PROVE  AllCoherent'
<1>1. (retrying[s] > 0 => faults[s] > 0) /\ retrying' = retrying /\ faults' = faults
  BY WorkerHasNoRetry DEF NextSubgoal, TaskSucceeds
<1>2. \A x \in Session \ {s} : disk'[x] = disk[x] /\ job'[x] = job[x]
  BY ZenonT(40) DEF IInv, TypeOK, NextSubgoal
<1>3. \/ job'[s] = Idle
      \/ job'[s] = Job("acting", "executing", rest, 0, FALSE, FALSE) /\ disk'[s] = d[s]
  BY DEF IInv, TypeOK, NextSubgoal
<1>4. \/ d[s] = "executing"
      \/ d[s] \in {"handed_off_to_structured", "completed", "archived"}
  BY DEF IInv, TypeOK, AllCoherent, Coherent
<1>5. Coherent(disk'[s], retrying'[s], faults'[s], job'[s])
  BY <1>1, <1>3, <1>4 DEF Coherent, Job
<1>6. QED
  BY <1>1, <1>2, <1>5, OneSession DEF IInv

\* A worker's step keeps its session coherent.
LEMMA WorkerCoherent ==
  ASSUME IInv, NEW s \in Session, WorkerStep(s)
  PROVE  AllCoherent'
<1>1. TypeOK /\ AllCoherent
  BY DEF IInv
<1>2. ASSUME job[s].at \in {"acting", "tools"}
      PROVE  job[s] # Idle /\ job[s].handle = "executing"
  BY <1>1, <1>2, ActingWorker DEF ActingJob, Idle
<1>3. CASE PlannerReturns(s)
  <2>1. job[s] # Idle
    BY <1>3 DEF PlannerReturns, Idle
  <2>2. PICK plan \in Plans : NextSubgoal(s, plan, [disk EXCEPT ![s] = "executing"])
    BY <1>3 DEF PlannerReturns
  <2>3. UNCHANGED faults
    BY <1>3 DEF PlannerReturns
  <2>4. QED
    BY <2>1, <2>2, <2>3, NextSubgoalCoherent
<1>4. ASSUME job[s].at \in {"acting", "tools"}, NEW at, NEW turn, NEW ho, NEW ap,
             job' = [job EXCEPT ![s] = Job(at, @.handle, @.todo, turn, ho, ap)],
             UNCHANGED <<disk, retrying, faults>>
      PROVE  AllCoherent'
  <2>1. retrying[s] > 0 => faults[s] > 0
    BY <1>2, <1>4, WorkerHasNoRetry
  <2>2. job'[s] = Job(at, job[s].handle, job[s].todo, turn, ho, ap)
    BY <1>1, <1>4 DEF TypeOK
  <2>3. Coherent(disk'[s], retrying'[s], faults'[s], job'[s])
    BY <1>1, <1>2, <1>4, <2>1, <2>2 DEF AllCoherent, Coherent, Job
  <2>4. QED
    BY <1>1, <1>4, <2>3, OneSession DEF TypeOK
<1>5. CASE CallTools(s)
  <2>1. PICK written \in SUBSET File, approval \in BOOLEAN :
          job' = [job EXCEPT ![s] = Job("tools", @.handle, @.todo, @.turn + 1,
                                        "handoff" \in written, approval)]
    BY <1>5 DEF CallTools
  <2>2. job[s].at \in {"acting", "tools"} /\ UNCHANGED <<disk, retrying, faults>>
    BY <1>5 DEF CallTools, queueVars
  <2>3. QED
    BY <1>4, <2>1, <2>2
<1>6. CASE Answer(s)
  BY <1>2, <1>6, NextSubgoalCoherent DEF Answer
<1>7. ASSUME NEW state, Finish(s, state), job[s].at \in {"acting", "tools"}, UNCHANGED faults
      PROVE  AllCoherent'
  <2>1. (retrying[s] > 0 => faults[s] > 0) /\ retrying' = retrying
    BY <1>2, <1>7, WorkerHasNoRetry DEF Finish, TaskSucceeds
  <2>2. Coherent(disk'[s], retrying'[s], faults'[s], job'[s])
    BY <1>1, <1>7, <2>1 DEF Finish, Coherent, TypeOK
  <2>3. QED
    BY <1>1, <1>7, <2>1, <2>2, OneSession DEF Finish, TypeOK
<1>8. CASE Exhausted(s)
  BY <1>7, <1>8 DEF Exhausted
<1>9. CASE ToolsReturn(s)
  <2>1. job[s].at \in {"acting", "tools"} /\ UNCHANGED faults
    BY <1>9 DEF ToolsReturn
  <2>2. CASE NextSubgoal(s, Tail(job[s].todo), disk)
    BY <1>2, <2>1, <2>2, NextSubgoalCoherent
  <2>3. QED
    BY <1>4, <1>7, <1>9, <2>1, <2>2 DEF ToolsReturn
<1>10. CASE StepFails(s)
  <2>1. \A x \in Session \ {s} :
          /\ disk'[x] = disk[x] /\ retrying'[x] = retrying[x]
          /\ faults'[x] = faults[x] /\ job'[x] = job[x]
    BY <1>1, <1>10 DEF StepFails, TaskFails, Fault, TypeOK
  <2>2. job'[s] = Idle /\ (disk'[s] = "failed" \/ faults'[s] > 0)
    BY <1>1, <1>10 DEF StepFails, Fault, TypeOK
  <2>3. Coherent(disk'[s], retrying'[s], faults'[s], job'[s])
    BY <2>2 DEF Coherent
  <2>4. QED
    BY <1>1, <2>1, <2>3, OneSession
<1>11. QED
  BY <1>3, <1>5, <1>6, <1>8, <1>9, <1>10 DEF WorkerStep

\* The process starting, stopping or dying keeps every session coherent: what
\* memory is lost, no handle and no retry is left.
LEMMA ProcessCoherent ==
  ASSUME IInv, Start \/ Shutdown \/ Exit \/ \E s \in Session : CrashInTick(s)
  PROVE  AllCoherent'
<1>1. CASE LoseMemory
  BY <1>1 DEF LoseMemory, AllCoherent, Coherent
<1>2. CASE UNCHANGED <<disk, retrying, job, faults>>
  BY <1>2 DEF IInv, AllCoherent, Coherent
<1>3. CASE Start
  <2>1. UNCHANGED <<disk, retrying, job>> /\ \A s \in Session : faults[s] > 0 => faults'[s] > 0
    BY <1>3 DEF Start, IInv, TypeOK
  <2>2. QED
    BY <2>1 DEF IInv, AllCoherent, Coherent
<1>4. QED
  BY <1>1, <1>2, <1>3 DEF Shutdown, Exit, CrashInTick, queueVars

\* Creating, archiving and watching a session, with or without a worker, moves
\* its record only where a handle may be behind.
LEMMA OutsideCoherent ==
  ASSUME IInv, NEW s \in Session,
         CreateSession(s) \/ ArchiveSession(s) \/ Tick(s) \/ TickFails(s) \/ RetryWakes(s)
  PROVE  AllCoherent'
<1>1. TypeOK /\ Coherent(disk[s], retrying[s], faults[s], job[s])
  BY DEF IInv, AllCoherent
<1>2. /\ job' = job
      /\ \A x \in Session \ {s} :
           disk'[x] = disk[x] /\ retrying'[x] = retrying[x] /\ faults'[x] = faults[x]
  BY <1>1 DEF CreateSession, ArchiveSession, Tick, TickFails, Fault, RetryWakes, queueVars, TypeOK
<1>3. (retrying'[s] > 0 => retrying[s] > 0) /\ (faults[s] > 0 => faults'[s] > 0)
  BY <1>1 DEF CreateSession, ArchiveSession, Tick, TickFails, Fault, RetryWakes, queueVars, TypeOK
<1>4. \/ disk'[s] = disk[s]
      \/ disk[s] = "absent" /\ disk'[s] = "planning"
      \/ disk'[s] = "archived"
      \/ disk'[s] \in {"handed_off_to_structured", "completed"} /\ disk[s] \notin {"failed", "archived"}
  <2>1. CASE CreateSession(s) \/ ArchiveSession(s) \/ RetryWakes(s)
    BY <1>1, <2>1 DEF CreateSession, ArchiveSession, RetryWakes, TypeOK
  <2>2. CASE Tick(s) \/ TickFails(s)
    <3>1. PICK files : disk'[s] = Delivered(s, files)
      BY <1>1, <2>2 DEF Tick, TickFails, TypeOK
    <3>2. QED
      BY <3>1 DEF Delivered, AfterHandoff, AfterComplete, Allowed, Terminal
  <2>3. QED
    BY <2>1, <2>2
<1>5. job[s] # Idle /\ disk[s] = "absent" => FALSE
  BY <1>1 DEF Coherent, TypeOK, JobType, PlanningJob, ActingJob
<1>6. Coherent(disk'[s], retrying'[s], faults'[s], job'[s])
  BY <1>1, <1>2, <1>3, <1>4, <1>5 DEF Coherent
<1>7. QED
  BY <1>2, <1>6, OneSession DEF IInv

\* A task starts with a fresh handle; a task that ends at once either leaves the
\* retries alone or finds its session gone.
LEMMA ProcessSessionCoherent ==
  ASSUME IInv, NEW s \in Session, ProcessSession(s)
  PROVE  AllCoherent'
<1>1. TypeOK /\ Coherent(disk[s], retrying[s], faults[s], job[s]) /\ job[s] = Idle
  BY DEF IInv, AllCoherent, ProcessSession, MayStart
<1>2. /\ faults' = faults
      /\ \A x \in Session \ {s} :
           disk'[x] = disk[x] /\ retrying'[x] = retrying[x] /\ job'[x] = job[x]
  BY <1>1 DEF ProcessSession, TaskSucceeds, TaskFails, TypeOK
<1>3. CASE disk[s] = "archived" /\ TaskFails(s) /\ UNCHANGED <<disk, job>>
  BY <1>1, <1>2, <1>3, OneSession DEF IInv, Coherent
<1>4. CASE disk[s] \in {"planning", "executing"} /\ UNCHANGED <<disk, retrying>>
           /\ job' = [job EXCEPT ![s] = Job("planning", disk[s], <<>>, 0, FALSE, FALSE)]
  <2>1. job'[s].handle = disk[s]
    BY <1>1, <1>4 DEF TypeOK, Job
  <2>2. retrying[s] > 0 => faults[s] > 0
    BY <1>1, <1>4 DEF Coherent
  <2>3. Coherent(disk'[s], retrying'[s], faults'[s], job'[s])
    BY <1>2, <1>4, <2>1, <2>2 DEF Coherent
  <2>4. QED
    BY <1>2, <2>3, OneSession DEF IInv
<1>5. CASE /\ disk[s] = "handed_off_to_structured"
           /\ disk' = [disk EXCEPT ![s] = "escalated"]
           /\ TaskSucceeds(s) /\ UNCHANGED job
  <2>1. Coherent(disk'[s], retrying'[s], faults'[s], job'[s])
    BY <1>1, <1>2, <1>5 DEF Coherent, TaskSucceeds
  <2>2. QED
    BY <1>2, <2>1, OneSession DEF IInv
<1>6. CASE TaskSucceeds(s) /\ UNCHANGED <<disk, job>>
  BY <1>2, <1>6 DEF IInv, AllCoherent, Coherent, TaskSucceeds
<1>7. QED
  BY <1>3, <1>4, <1>5, <1>6 DEF ProcessSession

\* A task that an error of the file system ends at once leaves the record alone.
LEMMA DispatchFailsCoherent ==
  ASSUME IInv, NEW s \in Session, DispatchFails(s)
  PROVE  AllCoherent'
<1>1. TypeOK /\ job[s] = Idle
  BY DEF IInv, DispatchFails, MayStart
<1>2. \A x \in Session \ {s} :
        /\ disk'[x] = disk[x] /\ retrying'[x] = retrying[x]
        /\ faults'[x] = faults[x] /\ job'[x] = job[x]
  BY <1>1 DEF DispatchFails, TaskFails, Fault, TypeOK
<1>3. job'[s] = Idle /\ faults'[s] > 0
  BY <1>1 DEF DispatchFails, Fault, TypeOK
<1>4. Coherent(disk'[s], retrying'[s], faults'[s], job'[s])
  BY <1>3 DEF Coherent
<1>5. QED
  BY <1>2, <1>4, OneSession DEF IInv

\* The invariant is inductive.
LEMMA Inductive == IInv /\ [Next]_vars => IInv'
<1> SUFFICES ASSUME IInv, [Next]_vars
             PROVE  AllCoherent'
  BY NextType DEF IInv
<1>1. CASE UNCHANGED vars
  BY <1>1 DEF vars, queueVars, IInv, AllCoherent, Coherent
<1>2. CASE Next
  BY <1>2, WorkerCoherent, ProcessCoherent, OutsideCoherent, ProcessSessionCoherent,
     DispatchFailsCoherent DEF Next
<1>3. QED
  BY <1>1, <1>2

\* Types and coherence hold in every reachable state.
LEMMA Invariance == Spec => []IInv
<1>1. Init => IInv
  <2>1. Init => TypeOK
    BY OrchestratorAssumption DEF Init, TypeOK
  <2>2. Init => AllCoherent
    BY DEF Init, AllCoherent, Coherent
  <2>3. QED
    BY <2>1, <2>2 DEF IInv
<1>2. QED
  BY <1>1, Inductive, PTL DEF Spec

\* A running worker's handle is the record, or behind the watcher or an archiving
\* (update_state of directory.py, Tick of watcher.py).
THEOREM HandlesAreStaleOnlyBehindWatcher == Spec => []StaleOnlyBehindWatcher
<1>1. IInv => StaleOnlyBehindWatcher
  BY DEF IInv, AllCoherent, Coherent, StaleOnlyBehindWatcher, Busy
<1>2. QED
  BY <1>1, Invariance, PTL

\* A retry of the queue wakes up to a session that has failed or is gone, unless
\* reading or writing one of its files has failed in this process: nothing else
\* makes the return value False of process_session lead to another attempt.
THEOREM NoRetryHelps == Spec => []RetriesAreFutile
<1>1. IInv => RetriesAreFutile
  BY DEF IInv, AllCoherent, Coherent, RetriesAreFutile
<1>2. QED
  BY <1>1, Invariance, PTL

\* No worker holds a failed or escalated session, so no step takes one out of
\* that state except archiving.
THEOREM FailuresAreFinal == Spec => FailureIsFinal
<1> DEFINE Kept == \A s \in Session :
              disk[s] \in {"failed", "escalated"} => disk'[s] \in {disk[s], "archived"}
<1>1. IInv /\ [Next]_vars => [Kept]_vars
  <2> SUFFICES ASSUME IInv, Next
               PROVE  Kept
    BY DEF vars
  <2> SUFFICES ASSUME NEW s \in Session, disk[s] \in {"failed", "escalated"}
               PROVE  disk'[s] \in {disk[s], "archived"}
    OBVIOUS
  <2>1. TypeOK /\ Coherent(disk[s], retrying[s], faults[s], job[s])
    BY DEF IInv, AllCoherent
  <2>2. job[s] = Idle
    BY <2>1 DEF Coherent, TypeOK, JobType, PlanningJob, ActingJob
  <2>3. ASSUME NEW x \in Session, WorkerStep(x)
        PROVE  disk'[s] = disk[s]
    <3>1. x # s
      <4>1. job[x].at \in {"planning", "acting", "tools"}
        <5>1. job[x] \in JobType \union {Idle}
          BY <2>1 DEF TypeOK
        <5>2. job[x].at \in {"planning", "acting", "tools"} \/ StepFails(x)
          BY <2>3 DEF WorkerStep, PlannerReturns, CallTools, ToolsReturn, Answer, Exhausted
        <5>3. StepFails(x) => job[x] \in PlanningJob \union ActingJob
          BY <5>1 DEF StepFails, JobType
        <5>4. QED
          BY <5>2, <5>3 DEF PlanningJob, ActingJob
      <4>2. QED
        BY <2>2, <4>1 DEF Idle
    <3>2. QED
      BY <2>1, <2>3, <3>1 DEF WorkerStep, PlannerReturns, CallTools, ToolsReturn, Answer,
            Exhausted, StepFails, NextSubgoal, Finish, TypeOK
  <2>4. ASSUME NEW x \in Session, Tick(x) \/ TickFails(x) \/ CrashInTick(x)
        PROVE  disk'[s] = disk[s]
    <3>1. ASSUME NEW files
          PROVE  Delivered(s, files) = disk[s]
      BY DEF Delivered, AfterHandoff, AfterComplete, Allowed, Terminal
    <3>2. CASE Tick(x) \/ TickFails(x)
      BY <2>1, <3>1, <3>2 DEF Tick, TickFails, TypeOK
    <3>3. CASE CrashInTick(x)
      BY <2>1, <3>3 DEF CrashInTick, AfterHandoff, Allowed, TypeOK
    <3>4. QED
      BY <2>4, <3>2, <3>3
  <2>5. ASSUME NEW x \in Session, CreateSession(x) \/ ArchiveSession(x)
                 \/ ProcessSession(x) \/ DispatchFails(x) \/ RetryWakes(x)
        PROVE  disk'[s] \in {disk[s], "archived"}
    BY <2>1, <2>5 DEF CreateSession, ArchiveSession, ProcessSession, DispatchFails,
                      RetryWakes, Terminal, TypeOK
  <2>6. ASSUME Start \/ Shutdown \/ Exit
        PROVE  disk'[s] = disk[s]
    BY <2>6 DEF Start, Shutdown, Exit
  <2>7. QED
    BY <2>3, <2>4, <2>5, <2>6 DEF Next
<1>2. QED
  BY <1>1, Invariance, PTL DEF Spec, FailureIsFinal

=============================================================================
