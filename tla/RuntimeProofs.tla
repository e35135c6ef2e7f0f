---------------------------- MODULE RuntimeProofs ---------------------------
(***************************************************************************)
(* Proofs about what runs around a session, for any timers, clock, calls   *)
(* of run_session, mounts, writers and consumers: which instants a timer   *)
(* fires on, what the callers of a worker are told, what a confined        *)
(* payload may reach, and how often a message is heard.                    *)
(***************************************************************************)
EXTENDS Scheduler, Workers, Confinement, Mailbox, FiniteSetTheorems, SequenceTheorems, TLAPS

\* The scheduler: a timer that repeats always has a next run, in phase with its first.

\* What the table holds of a timer whose next run can be computed.
RowOf(t) ==
  /\ \A instant \in spent[t] : instant < nextRun[t]
  /\ Kind[t] # "once" => nextRun[t] \in Nat
  /\ Kind[t] = "interval" => (nextRun[t] - anchor[t]) % Every[t] = 0

TableTypes ==
  /\ registers \in Nat
  /\ registered \in SUBSET Timer
  /\ enabled \in [Timer -> BOOLEAN]
  /\ nextRun \in [Timer -> Int] /\ anchor \in [Timer -> Int]
  /\ spent \in [Timer -> SUBSET Int]

ClockTypes == clock \in 0 .. MaxTime /\ setbacks \in Nat /\ loops \in 0 .. MaxLoops /\ serving \in BOOLEAN

Rows == \A t \in registered : ~Malformed(t) => RowOf(t)

SchedulerInv == ClockTypes /\ TableTypes /\ Rows

-----------------------------------------------------------------------------
\* The arithmetic of compute_next_run.
LEMMA SkippedLands ==
  ASSUME NEW due \in Nat, NEW period \in Nat \ {0}, NEW now \in Nat, due <= now
  PROVE  /\ Skipped(due, period, now) \in Nat
         /\ Skipped(due, period, now) > now
         /\ Skipped(due, period, now) - period <= now
  BY DEF Skipped

\* Skipping missed runs keeps the phase of the first.
LEMMA SkippedKeepsPhase ==
  ASSUME NEW due \in Nat, NEW period \in Nat \ {0}, NEW now \in Nat, due <= now,
         NEW first \in Int, (due - first) % period = 0
  PROVE  (Skipped(due, period, now) - first) % period = 0
<1> DEFINE k == (now - due) \div period + 1
<1>1. k \in Int
  OBVIOUS
<1>2. PICK q \in Int : due - first = period * q
  OBVIOUS
<1>3. Skipped(due, period, now) - first = period * (q + k)
  BY <1>1, <1>2 DEF Skipped
<1>4. \A m \in Int : (period * m) % period = 0
  OBVIOUS
<1> QED
  BY <1>1, <1>3, <1>4

\* An instant of an expression is after the present one, by at most a period.
LEMMA AfterInstantLands ==
  ASSUME NEW period \in Nat \ {0}, NEW now \in Nat
  PROVE  /\ AfterInstant(period, now) \in Nat
         /\ AfterInstant(period, now) > now
         /\ AfterInstant(period, now) - period <= now
  BY DEF AfterInstant

\* A timer that is due is moved past its instant and the clock, in phase.
LEMMA NextRunLands ==
  ASSUME NEW t \in Timer, ~Malformed(t), Kind[t] # "once", clock \in Nat,
         NEW due \in Nat, due <= clock
  PROVE  LET next == ComputeNextRun(t, due, clock) IN
         /\ next \in Nat /\ next > clock /\ next - Every[t] <= clock /\ next > due
         /\ \A first \in Int :
              (Kind[t] = "interval" /\ (due - first) % Every[t] = 0) => (next - first) % Every[t] = 0
<1>1. Every[t] \in Nat \ {0} /\ Kind[t] \in {"interval", "cron"}
  BY SchedulerAssumption DEF SchedulerAssumption, Malformed
<1> DEFINE next == ComputeNextRun(t, due, clock)
<1>2. CASE Kind[t] = "interval"
  <2>1. ComputeNextRun(t, due, clock) = Skipped(due, Every[t], clock)
    BY <1>2 DEF ComputeNextRun, NoTime
  <2>2. next \in Nat /\ next > clock /\ next - Every[t] <= clock
    BY <1>1, <2>1, SkippedLands
  <2>3. ASSUME NEW first \in Int, (due - first) % Every[t] = 0 PROVE (next - first) % Every[t] = 0
    BY <1>1, <2>1, <2>3, SkippedKeepsPhase
  <2> HIDE DEF next
  <2>4. next > due
    BY <2>2
  <2> QED
    BY <2>2, <2>3, <2>4 DEF next
<1>3. CASE Kind[t] = "cron"
  <2>1. ComputeNextRun(t, due, clock) = AfterInstant(Every[t], clock)
    BY <1>3 DEF ComputeNextRun
  <2>2. next \in Nat /\ next > clock /\ next - Every[t] <= clock
    BY <1>1, <2>1, AfterInstantLands
  <2> HIDE DEF next
  <2>3. next > due
    BY <2>2
  <2> QED
    BY <1>3, <2>2, <2>3 DEF next
<1> QED
  BY <1>1, <1>2, <1>3

-----------------------------------------------------------------------------
\* A pass fires what is due, and moves what it fires unless it is malformed.
Fired(fired, moved) ==
  /\ fired \in SUBSET Ready /\ moved \in SUBSET Ready
  /\ \A t \in moved : ~Malformed(t)
  /\ \A t \in fired : ~Malformed(t) => t \in moved

\* Whatever stops a pass, it is a fire in this sense.
LEMMA PassFires ==
  ASSUME NEW inProgress, Pass(inProgress)
  PROVE  \E fired, moved \in SUBSET Timer : Fired(fired, moved) /\ Fire(fired, moved)
<1>1. CASE (\A t \in Ready : ~Malformed(t)) /\ Fire(Ready, Ready)
  BY <1>1 DEF Fired, Ready
<1>2. CASE \E broken \in Ready : \E earlier \in SUBSET Ready :
             /\ Malformed(broken) /\ \A t \in earlier : ~Malformed(t)
             /\ Fire(earlier \cup {broken}, earlier)
  BY <1>2 DEF Fired, Ready
<1> QED
  BY <1>1, <1>2 DEF Pass

\* One row of the table after a fire.
LEMMA RowAfterFire ==
  ASSUME ClockTypes, TableTypes, Rows, NEW fired, NEW moved, Fired(fired, moved), Fire(fired, moved),
         NEW t \in registered', ~Malformed(t)
  PROVE  /\ t \in registered /\ RowOf(t)'
         /\ t \in moved => /\ nextRun'[t] > clock /\ nextRun'[t] - Every[t] <= clock
                           /\ Kind[t] = "interval" => (nextRun'[t] - anchor'[t]) % Every[t] = 0
<1> USE SchedulerAssumption DEF SchedulerAssumption, ClockTypes, TableTypes
<1>1. /\ t \in registered /\ t \in Timer /\ RowOf(t) /\ clock \in Nat
      /\ anchor'[t] = anchor[t] /\ anchor[t] \in Int /\ nextRun[t] \in Int
  BY DEF Fire, Rows
<1>2. CASE t \in moved
  <2>1. Kind[t] # "once" /\ nextRun[t] \in Nat /\ nextRun[t] <= clock
    BY <1>1, <1>2 DEF Fire, Fired, Ready, IsDue, RowOf
  <2>2. nextRun'[t] = ComputeNextRun(t, nextRun[t], clock)
    BY <1>1, <1>2, <2>1 DEF Fire
  <2>3. /\ nextRun'[t] \in Nat /\ nextRun'[t] > clock /\ nextRun'[t] - Every[t] <= clock
        /\ nextRun'[t] > nextRun[t]
        /\ Kind[t] = "interval" => (nextRun'[t] - anchor[t]) % Every[t] = 0
    BY <1>1, <2>1, <2>2, NextRunLands DEF RowOf
  <2>4. spent'[t] \in SUBSET (spent[t] \cup {nextRun[t]}) /\ spent[t] \in SUBSET Int
    BY <1>1 DEF Fire
  <2>5. \A instant \in spent'[t] : instant < nextRun'[t]
    BY <1>1, <2>1, <2>3, <2>4 DEF RowOf
  <2> QED
    BY <1>1, <1>2, <2>3, <2>5 DEF RowOf
<1>3. CASE t \notin moved
  <2>1. t \notin fired
    BY <1>3 DEF Fired
  <2>2. nextRun'[t] = nextRun[t] /\ spent'[t] = spent[t]
    BY <1>1, <1>3, <2>1 DEF Fire
  <2> QED
    BY <1>1, <1>3, <2>2 DEF RowOf
<1> QED
  BY <1>2, <1>3

\* A fire keeps the table in order.
LEMMA FireKeepsTable ==
  ASSUME ClockTypes, TableTypes, Rows, NEW fired, NEW moved, Fired(fired, moved), Fire(fired, moved)
  PROVE  TableTypes' /\ Rows'
<1> USE SchedulerAssumption DEF SchedulerAssumption, ClockTypes, TableTypes
<1>1. nextRun' \in [Timer -> Int]
  <2> SUFFICES ASSUME NEW t \in Timer, t \in moved, Kind[t] # "once"
               PROVE ComputeNextRun(t, nextRun[t], clock) \in Int
    BY DEF Fire
  <2>1. ~Malformed(t) /\ t \in registered /\ nextRun[t] <= clock
    BY DEF Fired, Ready, IsDue
  <2>2. nextRun[t] \in Nat
    BY <2>1 DEF Rows, RowOf
  <2>3. ComputeNextRun(t, nextRun[t], clock) \in Nat
    BY <2>1, <2>2, NextRunLands
  <2> QED
    BY <2>3
<1>2. TableTypes'
  BY <1>1 DEF Fire
<1>3. Rows'
  BY RowAfterFire DEF Rows, Malformed
<1> QED
  BY <1>2, <1>3

-----------------------------------------------------------------------------
\* The invariant.
LEMMA SchedulerInvInit == SchedulerInit => SchedulerInv
<1> SUFFICES ASSUME SchedulerInit PROVE SchedulerInv
  OBVIOUS
<1>1. MaxTime \in Nat /\ MaxLoops \in Nat
  BY SchedulerAssumption DEF SchedulerAssumption
<1>2. clock = 0 /\ setbacks = 0 /\ loops = 0 /\ serving = FALSE
  BY DEF SchedulerInit
<1>3. ClockTypes
  <2>1. clock \in 0 .. MaxTime /\ setbacks \in Nat /\ loops \in 0 .. MaxLoops
    BY <1>1, <1>2
  <2>2. serving \in BOOLEAN
    BY <1>2, Zenon
  <2> QED
    BY <2>1, <2>2 DEF ClockTypes
<1>4. TableTypes
  BY DEF SchedulerInit, TableTypes, NoTime
<1>5. Rows
  BY DEF SchedulerInit, Rows
<1> QED
  BY <1>3, <1>4, <1>5 DEF SchedulerInv

\* The clock and the counters stay within their bounds.
LEMMA ClockStep ==
  ASSUME ClockTypes, TableTypes, [SchedulerNext]_schedulerVars PROVE ClockTypes'
<1>1. /\ MaxTime \in Nat /\ MaxLoops \in Nat /\ registers \in Nat
      /\ clock \in 0 .. MaxTime /\ setbacks \in Nat /\ loops \in 0 .. MaxLoops /\ serving \in BOOLEAN
  BY SchedulerAssumption DEF SchedulerAssumption, ClockTypes, TableTypes
<1>2. CASE TimePasses
  BY <1>1, <1>2 DEF TimePasses, ClockTypes
<1>3. CASE SetBack
  BY <1>1, <1>3 DEF SetBack, ClockTypes
<1>4. ASSUME NEW t \in Timer, Register(t) \/ Unregister(t) PROVE ClockTypes'
  BY <1>1, <1>4 DEF Register, Unregister, ClockTypes
<1>5. ASSUME NEW n \in 0 .. MaxLoops, n > 0, Pass(n)
      PROVE  loops' \in 0 .. MaxLoops /\ serving' \in BOOLEAN
  <2>1. (loops' = n /\ serving' = TRUE) \/ (loops' = n - 1 /\ serving' = FALSE)
    BY <1>5 DEF Pass
  <2>2. loops' \in 0 .. MaxLoops
    BY <1>1, <1>5, <2>1
  <2>3. serving' \in BOOLEAN
    BY <2>1, Zenon
  <2> QED
    BY <2>2, <2>3
<1>6. CASE StartLoop
  <2>1. loops + 1 \in 0 .. MaxLoops /\ loops + 1 > 0 /\ Pass(loops + 1) /\ UNCHANGED <<clock, setbacks>>
    BY <1>1, <1>6 DEF StartLoop
  <2>2. loops' \in 0 .. MaxLoops /\ serving' \in BOOLEAN
    BY <1>5, <2>1
  <2> QED
    BY <1>1, <2>1, <2>2 DEF ClockTypes
<1>7. CASE Wake
  <2>1. loops > 0 /\ Pass(loops) /\ UNCHANGED <<clock, setbacks>>
    BY <1>7 DEF Wake
  <2>2. loops' \in 0 .. MaxLoops /\ serving' \in BOOLEAN
    BY <1>1, <1>5, <2>1
  <2> QED
    BY <1>1, <2>1, <2>2 DEF ClockTypes
<1>8. CASE LoopEnds
  <2>1. loops > 0 /\ loops' = loops - 1 /\ clock' = clock /\ setbacks' = setbacks /\ serving' = serving
    BY <1>8 DEF LoopEnds
  <2>2. loops' \in 0 .. MaxLoops
    BY <1>1, <2>1
  <2> QED
    BY <1>1, <2>1, <2>2 DEF ClockTypes
<1>9. CASE StopScheduler
  <2>1. serving' = FALSE /\ clock' = clock /\ setbacks' = setbacks /\ loops' = loops
    BY <1>9 DEF StopScheduler
  <2> QED
    BY <1>1, <2>1 DEF ClockTypes
<1>10. CASE UNCHANGED schedulerVars
  BY <1>1, <1>10 DEF schedulerVars, ClockTypes
<1> QED
  BY <1>2, <1>3, <1>4, <1>6, <1>7, <1>8, <1>9, <1>10 DEF SchedulerNext

\* A timer is registered with a next run that is in phase with itself.
LEMMA RegisterKeepsTable ==
  ASSUME SchedulerInv, NEW t \in Timer, Register(t) PROVE TableTypes' /\ Rows'
<1> USE SchedulerAssumption DEF SchedulerAssumption, SchedulerInv, ClockTypes, TableTypes
<1>1. PICK first \in {NoTime} \cup 0 .. MaxTime, on \in BOOLEAN :
        LET due == IF first # NoTime THEN first ELSE ComputeNextRun(t, NoTime, clock) IN
        /\ registers' = registers + 1
        /\ first = NoTime => ~Malformed(t)
        /\ registered' = registered \cup {t}
        /\ enabled' = [enabled EXCEPT ![t] = on]
        /\ nextRun' = [nextRun EXCEPT ![t] = due]
        /\ anchor' = [anchor EXCEPT ![t] = due]
        /\ spent' = [spent EXCEPT ![t] = {}]
  BY DEF Register
<1> DEFINE due == IF first # NoTime THEN first ELSE ComputeNextRun(t, NoTime, clock)
<1>2. due \in Int /\ (Kind[t] # "once" => due \in Nat)
  <2>1. CASE first # NoTime
    BY <2>1
  <2>2. CASE first = NoTime
    <3>1. ~Malformed(t) /\ Every[t] \in Nat
      BY <1>1, <2>2
    <3>2. CASE Kind[t] = "once"
      BY <2>2, <3>2 DEF ComputeNextRun, NoTime
    <3>3. CASE Kind[t] = "interval"
      BY <2>2, <3>1, <3>3 DEF ComputeNextRun
    <3>4. CASE Kind[t] = "cron"
      <4>1. due = AfterInstant(Every[t], clock)
        BY <2>2, <3>4 DEF ComputeNextRun
      <4>2. Every[t] \in Nat \ {0} /\ clock \in Nat
        BY <3>1, <3>4 DEF Malformed
      <4>3. AfterInstant(Every[t], clock) \in Nat
        BY <4>2, AfterInstantLands
      <4> QED
        BY <4>1, <4>3
    <3> QED
      BY <3>2, <3>3, <3>4
  <2> QED
    BY <2>1, <2>2
<1> HIDE DEF due
<1>3. TableTypes'
  BY <1>1, <1>2 DEF due
<1>4. ASSUME NEW u \in registered', ~Malformed(u) PROVE RowOf(u)'
  <2>1. CASE u = t
    <3>1. nextRun'[u] = due /\ anchor'[u] = due /\ spent'[u] = {}
      BY <1>1, <2>1 DEF due
    <3>2. Kind[u] = "interval" => (due - due) % Every[u] = 0
      <4> SUFFICES ASSUME Kind[u] = "interval" PROVE (due - due) % Every[u] = 0
        OBVIOUS
      <4>1. Every[u] \in Nat \ {0}
        BY <1>4, <2>1 DEF Malformed
      <4>2. due - due = 0
        BY <1>2
      <4> QED
        BY <4>1, <4>2
    <3> QED
      BY <1>2, <2>1, <3>1, <3>2 DEF RowOf
  <2>2. CASE u # t
    <3>1. u \in registered /\ u \in Timer
      BY <1>1, <2>2
    <3>2. nextRun'[u] = nextRun[u] /\ anchor'[u] = anchor[u] /\ spent'[u] = spent[u]
      BY <1>1, <2>2, <3>1
    <3> QED
      BY <1>4, <3>1, <3>2 DEF Rows, RowOf
  <2> QED
    BY <2>1, <2>2
<1> QED
  BY <1>3, <1>4 DEF Rows, Malformed

\* Registering, cancelling and firing keep the table in order.
LEMMA TableStep ==
  ASSUME SchedulerInv, [SchedulerNext]_schedulerVars PROVE TableTypes' /\ Rows'
<1> USE DEF SchedulerInv
<1>1. CASE UNCHANGED table
  BY <1>1 DEF table, TableTypes, Rows, RowOf, Malformed
<1>2. ASSUME NEW t \in Timer, Register(t) PROVE TableTypes' /\ Rows'
  BY <1>2, RegisterKeepsTable
<1>3. ASSUME NEW t \in Timer, Unregister(t) PROVE TableTypes' /\ Rows'
  BY <1>3 DEF Unregister, TableTypes, Rows, RowOf, Malformed, NoTime
<1>4. CASE StartLoop \/ Wake
  <2>1. \E inProgress : Pass(inProgress)
    BY <1>4 DEF StartLoop, Wake
  <2> QED
    BY <2>1, PassFires, FireKeepsTable
<1> QED
  BY <1>1, <1>2, <1>3, <1>4
  DEF SchedulerNext, TimePasses, SetBack, LoopEnds, StopScheduler, schedulerVars, table

\* So the invariant holds of every behaviour.
LEMMA SchedulerInvariant == SchedulerSpec => []SchedulerInv
<1>1. SchedulerInv /\ [SchedulerNext]_schedulerVars => SchedulerInv'
  BY ClockStep, TableStep DEF SchedulerInv
<1> QED
  BY <1>1, SchedulerInvInit, PTL DEF SchedulerSpec

-----------------------------------------------------------------------------
\* The clock, the loops and the table are of their types.
THEOREM SchedulerTypeCorrect == SchedulerSpec => []SchedulerTypeOK
<1>1. SchedulerInv => SchedulerTypeOK
  BY DEF SchedulerInv, ClockTypes, TableTypes, SchedulerTypeOK
<1> QED
  BY <1>1, SchedulerInvariant, PTL

\* For any timers, loops and clock, also one that is set back: what a timer waits
\* for lies after all it has fired.
THEOREM NoInstantTwice == SchedulerSpec => []EachInstantOnce
<1>1. SchedulerInv => EachInstantOnce
  BY DEF SchedulerInv, Rows, RowOf, EachInstantOnce
<1> QED
  BY <1>1, SchedulerInvariant, PTL

\* For any period and any delay: a fire moves its timer to the first instant of its
\* schedule after the clock, in phase with its first run.
THEOREM FiresLand == SchedulerSpec => LandsOnNextInstant
<1> DEFINE Lands ==
      \A t \in registered : (~Malformed(t) /\ Kind[t] # "once" /\ spent'[t] \notin {spent[t], {}}) =>
        /\ nextRun'[t] > clock /\ nextRun'[t] - Every[t] <= clock
        /\ Kind[t] = "interval" => (nextRun'[t] - anchor'[t]) % Every[t] = 0
<1>1. SchedulerInv /\ [SchedulerNext]_schedulerVars => [Lands]_schedulerVars
  <2> SUFFICES ASSUME SchedulerInv, SchedulerNext, NEW t \in registered, ~Malformed(t), Kind[t] # "once",
                      spent'[t] \notin {spent[t], {}}
               PROVE  /\ nextRun'[t] > clock /\ nextRun'[t] - Every[t] <= clock
                      /\ Kind[t] = "interval" => (nextRun'[t] - anchor'[t]) % Every[t] = 0
    OBVIOUS
  <2>1. t \in Timer
    BY DEF SchedulerInv, TableTypes
  <2>2. ~ UNCHANGED table
    BY DEF table
  <2>3. ASSUME NEW u \in Timer, Register(u) \/ Unregister(u) PROVE FALSE
    BY <2>1, <2>3 DEF Register, Unregister, SchedulerInv, TableTypes
  <2>4. CASE StartLoop \/ Wake
    <3>1. \E inProgress : Pass(inProgress)
      BY <2>4 DEF StartLoop, Wake
    <3>2. PICK fired, moved \in SUBSET Timer : Fired(fired, moved) /\ Fire(fired, moved)
      BY <3>1, PassFires
    <3>3. t \in fired
      BY <2>1, <3>2 DEF Fire
    <3>4. t \in moved /\ t \in registered'
      BY <2>1, <3>2, <3>3 DEF Fired, Fire
    <3> QED
      BY <3>2, <3>4, RowAfterFire DEF SchedulerInv
  <2> QED
    BY <2>2, <2>3, <2>4 DEF SchedulerNext, TimePasses, SetBack, LoopEnds, StopScheduler
<1> QED
  BY <1>1, SchedulerInvariant, PTL DEF SchedulerSpec, LandsOnNextInstant

-----------------------------------------------------------------------------
\* Workers: whatever is at work has a caller waiting for it, and what it knows of the record.

InWork == AtWork \cup {"raised"}

\* Only the step of the waiting call is at work, and only one call waits.
Attended ==
  /\ \A c \in Call : step[c] \in InWork => call[c] = "waiting"
  /\ \A c, d \in Call : call[c] = "waiting" /\ call[d] = "waiting" => c = d

\* A step that may still write knows that the record is not final, and has nothing
\* to report; one that is through reports the record as it is.
KnowsTheRecord(c) ==
  /\ step[c] \in {"planning", "executing", "dispatching", "raised"} => record \notin Ended
  /\ step[c] \in {"planning", "executing", "dispatching", "raised", "reporting"} => report[c] = Nothing
  /\ step[c] = "reported" =>
       /\ report[c].terminal => record \in Ended
       /\ ~report[c].terminal /\ ~cut[c] => record \notin Ended
       /\ ~report[c].advanced /\ ~cut[c] => record = before[c]

\* OutcomesTellTheTruth of one call.
IsTold(c) == call[c] = "returned" =>
  /\ step[c] \notin InWork
  /\ outcome[c].terminal => left[c] \in Ended
  /\ ~outcome[c].terminal /\ ~cut[c] /\ step[c] = "gone" => left[c] \notin Ended
  /\ ~outcome[c].advanced /\ ~cut[c] /\ step[c] = "gone" => left[c] = before[c]

WorkersInv ==
  /\ WorkersTypeOK
  /\ ~Abandoned => Attended /\ \A c \in Call : KnowsTheRecord(c) /\ IsTold(c)

-----------------------------------------------------------------------------
\* What a call reports is an outcome.
LEMMA OutcomesAreOutcomes ==
  /\ Nothing \in Outcome
  /\ \A t, a \in BOOLEAN : [terminal |-> t, advanced |-> a] \in Outcome
  BY DEF Nothing, Outcome

\* The types of every step.
LEMMA WorkersTypeInit == WorkersInit => WorkersTypeOK
  BY OutcomesAreOutcomes DEF WorkersInit, WorkersTypeOK, Record, Ended, AtWork

\* Every step keeps the types.
LEMMA WorkersTypeStep == WorkersTypeOK /\ [WorkersNext]_workerVars => WorkersTypeOK'
<1> USE OutcomesAreOutcomes DEF WorkersTypeOK, Record, Ended, AtWork
<1> SUFFICES ASSUME WorkersTypeOK, [WorkersNext]_workerVars PROVE WorkersTypeOK'
  OBVIOUS
<1>1. ASSUME NEW c \in Call, RunSession(c) PROVE WorkersTypeOK'
  BY <1>1 DEF RunSession
<1>2. ASSUME NEW c \in Call, Load(c) PROVE WorkersTypeOK'
  <2>1. [terminal |-> record \in Ended, advanced |-> FALSE] \in Outcome
    BY DEF Outcome
  <2>2. /\ report' \in [Call -> Outcome] /\ handle' \in [Call -> Record] /\ before' \in [Call -> Record]
        /\ UNCHANGED <<record, cut, backend, call, outcome, left>>
    BY <1>2, <2>1 DEF Load, Goes, callerVars
  <2>3. step' \in [Call -> AtWork \cup {"none", "raised", "gone"}]
    BY <1>2 DEF Load, Goes, callerVars
  <2> QED
    BY <2>2, <2>3
<1>3. ASSUME NEW c \in Call, PlannerReturnsStep(c) PROVE WorkersTypeOK'
  BY <1>3 DEF PlannerReturnsStep, Save, callerVars
<1>4. ASSUME NEW c \in Call, LoopHalfReturns(c) PROVE WorkersTypeOK'
  <2>1. CASE \E new \in {"completed", "structured", "escalated"} : Save(c, new, "reporting")
    <3>1. PICK new \in {"completed", "structured", "escalated"} : Save(c, new, "reporting")
      BY <2>1
    <3>2. /\ handle' \in [Call -> Record] /\ record' \in Record
          /\ step' \in [Call -> AtWork \cup {"none", "raised", "gone"}] /\ cut' \in [Call -> BOOLEAN]
      BY <3>1 DEF Save
    <3> QED
      BY <1>4, <3>2 DEF LoopHalfReturns, callerVars
  <2>2. CASE Goes(c, "executing", "reporting") /\ UNCHANGED <<record, handle, cut>>
    BY <1>4, <2>2 DEF LoopHalfReturns, Save, Goes, callerVars
  <2> QED
    BY <1>4, <2>1, <2>2 DEF LoopHalfReturns
<1>5. ASSUME NEW c \in Call, DispatchStructured(c) PROVE WorkersTypeOK'
  BY <1>5 DEF DispatchStructured, Save, callerVars
<1>6. ASSUME NEW c \in Call, StepRaises(c) PROVE WorkersTypeOK'
  BY <1>6 DEF StepRaises, callerVars
<1>7. ASSUME NEW c \in Call, MarkFailed(c) PROVE WorkersTypeOK'
  BY <1>7 DEF MarkFailed, callerVars
<1>8. ASSUME NEW c \in Call, MarkFailedRaises(c) PROVE WorkersTypeOK'
  BY <1>8 DEF MarkFailedRaises, Escapes
<1>9. ASSUME NEW c \in Call, Report(c) PROVE WorkersTypeOK'
  <2>1. Advanced(before[c], record) \in Outcome
    BY DEF Advanced, Outcome
  <2> QED
    BY <1>9, <2>1 DEF Report, Goes, callerVars
<1>10. ASSUME NEW c \in Call, SpawnFails(c) PROVE WorkersTypeOK'
  BY <1>10 DEF SpawnFails, Goes, Hands
<1>11. ASSUME NEW c \in Call, Collect(c) PROVE WorkersTypeOK'
  BY <1>11 DEF Collect, Goes, Hands
<1>12. ASSUME NEW c \in Call, TimesOut(c) PROVE WorkersTypeOK'
  BY <1>12 DEF TimesOut, Hands, Stoppable
<1>13. ASSUME NEW c \in Call, WorkerDies(c) PROVE WorkersTypeOK'
  BY <1>13 DEF WorkerDies, Hands
<1>14. ASSUME NEW c \in Call, CallerCancelled(c) PROVE WorkersTypeOK'
  BY <1>14 DEF CallerCancelled, Stoppable
<1>15. ASSUME NEW c \in Call, LoadFails(c) PROVE WorkersTypeOK'
  BY <1>15 DEF LoadFails, Goes, callerVars
<1>16. ASSUME NEW c \in Call, TraceFails(c) PROVE WorkersTypeOK'
  BY <1>16 DEF TraceFails, Escapes
<1>17. ASSUME NEW c \in Call, ReloadFails(c) PROVE WorkersTypeOK'
  BY <1>17 DEF ReloadFails, Escapes
<1>18. CASE UNCHANGED workerVars
  BY <1>18 DEF workerVars
<1> QED
  BY <1>1, <1>2, <1>3, <1>4, <1>5, <1>6, <1>7, <1>8, <1>9, <1>10, <1>11, <1>12, <1>13, <1>14, <1>15, <1>16, <1>17, <1>18 DEF WorkersNext

-----------------------------------------------------------------------------
\* An abandoned process stays abandoned.
LEMMA AbandonedForGood == WorkersTypeOK /\ [WorkersNext]_workerVars /\ Abandoned => Abandoned'
<1> SUFFICES ASSUME WorkersTypeOK, [WorkersNext]_workerVars, Abandoned PROVE Abandoned'
  OBVIOUS
<1> USE DEF WorkersTypeOK, Abandoned
<1>1. ASSUME NEW c \in Call, RunSession(c) PROVE Abandoned'
  BY <1>1 DEF RunSession
<1>2. ASSUME NEW c \in Call, Load(c) PROVE Abandoned'
  BY <1>2 DEF Load, Goes, callerVars
<1>3. ASSUME NEW c \in Call, PlannerReturnsStep(c) PROVE Abandoned'
  BY <1>3 DEF PlannerReturnsStep, Save, callerVars
<1>4. ASSUME NEW c \in Call, LoopHalfReturns(c) PROVE Abandoned'
  BY <1>4 DEF LoopHalfReturns, Save, Goes, callerVars
<1>5. ASSUME NEW c \in Call, DispatchStructured(c) PROVE Abandoned'
  BY <1>5 DEF DispatchStructured, Save, callerVars
<1>6. ASSUME NEW c \in Call, StepRaises(c) PROVE Abandoned'
  BY <1>6 DEF StepRaises, callerVars
<1>7. ASSUME NEW c \in Call, MarkFailed(c) PROVE Abandoned'
  BY <1>7 DEF MarkFailed, callerVars
<1>8. ASSUME NEW c \in Call, MarkFailedRaises(c) PROVE Abandoned'
  BY <1>8 DEF MarkFailedRaises, Escapes
<1>9. ASSUME NEW c \in Call, Report(c) PROVE Abandoned'
  BY <1>9 DEF Report, Goes, callerVars, Advanced
<1>10. ASSUME NEW c \in Call, SpawnFails(c) PROVE Abandoned'
  BY <1>10 DEF SpawnFails, Goes, Hands
<1>11. ASSUME NEW c \in Call, Collect(c) PROVE Abandoned'
  BY <1>11 DEF Collect, Goes, Hands
<1>12. ASSUME NEW c \in Call, TimesOut(c) PROVE Abandoned'
  BY <1>12 DEF TimesOut, Hands, Stoppable
<1>13. ASSUME NEW c \in Call, WorkerDies(c) PROVE Abandoned'
  BY <1>13 DEF WorkerDies, Hands
<1>14. ASSUME NEW c \in Call, CallerCancelled(c) PROVE Abandoned'
  BY <1>14 DEF CallerCancelled, Stoppable
<1>15. ASSUME NEW c \in Call, LoadFails(c) PROVE Abandoned'
  BY <1>15 DEF LoadFails, Goes, callerVars
<1>16. ASSUME NEW c \in Call, TraceFails(c) PROVE Abandoned'
  BY <1>16 DEF TraceFails, Escapes
<1>17. ASSUME NEW c \in Call, ReloadFails(c) PROVE Abandoned'
  BY <1>17 DEF ReloadFails, Escapes
<1>18. CASE UNCHANGED workerVars
  BY <1>18 DEF workerVars
<1> QED
  BY <1>1, <1>2, <1>3, <1>4, <1>5, <1>6, <1>7, <1>8, <1>9, <1>10, <1>11, <1>12, <1>13, <1>14, <1>15, <1>16, <1>17, <1>18 DEF WorkersNext

\* Attendance.
LEMMA AttendedStep ==
  WorkersTypeOK /\ Attended /\ [WorkersNext]_workerVars /\ ~Abandoned' => Attended'
<1> SUFFICES ASSUME WorkersTypeOK, Attended, [WorkersNext]_workerVars, ~Abandoned' PROVE Attended'
  OBVIOUS
<1> USE DEF WorkersTypeOK, Attended, Abandoned, InWork, AtWork
<1>1. ASSUME NEW c \in Call, RunSession(c) PROVE Attended'
  BY <1>1 DEF RunSession
<1>2. ASSUME NEW c \in Call, Load(c) PROVE Attended'
  BY <1>2 DEF Load, Goes, callerVars
<1>3. ASSUME NEW c \in Call, PlannerReturnsStep(c) PROVE Attended'
  BY <1>3 DEF PlannerReturnsStep, Save, callerVars
<1>4. ASSUME NEW c \in Call, LoopHalfReturns(c) PROVE Attended'
  BY <1>4 DEF LoopHalfReturns, Save, Goes, callerVars
<1>5. ASSUME NEW c \in Call, DispatchStructured(c) PROVE Attended'
  BY <1>5 DEF DispatchStructured, Save, callerVars
<1>6. ASSUME NEW c \in Call, StepRaises(c) PROVE Attended'
  BY <1>6 DEF StepRaises, callerVars
<1>7. ASSUME NEW c \in Call, MarkFailed(c) PROVE Attended'
  BY <1>7 DEF MarkFailed, callerVars
<1>8. ASSUME NEW c \in Call, MarkFailedRaises(c) PROVE Attended'
  BY <1>8 DEF MarkFailedRaises, Escapes
<1>9. ASSUME NEW c \in Call, Report(c) PROVE Attended'
  BY <1>9 DEF Report, Goes, callerVars, Advanced
<1>10. ASSUME NEW c \in Call, SpawnFails(c) PROVE Attended'
  BY <1>10 DEF SpawnFails, Goes, Hands
<1>11. ASSUME NEW c \in Call, Collect(c) PROVE Attended'
  BY <1>11 DEF Collect, Goes, Hands
<1>12. ASSUME NEW c \in Call, TimesOut(c) PROVE Attended'
  BY <1>12 DEF TimesOut, Hands, Stoppable
<1>13. ASSUME NEW c \in Call, WorkerDies(c) PROVE Attended'
  BY <1>13 DEF WorkerDies, Hands
<1>14. ASSUME NEW c \in Call, CallerCancelled(c) PROVE Attended'
  BY <1>14 DEF CallerCancelled, Stoppable
<1>15. ASSUME NEW c \in Call, LoadFails(c) PROVE Attended'
  BY <1>15 DEF LoadFails, Goes, callerVars
<1>16. ASSUME NEW c \in Call, TraceFails(c) PROVE Attended'
  BY <1>16 DEF TraceFails, Escapes
<1>17. ASSUME NEW c \in Call, ReloadFails(c) PROVE Attended'
  BY <1>17 DEF ReloadFails, Escapes
<1>18. CASE UNCHANGED workerVars
  BY <1>18 DEF workerVars
<1> QED
  BY <1>1, <1>2, <1>3, <1>4, <1>5, <1>6, <1>7, <1>8, <1>9, <1>10, <1>11, <1>12, <1>13, <1>14, <1>15, <1>16, <1>17, <1>18 DEF WorkersNext

\* What the steps know and the callers are told.
LEMMA TruthStep ==
  ASSUME WorkersTypeOK, Attended, \A x \in Call : KnowsTheRecord(x) /\ IsTold(x),
         [WorkersNext]_workerVars, NEW x \in Call
  PROVE  (KnowsTheRecord(x) /\ IsTold(x))'
<1> USE OutcomesAreOutcomes DEF WorkersTypeOK, Attended, InWork, AtWork, KnowsTheRecord, IsTold, Ended
<1>1. ASSUME NEW c \in Call, RunSession(c) PROVE (KnowsTheRecord(x) /\ IsTold(x))'
  BY <1>1 DEF RunSession, Nothing
<1>2. ASSUME NEW c \in Call, Load(c) PROVE (KnowsTheRecord(x) /\ IsTold(x))'
  <2>1. CASE x = c
    <3>1. /\ report'[c] = [terminal |-> record \in Ended, advanced |-> FALSE]
          /\ before'[c] = record /\ record' = record /\ call' = call
          /\ step'[c] \in {"reported", "dispatching", "planning"}
      BY <1>2 DEF Load, Goes, callerVars, Nothing
    <3>2. step[c] = "starting" /\ call[c] = "waiting"
      BY <1>2 DEF Load, Goes, callerVars, Nothing
    <3>3. step'[c] # "reported" => record \notin Ended
      BY <1>2 DEF Load, Goes, callerVars, Nothing
    <3>4. record \notin Ended => report'[c] = Nothing
      <4> SUFFICES ASSUME record \notin Ended PROVE report'[c] = Nothing
        OBVIOUS
      <4>1. (record \in Ended) = FALSE
        OBVIOUS
      <4> QED
        BY <3>1, <4>1, Zenon DEF Nothing
    <3>5. report'[c].terminal = (record \in Ended) /\ report'[c].advanced = FALSE
      BY <3>1
    <3>6. KnowsTheRecord(c)'
      BY <3>1, <3>3, <3>4, <3>5
    <3> QED
      BY <2>1, <3>1, <3>2, <3>6
  <2>2. CASE x # c
    BY <1>2, <2>2 DEF Load, Goes, callerVars, Nothing
  <2> QED
    BY <2>1, <2>2
<1>3. ASSUME NEW c \in Call, PlannerReturnsStep(c) PROVE (KnowsTheRecord(x) /\ IsTold(x))'
  <2>1. CASE x = c
    BY <1>3, <2>1 DEF PlannerReturnsStep, Save, callerVars, Nothing
  <2>2. CASE x # c
    BY <1>3, <2>2 DEF PlannerReturnsStep, Save, callerVars, Nothing
  <2> QED
    BY <2>1, <2>2
<1>4. ASSUME NEW c \in Call, LoopHalfReturns(c) PROVE (KnowsTheRecord(x) /\ IsTold(x))'
  <2>1. CASE x = c
    BY <1>4, <2>1 DEF LoopHalfReturns, Save, Goes, callerVars, Nothing
  <2>2. CASE x # c
    BY <1>4, <2>2 DEF LoopHalfReturns, Save, Goes, callerVars, Nothing
  <2> QED
    BY <2>1, <2>2
<1>5. ASSUME NEW c \in Call, DispatchStructured(c) PROVE (KnowsTheRecord(x) /\ IsTold(x))'
  <2>1. CASE x = c
    BY <1>5, <2>1 DEF DispatchStructured, Save, callerVars, Nothing
  <2>2. CASE x # c
    BY <1>5, <2>2 DEF DispatchStructured, Save, callerVars, Nothing
  <2> QED
    BY <2>1, <2>2
<1>6. ASSUME NEW c \in Call, StepRaises(c) PROVE (KnowsTheRecord(x) /\ IsTold(x))'
  <2>1. CASE x = c
    BY <1>6, <2>1 DEF StepRaises, callerVars, Nothing
  <2>2. CASE x # c
    BY <1>6, <2>2 DEF StepRaises, callerVars, Nothing
  <2> QED
    BY <2>1, <2>2
<1>7. ASSUME NEW c \in Call, MarkFailed(c) PROVE (KnowsTheRecord(x) /\ IsTold(x))'
  <2>1. CASE x = c
    BY <1>7, <2>1 DEF MarkFailed, callerVars, Nothing
  <2>2. CASE x # c
    BY <1>7, <2>2 DEF MarkFailed, callerVars, Nothing
  <2> QED
    BY <2>1, <2>2
<1>8. ASSUME NEW c \in Call, MarkFailedRaises(c) PROVE (KnowsTheRecord(x) /\ IsTold(x))'
  <2>1. CASE x = c
    BY <1>8, <2>1 DEF MarkFailedRaises, Escapes, Nothing
  <2>2. CASE x # c
    BY <1>8, <2>2 DEF MarkFailedRaises, Escapes, Nothing
  <2> QED
    BY <2>1, <2>2
<1>9. ASSUME NEW c \in Call, Report(c) PROVE (KnowsTheRecord(x) /\ IsTold(x))'
  <2>1. CASE x = c
    BY <1>9, <2>1 DEF Report, Goes, callerVars, Advanced, Nothing
  <2>2. CASE x # c
    BY <1>9, <2>2 DEF Report, Goes, callerVars, Advanced, Nothing
  <2> QED
    BY <2>1, <2>2
<1>10. ASSUME NEW c \in Call, SpawnFails(c) PROVE (KnowsTheRecord(x) /\ IsTold(x))'
  <2>1. CASE x = c
    BY <1>10, <2>1 DEF SpawnFails, Goes, Hands, Nothing
  <2>2. CASE x # c
    BY <1>10, <2>2 DEF SpawnFails, Goes, Hands, Nothing
  <2> QED
    BY <2>1, <2>2
<1>11. ASSUME NEW c \in Call, Collect(c) PROVE (KnowsTheRecord(x) /\ IsTold(x))'
  <2>1. CASE x = c
    BY <1>11, <2>1 DEF Collect, Goes, Hands, Nothing
  <2>2. CASE x # c
    BY <1>11, <2>2 DEF Collect, Goes, Hands, Nothing
  <2> QED
    BY <2>1, <2>2
<1>12. ASSUME NEW c \in Call, TimesOut(c) PROVE (KnowsTheRecord(x) /\ IsTold(x))'
  <2>1. CASE x = c
    BY <1>12, <2>1 DEF TimesOut, Hands, Stoppable, Nothing
  <2>2. CASE x # c
    BY <1>12, <2>2 DEF TimesOut, Hands, Stoppable, Nothing
  <2> QED
    BY <2>1, <2>2
<1>13. ASSUME NEW c \in Call, WorkerDies(c) PROVE (KnowsTheRecord(x) /\ IsTold(x))'
  <2>1. CASE x = c
    BY <1>13, <2>1 DEF WorkerDies, Hands, Nothing
  <2>2. CASE x # c
    BY <1>13, <2>2 DEF WorkerDies, Hands, Nothing
  <2> QED
    BY <2>1, <2>2
<1>14. ASSUME NEW c \in Call, CallerCancelled(c) PROVE (KnowsTheRecord(x) /\ IsTold(x))'
  <2>1. CASE x = c
    BY <1>14, <2>1 DEF CallerCancelled, Stoppable, Nothing
  <2>2. CASE x # c
    BY <1>14, <2>2 DEF CallerCancelled, Stoppable, Nothing
  <2> QED
    BY <2>1, <2>2
<1>15. ASSUME NEW c \in Call, LoadFails(c) PROVE (KnowsTheRecord(x) /\ IsTold(x))'
  <2>1. CASE x = c
    BY <1>15, <2>1 DEF LoadFails, Goes, callerVars, Nothing
  <2>2. CASE x # c
    BY <1>15, <2>2 DEF LoadFails, Goes, callerVars, Nothing
  <2> QED
    BY <2>1, <2>2
<1>16. ASSUME NEW c \in Call, TraceFails(c) PROVE (KnowsTheRecord(x) /\ IsTold(x))'
  <2>1. CASE x = c
    BY <1>16, <2>1 DEF TraceFails, Escapes, Nothing
  <2>2. CASE x # c
    BY <1>16, <2>2 DEF TraceFails, Escapes, Nothing
  <2> QED
    BY <2>1, <2>2
<1>17. ASSUME NEW c \in Call, ReloadFails(c) PROVE (KnowsTheRecord(x) /\ IsTold(x))'
  <2>1. CASE x = c
    BY <1>17, <2>1 DEF ReloadFails, Escapes, Nothing
  <2>2. CASE x # c
    BY <1>17, <2>2 DEF ReloadFails, Escapes, Nothing
  <2> QED
    BY <2>1, <2>2
<1>18. CASE UNCHANGED workerVars
  BY <1>18 DEF workerVars
<1> QED
  BY <1>1, <1>2, <1>3, <1>4, <1>5, <1>6, <1>7, <1>8, <1>9, <1>10, <1>11, <1>12, <1>13, <1>14, <1>15, <1>16, <1>17, <1>18 DEF WorkersNext

\* At first nobody is at work.
LEMMA WorkersInvInit == WorkersInit => WorkersInv
<1> SUFFICES ASSUME WorkersInit PROVE WorkersInv
  OBVIOUS
<1>1. WorkersTypeOK
  BY WorkersTypeInit
<1>2. Attended /\ \A c \in Call : KnowsTheRecord(c) /\ IsTold(c)
  BY DEF WorkersInit, Attended, KnowsTheRecord, IsTold, InWork, AtWork
<1> QED
  BY <1>1, <1>2 DEF WorkersInv

\* Every step keeps the invariant.
LEMMA WorkersInvStep == WorkersInv /\ [WorkersNext]_workerVars => WorkersInv'
<1> SUFFICES ASSUME WorkersInv, [WorkersNext]_workerVars PROVE WorkersInv'
  OBVIOUS
<1>1. WorkersTypeOK /\ WorkersTypeOK'
  BY WorkersTypeStep DEF WorkersInv
<1>2. ~Abandoned' => ~Abandoned
  BY <1>1, AbandonedForGood
<1>3. ~Abandoned' => Attended'
  BY <1>1, <1>2, AttendedStep DEF WorkersInv
<1>4. ~Abandoned' => \A x \in Call : (KnowsTheRecord(x) /\ IsTold(x))'
  <2> SUFFICES ASSUME ~Abandoned', NEW x \in Call PROVE (KnowsTheRecord(x) /\ IsTold(x))'
    OBVIOUS
  <2>1. Attended /\ \A c \in Call : KnowsTheRecord(c) /\ IsTold(c)
    BY <1>2 DEF WorkersInv
  <2> QED
    BY <1>1, <2>1, TruthStep
<1> QED
  BY <1>1, <1>3, <1>4 DEF WorkersInv

\* So the invariant holds of every behaviour.
LEMMA WorkersInvariant == WorkersSpec => []WorkersInv
  BY WorkersInvInit, WorkersInvStep, PTL DEF WorkersSpec

-----------------------------------------------------------------------------
\* The variables of every caller, worker and record are of their types.
THEOREM WorkersTypeCorrect == WorkersSpec => []WorkersTypeOK
<1>1. WorkersInv => WorkersTypeOK
  BY DEF WorkersInv
<1> QED
  BY <1>1, WorkersInvariant, PTL

\* For any number of calls and either backend: an outcome that says the session has
\* ended is right about the record, whatever failed; one that says it has not, or that
\* nothing happened, is right if the step was not cut short and could load and save it.
THEOREM OutcomesTrue == WorkersSpec => []OutcomesTellTheTruth
<1>1. WorkersInv => OutcomesTellTheTruth
  BY DEF WorkersInv, IsTold, OutcomesTellTheTruth
<1> QED
  BY <1>1, WorkersInvariant, PTL

\* For any number of calls and either backend: no step that times out, dies or is
\* repeated moves the record of an ended session.
THEOREM EndedStaysEnded == WorkersSpec => EndedUnlessAbandoned
<1>1. WorkersInv /\ [WorkersNext]_workerVars => [(record \in Ended /\ ~Abandoned) => record' = record]_workerVars
  <2> SUFFICES ASSUME WorkersInv, WorkersNext, record \in Ended, ~Abandoned PROVE record' = record
    OBVIOUS
  <2>1. \A c \in Call : KnowsTheRecord(c)
    BY DEF WorkersInv
  <2>2. PICK c \in Call :
          \/ RunSession(c) \/ Load(c) \/ LoadFails(c) \/ TraceFails(c) \/ PlannerReturnsStep(c) \/ LoopHalfReturns(c)
          \/ DispatchStructured(c) \/ StepRaises(c) \/ MarkFailed(c) \/ MarkFailedRaises(c)
          \/ Report(c) \/ ReloadFails(c)
          \/ SpawnFails(c) \/ Collect(c) \/ TimesOut(c) \/ WorkerDies(c) \/ CallerCancelled(c)
    BY DEF WorkersNext
  <2>3. CASE RunSession(c) \/ Load(c) \/ LoadFails(c) \/ TraceFails(c) \/ StepRaises(c)
             \/ MarkFailedRaises(c) \/ Report(c) \/ ReloadFails(c)
             \/ SpawnFails(c) \/ Collect(c) \/ TimesOut(c) \/ WorkerDies(c) \/ CallerCancelled(c)
    BY <2>3 DEF RunSession, Load, LoadFails, TraceFails, StepRaises, MarkFailedRaises, Report, ReloadFails,
                SpawnFails, Collect,
                TimesOut, WorkerDies, CallerCancelled
  <2>4. CASE PlannerReturnsStep(c) \/ LoopHalfReturns(c) \/ DispatchStructured(c) \/ MarkFailed(c)
    BY <2>1, <2>4 DEF PlannerReturnsStep, LoopHalfReturns, DispatchStructured, MarkFailed,
                      Save, Goes, KnowsTheRecord
  <2> QED
    BY <2>2, <2>3, <2>4
<1> QED
  BY <1>1, WorkersInvariant, PTL DEF WorkersSpec, EndedUnlessAbandoned

-----------------------------------------------------------------------------
\* Confinement: how far the ruleset is, and what the kernel makes of it.

\* The paths the policy lists, and what a rule of the shim grants for one.
Listed == readonly \cup {"session"}
Granted(p, abi) ==
  (IF p = "session" THEN ReadRights \cup WriteRights ELSE ReadRights) \cap ChooseHandledAccess(abi)

\* How far the ruleset of the shim is.
RulesetInv ==
  /\ launch \in {"unused", "made", "shim"} => \A p \in Path : ruleset[p] = {}
  /\ launch = "ruleset" =>
       \A p \in Path : ruleset[p] = IF p \in Listed \ ungranted THEN Granted(p, host.abi) ELSE {}
  /\ launch \in {"sealed", "restricted"} =>
       \A p \in Path : ruleset[p] = IF p \in Listed THEN Granted(p, host.abi) ELSE {}

\* What the kernel lets the process do once it is confined.
AccessInv ==
  /\ launch = "restricted" \/ (launch = "payload" /\ isolation = "landlock") =>
       \A p \in Path : access[p] = (Right \ ChooseHandledAccess(host.abi))
                                   \cup (IF p \in Listed THEN Granted(p, host.abi) ELSE {})
  /\ launch = "payload" /\ isolation = "sandbox-exec" => \A p \in Path : access[p] = Promised(p)

ConfinementInv ==
  /\ readonly \subseteq Path
  /\ ruleset \in [Path -> SUBSET Right]
  /\ launch = "profiled" => isolation = "sandbox-exec"
  /\ launch \in {"shim", "ruleset", "sealed", "restricted"} => isolation = "landlock"
  /\ launch = "shim" => ungranted = Listed
  /\ launch = "ruleset" => ungranted \subseteq Listed
  /\ RulesetInv /\ AccessInv

\* Under a policy that confines, the payload runs with what was promised, or not at all.
THEOREM PayloadsAreConfined == ConfinementSpec => []ConfinedOrNotAtAll
<1>1. ConfinementInit => ConfinementInv
  BY DEF ConfinementInit, ConfinementInv, RulesetInv, AccessInv
<1>2. ConfinementInv /\ [ConfinementNext]_confinementVars => ConfinementInv'
  <2> SUFFICES ASSUME ConfinementInv, [ConfinementNext]_confinementVars
               PROVE  ConfinementInv'
    OBVIOUS
  <2> USE DEF ConfinementInv, RulesetInv, AccessInv, Listed, Promised
  <2>1. CASE MakeWorker
    <3>1. readonly' \subseteq Path
      BY <2>1 DEF MakeWorker, Path
    <3> QED
      BY <2>1, <3>1 DEF MakeWorker, Proceeds
  <2>2. CASE SpawnUnconfined
    BY <2>2 DEF SpawnUnconfined, Proceeds, Unchanged
  <2>3. CASE SpawnShim
    BY <2>3 DEF SpawnShim, Proceeds, Unchanged
  <2>4. CASE WriteProfile
    BY <2>4 DEF WriteProfile, Proceeds, Ends, Unchanged
  <2>5. CASE SpawnFindsNothing
    BY <2>5 DEF SpawnFindsNothing, Ends, Unchanged
  <2>6. CASE SandboxRuns
    BY <2>6 DEF SandboxRuns, Ends, Unchanged
  <2>7. CASE CreateRuleset
    BY <2>7 DEF CreateRuleset, Proceeds, Unchanged
  <2>8. CASE SetNoNewPrivs
    BY <2>8 DEF SetNoNewPrivs, Proceeds, Unchanged
  <2>9. CASE RestrictSelf
    BY <2>9 DEF RestrictSelf, Proceeds, Unchanged
  <2>10. CASE Exec
    BY <2>10 DEF Exec, Proceeds, Unchanged
  <2>11. CASE ShimFails
    BY <2>11 DEF ShimFails, Ends, Unchanged
  <2>12. CASE EnterPayload
    BY <2>12 DEF EnterPayload, Ends, Unchanged
  <2>13. ASSUME NEW p \in Path, Vanish(p)
         PROVE  ConfinementInv'
    BY <2>13 DEF Vanish
  <2>14. ASSUME NEW p \in Path, AddPath(p)
         PROVE  ConfinementInv'
    <3>1. /\ launch = "ruleset" /\ launch' = "ruleset" /\ p \in ungranted
          /\ ruleset' = [ruleset EXCEPT ![p] = @ \cup Granted(p, host.abi)]
          /\ ungranted' = ungranted \ {p}
          /\ UNCHANGED <<host, isolation, readonly, access>>
      BY <2>14 DEF AddPath, Granted, Unchanged
    <3>2. Granted(p, host.abi) \subseteq Right
      BY DEF Granted, Right
    <3>3. ruleset' \in [Path -> SUBSET Right]
      BY <3>1, <3>2
    <3> QED
      BY <3>1, <3>3
  <2>15. CASE UNCHANGED confinementVars
    BY <2>15 DEF confinementVars
  <2> QED
    BY <2>1, <2>2, <2>3, <2>4, <2>5, <2>6, <2>7, <2>8, <2>9, <2>10, <2>11, <2>12, <2>13,
       <2>14, <2>15 DEF ConfinementNext
<1>3. ConfinementInv => ConfinedOrNotAtAll
  <2> SUFFICES ASSUME ConfinementInv
               PROVE  ConfinedOrNotAtAll
    OBVIOUS
  <2>1. ReadRights \cup WriteRights \subseteq ChooseHandledAccess(host.abi)
    BY DEF ReadRights, WriteRights, ChooseHandledAccess, Right
  <2> QED
    BY <2>1 DEF ConfinementInv, AccessInv, Listed, Granted, Promised, ConfinedOrNotAtAll, Path, Right
<1> QED
  BY <1>1, <1>2, <1>3, PTL DEF ConfinementSpec

-----------------------------------------------------------------------------
\* Message files: who holds them, and in which order.

\* A message whose file was at some time older than the grace period.
Ripe(m) == place[m] \notin {"unsent", "young", "overwritten"}

\* While the clock was not set back, the messages of a writer ripen in its order.
Sendings ==
  /\ IsFiniteSet({m \in Message : place[m] # "unsent"})
  /\ \A m \in Message : place[m] = "unsent" => form[m] = "good"
  /\ \A w \in Writer, j, k \in 1 .. MaxSent :
       j < k /\ place[<<w, k>>] # "unsent" => place[<<w, j>>] # "unsent"

Clocked ==
  faults = 0 =>
    /\ \A m \in Message : stamp[m] <= wall
    /\ \A w \in Writer, j, k \in 1 .. MaxSent : j < k =>
         /\ place[<<w, k>>] # "unsent" => stamp[<<w, j>>] <= stamp[<<w, k>>]
         /\ Ripe(<<w, k>>) => Ripe(<<w, j>>) \/ place[<<w, j>>] = "overwritten"

\* What is in a consumer's hands was archived by it, can be read, and is in no other
\* hands; what it has listed was sent, and is ripe unless the clock was set back.
Holdings ==
  /\ \A c \in Consumer : \A i \in DOMAIN taken[c] :
       place[taken[c][i]] = "archive" /\ form[taken[c][i]] = "good" /\ handled[taken[c][i]] = 0
  /\ \A c, d \in Consumer : \A i \in DOMAIN taken[c], j \in DOMAIN taken[d] :
       taken[c][i] = taken[d][j] => c = d /\ i = j

Desks ==
  /\ \A c \in Consumer : listing[c] # <<>> \/ taken[c] # <<>> => c \in polling
  /\ \A c \in Consumer : \A i \in DOMAIN listing[c] :
       place[listing[c][i]] # "unsent" /\ (faults = 0 => Ripe(listing[c][i]))
  /\ \A c \in Consumer : opened[c] => listing[c] # <<>> /\ form[Head(listing[c])] = "good"

Once ==
  /\ \A m \in Message :
       /\ handled[m] <= 1
       /\ handled[m] = 1 => place[m] = "archive" /\ form[m] = "good"
       /\ place[m] = "archive" => handled[m] = 1 \/ InHands(m) \/ m \in lost
  /\ lost # {} => faults > 0 \/ \E m \in Message : form[m] = "undecodable"
  /\ faults = 0 => \A m \in Message : place[m] \in {"errors", "deleted"} => form[m] # "good"

\* A message no consumer will hear any more.
Gone(m) == m \in lost \/ place[m] = "overwritten"

\* Of two messages of a writer the later one is handled, is in a consumer's hands or
\* is listed only behind the earlier one, or when that has gone.
Behind(m, n) ==
  /\ handled[n] = 1 => handled[m] = 1 \/ Gone(m)
  /\ \A c \in Consumer : \A q \in DOMAIN taken[c] : taken[c][q] = n =>
       handled[m] = 1 \/ Gone(m) \/ \E p \in 1 .. q - 1 : taken[c][p] = m
  /\ \A c \in Consumer : \A q \in DOMAIN listing[c] : listing[c][q] = n =>
       place[m] # "pending" \/ \E p \in 1 .. q - 1 : listing[c][p] = m

Quiet == faults = 0 /\ \A c, d \in polling : c = d

\* Two messages of a writer that their names order, the first of which can be read.
Ordered(w, j, k) == j < k /\ form[<<w, j>>] = "good" /\ stamp[<<w, j>>] # stamp[<<w, k>>]

InTurn ==
  Quiet => \A w \in Writer, j, k \in 1 .. MaxSent :
    Ordered(w, j, k) => Behind(<<w, j>>, <<w, k>>)

MailboxInv == MailboxTypeOK /\ Sendings /\ Clocked /\ Holdings /\ Desks /\ Once /\ InTurn

\* A sequence that lists a finite set once lists all of it.
LEMMA ListsAll ==
  ASSUME NEW S, IsFiniteSet(S), NEW l \in SetToSeqs(S)
  PROVE  l \in Seq(S) /\ \A x \in S : \E i \in DOMAIN l : l[i] = x
<1> DEFINE n == Cardinality(S)
<1>1. n \in Nat
  BY FS_CardinalityType
<1>2. l \in [1 .. n -> S] /\ \A i, j \in 1 .. n : i # j => l[i] # l[j]
  BY DEF SetToSeqs
<1>3. l \in Injection(1 .. n, S)
  BY <1>2 DEF Injection, IsInjective
<1>4. Cardinality(1 .. n) = n
  <2> HIDE DEF n
  <2> QED
    BY <1>1, FS_Interval
<1>5. l \in Surjection(1 .. n, S)
  BY <1>3, <1>4, FS_Injection
<1> HIDE DEF n
<1> QED
  BY <1>1, <1>2, <1>5 DEF Surjection

\* What is made of the initial state.
LEMMA MailboxInvInit == MailboxInit => MailboxInv
<1> SUFFICES ASSUME MailboxInit PROVE MailboxInv
  OBVIOUS
<1> USE DEF MailboxInit
<1>1. MailboxTypeOK
  BY MailboxAssumption DEF MailboxTypeOK, Place, Form
<1>2. Sendings /\ Clocked
  <2>1. {m \in Message : place[m] # "unsent"} = {}
    OBVIOUS
  <2>2. \A w \in Writer, k \in 1 .. MaxSent : place[<<w, k>>] = "unsent"
    BY DEF Message
  <2>3. Sendings
    BY <2>1, <2>2, FS_EmptySet DEF Sendings
  <2>4. Clocked
    BY <2>2 DEF Clocked, Ripe, Message
  <2> QED
    BY <2>3, <2>4
<1>3. Holdings /\ Desks
  BY DEF Holdings, Desks
<1>4. Once
  BY DEF Once
<1>5. InTurn
  BY DEF InTurn, Ordered, Message
<1> QED
  BY <1>1, <1>2, <1>3, <1>4, <1>5 DEF MailboxInv

\* Where no message is sent, the sendings rest, and so does their order if no message
\* becomes young again.
LEMMA SendingsRest ==
  ASSUME MailboxInv, MailboxTypeOK', UNCHANGED <<stamp, form>>,
         \A m \in Message : place[m] = "unsent" <=> place'[m] = "unsent",
         faults' = 0 => /\ faults = 0 /\ wall <= wall'
                        /\ \A m \in Message : Ripe(m) <=> Ripe(m)'
                        /\ \A m \in Message : place[m] = "overwritten" => place'[m] = "overwritten"
  PROVE  Sendings' /\ Clocked'
<1>1. {m \in Message : place'[m] # "unsent"} = {m \in Message : place[m] # "unsent"}
  OBVIOUS
<1>2. Sendings'
  <2>1. \A w \in Writer, j, k \in 1 .. MaxSent :
          j < k /\ place'[<<w, k>>] # "unsent" => place'[<<w, j>>] # "unsent"
    BY DEF MailboxInv, Sendings, Message
  <2> QED
    BY <1>1, <2>1 DEF MailboxInv, Sendings
<1>3. ASSUME faults' = 0
      PROVE  /\ \A m \in Message : stamp[m] <= wall'
             /\ \A w \in Writer, j, k \in 1 .. MaxSent : j < k =>
                  /\ place'[<<w, k>>] # "unsent" => stamp[<<w, j>>] <= stamp[<<w, k>>]
                  /\ Ripe(<<w, k>>)' => Ripe(<<w, j>>)' \/ place'[<<w, j>>] = "overwritten"
  <2>1. \A m \in Message : stamp[m] <= wall'
    <3>1. \A m \in Message : stamp[m] \in Nat /\ stamp[m] <= wall /\ wall \in Nat /\ wall' \in Nat
      BY <1>3, MailboxAssumption DEF MailboxInv, Clocked, MailboxTypeOK
    <3> QED
      BY <1>3, <3>1
  <2>2. ASSUME NEW w \in Writer, NEW j \in 1 .. MaxSent, NEW k \in 1 .. MaxSent, j < k
        PROVE  /\ place'[<<w, k>>] # "unsent" => stamp[<<w, j>>] <= stamp[<<w, k>>]
               /\ Ripe(<<w, k>>)' => Ripe(<<w, j>>)' \/ place'[<<w, j>>] = "overwritten"
    <3>1. <<w, j>> \in Message /\ <<w, k>> \in Message
      BY DEF Message
    <3>2. place'[<<w, k>>] # "unsent" => stamp[<<w, j>>] <= stamp[<<w, k>>]
      BY <1>3, <2>2, <3>1 DEF MailboxInv, Clocked
    <3>3. ASSUME Ripe(<<w, k>>)'
          PROVE  Ripe(<<w, j>>)' \/ place'[<<w, j>>] = "overwritten"
      <4>1. Ripe(<<w, j>>) \/ place[<<w, j>>] = "overwritten"
        BY <1>3, <2>2, <3>1, <3>3 DEF MailboxInv, Clocked
      <4>2. CASE Ripe(<<w, j>>)
        BY <1>3, <3>1, <4>2
      <4>3. CASE place[<<w, j>>] = "overwritten"
        BY <1>3, <3>1, <4>3
      <4> QED
        BY <4>1, <4>2, <4>3
    <3> QED
      BY <3>2, <3>3
  <2> QED
    BY <2>1, <2>2
<1> QED
  BY <1>2, <1>3 DEF Clocked

\* Where no message moves and no consumer gets on, the rest stays as it is.
LEMMA OthersRest ==
  ASSUME MailboxInv, MailboxTypeOK', wall <= wall',
         UNCHANGED <<place, stamp, form, polling, listing, taken, handled, lost, faults>>
  PROVE  Sendings' /\ Clocked' /\ Holdings' /\ Once' /\ InTurn'
<1>1. Sendings' /\ Clocked'
  BY SendingsRest DEF Ripe
<1>2. Holdings'
  BY DEF MailboxInv, Holdings
<1>3. Once'
  BY DEF MailboxInv, Once, InHands
<1>4. InTurn'
  <2> SUFFICES ASSUME Quiet, NEW w \in Writer, NEW j \in 1 .. MaxSent, NEW k \in 1 .. MaxSent,
                      Ordered(w, j, k)
               PROVE  Behind(<<w, j>>, <<w, k>>)'
    BY DEF InTurn, Quiet, Ordered
  <2>1. Behind(<<w, j>>, <<w, k>>)
    BY DEF MailboxInv, InTurn
  <2>2. Gone(<<w, j>>) => Gone(<<w, j>>)'
    BY DEF Gone
  <2> QED
    BY <2>1, <2>2 DEF Behind
<1> QED
  BY <1>1, <1>2, <1>3, <1>4

\* A message is published: it was in no listing and in no hands.  One it replaces is in
\* no listing either.
LEMMA PublishStep ==
  ASSUME MailboxInv, NEW w \in Writer, NEW k \in 1 .. MaxSent, Publish(w, k)
  PROVE  MailboxInv'
<1> DEFINE n == <<w, k>>
<1>1. /\ n \in Message /\ place[n] = "unsent"
      /\ \A j \in 1 .. k - 1 : place[<<w, j>>] # "unsent"
      /\ stamp' = [stamp EXCEPT ![n] = wall]
      /\ UNCHANGED <<wall, polling, listing, taken, opened, handled, lost, faults>>
  BY DEF Publish, Message
<1>2. MailboxTypeOK
  BY DEF MailboxInv
<1>3. PICK f \in Form : form' = [form EXCEPT ![n] = f]
  BY DEF Publish
<1>4. /\ place' \in [Message -> Place] /\ place'[n] = "young"
      /\ \A m \in Message : m # n => \/ place'[m] = place[m]
                                     \/ place[m] = "young" /\ place'[m] = "overwritten" /\ ~InListing(m)
  <2>1. CASE place' = [place EXCEPT ![n] = "young"]
    BY <1>1, <1>2, <2>1 DEF MailboxTypeOK, Place
  <2>2. CASE \E o \in Message : /\ place[o] = "young" /\ stamp[o] = wall /\ ~InListing(o)
                                /\ place' = [place EXCEPT ![n] = "young", ![o] = "overwritten"]
    <3>1. PICK o \in Message : /\ place[o] = "young" /\ ~InListing(o)
                               /\ place' = [place EXCEPT ![n] = "young", ![o] = "overwritten"]
      BY <2>2
    <3>2. o # n
      BY <1>1, <3>1
    <3> HIDE DEF n
    <3> QED
      BY <1>1, <1>2, <3>1, <3>2 DEF MailboxTypeOK, Place
  <2> QED
    BY <2>1, <2>2 DEF Publish
<1> HIDE DEF n
<1>5. /\ \A m \in Message : m # n => stamp'[m] = stamp[m] /\ form'[m] = form[m]
      /\ stamp'[n] = wall
  BY <1>1, <1>2, <1>3 DEF MailboxTypeOK
<1>6. MailboxTypeOK'
  <2>1. stamp' \in [Message -> 0 .. MaxMillis] /\ form' \in [Message -> Form]
    BY <1>1, <1>2, <1>3, MailboxAssumption DEF MailboxTypeOK
  <2> QED
    BY <1>1, <1>2, <1>4, <2>1 DEF MailboxTypeOK
<1>7. /\ \A m \in Message : Ripe(m)' <=> Ripe(m)
      /\ \A m \in Message : place'[m] # "unsent" <=> place[m] # "unsent" \/ m = n
      /\ \A m \in Message : place[m] = "overwritten" => place'[m] = "overwritten"
      /\ \A m \in Message : place'[m] = "archive" <=> place[m] = "archive"
  BY <1>1, <1>4 DEF Ripe
<1>8. Sendings'
  <2>1. {m \in Message : place'[m] # "unsent"} = {m \in Message : place[m] # "unsent"} \cup {n}
    BY <1>1, <1>7
  <2>2. IsFiniteSet({m \in Message : place'[m] # "unsent"})
    BY <2>1, FS_AddElement DEF MailboxInv, Sendings
  <2>3. \A m \in Message : place'[m] = "unsent" => form'[m] = "good"
    BY <1>5, <1>7 DEF MailboxInv, Sendings
  <2>4. ASSUME NEW v \in Writer, NEW j \in 1 .. MaxSent, NEW i \in 1 .. MaxSent, j < i,
               place'[<<v, i>>] # "unsent"
        PROVE  place'[<<v, j>>] # "unsent"
    <3>1. <<v, j>> \in Message /\ <<v, i>> \in Message
      BY DEF Message
    <3>2. CASE <<v, i>> = n
      <4>1. v = w /\ i = k /\ j \in 1 .. k - 1
        BY <2>4, <3>2 DEF n
      <4> QED
        BY <1>1, <1>7, <3>1, <4>1
    <3>3. CASE <<v, i>> # n
      <4>1. place[<<v, j>>] # "unsent"
        BY <1>7, <2>4, <3>1, <3>3 DEF MailboxInv, Sendings
      <4> QED
        BY <1>7, <3>1, <4>1
    <3> QED
      BY <3>2, <3>3
  <2> QED
    BY <2>2, <2>3, <2>4 DEF Sendings
<1>9. Clocked'
  <2> SUFFICES ASSUME faults = 0
               PROVE  /\ \A m \in Message : stamp'[m] <= wall
                      /\ \A v \in Writer, j, i \in 1 .. MaxSent : j < i =>
                           /\ place'[<<v, i>>] # "unsent" => stamp'[<<v, j>>] <= stamp'[<<v, i>>]
                           /\ Ripe(<<v, i>>)' => Ripe(<<v, j>>)' \/ place'[<<v, j>>] = "overwritten"
    BY <1>1 DEF Clocked
  <2>1. \A m \in Message : stamp[m] <= wall
    BY DEF MailboxInv, Clocked
  <2>2. \A m \in Message : stamp'[m] <= wall
    <3>1. wall <= wall
      BY <1>2, MailboxAssumption DEF MailboxTypeOK
    <3> QED
      BY <1>5, <2>1, <3>1
  <2>3. ASSUME NEW v \in Writer, NEW j \in 1 .. MaxSent, NEW i \in 1 .. MaxSent, j < i
        PROVE  /\ place'[<<v, i>>] # "unsent" => stamp'[<<v, j>>] <= stamp'[<<v, i>>]
               /\ Ripe(<<v, i>>)' => Ripe(<<v, j>>)' \/ place'[<<v, j>>] = "overwritten"
    <3>1. <<v, j>> \in Message /\ <<v, i>> \in Message /\ <<v, j>> # <<v, i>>
      BY <2>3 DEF Message
    <3>2. Ripe(<<v, i>>)' => Ripe(<<v, j>>)' \/ place'[<<v, j>>] = "overwritten"
      BY <1>7, <2>3, <3>1 DEF MailboxInv, Clocked
    <3>3. CASE <<v, i>> = n
      BY <1>5, <2>1, <3>1, <3>2, <3>3
    <3>4. ASSUME <<v, i>> # n, place'[<<v, i>>] # "unsent"
          PROVE  stamp'[<<v, j>>] <= stamp'[<<v, i>>]
      <4>1. place[<<v, i>>] # "unsent"
        BY <1>7, <3>1, <3>4
      <4>2. place[<<v, j>>] # "unsent" /\ stamp[<<v, j>>] <= stamp[<<v, i>>]
        BY <2>3, <4>1 DEF MailboxInv, Sendings, Clocked
      <4>3. <<v, j>> # n
        BY <1>1, <4>2
      <4> QED
        BY <1>5, <3>1, <3>4, <4>2, <4>3
    <3> QED
      BY <3>2, <3>3, <3>4
  <2> QED
    BY <2>2, <2>3
<1>10. \A c \in Consumer : \A i \in DOMAIN taken[c] : taken[c][i] \in Message /\ taken[c][i] # n
  BY <1>1, <1>2 DEF MailboxInv, Holdings, MailboxTypeOK
<1>11. \A c \in Consumer : \A i \in DOMAIN listing[c] : listing[c][i] \in Message /\ listing[c][i] # n
  BY <1>1, <1>2 DEF MailboxInv, Desks, MailboxTypeOK
<1>12. Holdings'
  <2>1. \A c \in Consumer : \A i \in DOMAIN taken[c] :
          place'[taken[c][i]] = "archive" /\ form'[taken[c][i]] = "good" /\ handled[taken[c][i]] = 0
    BY <1>5, <1>7, <1>10 DEF MailboxInv, Holdings
  <2> QED
    BY <1>1, <2>1 DEF MailboxInv, Holdings
<1>13. Desks'
  <2>1. \A c \in Consumer : \A i \in DOMAIN listing[c] :
          place'[listing[c][i]] # "unsent" /\ (faults = 0 => Ripe(listing[c][i])')
    BY <1>1, <1>7, <1>11 DEF MailboxInv, Desks
  <2>2. ASSUME NEW c \in Consumer, opened[c]
        PROVE  listing[c] # <<>> /\ form'[Head(listing[c])] = "good"
    <3>1. listing[c] # <<>> /\ form[Head(listing[c])] = "good" /\ listing[c] \in Seq(Message)
      BY <1>2, <2>2 DEF MailboxInv, Desks, MailboxTypeOK
    <3>2. Head(listing[c]) = listing[c][1] /\ 1 \in DOMAIN listing[c]
      BY <3>1
    <3> QED
      BY <1>5, <1>11, <3>1, <3>2
  <2>3. \A c \in Consumer : listing[c] # <<>> \/ taken[c] # <<>> => c \in polling
    BY DEF MailboxInv, Desks
  <2> QED
    BY <1>1, <2>1, <2>2, <2>3 DEF Desks, Ripe
<1>14. Once'
  <2>1. ASSUME NEW m \in Message
        PROVE  /\ handled[m] <= 1
               /\ handled[m] = 1 => place'[m] = "archive" /\ form'[m] = "good"
               /\ place'[m] = "archive" => handled[m] = 1 \/ InHands(m) \/ m \in lost
    BY <1>1, <1>5, <1>7 DEF MailboxInv, Once
  <2>2. faults = 0 => \A m \in Message : place'[m] \in {"errors", "deleted"} => form'[m] # "good"
    BY <1>4, <1>5 DEF MailboxInv, Once
  <2>3. \A m \in Message : InHands(m)' <=> InHands(m)
    BY <1>1 DEF InHands
  <2>4. \A m \in Message : form[m] = "undecodable" => form'[m] = "undecodable"
    BY <1>1, <1>5 DEF MailboxInv, Sendings
  <2> QED
    BY <1>1, <2>1, <2>2, <2>3, <2>4 DEF MailboxInv, Once
<1>15. InTurn'
  <2> SUFFICES ASSUME Quiet, NEW v \in Writer, NEW j \in 1 .. MaxSent, NEW i \in 1 .. MaxSent,
                      Ordered(v, j, i)'
               PROVE  Behind(<<v, j>>, <<v, i>>)'
    BY <1>1 DEF InTurn, Quiet
  <2>1. <<v, j>> \in Message /\ <<v, i>> \in Message /\ j < i
    BY DEF Message, Ordered
  <2>2. CASE place[<<v, i>>] = "unsent"
    <3>1. handled[<<v, i>>] # 1
      BY <2>1, <2>2 DEF MailboxInv, Once
    <3>2. \A c \in Consumer : \A q \in DOMAIN taken[c] : taken[c][q] # <<v, i>>
      BY <2>2 DEF MailboxInv, Holdings
    <3>3. \A c \in Consumer : \A q \in DOMAIN listing[c] : listing[c][q] # <<v, i>>
      BY <2>2 DEF MailboxInv, Desks
    <3> QED
      BY <1>1, <3>1, <3>2, <3>3 DEF Behind
  <2>3. CASE place[<<v, i>>] # "unsent"
    <3>1. <<v, j>> # n /\ <<v, i>> # n
      BY <1>1, <2>1, <2>3 DEF MailboxInv, Sendings
    <3>2. Ordered(v, j, i)
      BY <1>5, <2>1, <3>1 DEF Ordered
    <3>3. Behind(<<v, j>>, <<v, i>>)
      BY <3>2 DEF MailboxInv, InTurn
    <3>4. Gone(<<v, j>>) => Gone(<<v, j>>)'
      BY <1>1, <1>7, <2>1 DEF Gone
    <3>5. place'[<<v, j>>] = "pending" => place[<<v, j>>] = "pending"
      BY <1>4, <2>1, <3>1
    <3> QED
      BY <1>1, <3>3, <3>4, <3>5 DEF Behind
  <2> QED
    BY <2>2, <2>3
<1> QED
  BY <1>6, <1>8, <1>9, <1>12, <1>13, <1>14, <1>15 DEF MailboxInv

\* A message grows older, after those its writer sent before it.
LEMMA RipenStep ==
  ASSUME MailboxInv, NEW w \in Writer, NEW k \in 1 .. MaxSent, Ripen(w, k)
  PROVE  MailboxInv'
<1> DEFINE n == <<w, k>>
<1>1. /\ n \in Message /\ place[n] = "young"
      /\ \A j \in 1 .. MaxSent : place[<<w, j>>] = "young" =>
           stamp[n] < stamp[<<w, j>>] \/ (stamp[n] = stamp[<<w, j>>] /\ k <= j)
      /\ place' = [place EXCEPT ![n] = "pending"]
      /\ UNCHANGED <<stamp, form, wall, polling, listing, taken, opened, handled, lost, faults>>
  BY DEF Ripen, Message
<1>2. MailboxTypeOK
  BY DEF MailboxInv
<1>3. place'[n] = "pending" /\ \A m \in Message : m # n => place'[m] = place[m]
  BY <1>1, <1>2 DEF MailboxTypeOK
<1>4. MailboxTypeOK'
  BY <1>1, <1>2 DEF MailboxTypeOK, Place
<1>5. ASSUME faults = 0, NEW j \in 1 .. MaxSent, j < k
      PROVE  Ripe(<<w, j>>) \/ place[<<w, j>>] = "overwritten"
  <2>1. place[<<w, j>>] # "unsent"
    BY <1>1, <1>5 DEF MailboxInv, Sendings
  <2>2. stamp[<<w, j>>] <= stamp[<<w, k>>]
    BY <1>1, <1>5 DEF MailboxInv, Clocked
  <2>3. stamp[<<w, j>>] \in Nat /\ stamp[<<w, k>>] \in Nat
    BY <1>2, MailboxAssumption DEF MailboxTypeOK, Message
  <2>4. place[<<w, j>>] # "young"
    BY <1>1, <1>5, <2>2, <2>3
  <2> QED
    BY <2>1, <2>4 DEF Ripe
<1> HIDE DEF n
<1>6. Sendings'
  <2>1. {m \in Message : place'[m] # "unsent"} = {m \in Message : place[m] # "unsent"}
    BY <1>1, <1>3
  <2>2. \A m \in Message : place'[m] = "unsent" <=> place[m] = "unsent"
    BY <1>1, <1>3
  <2>3. \A v \in Writer, j, i \in 1 .. MaxSent :
          j < i /\ place'[<<v, i>>] # "unsent" => place'[<<v, j>>] # "unsent"
    BY <2>2 DEF MailboxInv, Sendings, Message
  <2> QED
    BY <1>1, <2>1, <2>2, <2>3 DEF MailboxInv, Sendings
<1>7. Clocked'
  <2> SUFFICES ASSUME faults = 0
               PROVE  /\ \A m \in Message : stamp[m] <= wall
                      /\ \A v \in Writer, j, i \in 1 .. MaxSent : j < i =>
                           /\ place'[<<v, i>>] # "unsent" => stamp[<<v, j>>] <= stamp[<<v, i>>]
                           /\ Ripe(<<v, i>>)' => Ripe(<<v, j>>)' \/ place'[<<v, j>>] = "overwritten"
    BY <1>1 DEF Clocked
  <2>1. \A m \in Message : stamp[m] <= wall
    BY DEF MailboxInv, Clocked
  <2>2. ASSUME NEW v \in Writer, NEW j \in 1 .. MaxSent, NEW i \in 1 .. MaxSent, j < i
        PROVE  /\ place'[<<v, i>>] # "unsent" => stamp[<<v, j>>] <= stamp[<<v, i>>]
               /\ Ripe(<<v, i>>)' => Ripe(<<v, j>>)' \/ place'[<<v, j>>] = "overwritten"
    <3>1. <<v, j>> \in Message /\ <<v, i>> \in Message
      BY DEF Message
    <3>2. place'[<<v, i>>] # "unsent" => stamp[<<v, j>>] <= stamp[<<v, i>>]
      BY <1>1, <1>3, <2>2, <3>1 DEF MailboxInv, Clocked
    <3>3. CASE <<v, i>> = n
      <4>1. v = w /\ i = k /\ <<v, j>> # n
        BY <2>2, <3>3 DEF n
      <4> QED
        BY <1>3, <1>5, <2>2, <3>1, <3>2, <4>1 DEF Ripe
    <3>4. CASE <<v, i>> # n
      <4>1. Ripe(<<v, i>>)' => Ripe(<<v, j>>) \/ place[<<v, j>>] = "overwritten"
        BY <1>3, <2>2, <3>1, <3>4 DEF MailboxInv, Clocked, Ripe
      <4> QED
        BY <1>1, <1>3, <3>1, <3>2, <4>1 DEF Ripe
    <3> QED
      BY <3>3, <3>4
  <2> QED
    BY <2>1, <2>2
<1>8. \A c \in Consumer : \A i \in DOMAIN taken[c] : taken[c][i] \in Message /\ taken[c][i] # n
  BY <1>1, <1>2 DEF MailboxInv, Holdings, MailboxTypeOK
<1>9. \A c \in Consumer : \A i \in DOMAIN listing[c] : listing[c][i] \in Message
  BY <1>2 DEF MailboxTypeOK
<1>10. Holdings'
  <2>1. \A c \in Consumer : \A i \in DOMAIN taken[c] :
          place'[taken[c][i]] = "archive" /\ form[taken[c][i]] = "good" /\ handled[taken[c][i]] = 0
    BY <1>3, <1>8 DEF MailboxInv, Holdings
  <2> QED
    BY <1>1, <2>1 DEF MailboxInv, Holdings
<1>11. Desks'
  <2>1. \A m \in Message : (place[m] # "unsent" => place'[m] # "unsent") /\ (Ripe(m) => Ripe(m)')
    BY <1>1, <1>3 DEF Ripe
  <2>2. \A c \in Consumer : \A i \in DOMAIN listing[c] :
          place'[listing[c][i]] # "unsent" /\ (faults = 0 => Ripe(listing[c][i])')
    BY <1>1, <1>9, <2>1 DEF MailboxInv, Desks
  <2> QED
    BY <1>1, <2>2 DEF MailboxInv, Desks, Ripe
<1>12. Once'
  <2>1. \A m \in Message : InHands(m)' <=> InHands(m)
    BY <1>1 DEF InHands
  <2>2. \A m \in Message :
          /\ handled[m] <= 1
          /\ handled[m] = 1 => place'[m] = "archive" /\ form[m] = "good"
          /\ place'[m] = "archive" => handled[m] = 1 \/ InHands(m) \/ m \in lost
    BY <1>1, <1>3 DEF MailboxInv, Once
  <2>3. faults = 0 => \A m \in Message : place'[m] \in {"errors", "deleted"} => form[m] # "good"
    BY <1>3 DEF MailboxInv, Once
  <2> QED
    BY <1>1, <2>1, <2>2, <2>3 DEF MailboxInv, Once
<1>13. InTurn'
  <2> SUFFICES ASSUME Quiet, NEW v \in Writer, NEW j \in 1 .. MaxSent, NEW i \in 1 .. MaxSent,
                      Ordered(v, j, i)
               PROVE  Behind(<<v, j>>, <<v, i>>)'
    BY <1>1 DEF InTurn, Quiet, Ordered
  <2>1. Behind(<<v, j>>, <<v, i>>)
    BY DEF MailboxInv, InTurn
  <2>2. <<v, j>> \in Message /\ j < i
    BY DEF Message, Ordered
  <2>3. \A c \in Consumer : \A q \in DOMAIN listing[c] : listing[c][q] = <<v, i>> =>
          Ripe(<<v, j>>) \/ place[<<v, j>>] = "overwritten"
    BY <2>2 DEF MailboxInv, Desks, Clocked, Quiet
  <2>4. Ripe(<<v, j>>) \/ place[<<v, j>>] = "overwritten" => place'[<<v, j>>] = place[<<v, j>>]
    BY <1>1, <1>3, <2>2 DEF Ripe
  <2>5. Gone(<<v, j>>) => Gone(<<v, j>>)'
    BY <1>1, <1>3, <2>2 DEF Gone
  <2> QED
    BY <1>1, <2>1, <2>3, <2>4, <2>5 DEF Behind
<1> QED
  BY <1>4, <1>6, <1>7, <1>10, <1>11, <1>12, <1>13 DEF MailboxInv

\* The clock goes on.
LEMMA TickStep == ASSUME MailboxInv, Tick PROVE MailboxInv'
<1>1. /\ UNCHANGED <<place, stamp, form, polling, listing, taken, opened, handled, lost, faults>>
      /\ MailboxTypeOK /\ wall' = wall + 1 /\ wall < MaxMillis
  BY DEF Tick, MailboxInv
<1>2. wall' \in 1 .. MaxMillis /\ wall <= wall'
  BY <1>1, MailboxAssumption DEF MailboxTypeOK
<1>3. MailboxTypeOK'
  BY <1>1, <1>2 DEF MailboxTypeOK
<1>4. Sendings' /\ Clocked' /\ Holdings' /\ Once' /\ InTurn'
  BY <1>1, <1>2, <1>3, OthersRest
<1>5. Desks'
  BY <1>1 DEF MailboxInv, Desks, Ripe
<1> QED
  BY <1>3, <1>4, <1>5 DEF MailboxInv

\* The clock is set back, which is remembered; what was old may be young again.
LEMMA ClockTurnsBackStep == ASSUME MailboxInv, ClockTurnsBack PROVE MailboxInv'
<1>1. MailboxTypeOK
  BY DEF MailboxInv
<1>2. /\ UNCHANGED <<stamp, form, polling, listing, taken, opened, handled, lost>>
      /\ faults' \in 0 .. MaxFaults /\ faults' > 0
  BY <1>1, MailboxAssumption DEF ClockTurnsBack, MailboxTypeOK
<1>3. PICK t \in 1 .. wall - 1, since \in 1 .. wall - 1 :
        /\ wall' = t
        /\ place' = [m \in Message |-> IF place[m] = "pending" /\ stamp[m] >= since THEN "young" ELSE place[m]]
  BY DEF ClockTurnsBack
<1>4. /\ place' \in [Message -> Place]
      /\ \A m \in Message : \/ place'[m] = place[m]
                            \/ place[m] = "pending" /\ place'[m] = "young"
  BY <1>1, <1>3 DEF MailboxTypeOK, Place
<1>5. wall' \in 1 .. MaxMillis
  BY <1>1, <1>3, MailboxAssumption DEF MailboxTypeOK
<1>6. MailboxTypeOK'
  BY <1>1, <1>2, <1>4, <1>5 DEF MailboxTypeOK
<1>7. Sendings' /\ Clocked'
  BY <1>2, <1>4, <1>6, SendingsRest
<1>8. /\ \A m \in Message : place'[m] = "archive" <=> place[m] = "archive"
      /\ \A m \in Message : place[m] # "unsent" => place'[m] # "unsent"
  BY <1>4
<1>9. Holdings'
  <2>1. \A c \in Consumer : \A i \in DOMAIN taken[c] : taken[c][i] \in Message
    BY <1>1 DEF MailboxTypeOK
  <2> QED
    BY <1>2, <1>8, <2>1 DEF MailboxInv, Holdings
<1>10. Desks'
  <2>1. \A c \in Consumer : \A i \in DOMAIN listing[c] : listing[c][i] \in Message
    BY <1>1 DEF MailboxTypeOK
  <2> QED
    BY <1>2, <1>8, <2>1 DEF MailboxInv, Desks
<1>11. Once'
  BY <1>2, <1>8 DEF MailboxInv, Once, InHands
<1>12. InTurn'
  BY <1>2 DEF InTurn, Quiet
<1> QED
  BY <1>6, <1>7, <1>9, <1>10, <1>11, <1>12 DEF MailboxInv

\* What is left of a sequence behind its head.
LEMMA TailOf ==
  ASSUME NEW S, NEW s \in Seq(S), s # <<>>
  PROVE  /\ Tail(s) \in Seq(S) /\ Head(s) = s[1] /\ 1 \in DOMAIN s /\ s[1] \in S
         /\ \A i \in DOMAIN Tail(s) : i + 1 \in DOMAIN s /\ Tail(s)[i] = s[i + 1]
         /\ \A i \in DOMAIN s : i # 1 => i - 1 \in DOMAIN Tail(s) /\ Tail(s)[i - 1] = s[i]
         /\ DOMAIN s \subseteq Nat /\ (\A i \in DOMAIN s : i >= 1)
         /\ DOMAIN Tail(s) \subseteq Nat /\ (\A i \in DOMAIN Tail(s) : i >= 1)
  OBVIOUS

\* The places before the one after q.
LEMMA UpToIt == \A q \in Nat : 1 .. (q + 1) - 1 = 1 .. q
  OBVIOUS

\* A consumer lists the ripe files: every one of them, those of a writer in its order.
LEMMA PollStep ==
  ASSUME MailboxInv, NEW c \in Consumer, Poll(c)
  PROVE  MailboxInv'
<1> DEFINE ripe == {m \in Message : place[m] = "pending"}
<1>1. /\ c \in polling /\ listing[c] = <<>> /\ taken[c] = <<>>
      /\ UNCHANGED <<place, stamp, form, wall, polling, taken, opened, handled, lost, faults>>
  BY DEF Poll, IdleConsumer
<1>2. PICK l \in Listings : l # <<>> /\ listing' = [listing EXCEPT ![c] = l]
  BY DEF Poll
<1>3. MailboxTypeOK
  BY DEF MailboxInv
<1>4. IsFiniteSet(ripe)
  <2>1. ripe \in SUBSET {m \in Message : place[m] # "unsent"}
    OBVIOUS
  <2> HIDE DEF ripe
  <2> QED
    BY <2>1, FS_Subset DEF MailboxInv, Sendings
<1>5. l \in Seq(ripe) /\ \A m \in ripe : \E p \in DOMAIN l : l[p] = m
  <2>1. l \in SetToSeqs(ripe)
    BY <1>2 DEF Listings
  <2> HIDE DEF ripe
  <2> QED
    BY <1>4, <2>1, ListsAll
<1>6. l \in Seq(Message) /\ DOMAIN l \subseteq Nat /\ \A p \in DOMAIN l : l[p] \in Message /\ place[l[p]] = "pending" /\ p >= 1
  <2>1. \A p \in 1 .. Len(l) : l[p] \in ripe
    BY <1>5
  <2> QED
    BY <1>5, <2>1
<1>7. listing'[c] = l /\ \A d \in Consumer : d # c => listing'[d] = listing[d]
  BY <1>2, <1>3 DEF MailboxTypeOK
<1>8. MailboxTypeOK'
  BY <1>1, <1>2, <1>3, <1>6 DEF MailboxTypeOK
<1>9. Sendings' /\ Clocked' /\ Holdings' /\ Once'
  <2>1. Sendings' /\ Clocked'
    BY <1>1 DEF MailboxInv, Sendings, Clocked, Ripe
  <2>2. Holdings' /\ Once'
    BY <1>1 DEF MailboxInv, Holdings, Once, InHands
  <2> QED
    BY <2>1, <2>2
<1>10. Desks'
  <2>1. \A d \in Consumer : listing'[d] # <<>> \/ taken[d] # <<>> => d \in polling
    BY <1>1, <1>7 DEF MailboxInv, Desks
  <2>2. \A d \in Consumer : \A i \in DOMAIN listing'[d] :
          place[listing'[d][i]] # "unsent" /\ (faults = 0 => Ripe(listing'[d][i]))
    BY <1>6, <1>7 DEF MailboxInv, Desks, Ripe
  <2>3. \A d \in Consumer : opened[d] => listing'[d] # <<>> /\ form[Head(listing'[d])] = "good"
    BY <1>1, <1>7 DEF MailboxInv, Desks
  <2> QED
    BY <1>1, <2>1, <2>2, <2>3 DEF Desks, Ripe
<1>11. InTurn'
  <2> SUFFICES ASSUME Quiet, NEW w \in Writer, NEW j \in 1 .. MaxSent, NEW k \in 1 .. MaxSent,
                      Ordered(w, j, k)
               PROVE  Behind(<<w, j>>, <<w, k>>)'
    BY <1>1 DEF InTurn, Quiet, Ordered
  <2>1. Behind(<<w, j>>, <<w, k>>)
    BY DEF MailboxInv, InTurn
  <2>2. <<w, j>> \in Message
    BY DEF Message
  <2>3. ASSUME NEW d \in Consumer, NEW q \in DOMAIN listing'[d], listing'[d][q] = <<w, k>>,
               place[<<w, j>>] = "pending"
        PROVE  \E p \in 1 .. q - 1 : listing'[d][p] = <<w, j>>
    <3>1. CASE d = c
      <4>1. q \in DOMAIN l /\ l[q] = <<w, k>>
        BY <1>7, <2>3, <3>1
      <4>2. PICK p \in DOMAIN l : l[p] = <<w, j>>
        BY <1>5, <2>2, <2>3
      <4>3. p < q
        <5>1. <<w, k>> \in Message /\ place[<<w, k>>] = "pending" /\ <<w, j>> \in Message
          BY <1>6, <4>1, <2>2
        <5>2. stamp[<<w, j>>] <= stamp[<<w, k>>] /\ stamp[<<w, j>>] # stamp[<<w, k>>]
          BY <5>1 DEF MailboxInv, Clocked, Quiet, Ordered
        <5>3. stamp[<<w, j>>] < stamp[<<w, k>>]
          <6>1. stamp[<<w, j>>] \in Nat /\ stamp[<<w, k>>] \in Nat
            BY <1>3, <5>1, MailboxAssumption DEF MailboxTypeOK
          <6> QED
            BY <5>2, <6>1
        <5> QED
          BY <1>2, <4>1, <4>2, <5>3 DEF Listings
      <4>4. p \in Nat /\ q \in Nat /\ p >= 1
        BY <1>6, <4>1
      <4> QED
        BY <1>7, <3>1, <4>2, <4>3, <4>4
    <3>2. CASE d # c
      BY <1>7, <2>1, <2>3, <3>2 DEF Behind
    <3> QED
      BY <3>1, <3>2
  <2> QED
    BY <1>1, <2>1, <2>3 DEF Behind, Gone
<1> QED
  BY <1>8, <1>9, <1>10, <1>11 DEF MailboxInv

\* The head of a listing is left behind, and its file with it if there is nothing to be
\* read in it.
LEMMA PassedOver ==
  ASSUME MailboxInv, NEW c \in Consumer, listing[c] # <<>>, Passes(c), NEW to \in Place,
         place' = [place EXCEPT ![Head(listing[c])] = to],
         to = place[Head(listing[c])] \/ (There(Head(listing[c])) /\ to \in {"errors", "deleted"}),
         faults' = 0 => faults = 0 /\ to # "pending" /\ (to \in {"errors", "deleted"} => form[Head(listing[c])] # "good"),
         faults' \in 0 .. MaxFaults, faults <= faults',
         UNCHANGED <<stamp, form, wall, polling, handled>>
  PROVE  MailboxInv'
<1>1. MailboxTypeOK
  BY DEF MailboxInv
<1>2. PICK n \in Message : n = Head(listing[c])
  BY <1>1, TailOf DEF MailboxTypeOK
<1>3. /\ place'[n] = to /\ \A m \in Message : m # n => place'[m] = place[m]
      /\ place' \in [Message -> Place]
      /\ UNCHANGED <<taken, lost>>
  BY <1>1, <1>2 DEF MailboxTypeOK, Passes
<1>4. PICK l \in Seq(Message) : l = listing[c]
  BY <1>1 DEF MailboxTypeOK
<1>5. PICK t \in Seq(Message) : t = Tail(l) /\ t = Tail(listing[c])
  BY <1>4, TailOf
<1>6. /\ listing'[c] = t /\ \A d \in Consumer : d # c => listing'[d] = listing[d]
      /\ opened'[c] = FALSE /\ \A d \in Consumer : d # c => opened'[d] = opened[d]
  BY <1>5, <1>1, <1>4 DEF Passes, MailboxTypeOK
<1>7. /\ l[1] = n /\ 1 \in DOMAIN l
      /\ \A i \in DOMAIN t : i + 1 \in DOMAIN l /\ t[i] = l[i + 1]
      /\ \A i \in DOMAIN l : i # 1 => i - 1 \in DOMAIN t /\ t[i - 1] = l[i]
      /\ DOMAIN l \subseteq Nat /\ \A i \in DOMAIN l : i >= 1
      /\ DOMAIN t \subseteq Nat
  BY <1>5, <1>2, <1>4, TailOf
<1>8. MailboxTypeOK'
  <2>1. listing' \in [Consumer -> Seq(Message)] /\ opened' \in [Consumer -> BOOLEAN]
    BY <1>5, <1>1 DEF Passes, MailboxTypeOK
  <2> QED
    BY <1>1, <1>3, <2>1 DEF MailboxTypeOK
<1>9. /\ to = place[n] \/ (There(n) /\ to \in {"errors", "deleted"})
      /\ faults' = 0 => faults = 0 /\ to # "pending" /\ (to \in {"errors", "deleted"} => form[n] # "good")
  BY <1>2
<1>10. faults = 0 => Ripe(n)
  BY <1>2, <1>4, <1>7 DEF MailboxInv, Desks
<1>11. Sendings' /\ Clocked'
  <2>1. \A m \in Message : place[m] = "unsent" <=> place'[m] = "unsent"
    BY <1>3, <1>9 DEF There
  <2>2. faults = 0 => /\ \A m \in Message : Ripe(m) <=> Ripe(m)'
                      /\ \A m \in Message : place[m] = "overwritten" => place'[m] = "overwritten"
    BY <1>3, <1>9, <1>10 DEF Ripe, There
  <2>3. wall <= wall'
    BY <1>1, MailboxAssumption DEF MailboxTypeOK
  <2> QED
    BY <1>8, <1>9, <2>1, <2>2, <2>3, SendingsRest
<1>12. /\ \A m \in Message : place[m] = "archive" <=> place'[m] = "archive"
       /\ \A m \in Message : place[m] # "unsent" => place'[m] # "unsent"
       /\ \A m \in Message : Ripe(m) => Ripe(m)'
       /\ \A m \in Message : Gone(m) => Gone(m)'
  BY <1>3, <1>9 DEF There, Ripe, Gone
<1>13. Holdings'
  <2>1. \A d \in Consumer : \A i \in DOMAIN taken[d] : taken[d][i] \in Message
    BY <1>1 DEF MailboxTypeOK
  <2> QED
    BY <1>3, <1>12, <2>1 DEF MailboxInv, Holdings
<1>14. Desks'
  <2>1. \A d \in Consumer : listing'[d] # <<>> \/ taken[d] # <<>> => d \in polling
    BY <1>3, <1>6 DEF MailboxInv, Desks
  <2>2. ASSUME NEW d \in Consumer, NEW i \in DOMAIN listing'[d]
        PROVE  place'[listing'[d][i]] # "unsent" /\ (faults' = 0 => place'[listing'[d][i]] \notin {"unsent", "young", "overwritten"})
    <3>1. \E x \in DOMAIN listing[d] : listing'[d][i] = listing[d][x]
      <4>1. CASE d = c
        BY <1>4, <1>6, <1>7, <4>1
      <4>2. CASE d # c
        BY <1>6, <4>2
      <4> QED
        BY <4>1, <4>2
    <3>2. PICK x \in DOMAIN listing[d] : listing'[d][i] = listing[d][x]
      BY <3>1
    <3>3. listing[d][x] \in Message /\ place[listing[d][x]] # "unsent" /\ (faults = 0 => Ripe(listing[d][x]))
      BY <1>1 DEF MailboxInv, Desks, MailboxTypeOK
    <3> QED
      BY <1>9, <1>12, <3>2, <3>3 DEF Ripe
  <2>3. \A d \in Consumer : opened'[d] => listing'[d] # <<>> /\ form[Head(listing'[d])] = "good"
    BY <1>6 DEF MailboxInv, Desks
  <2> QED
    BY <1>3, <2>1, <2>2, <2>3 DEF Desks, Ripe
<1>15. Once'
  <2>1. \A m \in Message : InHands(m)' <=> InHands(m)
    BY <1>3 DEF InHands
  <2>2. faults' = 0 => \A m \in Message : place'[m] \in {"errors", "deleted"} => form[m] # "good"
    BY <1>3, <1>9 DEF MailboxInv, Once
  <2>3. lost # {} => faults' > 0 \/ \E m \in Message : form[m] = "undecodable"
    BY <1>1, MailboxAssumption DEF MailboxInv, Once, MailboxTypeOK
  <2> QED
    BY <1>3, <1>12, <2>1, <2>2, <2>3 DEF MailboxInv, Once
<1>16. InTurn'
  <2> SUFFICES ASSUME faults' = 0, \A d, e \in polling : d = e,
                      NEW w \in Writer, NEW j \in 1 .. MaxSent, NEW k \in 1 .. MaxSent,
                      Ordered(w, j, k)
               PROVE  Behind(<<w, j>>, <<w, k>>)'
    BY DEF InTurn, Quiet, Ordered
  <2>1. Behind(<<w, j>>, <<w, k>>)
    BY <1>9 DEF MailboxInv, InTurn, Quiet
  <2>2. <<w, j>> \in Message /\ (place[<<w, j>>] # "pending" => place'[<<w, j>>] # "pending")
    <3>1. <<w, j>> \in Message
      BY DEF Message
    <3> QED
      BY <1>3, <1>9, <3>1
  <2>3. ASSUME NEW d \in Consumer, NEW q \in DOMAIN listing[d], listing[d][q] = <<w, k>>,
               place'[<<w, j>>] = "pending"
        PROVE  \E p \in 1 .. q - 1 : listing[d][p] = <<w, j>>
    BY <2>1, <2>2, <2>3 DEF Behind
  <2>4. ASSUME NEW d \in Consumer, NEW q \in DOMAIN listing'[d], listing'[d][q] = <<w, k>>,
               place'[<<w, j>>] = "pending"
        PROVE  \E p \in 1 .. q - 1 : listing'[d][p] = <<w, j>>
    <3>1. CASE d = c
      <4>1. q \in Nat /\ q + 1 \in DOMAIN l /\ l[q + 1] = <<w, k>>
        BY <1>6, <1>7, <2>4, <3>1
      <4>2. PICK p \in 1 .. q : l[p] = <<w, j>>
        <5>1. PICK x \in DOMAIN l : x = q + 1
          BY <4>1
        <5>2. c \in Consumer /\ x \in DOMAIN listing[c] /\ listing[c][x] = <<w, k>>
          BY <1>4, <4>1, <5>1
        <5>3. \E p \in 1 .. x - 1 : listing[c][p] = <<w, j>>
          BY <2>4, <2>3, <5>2
        <5>4. \E p \in 1 .. x - 1 : l[p] = <<w, j>>
          BY <1>4, <5>3
        <5>5. 1 .. x - 1 = 1 .. q
          BY <4>1, <5>1, UpToIt
        <5> QED
          BY <5>4, <5>5
      <4>3. p # 1
        BY <1>3, <1>7, <1>9, <2>4, <4>2
      <4>4. p \in DOMAIN l
        BY <1>7, <4>1, <4>2
      <4>5. p - 1 \in 1 .. q - 1 /\ t[p - 1] = <<w, j>>
        <5>1. p - 1 \in 1 .. q - 1
          BY <4>1, <4>2, <4>3
        <5>2. t[p - 1] = l[p]
          BY <1>7, <4>3, <4>4
        <5> QED
          BY <4>2, <5>1, <5>2
      <4> QED
        BY <1>6, <3>1, <4>5
    <3>2. CASE d # c
      <4>1. listing'[d] = listing[d]
        BY <1>6, <3>2
      <4>2. q \in DOMAIN listing[d] /\ listing[d][q] = <<w, k>>
        BY <2>4, <4>1
      <4>3. PICK p \in 1 .. q - 1 : listing[d][p] = <<w, j>>
        BY <2>4, <2>3, <4>2
      <4> QED
        BY <4>1, <4>3
    <3> QED
      BY <3>1, <3>2
  <2>5. Gone(<<w, j>>) => Gone(<<w, j>>)'
    BY <1>12, <2>2
  <2>6. handled[<<w, k>>] = 1 => handled[<<w, j>>] = 1 \/ Gone(<<w, j>>)'
    BY <2>1, <2>5 DEF Behind
  <2>7. \A d \in Consumer : \A q \in DOMAIN taken[d] : taken[d][q] = <<w, k>> =>
          handled[<<w, j>>] = 1 \/ Gone(<<w, j>>)' \/ \E p \in 1 .. q - 1 : taken[d][p] = <<w, j>>
    <3> SUFFICES ASSUME NEW d \in Consumer, NEW q \in DOMAIN taken[d], taken[d][q] = <<w, k>>
                 PROVE  handled[<<w, j>>] = 1 \/ Gone(<<w, j>>) \/ \E p \in 1 .. q - 1 : taken[d][p] = <<w, j>>
      BY <2>5
    <3> QED
      BY <2>1 DEF Behind
  <2> QED
    BY <1>3, <2>4, <2>6, <2>7 DEF Behind
<1> QED
  BY <1>8, <1>11, <1>13, <1>14, <1>15, <1>16 DEF MailboxInv

\* A call ends or its consumer dies: what it held is lost, which takes a fault or a file
\* that cannot be decoded.
LEMMA LetsGoStep ==
  ASSUME MailboxInv, NEW c \in Consumer, LetsGo(c), faults' \in 0 .. MaxFaults, faults <= faults',
         faults' > 0 \/ \E m \in Message : form[m] = "undecodable",
         UNCHANGED <<place, stamp, form, wall, polling, handled>>
  PROVE  MailboxInv'
<1>1. MailboxTypeOK
  BY DEF MailboxInv
<1>2. faults' = 0 => faults = 0
  BY <1>1, MailboxAssumption DEF MailboxTypeOK
<1>3. /\ lost' = lost \cup ToSet(taken[c])
      /\ taken'[c] = <<>> /\ \A d \in Consumer : d # c => taken'[d] = taken[d]
      /\ listing'[c] = <<>> /\ \A d \in Consumer : d # c => listing'[d] = listing[d]
      /\ opened'[c] = FALSE /\ \A d \in Consumer : d # c => opened'[d] = opened[d]
  BY <1>1 DEF LetsGo, MailboxTypeOK
<1>4. MailboxTypeOK'
  <2>1. ToSet(taken[c]) \subseteq Message
    BY <1>1 DEF ToSet, MailboxTypeOK
  <2>2. /\ taken' \in [Consumer -> Seq(Message)] /\ listing' \in [Consumer -> Seq(Message)]
        /\ opened' \in [Consumer -> BOOLEAN]
    BY <1>1 DEF LetsGo, MailboxTypeOK
  <2> QED
    BY <1>1, <1>3, <2>1, <2>2 DEF MailboxTypeOK
<1>5. Sendings' /\ Clocked'
  <2>1. wall <= wall'
    BY <1>1, MailboxAssumption DEF MailboxTypeOK
  <2> QED
    BY <1>2, <1>4, <2>1, SendingsRest DEF Ripe
<1>6. Holdings'
  BY <1>3 DEF MailboxInv, Holdings
<1>7. Desks'
  BY <1>2, <1>3 DEF MailboxInv, Desks, Ripe
<1>8. \A m \in Message : InHands(m) => InHands(m)' \/ m \in lost'
  BY <1>3 DEF InHands, ToSet
<1>9. Once'
  BY <1>2, <1>3, <1>8 DEF MailboxInv, Once
<1>10. InTurn'
  <2> SUFFICES ASSUME faults' = 0, \A d, e \in polling : d = e,
                      NEW w \in Writer, NEW j \in 1 .. MaxSent, NEW k \in 1 .. MaxSent,
                      Ordered(w, j, k)
               PROVE  Behind(<<w, j>>, <<w, k>>)'
    BY DEF InTurn, Quiet, Ordered
  <2>1. Behind(<<w, j>>, <<w, k>>)
    BY <1>2 DEF MailboxInv, InTurn, Quiet
  <2>2. Gone(<<w, j>>) => Gone(<<w, j>>)'
    BY <1>3 DEF Gone
  <2>3. handled[<<w, k>>] = 1 => handled[<<w, j>>] = 1 \/ Gone(<<w, j>>)'
    BY <2>1, <2>2 DEF Behind
  <2>4. \A d \in Consumer : \A q \in DOMAIN taken'[d] : taken'[d][q] = <<w, k>> =>
          handled[<<w, j>>] = 1 \/ Gone(<<w, j>>)' \/ \E p \in 1 .. q - 1 : taken'[d][p] = <<w, j>>
    <3>1. \A d \in Consumer : \A q \in DOMAIN taken'[d] : taken'[d] = taken[d]
      BY <1>3
    <3> QED
      BY <2>1, <2>2, <3>1 DEF Behind
  <2>5. \A d \in Consumer : \A q \in DOMAIN listing'[d] : listing'[d][q] = <<w, k>> =>
          place[<<w, j>>] # "pending" \/ \E p \in 1 .. q - 1 : listing'[d][p] = <<w, j>>
    <3>1. \A d \in Consumer : \A q \in DOMAIN listing'[d] : listing'[d] = listing[d]
      BY <1>3
    <3> QED
      BY <2>1, <3>1 DEF Behind
  <2> QED
    BY <2>3, <2>4, <2>5 DEF Behind
<1> QED
  BY <1>4, <1>5, <1>6, <1>7, <1>9, <1>10 DEF MailboxInv

\* One that is no longer there is passed over.
LEMMA MissedStep ==
  ASSUME MailboxInv, NEW c \in Consumer, listing[c] # <<>>, Passes(c), ~There(Head(listing[c])),
         UNCHANGED <<place, stamp, form, wall, polling, handled, faults>>
  PROVE  MailboxInv'
<1>1. MailboxTypeOK
  BY DEF MailboxInv
<1>2. PICK n \in Message : n = Head(listing[c])
  BY <1>1, TailOf DEF MailboxTypeOK
<1>3. PICK to \in Place : to = place[n] /\ to # "pending"
  BY <1>1, <1>2 DEF MailboxTypeOK, There
<1>4. place' = [place EXCEPT ![n] = to]
  BY <1>1, <1>3 DEF MailboxTypeOK
<1>5. faults = 0 /\ to \in {"errors", "deleted"} => form[n] # "good"
  BY <1>3 DEF MailboxInv, Once
<1>6. faults' \in 0 .. MaxFaults /\ faults <= faults'
  BY <1>1, MailboxAssumption DEF MailboxTypeOK
<1> QED
  BY <1>2, <1>3, <1>4, <1>5, <1>6, PassedOver

\* The next file of a listing is read, is quarantined, cannot be decoded, or is gone.
LEMMA ReadNextStep ==
  ASSUME MailboxInv, NEW c \in Consumer, ReadNext(c)
  PROVE  MailboxInv'
<1>1. MailboxTypeOK
  BY DEF MailboxInv
<1>2. PICK n \in Message : n = Head(listing[c]) /\ listing[c] # <<>>
  BY <1>1, TailOf DEF MailboxTypeOK, ReadNext
<1>3. /\ UNCHANGED <<stamp, form, wall, polling, handled, faults>>
      /\ faults' \in 0 .. MaxFaults /\ faults <= faults' /\ wall <= wall'
  BY <1>1, MailboxAssumption DEF ReadNext, MailboxTypeOK
<1>4. CASE /\ form[n] = "good" /\ opened' = [opened EXCEPT ![c] = TRUE]
           /\ UNCHANGED <<place, listing, taken, lost>>
  <2>1. MailboxTypeOK'
    BY <1>1, <1>3, <1>4 DEF MailboxTypeOK
  <2>2. Sendings' /\ Clocked' /\ Holdings' /\ Once' /\ InTurn'
    BY <1>3, <1>4, <2>1, OthersRest
  <2>3. \A d \in Consumer : d # c => opened'[d] = opened[d]
    BY <1>1, <1>4 DEF MailboxTypeOK
  <2>4. Desks'
    BY <1>2, <1>3, <1>4, <2>3 DEF MailboxInv, Desks, Ripe
  <2> QED
    BY <2>1, <2>2, <2>4 DEF MailboxInv
<1>5. CASE There(n) /\ form[n] = "malformed" /\ place' = [place EXCEPT ![n] = "errors"] /\ Passes(c)
  BY <1>2, <1>3, <1>5, PassedOver DEF Place
<1>6. CASE form[n] = "undecodable" /\ LetsGo(c) /\ UNCHANGED place
  BY <1>3, <1>6, LetsGoStep
<1>7. CASE ~There(n) /\ Passes(c) /\ UNCHANGED place
  BY <1>2, <1>3, <1>7, MissedStep
<1> QED
  BY <1>2, <1>4, <1>5, <1>6, <1>7 DEF ReadNext

\* A file operation fails, which is remembered.
LEMMA BoxFailsStep ==
  ASSUME MailboxInv, NEW c \in Consumer, FileFails(c)
  PROVE  MailboxInv'
<1>1. MailboxTypeOK
  BY DEF MailboxInv
<1>2. PICK n \in Message : n = Head(listing[c]) /\ listing[c] # <<>>
  BY <1>1, TailOf DEF MailboxTypeOK, FileFails
<1>3. /\ There(n) /\ UNCHANGED <<stamp, form, wall, polling, handled>>
      /\ faults' \in 0 .. MaxFaults /\ faults' > 0 /\ faults' # 0 /\ faults <= faults'
  BY <1>1, <1>2, MailboxAssumption DEF FileFails, MailboxTypeOK
<1>4. CASE Passes(c) /\ UNCHANGED place
  <2>1. PICK to \in Place : to = place[n]
    BY <1>1 DEF MailboxTypeOK
  <2>2. place' = [place EXCEPT ![n] = to]
    BY <1>1, <1>4, <2>1 DEF MailboxTypeOK
  <2> QED
    BY <1>2, <1>3, <1>4, <2>1, <2>2, PassedOver
<1>5. CASE Passes(c) /\ \E to \in {"errors", "deleted"} : place' = [place EXCEPT ![n] = to]
  BY <1>2, <1>3, <1>5, PassedOver DEF Place
<1>6. CASE LetsGo(c) /\ UNCHANGED place
  BY <1>3, <1>6, LetsGoStep
<1> QED
  BY <1>2, <1>4, <1>5, <1>6 DEF FileFails

\* The head of a listing is archived, and is in this consumer's hands alone, behind what
\* it should follow.
LEMMA TakeNextStep ==
  ASSUME MailboxInv, NEW c \in Consumer, TakeNext(c)
  PROVE  MailboxInv'
<1>1. MailboxTypeOK
  BY DEF MailboxInv
<1>2. PICK n \in Message : n = Head(listing[c]) /\ listing[c] # <<>> /\ opened[c]
  BY <1>1, TailOf DEF MailboxTypeOK, TakeNext
<1>3. UNCHANGED <<stamp, form, wall, polling, handled, faults>> /\ wall <= wall'
  BY <1>1, MailboxAssumption DEF TakeNext, MailboxTypeOK
<1>4. CASE ~There(n)
  <2>1. Passes(c) /\ UNCHANGED place
    BY <1>2, <1>4 DEF TakeNext
  <2> QED
    BY <1>2, <1>3, <1>4, <2>1, MissedStep
<1>5. CASE There(n)
  <2>1. PICK l \in Seq(Message), h \in Seq(Message) : l = listing[c] /\ h = taken[c]
    BY <1>1 DEF MailboxTypeOK
  <2>2. PICK t \in Seq(Message), g \in Seq(Message) : t = Tail(l) /\ g = Append(h, n)
    <3>1. Tail(l) \in Seq(Message)
      BY <1>2, <2>1, TailOf
    <3>2. Append(h, n) \in Seq(Message)
      OBVIOUS
    <3> QED
      BY <3>1, <3>2
  <2>3. /\ place' = [place EXCEPT ![n] = "archive"] /\ taken' = [taken EXCEPT ![c] = g]
        /\ listing' = [listing EXCEPT ![c] = t] /\ opened' = [opened EXCEPT ![c] = FALSE]
        /\ UNCHANGED lost
    BY <1>2, <1>5, <2>1, <2>2 DEF TakeNext
  <2>4. /\ place'[n] = "archive" /\ \A m \in Message : m # n => place'[m] = place[m]
        /\ place' \in [Message -> Place]
    BY <1>1, <2>3 DEF MailboxTypeOK, Place
  <2>5. taken'[c] = g /\ \A d \in Consumer : d # c => taken'[d] = taken[d]
    BY <1>1, <2>3 DEF MailboxTypeOK
  <2>6. /\ listing'[c] = t /\ \A d \in Consumer : d # c => listing'[d] = listing[d]
        /\ opened'[c] = FALSE /\ \A d \in Consumer : d # c => opened'[d] = opened[d]
    BY <1>1, <2>3 DEF MailboxTypeOK
  <2>7. /\ l[1] = n /\ 1 \in DOMAIN l
        /\ \A i \in DOMAIN t : i + 1 \in DOMAIN l /\ t[i] = l[i + 1]
        /\ \A i \in DOMAIN l : i # 1 => i - 1 \in DOMAIN t /\ t[i - 1] = l[i]
        /\ DOMAIN l \subseteq Nat /\ (\A i \in DOMAIN l : i >= 1) /\ DOMAIN t \subseteq Nat
    BY <1>2, <2>1, <2>2, TailOf
  <2>8. PICK z \in Nat : z = Len(h) + 1
    OBVIOUS
  <2>9. /\ z \in DOMAIN g /\ g[z] = n /\ DOMAIN h = 1 .. z - 1 /\ DOMAIN g = 1 .. z
        /\ \A i \in DOMAIN h : g[i] = h[i]
    BY <2>2, <2>8
  <2>10. form[n] = "good" /\ handled[n] = 0 /\ \A d \in Consumer : \A i \in DOMAIN taken[d] : taken[d][i] # n
    <3>1. place[n] # "archive"
      BY <1>5 DEF There
    <3>2. form[n] = "good" /\ handled[n] = 0
      <4>1. form[n] = "good"
        BY <1>2 DEF MailboxInv, Desks
      <4>2. handled[n] \in Nat /\ handled[n] <= 1 /\ (handled[n] = 1 => place[n] = "archive")
        BY <1>1, <1>2 DEF MailboxInv, Once, MailboxTypeOK
      <4> QED
        BY <3>1, <4>1, <4>2
    <3> QED
      BY <3>1, <3>2 DEF MailboxInv, Holdings
  <2>11. MailboxTypeOK'
    BY <1>1, <1>3, <2>3, <2>4 DEF MailboxTypeOK
  <2>12. /\ \A m \in Message : place[m] = "unsent" <=> place'[m] = "unsent"
         /\ \A m \in Message : Ripe(m) => Ripe(m)'
         /\ \A m \in Message : Gone(m) => Gone(m)'
    BY <1>5, <2>3, <2>4 DEF Ripe, Gone, There
  <2>13. Sendings' /\ Clocked'
    <3>1. faults = 0 => Ripe(n)
      BY <2>1, <2>7 DEF MailboxInv, Desks
    <3>2. faults = 0 => /\ \A m \in Message : Ripe(m) <=> Ripe(m)'
                        /\ \A m \in Message : place[m] = "overwritten" => place'[m] = "overwritten"
      BY <1>5, <2>4, <3>1 DEF Ripe, There
    <3> QED
      BY <1>3, <2>11, <2>12, <3>2, SendingsRest
  <2>14. ASSUME NEW d \in Consumer, NEW i \in DOMAIN taken'[d]
         PROVE  \/ d = c /\ i = z /\ taken'[d][i] = n
                \/ i \in DOMAIN taken[d] /\ taken'[d][i] = taken[d][i]
    <3>1. CASE d = c
      <4>1. i \in DOMAIN g /\ taken'[d][i] = g[i]
        BY <2>5, <3>1
      <4>2. i = z \/ i \in DOMAIN h
        BY <2>9, <4>1
      <4> QED
        BY <2>1, <2>9, <3>1, <4>1, <4>2
    <3>2. CASE d # c
      BY <2>5, <3>2
    <3> QED
      BY <3>1, <3>2
  <2>15. ASSUME NEW d \in Consumer, NEW i \in DOMAIN taken[d]
         PROVE  i \in DOMAIN taken'[d] /\ taken'[d][i] = taken[d][i]
    <3>1. CASE d = c
      <4>1. i \in DOMAIN h /\ taken[d][i] = h[i]
        BY <2>1, <3>1
      <4>2. i \in DOMAIN g /\ g[i] = h[i]
        BY <2>9, <4>1
      <4> QED
        BY <2>5, <3>1, <4>1, <4>2
    <3>2. CASE d # c
      BY <2>5, <3>2
    <3> QED
      BY <3>1, <3>2
  <2>16. \A d \in Consumer : \A i \in DOMAIN taken[d] : taken[d][i] \in Message
    BY <1>1 DEF MailboxTypeOK
  <2>17. Holdings'
    <3>1. ASSUME NEW d \in Consumer, NEW i \in DOMAIN taken'[d]
          PROVE  place'[taken'[d][i]] = "archive" /\ form[taken'[d][i]] = "good" /\ handled[taken'[d][i]] = 0
      <4>1. CASE taken'[d][i] = n
        BY <2>4, <2>10, <4>1
      <4>2. CASE i \in DOMAIN taken[d] /\ taken'[d][i] = taken[d][i]
        <5>1. PICK v \in Message : v = taken[d][i] /\ v # n
          BY <2>10, <2>16, <4>2
        <5>2. place[v] = "archive" /\ form[v] = "good" /\ handled[v] = 0
          BY <4>2, <5>1 DEF MailboxInv, Holdings
        <5> QED
          BY <2>4, <4>2, <5>1, <5>2
      <4> QED
        BY <2>14, <4>1, <4>2
    <3>2. ASSUME NEW d \in Consumer, NEW e \in Consumer, NEW i \in DOMAIN taken'[d], NEW j \in DOMAIN taken'[e],
                 taken'[d][i] = taken'[e][j]
          PROVE  d = e /\ i = j
      <4>1. \/ d = c /\ i = z /\ taken'[d][i] = n
            \/ i \in DOMAIN taken[d] /\ taken'[d][i] = taken[d][i] /\ taken'[d][i] # n
        BY <2>10, <2>14
      <4>2. \/ e = c /\ j = z /\ taken'[e][j] = n
            \/ j \in DOMAIN taken[e] /\ taken'[e][j] = taken[e][j] /\ taken'[e][j] # n
        BY <2>10, <2>14
      <4>3. CASE i \in DOMAIN taken[d] /\ j \in DOMAIN taken[e] /\ taken[d][i] = taken[e][j]
        BY <4>3 DEF MailboxInv, Holdings
      <4> QED
        BY <3>2, <4>1, <4>2, <4>3
    <3> QED
      BY <1>3, <3>1, <3>2 DEF Holdings
  <2>18. Desks'
    <3>1. \A d \in Consumer : listing'[d] # <<>> \/ taken'[d] # <<>> => d \in polling
      BY <1>2, <2>5, <2>6 DEF MailboxInv, Desks
    <3>2. ASSUME NEW d \in Consumer, NEW i \in DOMAIN listing'[d]
          PROVE  /\ place'[listing'[d][i]] # "unsent"
                 /\ faults = 0 => place'[listing'[d][i]] \notin {"unsent", "young", "overwritten"}
      <4>1. PICK x \in DOMAIN listing[d] : listing'[d][i] = listing[d][x]
        <5>1. CASE d = c
          BY <2>1, <2>6, <2>7, <5>1
        <5>2. CASE d # c
          BY <2>6, <5>2
        <5> QED
          BY <5>1, <5>2
      <4>2. listing[d][x] \in Message /\ place[listing[d][x]] # "unsent" /\ (faults = 0 => Ripe(listing[d][x]))
        BY <1>1 DEF MailboxInv, Desks, MailboxTypeOK
      <4> QED
        BY <2>12, <4>1, <4>2 DEF Ripe
    <3>3. \A d \in Consumer : opened'[d] => listing'[d] # <<>> /\ form[Head(listing'[d])] = "good"
      BY <2>6 DEF MailboxInv, Desks
    <3> QED
      BY <1>3, <3>1, <3>2, <3>3 DEF Desks, Ripe
  <2>19. \A m \in Message : InHands(m) => InHands(m)'
    BY <2>15 DEF InHands
  <2>20. Once'
    <3>1. InHands(n)'
      BY <2>5, <2>9 DEF InHands
    <3> QED
      BY <1>3, <2>3, <2>4, <2>10, <2>19, <3>1 DEF MailboxInv, Once
  <2>21. InTurn'
    <3> SUFFICES ASSUME Quiet, NEW w \in Writer, NEW j \in 1 .. MaxSent, NEW k \in 1 .. MaxSent,
                        Ordered(w, j, k)
                 PROVE  Behind(<<w, j>>, <<w, k>>)'
      BY <1>3 DEF InTurn, Quiet, Ordered
    <3>1. Behind(<<w, j>>, <<w, k>>)
      BY DEF MailboxInv, InTurn
    <3>2. <<w, j>> \in Message /\ (place[<<w, j>>] # "pending" => place'[<<w, j>>] # "pending")
      <4>1. <<w, j>> \in Message
        BY DEF Message
      <4> QED
        BY <2>4, <4>1
    <3>3. ASSUME NEW d \in Consumer, NEW q \in DOMAIN taken'[d], taken'[d][q] = <<w, k>>,
                 handled[<<w, j>>] # 1, ~Gone(<<w, j>>)'
          PROVE  \E p \in 1 .. q - 1 : taken'[d][p] = <<w, j>>
      <4>1. CASE q \in DOMAIN taken[d] /\ taken'[d][q] = taken[d][q]
        <5>1. PICK p \in 1 .. q - 1 : taken[d][p] = <<w, j>>
          BY <2>12, <3>1, <3>2, <3>3, <4>1 DEF Behind
        <5>2. p \in DOMAIN taken[d]
          BY <1>1, <4>1 DEF MailboxTypeOK
        <5> QED
          BY <2>15, <5>1, <5>2
      <4>2. CASE d = c /\ q = z /\ <<w, k>> = n
        <5>1. 1 \in DOMAIN listing[c] /\ listing[c][1] = <<w, k>>
          BY <2>1, <2>7, <4>2
        <5>2. place[<<w, j>>] # "pending"
          <6>1. place[<<w, j>>] # "pending" \/ \E p \in 1 .. 1 - 1 : listing[c][p] = <<w, j>>
            BY <3>1, <5>1 DEF Behind
          <6> QED
            BY <6>1
        <5>3. place[<<w, j>>] # "overwritten" /\ <<w, j>> \notin lost
          BY <2>12, <3>2, <3>3 DEF Gone
        <5>4. place[<<w, j>>] = "archive"
          <6>1. Ripe(<<w, k>>) /\ j < k
            BY <5>1 DEF MailboxInv, Desks, Quiet, Ordered
          <6>2. Ripe(<<w, j>>)
            BY <5>3, <6>1 DEF MailboxInv, Clocked, Quiet
          <6>3. place[<<w, j>>] \notin {"errors", "deleted"}
            BY <3>2 DEF MailboxInv, Once, Quiet, Ordered
          <6> QED
            BY <1>1, <3>2, <5>2, <6>2, <6>3 DEF Ripe, MailboxTypeOK, Place
        <5>5. InHands(<<w, j>>)
          BY <3>2, <3>3, <5>3, <5>4 DEF MailboxInv, Once
        <5>6. PICK e \in Consumer : \E i \in DOMAIN taken[e] : taken[e][i] = <<w, j>>
          BY <5>5 DEF InHands
        <5>7. e \in polling /\ c \in polling
          <6>1. taken[e] # <<>>
            BY <5>6
          <6> QED
            BY <1>2, <6>1 DEF MailboxInv, Desks
        <5>8. e = c
          BY <5>7 DEF Quiet
        <5>9. PICK i \in DOMAIN taken[c] : taken[c][i] = <<w, j>>
          BY <5>6, <5>8
        <5>10. i \in 1 .. z - 1 /\ taken'[c][i] = <<w, j>>
          BY <2>1, <2>9, <2>15, <5>9
        <5> QED
          BY <4>2, <5>10
      <4> QED
        BY <2>14, <3>3, <4>1, <4>2
    <3>4. ASSUME NEW d \in Consumer, NEW q \in DOMAIN listing[d], listing[d][q] = <<w, k>>,
                 place'[<<w, j>>] = "pending"
          PROVE  \E p \in 1 .. q - 1 : listing[d][p] = <<w, j>>
      BY <3>1, <3>2, <3>4 DEF Behind
    <3>5. ASSUME NEW d \in Consumer, NEW q \in DOMAIN listing'[d], listing'[d][q] = <<w, k>>,
                 place'[<<w, j>>] = "pending"
          PROVE  \E p \in 1 .. q - 1 : listing'[d][p] = <<w, j>>
      <4>1. CASE d = c
        <5>1. q \in Nat /\ q + 1 \in DOMAIN l /\ l[q + 1] = <<w, k>>
          BY <2>6, <2>7, <3>5, <4>1
        <5>2. PICK x \in DOMAIN l : x = q + 1
          BY <5>1
        <5>3. c \in Consumer /\ x \in DOMAIN listing[c] /\ listing[c][x] = <<w, k>>
          BY <2>1, <5>1, <5>2
        <5>4. \E p \in 1 .. x - 1 : listing[c][p] = <<w, j>>
          BY <3>4, <3>5, <5>3
        <5>5. \E p \in 1 .. x - 1 : l[p] = <<w, j>>
          BY <2>1, <5>4
        <5>6. PICK p \in 1 .. q : l[p] = <<w, j>>
          <6>1. 1 .. x - 1 = 1 .. q
            BY <5>1, <5>2, UpToIt
          <6> QED
            BY <5>5, <6>1
        <5>7. p # 1
          BY <2>4, <2>7, <3>5, <5>6
        <5>8. p - 1 \in 1 .. q - 1
          BY <5>1, <5>7
        <5>9. p \in DOMAIN l
          BY <2>7, <5>1
        <5>10. t[p - 1] = <<w, j>>
          BY <2>7, <5>6, <5>7, <5>9
        <5> QED
          BY <2>6, <4>1, <5>8, <5>10
      <4>2. CASE d # c
        <5>1. listing'[d] = listing[d]
          BY <2>6, <4>2
        <5>2. q \in DOMAIN listing[d] /\ listing[d][q] = <<w, k>>
          BY <3>5, <5>1
        <5>3. PICK p \in 1 .. q - 1 : listing[d][p] = <<w, j>>
          BY <3>4, <3>5, <5>2
        <5> QED
          BY <5>1, <5>3
      <4> QED
        BY <4>1, <4>2
    <3>6. handled[<<w, k>>] = 1 => handled[<<w, j>>] = 1 \/ Gone(<<w, j>>)'
      BY <2>12, <3>1, <3>2 DEF Behind
    <3> QED
      BY <1>3, <3>3, <3>5, <3>6 DEF Behind
  <2> QED
    BY <2>11, <2>13, <2>17, <2>18, <2>20, <2>21 DEF MailboxInv
<1> QED
  BY <1>4, <1>5

\* The first message in a consumer's hands is handled; it is in no hands then.
LEMMA HandleNextStep ==
  ASSUME MailboxInv, NEW c \in Consumer, HandleNext(c)
  PROVE  MailboxInv'
<1>1. MailboxTypeOK
  BY DEF MailboxInv
<1>2. PICK h \in Seq(Message) : h = taken[c] /\ h # <<>>
  BY <1>1 DEF MailboxTypeOK, HandleNext
<1>3. PICK n \in Message, t \in Seq(Message) : n = Head(h) /\ t = Tail(h)
  <2>1. Head(h) \in Message /\ Tail(h) \in Seq(Message)
    BY <1>2, TailOf
  <2> QED
    BY <2>1
<1>4. /\ h[1] = n /\ 1 \in DOMAIN h
      /\ \A i \in DOMAIN t : i + 1 \in DOMAIN h /\ t[i] = h[i + 1]
      /\ \A i \in DOMAIN h : i # 1 => i - 1 \in DOMAIN t /\ t[i - 1] = h[i]
      /\ DOMAIN h \subseteq Nat /\ (\A i \in DOMAIN h : i >= 1)
      /\ DOMAIN t \subseteq Nat /\ (\A i \in DOMAIN t : i >= 1)
  BY <1>2, <1>3, TailOf
<1>5. place[n] = "archive" /\ form[n] = "good" /\ handled[n] = 0
  BY <1>2, <1>4 DEF MailboxInv, Holdings
<1>6. /\ handled' = [handled EXCEPT ![n] = 1] /\ taken' = [taken EXCEPT ![c] = t]
      /\ UNCHANGED <<place, stamp, form, wall, polling, listing, opened, lost, faults>>
  BY <1>1, <1>2, <1>3, <1>5 DEF HandleNext, MailboxTypeOK
<1>7. /\ handled'[n] = 1 /\ \A m \in Message : m # n => handled'[m] = handled[m]
      /\ taken'[c] = t /\ \A d \in Consumer : d # c => taken'[d] = taken[d]
  BY <1>1, <1>6 DEF MailboxTypeOK
<1>8. MailboxTypeOK'
  BY <1>1, <1>6 DEF MailboxTypeOK
<1>9. Sendings' /\ Clocked'
  BY <1>6 DEF MailboxInv, Sendings, Clocked, Ripe
<1>10. \A d \in Consumer : \A i \in DOMAIN taken'[d] :
         \/ d = c /\ i + 1 \in DOMAIN taken[d] /\ taken'[d][i] = taken[d][i + 1] /\ i \in Nat /\ i >= 1
         \/ d # c /\ i \in DOMAIN taken[d] /\ taken'[d][i] = taken[d][i]
  BY <1>2, <1>4, <1>7
<1>11. \A d \in Consumer : \A i \in DOMAIN taken'[d] : taken'[d][i] # n
  <2>1. \A d \in Consumer : \A i \in DOMAIN taken[d] : taken[d][i] = n => d = c /\ i = 1
    BY <1>2, <1>4 DEF MailboxInv, Holdings
  <2>2. ASSUME NEW d \in Consumer, NEW i \in DOMAIN taken'[d], taken'[d][i] = n
        PROVE  FALSE
    <3>1. CASE d = c
      <4>1. i + 1 \in DOMAIN taken[c] /\ taken[c][i + 1] = n /\ i \in Nat /\ i >= 1
        BY <1>10, <2>2, <3>1
      <4>2. i + 1 = 1
        BY <2>1, <4>1
      <4> QED
        BY <4>1, <4>2
    <3>2. CASE d # c
      BY <1>10, <2>1, <2>2, <3>2
    <3> QED
      BY <3>1, <3>2
  <2> QED
    BY <2>2
<1>12. Holdings'
  <2>1. ASSUME NEW d \in Consumer, NEW i \in DOMAIN taken'[d]
        PROVE  place[taken'[d][i]] = "archive" /\ form[taken'[d][i]] = "good" /\ handled'[taken'[d][i]] = 0
    <3>1. PICK x \in DOMAIN taken[d] : taken'[d][i] = taken[d][x]
      BY <1>10
    <3>2. taken[d][x] \in Message
      BY <1>1 DEF MailboxTypeOK
    <3> QED
      BY <1>7, <1>11, <3>1, <3>2 DEF MailboxInv, Holdings
  <2>2. ASSUME NEW d \in Consumer, NEW e \in Consumer, NEW i \in DOMAIN taken'[d], NEW j \in DOMAIN taken'[e],
               taken'[d][i] = taken'[e][j]
        PROVE  d = e /\ i = j
    <3>1. PICK x \in DOMAIN taken[d] : taken'[d][i] = taken[d][x] /\ (IF d = c THEN x = i + 1 /\ i \in Nat ELSE x = i)
      BY <1>10
    <3>2. PICK y \in DOMAIN taken[e] : taken'[e][j] = taken[e][y] /\ (IF e = c THEN y = j + 1 /\ j \in Nat ELSE y = j)
      BY <1>10
    <3>3. taken[d][x] = taken[e][y]
      BY <2>2, <3>1, <3>2
    <3>4. d = e /\ x = y
      BY <3>3 DEF MailboxInv, Holdings
    <3> QED
      BY <3>1, <3>2, <3>4
  <2> QED
    BY <1>6, <2>1, <2>2 DEF Holdings
<1>13. Desks'
  BY <1>2, <1>6, <1>7 DEF MailboxInv, Desks, Ripe
<1>14. \A m \in Message : m # n /\ InHands(m) => InHands(m)'
  <2> SUFFICES ASSUME NEW m \in Message, m # n, NEW d \in Consumer, NEW i \in DOMAIN taken[d], taken[d][i] = m
               PROVE  \E x \in DOMAIN taken'[d] : taken'[d][x] = m
    BY DEF InHands
  <2>1. CASE d = c
    BY <1>2, <1>4, <1>7, <2>1
  <2>2. CASE d # c
    BY <1>7, <2>2
  <2> QED
    BY <2>1, <2>2
<1>15. Once'
  BY <1>5, <1>6, <1>7, <1>14 DEF MailboxInv, Once
<1>16. InTurn'
  <2> SUFFICES ASSUME Quiet, NEW w \in Writer, NEW j \in 1 .. MaxSent, NEW k \in 1 .. MaxSent,
                      Ordered(w, j, k)
               PROVE  Behind(<<w, j>>, <<w, k>>)'
    BY <1>6 DEF InTurn, Quiet, Ordered
  <2>1. Behind(<<w, j>>, <<w, k>>)
    BY DEF MailboxInv, InTurn
  <2>2. /\ <<w, j>> \in Message /\ <<w, k>> \in Message
        /\ handled[<<w, j>>] = 1 => handled'[<<w, j>>] = 1
        /\ Gone(<<w, j>>) => Gone(<<w, j>>)'
    BY <1>6, <1>7 DEF Message, Gone
  <2>3. ASSUME handled'[<<w, k>>] = 1, ~Gone(<<w, j>>)'
        PROVE  handled'[<<w, j>>] = 1
    <3>1. CASE <<w, k>> = n
      <4>1. 1 \in DOMAIN taken[c] /\ taken[c][1] = <<w, k>>
        BY <1>2, <1>4, <3>1
      <4>2. handled[<<w, j>>] = 1 \/ \E p \in 1 .. 1 - 1 : taken[c][p] = <<w, j>>
        BY <2>1, <2>2, <2>3, <4>1 DEF Behind
      <4> QED
        BY <2>2, <4>2
    <3>2. CASE <<w, k>> # n
      BY <1>7, <2>1, <2>2, <2>3, <3>2 DEF Behind
    <3> QED
      BY <3>1, <3>2
  <2>4. ASSUME NEW d \in Consumer, NEW q \in DOMAIN taken[d], taken[d][q] = <<w, k>>,
               handled'[<<w, j>>] # 1, ~Gone(<<w, j>>)'
        PROVE  \E p \in 1 .. q - 1 : taken[d][p] = <<w, j>>
    BY <2>1, <2>2, <2>4 DEF Behind
  <2>5. ASSUME NEW d \in Consumer, NEW q \in DOMAIN taken'[d], taken'[d][q] = <<w, k>>,
               handled'[<<w, j>>] # 1, ~Gone(<<w, j>>)'
        PROVE  \E p \in 1 .. q - 1 : taken'[d][p] = <<w, j>>
    <3>1. CASE d = c
      <4>1. q \in Nat /\ q + 1 \in DOMAIN h /\ h[q + 1] = <<w, k>>
        BY <1>4, <1>7, <2>5, <3>1
      <4>2. PICK x \in DOMAIN h : x = q + 1
        BY <4>1
      <4>3. c \in Consumer /\ x \in DOMAIN taken[c] /\ taken[c][x] = <<w, k>>
        BY <1>2, <4>1, <4>2
      <4>4. \E p \in 1 .. x - 1 : taken[c][p] = <<w, j>>
        BY <2>4, <2>5, <4>3
      <4>5. PICK p \in 1 .. q : h[p] = <<w, j>>
        <5>1. \E p \in 1 .. x - 1 : h[p] = <<w, j>>
          BY <1>2, <4>4
        <5>2. 1 .. x - 1 = 1 .. q
          BY <4>1, <4>2, UpToIt
        <5> QED
          BY <5>1, <5>2
      <4>6. p # 1
        BY <1>4, <1>7, <2>5, <4>5
      <4>7. p \in DOMAIN h
        BY <1>4, <4>1, <4>5
      <4>8. p - 1 \in 1 .. q - 1
        BY <4>1, <4>6
      <4>9. t[p - 1] = <<w, j>>
        BY <1>4, <4>5, <4>6, <4>7
      <4> QED
        BY <1>7, <3>1, <4>8, <4>9
    <3>2. CASE d # c
      <4>1. taken'[d] = taken[d]
        BY <1>7, <3>2
      <4>2. q \in DOMAIN taken[d] /\ taken[d][q] = <<w, k>>
        BY <2>5, <4>1
      <4>3. PICK p \in 1 .. q - 1 : taken[d][p] = <<w, j>>
        BY <2>4, <2>5, <4>2
      <4> QED
        BY <4>1, <4>3
    <3> QED
      BY <3>1, <3>2
  <2> QED
    BY <1>6, <2>1, <2>3, <2>5 DEF Behind
<1> QED
  BY <1>8, <1>9, <1>12, <1>13, <1>15, <1>16 DEF MailboxInv

\* A consumer dies; what it held is lost, which is remembered.
LEMMA CrashConsumerStep ==
  ASSUME MailboxInv, NEW c \in Consumer, CrashConsumer(c)
  PROVE  MailboxInv'
<1>1. /\ LetsGo(c) /\ UNCHANGED <<place, stamp, form, wall, polling, handled>>
      /\ faults' \in 0 .. MaxFaults /\ faults' > 0 /\ faults <= faults'
  BY MailboxAssumption DEF CrashConsumer, MailboxInv, MailboxTypeOK
<1> QED
  BY <1>1, LetsGoStep

\* No message is handled twice, whoever polls and dies, and a consumer that polls alone
\* hears a writer in its order as long as nothing failed.
THEOREM MessagesAreHeardOnce == MailboxSpec => []HeardOnceInOrder
<1>1. MailboxInv /\ [MailboxNext]_mailboxVars => MailboxInv'
  <2> SUFFICES ASSUME MailboxInv, [MailboxNext]_mailboxVars
               PROVE  MailboxInv'
    OBVIOUS
  <2>1. CASE UNCHANGED mailboxVars
    <3>1. UNCHANGED <<place, stamp, form, wall, polling, listing, taken, opened, handled, lost, faults>>
      BY <2>1 DEF mailboxVars
    <3>2. MailboxTypeOK' /\ Desks'
      BY <3>1 DEF MailboxInv, MailboxTypeOK, Desks, Ripe
    <3>3. wall <= wall'
      BY <3>1, MailboxAssumption DEF MailboxInv, MailboxTypeOK
    <3> QED
      BY <3>1, <3>2, <3>3, OthersRest DEF MailboxInv
  <2> QED
    BY <2>1, PublishStep, RipenStep, TickStep, ClockTurnsBackStep, PollStep, ReadNextStep, TakeNextStep,
       HandleNextStep, BoxFailsStep, CrashConsumerStep DEF MailboxNext, ConsumerStep
<1>2. MailboxInv => HeardOnceInOrder
  <2> SUFFICES ASSUME MailboxInv
               PROVE  HeardOnceInOrder
    OBVIOUS
  <2>1. ASSUME NEW w \in Writer, NEW j \in 1 .. MaxSent, NEW k \in 1 .. MaxSent,
               j < k, handled[<<w, k>>] = 1, handled[<<w, j>>] = 0, Quiet
        PROVE  \/ form[<<w, j>>] # "good" \/ stamp[<<w, j>>] = stamp[<<w, k>>]
               \/ <<w, j>> \in lost \/ place[<<w, j>>] = "overwritten"
    BY <2>1 DEF MailboxInv, InTurn, Ordered, Behind, Gone
  <2> QED
    BY <2>1 DEF MailboxInv, Once, Quiet, HeardOnceInOrder
<1> QED
  BY <1>1, <1>2, MailboxInvInit, PTL DEF MailboxSpec
=============================================================================
