----------------------------- MODULE Scheduler ------------------------------
(***************************************************************************)
(* The drift-corrected scheduler: a table of timers, each with the instant *)
(* of its next run, and a loop that fires what is due at every tick.  A    *)
(* tick has no suspension point, so it is one step.  The wall clock moves  *)
(* on by itself; it may leap (a suspended machine) and be set back.        *)
(*                                                                         *)
(* A fire is a coroutine that reports its failures to the log and touches  *)
(* nothing of the scheduler; only its start is modelled.  The instants of  *)
(* a cron expression are the multiples of a period, and a timer without a  *)
(* valid interval or expression has period 0.                              *)
(***************************************************************************)
EXTENDS Integers

CONSTANTS
  Timer,        \* ids of scheduled tasks
  Kind,         \* schedule_type of each
  Every,        \* interval_s, or the period of the cron expression
  MaxTime,      \* bound on the clock
  MaxSetbacks,  \* bound on how often the clock is set back
  MaxLoops,     \* bound on calls of run() in progress
  MaxRegisters  \* bound on calls of register()

ASSUME SchedulerAssumption ==
  /\ Kind \in [Timer -> {"once", "interval", "cron"}]
  /\ Every \in [Timer -> Nat]
  /\ MaxTime \in Nat
  /\ MaxSetbacks \in Nat
  /\ MaxLoops \in Nat \ {0}
  /\ MaxRegisters \in Nat

VARIABLES
  clock,       \* what datetime.now() returns
  setbacks,    \* how often the clock was set back
  registers,   \* calls of register() so far
  registered,  \* keys of self.tasks; the functions below are rows of the table
  enabled,     \* task.enabled
  nextRun,     \* task.next_run
  serving,     \* self._running
  loops,       \* run() coroutines that have not returned
  anchor,      \* history: next_run at registration
  spent        \* history: instants fired since registration

schedulerVars == <<clock, setbacks, registers, registered, enabled, nextRun, serving, loops, anchor, spent>>
table == <<registers, registered, enabled, nextRun, anchor, spent>>

NoTime == -1   \* next_run is None

-----------------------------------------------------------------------------
\* A skip that starts over from the clock; only a mutant uses it.
SkippedFromNow(due, period, now) == now + period

\* The loop `while nxt <= now: nxt += interval_s` by its result.
Skipped(due, period, now) ==
  IF now < due THEN due + period
  ELSE due + period * ((now - due) \div period + 1)

AfterInstant(period, now) == period * (now \div period + 1)

\* compute_next_run raises for such a timer.
Malformed(t) == Kind[t] # "once" /\ Every[t] = 0

ComputeNextRun(t, due, now) ==
  CASE Kind[t] = "once"     -> IF now < due THEN due ELSE NoTime
    [] Kind[t] = "interval" -> IF due = NoTime THEN now + Every[t]
                               ELSE Skipped(due, Every[t], now)
    [] Kind[t] = "cron"     -> AfterInstant(Every[t], now)

-----------------------------------------------------------------------------
SchedulerInit ==
  /\ clock = 0 /\ setbacks = 0 /\ registers = 0
  /\ registered = {}
  /\ enabled = [t \in Timer |-> FALSE]
  /\ nextRun = [t \in Timer |-> NoTime]
  /\ serving = FALSE /\ loops = 0
  /\ anchor = [t \in Timer |-> NoTime]
  /\ spent = [t \in Timer |-> {}]

TimePasses ==
  /\ clock' \in clock + 1 .. MaxTime
  /\ UNCHANGED <<setbacks, serving, loops>> /\ UNCHANGED table

SetBack ==
  /\ setbacks < MaxSetbacks
  /\ clock' \in 0 .. clock - 1
  /\ setbacks' = setbacks + 1
  /\ UNCHANGED <<serving, loops>> /\ UNCHANGED table

\* The first run is given, possibly in the past, or computed; a malformed
\* timer is found out only in the second case.
Register(t) == \E first \in {NoTime} \cup 0 .. MaxTime, on \in BOOLEAN :
  LET due == IF first # NoTime THEN first ELSE ComputeNextRun(t, NoTime, clock) IN
  /\ registers < MaxRegisters /\ registers' = registers + 1
  /\ first = NoTime => ~Malformed(t)
  /\ registered' = registered \cup {t}
  /\ enabled' = [enabled EXCEPT ![t] = on]
  /\ nextRun' = [nextRun EXCEPT ![t] = due]
  /\ anchor' = [anchor EXCEPT ![t] = due]
  /\ spent' = [spent EXCEPT ![t] = {}]
  /\ UNCHANGED <<clock, setbacks, serving, loops>>

Unregister(t) ==
  /\ t \in registered
  /\ registered' = registered \ {t}
  /\ enabled' = [enabled EXCEPT ![t] = FALSE]
  /\ nextRun' = [nextRun EXCEPT ![t] = NoTime]
  /\ anchor' = [anchor EXCEPT ![t] = NoTime]
  /\ spent' = [spent EXCEPT ![t] = {}]
  /\ UNCHANGED <<clock, setbacks, registers, serving, loops>>

\* Timers a tick fires.
IsDue(t) == t \in registered /\ enabled[t] /\ nextRun[t] # NoTime /\ nextRun[t] <= clock

\* A tick that stops at the first disabled timer; only a mutant uses it.
ReadyUnlessDisabled ==
  IF \E t \in registered : ~enabled[t] THEN {} ELSE {t \in Timer : IsDue(t)}

Ready == {t \in Timer : IsDue(t)}

\* A one-shot timer that stays in the table; only a mutant uses it.
FireAndKeep(fired, moved) ==
  /\ spent' = [t \in Timer |-> IF t \in fired THEN spent[t] \cup {nextRun[t]} ELSE spent[t]]
  /\ nextRun' = [t \in Timer |-> IF t \in moved /\ Kind[t] # "once"
                                 THEN ComputeNextRun(t, nextRun[t], clock) ELSE nextRun[t]]
  /\ UNCHANGED <<registers, registered, enabled, anchor>>

\* Every timer of `fired` is dispatched; those of `moved` get their next run.
Fire(fired, moved) ==
  /\ spent' = [t \in Timer |-> IF t \in fired THEN spent[t] \cup {nextRun[t]} ELSE spent[t]]
  /\ registered' = registered \ {t \in moved : Kind[t] = "once"}
  /\ nextRun' = [t \in Timer |-> IF t \in moved /\ Kind[t] # "once"
                                 THEN ComputeNextRun(t, nextRun[t], clock) ELSE nextRun[t]]
  /\ UNCHANGED <<registers, enabled, anchor>>

\* A pass over the table.  A malformed timer is dispatched and then raises, and
\* run() returns without having looked at the timers behind it.
Pass(inProgress) ==
  \/ /\ \A t \in Ready : ~Malformed(t)
     /\ Fire(Ready, Ready)
     /\ loops' = inProgress /\ serving' = TRUE
  \/ \E bad \in Ready : \E before \in SUBSET Ready :
       /\ Malformed(bad) /\ \A t \in before : ~Malformed(t)
       /\ Fire(before \cup {bad}, before)
       /\ loops' = inProgress - 1 /\ serving' = FALSE

\* run() up to its first sleep.
StartLoop ==
  /\ loops < MaxLoops
  /\ Pass(loops + 1)
  /\ UNCHANGED <<clock, setbacks>>

Wake ==
  /\ loops > 0 /\ serving
  /\ Pass(loops)
  /\ UNCHANGED <<clock, setbacks>>

LoopEnds ==
  /\ loops > 0 /\ ~serving
  /\ loops' = loops - 1
  /\ UNCHANGED <<clock, setbacks, serving>> /\ UNCHANGED table

StopScheduler ==
  /\ serving' = FALSE
  /\ UNCHANGED <<clock, setbacks, loops>> /\ UNCHANGED table

SchedulerNext ==
  \/ TimePasses \/ SetBack
  \/ \E t \in Timer : Register(t) \/ Unregister(t)
  \/ StartLoop \/ Wake \/ LoopEnds \/ StopScheduler

SchedulerSpec == SchedulerInit /\ [][SchedulerNext]_schedulerVars
SchedulerFairness == WF_schedulerVars(Wake)

-----------------------------------------------------------------------------
SchedulerTypeOK ==
  /\ clock \in 0 .. MaxTime /\ setbacks \in Nat /\ registers \in Nat /\ loops \in 0 .. MaxLoops /\ serving \in BOOLEAN
  /\ registered \in SUBSET Timer
  /\ enabled \in [Timer -> BOOLEAN]
  /\ nextRun \in [Timer -> Int] /\ anchor \in [Timer -> Int]
  /\ spent \in [Timer -> SUBSET Int]

\* No instant of a timer is fired twice, however many loops run and wherever the
\* clock is set: what a timer waits for lies after everything it has fired.  A
\* malformed timer is the exception, its next run is never moved.
EachInstantOnce ==
  \A t \in registered : ~Malformed(t) => \A instant \in spent[t] : instant < nextRun[t]

\* A fire moves the timer to the first instant of its schedule after the clock:
\* missed runs are skipped in one go, and the phase of an interval is the one of
\* its first run, however late ticks are.
LandsOnNextInstant == [][
  \A t \in registered : (~Malformed(t) /\ Kind[t] # "once" /\ spent'[t] \notin {spent[t], {}}) =>
     /\ nextRun'[t] > clock /\ nextRun'[t] - Every[t] <= clock
     /\ Kind[t] = "interval" => (nextRun'[t] - anchor'[t]) % Every[t] = 0]_schedulerVars

\* While a loop serves, a timer whose time has come does not stay due: it is
\* fired, unless it is withdrawn or the loop ends first.
DueTimersFire ==
  \A t \in Timer : (IsDue(t) /\ serving /\ loops > 0) ~> ~(IsDue(t) /\ serving /\ loops > 0)
=============================================================================
