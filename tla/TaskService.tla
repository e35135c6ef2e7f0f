----------------------------- MODULE TaskService -----------------------------
(***************************************************************************)
(* What SessionQueue promises its callers, without its lists, flags and    *)
(* counters: a task has a stage, stages only move along the edges below,   *)
(* at most one task of a session runs at a time, and at most MaxConcurrent *)
(* run at all (docs/architecture.md, decision 2).                          *)
(***************************************************************************)
EXTENDS Integers, FiniteSets

CONSTANTS Session, Task, SessionOf, MaxConcurrent

VARIABLE stage

Stage == {"new", "queued", "running", "backoff", "finished", "dropped"}

\* "queued" covers a session's pending list and the global waiting list.
\* A task is dropped only by a shutdown: before it is accepted, when its retry
\* wakes up, or while it runs.
Edges ==
  {<<"new", "queued">>, <<"new", "running">>, <<"new", "dropped">>,
   <<"queued", "running">>,
   <<"running", "backoff">>, <<"running", "finished">>, <<"running", "dropped">>,
   <<"backoff", "queued">>, <<"backoff", "running">>, <<"backoff", "dropped">>}

Running(st) == {t \in Task : st[t] = "running"}

OnePerSession(st) ==
  \A t, u \in Running(st) : SessionOf[t] = SessionOf[u] => t = u

WithinCap(st) == Cardinality(Running(st)) <= MaxConcurrent

Init == stage = [t \in Task |-> "new"]

\* One step may end one task and start another in the slot it leaves, and the
\* end of a grace period drops several at once.
Next ==
  /\ stage' \in [Task -> Stage]
  /\ \A t \in Task : stage'[t] = stage[t] \/ <<stage[t], stage'[t]>> \in Edges
  /\ OnePerSession(stage')
  /\ WithinCap(stage')

Spec == Init /\ [][Next]_stage

=============================================================================
