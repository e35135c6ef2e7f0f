----------------------------- MODULE ToolBatch ------------------------------
(***************************************************************************)
(* The dispatch of the tool calls of one model reply: calls are cut into   *)
(* runs, a run of one is awaited, a longer one is gathered, and the        *)
(* results are put where their calls were.  A tool never raises, it        *)
(* answers with a failure; but a call whose arguments are not a mapping    *)
(* raises before the tool is reached.  gather then raises at once and      *)
(* leaves the other calls of the run to themselves.                        *)
(***************************************************************************)
EXTENDS Integers

CONSTANT MaxCalls   \* bound on the length of a batch

ASSUME ToolBatchAssumption == MaxCalls \in Nat

VARIABLES
  policy,    \* parallelism_policy of the executor
  length,    \* number of calls
  safe,      \* parallel_safe of the tool of each call; unknown tools are not
  valid,     \* whether its arguments are a mapping
  status,    \* of each call
  cursor,    \* first call of the run in progress
  outputs,   \* per slot the call whose result it holds, 0 if none
  dispatch   \* where _dispatch_tool_calls stands

batchVars == <<policy, length, safe, valid, status, cursor, outputs, dispatch>>
batch == <<policy, length, safe, valid>>

Calls == 1 .. length
Finished == {"answered", "raised", "cancelled"}

-----------------------------------------------------------------------------
\* Runs that look at the next call only; only a mutant uses it.
BeginsUnlessSafe(i) == i = 1 \/ policy = "never" \/ (policy = "flags" /\ ~safe[i])

\* Whether a run begins with call i.
BeginsRun(i) ==
  \/ i = 1
  \/ policy = "never"
  \/ policy = "flags" /\ (~safe[i] \/ ~safe[i - 1])

\* The calls of the run that begins with `first`.
RunOf(first) == {i \in first .. length : \A j \in first + 1 .. i : ~BeginsRun(j)}

\* The run in progress ends before call n.
EndsBefore(n) == n \in 1 .. length + 1 /\ n - 1 \in RunOf(cursor) /\ n \notin RunOf(cursor)

ToolBatchInit ==
  /\ policy \in {"never", "always", "flags"}
  /\ length \in 0 .. MaxCalls
  /\ safe \in [Calls -> BOOLEAN]
  /\ valid \in [Calls -> BOOLEAN]
  /\ status = [i \in Calls |-> "waiting"]
  /\ cursor = 1
  /\ outputs = [i \in Calls |-> 0]
  /\ dispatch = "between runs"

\* The calls of a run become coroutines.
BeginRun ==
  /\ dispatch = "between runs" /\ cursor <= length
  /\ status' = [i \in Calls |-> IF i \in RunOf(cursor) THEN "ready" ELSE status[i]]
  /\ dispatch' = "awaiting"
  /\ UNCHANGED <<cursor, outputs>> /\ UNCHANGED batch

StartCall(i) ==
  /\ status[i] = "ready"
  /\ IF valid[i] THEN /\ status' = [status EXCEPT ![i] = "running"]
                      /\ UNCHANGED dispatch
                 ELSE /\ status' = [status EXCEPT ![i] = "raised"]
                      /\ dispatch' = IF dispatch = "awaiting" THEN "raised" ELSE dispatch
  /\ UNCHANGED <<cursor, outputs>> /\ UNCHANGED batch

\* With a result or with a failure.
Answers(i) ==
  /\ status[i] = "running"
  /\ status' = [status EXCEPT ![i] = "answered"]
  /\ UNCHANGED <<cursor, outputs, dispatch>> /\ UNCHANGED batch

EndRun ==
  /\ dispatch = "awaiting"
  /\ \A i \in RunOf(cursor) : status[i] = "answered"
  /\ outputs' = [i \in Calls |-> IF i \in RunOf(cursor) THEN i ELSE outputs[i]]
  /\ EndsBefore(cursor')
  /\ dispatch' = "between runs"
  /\ UNCHANGED status /\ UNCHANGED batch

ReturnResults ==
  /\ dispatch = "between runs" /\ cursor > length
  /\ dispatch' = "returned"
  /\ UNCHANGED <<status, cursor, outputs>> /\ UNCHANGED batch

\* The executor is cancelled while it awaits a run: so are the calls of the run.
CancelBatch ==
  /\ dispatch = "awaiting"
  /\ status' = [i \in Calls |-> IF status[i] \in {"ready", "running"} THEN "cancelled" ELSE status[i]]
  /\ dispatch' = "cancelled"
  /\ UNCHANGED <<cursor, outputs>> /\ UNCHANGED batch

ToolBatchNext ==
  \/ BeginRun \/ EndRun \/ ReturnResults \/ CancelBatch
  \/ \E i \in Calls : StartCall(i) \/ Answers(i)

ToolBatchSpec == ToolBatchInit /\ [][ToolBatchNext]_batchVars

-----------------------------------------------------------------------------
ToolBatchTypeOK ==
  /\ policy \in {"never", "always", "flags"}
  /\ length \in 0 .. MaxCalls
  /\ safe \in [Calls -> BOOLEAN] /\ valid \in [Calls -> BOOLEAN]
  /\ status \in [Calls -> Finished \cup {"waiting", "ready", "running"}]
  /\ cursor \in 1 .. length + 1
  /\ outputs \in [Calls -> 0 .. length]
  /\ dispatch \in {"between runs", "awaiting", "raised", "returned", "cancelled"}

\* Unless the policy is to run everything at once, a call that is not parallel
\* safe is a barrier: it starts when all calls before it are answered, and none
\* after it starts before it is, also when a run was left half done by a raising
\* or cancelled call.
UnsafeCallsAreBarriers == policy # "always" =>
  \A i, j \in Calls : (i < j /\ status[j] # "waiting" /\ ~(safe[i] /\ safe[j])) =>
     status[i] = "answered"

\* Results come back for every call, each in the slot of its call, and only when
\* nothing of the batch is still at work.
EveryCallAnswered == dispatch = "returned" =>
  \A i \in Calls : outputs[i] = i /\ status[i] = "answered"

\* What the executor may rely on when it replays a model's calls: the barriers hold
\* and the answers are the right ones.
BatchKeepsOrder == UnsafeCallsAreBarriers /\ EveryCallAnswered
=============================================================================
