------------------------------ MODULE Approvals ------------------------------
(***************************************************************************)
(* sovereign_agent/ipc/approval.py and its two users: the executor, which  *)
(* asks and resumes, and the command line, which decides.                  *)
(*                                                                         *)
(* Each `approvals grant` or `approvals deny` is a process of its own that *)
(* nothing keeps from running beside another one, and the executor runs in *)
(* a third.  A file is written by an atomic rename, so the steps below are *)
(* single file operations; a process may stop between any two of them.     *)
(***************************************************************************)
EXTENDS Integers, FiniteSets

CONSTANTS
  Call,       \* tool calls of one session that come back with requires_human_approval
  Id,         \* request ids
  IdOf,       \* make_request_id, which keeps the last eight characters of the
              \* subgoal's and of the call's id: it need not be injective, since
              \* plans reuse subgoal ids and not every model has fresh call ids
  Decider,    \* runs of the command line
  VerdictOf,  \* what each of them decides
  Resumer,    \* runs of resume_from_approval that get to hear a decision
  None        \* absence of a file

Verdict == {"granted", "denied"}

ASSUME ApprovalAssumption ==
  /\ IdOf \in [Call -> Id]
  /\ VerdictOf \in [Decider -> Verdict]
  /\ None \notin Call \union [by : Decider, on : Call]

VARIABLES
  \* files
  awaiting,     \* ipc/awaiting_approval/<id>.json: the call it asks about
  granted,      \* ipc/approval_granted/<id>.json
  denied,       \* ipc/approval_denied/<id>.json
  requestLog,   \* logs/approvals/<id>.request.json
  decisionLog,  \* logs/approvals/<id>.decision.json
  \* processes
  stage,        \* per call, its executor: running, asking, asked, dropped
  run,          \* per resumer, what it looks for and what it has put to the model
  desk          \* per decider, the locals of record_decision

decisionVars == <<granted, denied, decisionLog>>
executorVars == <<requestLog, stage, run>>
vars == <<awaiting, granted, denied, requestLog, decisionLog, stage, run, desk>>

\* A decision file: who decided, and the request that was merged into it.
Response(d, c) == [by |-> d, on |-> c]
Desk(at, id, on) == [at |-> at, id |-> id, on |-> on]

\* A resumption: of which request, the response it heard, and as history, which
\* resumptions of the request had heard one when it began, and whether it was
\* blind to a granted file that was there.
Run(at, id, heard, before, blind) ==
  [at |-> at, id |-> id, heard |-> heard, before |-> before, blind |-> blind]

Ready == Run("ready", None, None, {}, FALSE)

Init ==
  /\ awaiting = [i \in Id |-> None]
  /\ granted = [i \in Id |-> None]
  /\ denied = [i \in Id |-> None]
  /\ requestLog = [i \in Id |-> None]
  /\ decisionLog = [i \in Id |-> None]
  /\ stage = [c \in Call |-> "running"]
  /\ run = [r \in Resumer |-> Ready]
  /\ desk = [d \in Decider |-> Desk("ready", None, None)]

-----------------------------------------------------------------------------
\* The executor asks.

\* A batch is over and c is the first of its calls that wants approval: the first
\* write of write_approval_request.  The others have run as well and are
\* recorded, but nobody is asked about them.
Ask(c, others) ==
  /\ stage[c] = "running"
  /\ \A o \in others : stage[o] = "running"
  /\ awaiting' = [awaiting EXCEPT ![IdOf[c]] = c]
  /\ stage' = [x \in Call |-> IF x = c THEN "asking"
                              ELSE IF x \in others THEN "dropped" ELSE stage[x]]
  /\ UNCHANGED <<decisionVars, requestLog, run, desk>>

\* Its second write, and the return of the executor.
LogRequest(c) ==
  /\ stage[c] = "asking"
  /\ requestLog' = [requestLog EXCEPT ![IdOf[c]] = c]
  /\ stage' = [stage EXCEPT ![c] = "asked"]
  /\ UNCHANGED <<awaiting, decisionVars, run, desk>>

\* The process dies between the two writes.
DieAsking(c) ==
  /\ stage[c] = "asking"
  /\ stage' = [stage EXCEPT ![c] = "asked"]
  /\ UNCHANGED <<awaiting, decisionVars, requestLog, run, desk>>

-----------------------------------------------------------------------------
\* A decider, in record_decision.

\* awaiting_path.exists(); without the file the call raises and nothing changes.
FindRequest(d, i) ==
  /\ desk[d].at = "ready"
  /\ awaiting[i] # None
  /\ desk' = [desk EXCEPT ![d] = Desk("found", i, None)]
  /\ UNCHANGED <<awaiting, decisionVars, executorVars>>

\* open raises if the file has gone in the meantime.
ReadRequest(d) ==
  /\ desk[d].at = "found"
  /\ desk' = [desk EXCEPT ![d] =
                IF awaiting[@.id] = None THEN Desk("failed", @.id, None)
                ELSE Desk("read", @.id, awaiting[@.id])]
  /\ UNCHANGED <<awaiting, decisionVars, executorVars>>

\* Mutant of WriteVerdict: the request is removed first, as by a rename.
WriteVerdictMoving(d) ==
  /\ desk[d].at = "read"
  /\ awaiting' = [awaiting EXCEPT ![desk[d].id] = None]
  /\ desk' = [desk EXCEPT ![d] = Desk("written", @.id, @.on)]
  /\ UNCHANGED <<decisionVars, executorVars>>

\* The decision with the request merged into it.
WriteVerdict(d) ==
  LET i == desk[d].id
      r == Response(d, desk[d].on)
  IN /\ desk[d].at = "read"
     /\ granted' = IF VerdictOf[d] = "granted" THEN [granted EXCEPT ![i] = r] ELSE granted
     /\ denied' = IF VerdictOf[d] = "denied" THEN [denied EXCEPT ![i] = r] ELSE denied
     /\ desk' = [desk EXCEPT ![d] = Desk("written", @.id, @.on)]
     /\ UNCHANGED <<awaiting, decisionLog, executorVars>>

\* Mutant of LogVerdict: the request is removed before the decision is logged.
RemoveBeforeLog(d) ==
  /\ desk[d].at = "written"
  /\ awaiting' = [awaiting EXCEPT ![desk[d].id] = None]
  /\ desk' = [desk EXCEPT ![d] = Desk("logged", @.id, @.on)]
  /\ UNCHANGED <<decisionVars, executorVars>>

\* The copy for the audit replaces that of any other decision under the id.
LogVerdict(d) ==
  /\ desk[d].at = "written"
  /\ decisionLog' = [decisionLog EXCEPT ![desk[d].id] = Response(d, desk[d].on)]
  /\ desk' = [desk EXCEPT ![d] = Desk("logged", @.id, @.on)]
  /\ UNCHANGED <<awaiting, granted, denied, executorVars>>

\* Mutant of RemoveRequest: the unlink is left out.
KeepRequest(d) ==
  /\ desk[d].at = "logged"
  /\ desk' = [desk EXCEPT ![d] = Desk("done", @.id, @.on)]
  /\ UNCHANGED <<awaiting, decisionVars, executorVars>>

\* unlink, of whatever request the id's file holds by now.
RemoveRequest(d) ==
  /\ desk[d].at = "logged"
  /\ awaiting' = [awaiting EXCEPT ![desk[d].id] = None]
  /\ desk' = [desk EXCEPT ![d] = Desk("done", @.id, @.on)]
  /\ UNCHANGED <<decisionVars, executorVars>>

-----------------------------------------------------------------------------
\* The executor resumes, in resume_from_approval and find_decision.  It is called
\* with the id of a request, outside the session queue, and looks at nothing but
\* the decision, which nothing consumes: a request may be resumed again, and by
\* several at once.

\* The resumptions of request i that have put a response to the model.
Informed(i) == {q \in Resumer : run[q].id = i /\ run[q].heard # None}

\* Mutant of LookForGrant: a denial is looked for first, and any file will do.
LookForAnything(r, i) ==
  /\ run[r].at = "ready"
  /\ \E j \in Id : \E file \in {granted[j], denied[j]} \ {None} :
       run' = [run EXCEPT ![r] = Run("resumed", i, file, Informed(i), FALSE)]
  /\ UNCHANGED <<awaiting, decisionVars, requestLog, stage, desk>>

\* The granted file is looked for first.  One that cannot be read is passed over
\* as if it was not there.
LookForGrant(r, i) ==
  /\ run[r].at = "ready"
  /\ \/ /\ granted[i] # None
        /\ run' = [run EXCEPT ![r] = Run("resumed", i, granted[i], Informed(i), FALSE)]
     \/ run' = [run EXCEPT ![r] =
                  Run("looking", i, None, Informed(i), granted[i] # None)]
  /\ UNCHANGED <<awaiting, decisionVars, requestLog, stage, desk>>

\* Then the denied one; if there is none, or none that can be read, the call
\* raises.
LookForDenial(r) ==
  /\ run[r].at = "looking"
  /\ \/ /\ denied[run[r].id] # None
        /\ run' = [run EXCEPT ![r] = Run("resumed", @.id, denied[@.id], @.before, @.blind)]
     \/ run' = [run EXCEPT ![r] = Ready]
  /\ UNCHANGED <<awaiting, decisionVars, requestLog, stage, desk>>

\* The loop that goes on with the decision runs beside any other.  A batch of it
\* may want approval again, which comes before a handoff in the same batch, and
\* ends the loop.
ResumedAsks(r, c, others) ==
  /\ run[r].at = "resumed"
  /\ run' = [run EXCEPT ![r] = Run("over", @.id, @.heard, @.before, @.blind)]
  /\ stage[c] = "running"
  /\ \A o \in others : stage[o] = "running"
  /\ awaiting' = [awaiting EXCEPT ![IdOf[c]] = c]
  /\ stage' = [y \in Call |-> IF y = c THEN "asking"
                              ELSE IF y \in others THEN "dropped" ELSE stage[y]]
  /\ UNCHANGED <<decisionVars, requestLog, desk>>

\* Without such a batch it ends with a handoff, an answer, its last turn or an
\* exception; none leaves a trace in the files of the protocol.
ResumedEnds(r) ==
  /\ run[r].at = "resumed"
  /\ run' = [run EXCEPT ![r] = Run("over", @.id, @.heard, @.before, @.blind)]
  /\ UNCHANGED <<awaiting, decisionVars, requestLog, stage, desk>>

-----------------------------------------------------------------------------
Next ==
  \/ \E c \in Call :
       \/ \E others \in SUBSET (Call \ {c}) : Ask(c, others)
       \/ LogRequest(c) \/ DieAsking(c)
  \/ \E r \in Resumer :
       \/ \E i \in Id : LookForGrant(r, i)
       \/ LookForDenial(r) \/ ResumedEnds(r)
       \/ \E c \in Call : \E others \in SUBSET (Call \ {c}) : ResumedAsks(r, c, others)
  \/ \E d \in Decider :
       \/ \E i \in Id : FindRequest(d, i)
       \/ ReadRequest(d) \/ WriteVerdict(d) \/ LogVerdict(d) \/ RemoveRequest(d)

Spec == Init /\ [][Next]_vars

=============================================================================
