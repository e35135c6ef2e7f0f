--------------------------- MODULE ApprovalProofs ---------------------------
(***************************************************************************)
(* For any number of calls, deciders and resumptions: types, the audit of  *)
(* every verdict, and that neither a request nor its answer is undone.     *)
(***************************************************************************)
EXTENDS ApprovalProperties, TLAPS

\* Every file, log entry and decider at work is about a call of its id.
AboutItsId ==
  /\ \A i \in Id : awaiting[i] # None => IdOf[awaiting[i]] = i
  /\ \A i \in Id : granted[i] # None => IdOf[granted[i].on] = i
  /\ \A i \in Id : denied[i] # None => IdOf[denied[i].on] = i
  /\ \A d \in Decider : desk[d].at # "ready" => desk[d].id \in Id
  /\ \A d \in Decider :
       desk[d].at \in TakenUp => desk[d].on \in Call /\ IdOf[desk[d].on] = desk[d].id

\* What a decider has done so far is there to be seen.
WorkShows ==
  /\ \A d \in Decider :
       desk[d].at \in {"logged", "done"} => decisionLog[desk[d].id] # None
  /\ \A d \in Decider :
       desk[d].at \in {"written", "logged", "done"}
         => granted[desk[d].id] # None \/ denied[desk[d].id] # None
  /\ \A d \in Decider :
       desk[d].at \in TakenUp /\ awaiting[desk[d].id] = None => decisionLog[desk[d].id] # None

\* Nobody is asked about a call that still runs.
AskedFirst ==
  /\ \A i \in Id : awaiting[i] # None => stage[awaiting[i]] # "running"
  /\ \A d \in Decider : desk[d].at \in TakenUp => stage[desk[d].on] # "running"

\* A response of a decider that wrote it: what it says is still on its desk.
OnDesk(table, r, i) ==
  /\ table[r.by].at \in {"written", "logged", "done"}
  /\ table[r.by].id = i
  /\ table[r.by].on = r.on

Written(r, i) == OnDesk(desk, r, i)

\* Every response that is in a file, in the log or was heard goes back to its decider.
Traced ==
  /\ \A i \in Id : granted[i] # None => Written(granted[i], i)
  /\ \A i \in Id : denied[i] # None => Written(denied[i], i)
  /\ \A i \in Id : decisionLog[i] # None => Written(decisionLog[i], i)
  /\ \A r \in Resumer : run[r].heard # None => Written(run[r].heard, run[r].id)

\* What a resumer knows of itself, and of those that were before it.
ResumersKnow ==
  /\ \A r \in Resumer : run[r].at # "ready" => run[r].id \in Id
  /\ \A r \in Resumer : run[r].heard # None => run[r].at \in {"resumed", "over"}
  /\ \A r \in Resumer : \A q \in run[r].before :
       run[q].id = run[r].id /\ run[q].heard # None

\* Each verdict is in the file that is called after it, and a grant that was heard is
\* still there to be found first by those that can read it.
GrantsKept ==
  /\ \A i \in Id : granted[i] # None => VerdictOf[granted[i].by] = "granted"
  /\ \A i \in Id : denied[i] # None => VerdictOf[denied[i].by] = "denied"
  /\ \A r \in Resumer : HeardGrant(r) => granted[run[r].id] # None
  /\ \A r \in Resumer :
       run[r].at = "looking" /\ (\E q \in run[r].before : HeardGrant(q)) => run[r].blind

IInv ==
  /\ TypeOK /\ AboutItsId /\ WorkShows /\ AskedFirst
  /\ VerdictsAreAudited /\ AnsweredIsClosed /\ NoRequestVanishes
  /\ Traced /\ ResumersKnow /\ GrantsKept /\ GrantsStick

\* A step of resumer r.
Resuming(r) ==
  \/ LookForDenial(r) \/ ResumedEnds(r) \/ \E i \in Id : LookForGrant(r, i)
  \/ \E c \in Call, others \in SUBSET Call : ResumedAsks(r, c, others)

\* Nobody else moves a resumer.
LEMMA ResumerOrNot ==
  ASSUME [Next]_vars
  PROVE  UNCHANGED run \/ \E r \in Resumer : Resuming(r)
  <1>1. ASSUME NEW r \in Resumer, NEW c \in Call, NEW others \in SUBSET (Call \ {c}),
               ResumedAsks(r, c, others)
        PROVE  Resuming(r)
    <2>1. others \in SUBSET Call
      OBVIOUS
    <2> QED
      BY <1>1, <2>1 DEF Resuming
  <1> QED
    BY <1>1 DEF Next, vars, Ask, LogRequest, DieAsking, FindRequest, ReadRequest, WriteVerdict,
                LogVerdict, RemoveRequest, executorVars, Resuming

\* What a resumer becomes is a resumer.
LEMMA RunsTyped ==
  ASSUME TypeOK, ResumersKnow, NEW r \in Resumer, Resuming(r)
  PROVE  \E e \in RunType : run' = [run EXCEPT ![r] = e]
  <1>1. run[r] \in RunType
    BY DEF TypeOK
  <1>2. \A i \in Id : Informed(i) \in SUBSET Resumer
    BY DEF Informed
  <1>3. ASSUME NEW i \in Id, LookForGrant(r, i)
        PROVE  \E e \in RunType : run' = [run EXCEPT ![r] = e]
    <2>1. granted[i] \in [by : Decider, on : Call] \union {None}
      BY DEF TypeOK, DecisionFile
    <2>2. /\ Run("resumed", i, granted[i], Informed(i), FALSE) \in RunType
          /\ Run("looking", i, None, Informed(i), granted[i] # None) \in RunType
      BY <1>2, <2>1 DEF Run, RunType
    <2> QED
      BY <1>3, <2>2 DEF LookForGrant
  <1>4. ASSUME LookForDenial(r)
        PROVE  \E e \in RunType : run' = [run EXCEPT ![r] = e]
    <2>1. denied[run[r].id] # None /\ run[r].id \in Id
            => denied[run[r].id] \in [by : Decider, on : Call]
      BY DEF TypeOK, DecisionFile
    <2>2. Ready \in RunType
      BY DEF Ready, Run, RunType
    <2>3. run[r].id \in Id
      BY <1>4 DEF LookForDenial, ResumersKnow
    <2>4. denied[run[r].id] # None
            => Run("resumed", run[r].id, denied[run[r].id], run[r].before, run[r].blind) \in RunType
      BY <1>1, <2>1, <2>3 DEF Run, RunType
    <2> QED
      BY <1>4, <2>2, <2>4 DEF LookForDenial
  <1>5. ASSUME run' = [run EXCEPT ![r] = Run("over", @.id, @.heard, @.before, @.blind)]
        PROVE  \E e \in RunType : run' = [run EXCEPT ![r] = e]
    <2>1. Run("over", run[r].id, run[r].heard, run[r].before, run[r].blind) \in RunType
      BY <1>1 DEF Run, RunType
    <2> QED
      BY <1>5, <2>1
  <1> QED
    BY <1>3, <1>4, <1>5 DEF Resuming, ResumedEnds, ResumedAsks

\* The type invariant of Approvals.
LEMMA TypeStep == TypeOK /\ AboutItsId /\ ResumersKnow /\ [Next]_vars => TypeOK'
  <1> USE DEF ApprovalAssumption
  <1> USE ApprovalAssumption
  <1> SUFFICES ASSUME TypeOK, AboutItsId, ResumersKnow, [Next]_vars PROVE TypeOK'
    OBVIOUS
  <1>1. ASSUME NEW c \in Call, NEW others \in SUBSET (Call \ {c}), Ask(c, others)
        PROVE  TypeOK'
    BY <1>1 DEF TypeOK, File, Ask, decisionVars
  <1>2. ASSUME NEW c \in Call, LogRequest(c) PROVE TypeOK'
    BY <1>2 DEF TypeOK, File, LogRequest, decisionVars
  <1>3. ASSUME NEW c \in Call, DieAsking(c) PROVE TypeOK'
    BY <1>3 DEF TypeOK, DieAsking, decisionVars
  <1>4. ASSUME NEW r \in Resumer, NEW e \in RunType, run' = [run EXCEPT ![r] = e],
              UNCHANGED <<awaiting, decisionVars, requestLog, stage, desk>>
        PROVE  TypeOK'
    BY <1>4 DEF TypeOK, decisionVars
  <1>5. ASSUME NEW r \in Resumer,
               LookForDenial(r) \/ ResumedEnds(r) \/ \E i \in Id : LookForGrant(r, i)
        PROVE  TypeOK'
    <2>1. PICK e \in RunType : run' = [run EXCEPT ![r] = e]
      BY <1>5, RunsTyped DEF Resuming
    <2> QED
      BY <1>4, <1>5, <2>1 DEF LookForDenial, ResumedEnds, LookForGrant
  <1>6. ASSUME NEW d \in Decider, NEW i \in Id, FindRequest(d, i) PROVE TypeOK'
    BY <1>6 DEF TypeOK, FindRequest, Desk, decisionVars, executorVars
  <1>7. ASSUME NEW d \in Decider, ReadRequest(d) PROVE TypeOK'
    <2>1. desk[d].id \in Id
      BY <1>7 DEF AboutItsId, ReadRequest
    <2>2. CASE awaiting[desk[d].id] = None
      BY <1>7, <2>1, <2>2 DEF TypeOK, ReadRequest, Desk, decisionVars, executorVars
    <2>3. CASE awaiting[desk[d].id] # None
      <3>1. awaiting[desk[d].id] \in Call
        BY <2>1, <2>3 DEF TypeOK, File
      <3> QED
        BY <1>7, <2>1, <2>3, <3>1
        DEF TypeOK, TakenUp, ReadRequest, Desk, decisionVars, executorVars
    <2> QED
      BY <2>2, <2>3
  <1>8. ASSUME NEW d \in Decider, WriteVerdict(d) PROVE TypeOK'
    <2>1. Response(d, desk[d].on) \in [by : Decider, on : Call]
      BY <1>8 DEF AboutItsId, TakenUp, WriteVerdict, Response
    <2>2. granted' \in DecisionFile /\ denied' \in DecisionFile
      BY <1>8, <2>1 DEF TypeOK, DecisionFile, WriteVerdict
    <2>3. desk' = [desk EXCEPT ![d] = Desk("written", desk[d].id, desk[d].on)]
      BY <1>8 DEF WriteVerdict
    <2>4. Desk("written", desk[d].id, desk[d].on)
            \in [at : {"ready", "found", "failed"} \union TakenUp,
                 id : Id \union {None}, on : Call \union {None}]
      BY DEF TypeOK, TakenUp, Desk
    <2>5. desk' \in [Decider -> [at : {"ready", "found", "failed"} \union TakenUp,
                                 id : Id \union {None}, on : Call \union {None}]]
      BY <2>3, <2>4 DEF TypeOK
    <2> QED
      BY <1>8, <2>2, <2>5 DEF TypeOK, WriteVerdict, executorVars
  <1>9. ASSUME NEW d \in Decider, LogVerdict(d) PROVE TypeOK'
    <2>1. Response(d, desk[d].on) \in [by : Decider, on : Call]
      BY <1>9 DEF AboutItsId, TakenUp, LogVerdict, Response
    <2>2. decisionLog' \in DecisionFile
      BY <1>9, <2>1 DEF TypeOK, DecisionFile, LogVerdict
    <2>3. desk' = [desk EXCEPT ![d] = Desk("logged", desk[d].id, desk[d].on)]
      BY <1>9 DEF LogVerdict
    <2>4. Desk("logged", desk[d].id, desk[d].on)
            \in [at : {"ready", "found", "failed"} \union TakenUp,
                 id : Id \union {None}, on : Call \union {None}]
      BY DEF TypeOK, TakenUp, Desk
    <2>5. desk' \in [Decider -> [at : {"ready", "found", "failed"} \union TakenUp,
                                 id : Id \union {None}, on : Call \union {None}]]
      BY <2>3, <2>4 DEF TypeOK
    <2> QED
      BY <1>9, <2>2, <2>5 DEF TypeOK, LogVerdict, executorVars
  <1>10. ASSUME NEW d \in Decider, RemoveRequest(d) PROVE TypeOK'
    BY <1>10 DEF TypeOK, File, TakenUp, RemoveRequest, Desk, decisionVars, executorVars
  <1>11. CASE UNCHANGED vars
    BY <1>11 DEF TypeOK, vars
  <1>12. ASSUME NEW r \in Resumer, NEW c \in Call, NEW others \in SUBSET (Call \ {c}),
               ResumedAsks(r, c, others)
        PROVE  TypeOK'
    <2>1. others \in SUBSET Call
      OBVIOUS
    <2>2. PICK e \in RunType : run' = [run EXCEPT ![r] = e]
      BY <1>12, <2>1, RunsTyped DEF Resuming
    <2> QED
      BY <1>12, <2>2 DEF TypeOK, File, ResumedAsks, decisionVars
  <1> QED
    BY <1>1, <1>2, <1>3, <1>4, <1>5, <1>6, <1>7, <1>8, <1>9, <1>10, <1>11,
       <1>12 DEF Next

\* Files and deciders stay about their ids.
LEMMA AboutStep == TypeOK /\ AboutItsId /\ [Next]_vars => AboutItsId'
  <1> USE ApprovalAssumption DEF ApprovalAssumption, TypeOK, File, DecisionFile, TakenUp, AboutItsId
  <1> SUFFICES ASSUME TypeOK, AboutItsId, [Next]_vars PROVE AboutItsId'
    OBVIOUS
  <1>1. ASSUME NEW c \in Call, NEW others \in SUBSET (Call \ {c}), Ask(c, others)
        PROVE  AboutItsId'
    BY <1>1 DEF Ask, decisionVars
  <1>2. ASSUME NEW c \in Call, LogRequest(c)
        PROVE  AboutItsId'
    BY <1>2 DEF LogRequest, decisionVars
  <1>3. ASSUME NEW c \in Call, DieAsking(c)
        PROVE  AboutItsId'
    BY <1>3 DEF DieAsking, decisionVars
  <1>4. CASE UNCHANGED <<awaiting, decisionVars, requestLog, stage, desk>>
    BY <1>4 DEF decisionVars
  <1>5. ASSUME NEW d \in Decider, NEW i \in Id, FindRequest(d, i)
        PROVE  AboutItsId'
    BY <1>5 DEF FindRequest, Desk, decisionVars, executorVars
  <1>6. ASSUME NEW d \in Decider, ReadRequest(d)
        PROVE  AboutItsId'
    BY <1>6 DEF ReadRequest, Desk, decisionVars, executorVars
  <1>7. ASSUME NEW d \in Decider, WriteVerdict(d)
        PROVE  AboutItsId'
    BY <1>7 DEF WriteVerdict, Desk, Response, executorVars
  <1>8. ASSUME NEW d \in Decider, LogVerdict(d)
        PROVE  AboutItsId'
    BY <1>8 DEF LogVerdict, Desk, Response, executorVars
  <1>9. ASSUME NEW d \in Decider, RemoveRequest(d)
        PROVE  AboutItsId'
    BY <1>9 DEF RemoveRequest, Desk, decisionVars, executorVars
  <1>10. CASE UNCHANGED vars
    BY <1>10 DEF vars
  <1>11. ASSUME NEW r \in Resumer, NEW c \in Call, NEW others \in SUBSET (Call \ {c}),
               ResumedAsks(r, c, others)
        PROVE  AboutItsId'
    BY <1>11 DEF ResumedAsks, decisionVars
  <1> QED
    BY <1>1, <1>2, <1>3, <1>4, <1>5, <1>6, <1>7, <1>8, <1>9, <1>10, <1>11
       DEF Next, LookForGrant, LookForDenial, ResumedEnds

\* The traces of a decider's work stay.
LEMMA WorkStep == TypeOK /\ AboutItsId /\ WorkShows /\ [Next]_vars => WorkShows'
  <1> USE ApprovalAssumption DEF ApprovalAssumption, TypeOK, File, DecisionFile, TakenUp, AboutItsId, WorkShows
  <1> SUFFICES ASSUME TypeOK, AboutItsId, WorkShows, [Next]_vars PROVE WorkShows'
    OBVIOUS
  <1>1. ASSUME NEW c \in Call, NEW others \in SUBSET (Call \ {c}), Ask(c, others)
        PROVE  WorkShows'
    BY <1>1 DEF Ask, decisionVars
  <1>2. ASSUME NEW c \in Call, LogRequest(c)
        PROVE  WorkShows'
    BY <1>2 DEF LogRequest, decisionVars
  <1>3. ASSUME NEW c \in Call, DieAsking(c)
        PROVE  WorkShows'
    BY <1>3 DEF DieAsking, decisionVars
  <1>4. CASE UNCHANGED <<awaiting, decisionVars, requestLog, stage, desk>>
    BY <1>4 DEF decisionVars
  <1>5. ASSUME NEW d \in Decider, NEW i \in Id, FindRequest(d, i)
        PROVE  WorkShows'
    BY <1>5 DEF FindRequest, Desk, decisionVars, executorVars
  <1>6. ASSUME NEW d \in Decider, ReadRequest(d)
        PROVE  WorkShows'
    BY <1>6 DEF ReadRequest, Desk, decisionVars, executorVars
  <1>7. ASSUME NEW d \in Decider, WriteVerdict(d)
        PROVE  WorkShows'
    <2>1. Response(d, desk[d].on) # None
      BY <1>7 DEF WriteVerdict, Response
    <2>2. desk[d].id \in Id
      BY <1>7 DEF WriteVerdict
    <2>3. granted'[desk[d].id] # None \/ denied'[desk[d].id] # None
      BY <1>7, <2>1, <2>2 DEF WriteVerdict, Verdict
    <2>4. \A i \in Id : /\ granted[i] # None => granted'[i] # None
                       /\ denied[i] # None => denied'[i] # None
      BY <1>7, <2>1 DEF WriteVerdict
    <2> QED
      BY <1>7, <2>3, <2>4 DEF WriteVerdict, Desk, executorVars
  <1>8. ASSUME NEW d \in Decider, LogVerdict(d)
        PROVE  WorkShows'
    BY <1>8 DEF LogVerdict, Desk, Response, executorVars
  <1>9. ASSUME NEW d \in Decider, RemoveRequest(d)
        PROVE  WorkShows'
    BY <1>9 DEF RemoveRequest, Desk, decisionVars, executorVars
  <1>10. CASE UNCHANGED vars
    BY <1>10 DEF vars
  <1>11. ASSUME NEW r \in Resumer, NEW c \in Call, NEW others \in SUBSET (Call \ {c}),
               ResumedAsks(r, c, others)
        PROVE  WorkShows'
    BY <1>11 DEF ResumedAsks, decisionVars
  <1> QED
    BY <1>1, <1>2, <1>3, <1>4, <1>5, <1>6, <1>7, <1>8, <1>9, <1>10, <1>11
       DEF Next, LookForGrant, LookForDenial, ResumedEnds

\* A call that has been asked about does not run again.
LEMMA AskedStep == TypeOK /\ AboutItsId /\ AskedFirst /\ [Next]_vars => AskedFirst'
  <1> USE ApprovalAssumption DEF ApprovalAssumption, TypeOK, File, TakenUp, AboutItsId, AskedFirst
  <1> SUFFICES ASSUME TypeOK, AboutItsId, AskedFirst, [Next]_vars PROVE AskedFirst'
    OBVIOUS
  <1>1. ASSUME NEW c \in Call, NEW others \in SUBSET (Call \ {c}), Ask(c, others)
        PROVE  AskedFirst'
    BY <1>1 DEF Ask, decisionVars
  <1>2. ASSUME NEW c \in Call, LogRequest(c)
        PROVE  AskedFirst'
    BY <1>2 DEF LogRequest, decisionVars
  <1>3. ASSUME NEW c \in Call, DieAsking(c)
        PROVE  AskedFirst'
    BY <1>3 DEF DieAsking, decisionVars
  <1>4. CASE UNCHANGED <<awaiting, decisionVars, requestLog, stage, desk>>
    BY <1>4 DEF decisionVars
  <1>5. ASSUME NEW d \in Decider, NEW i \in Id, FindRequest(d, i)
        PROVE  AskedFirst'
    BY <1>5 DEF FindRequest, Desk, decisionVars, executorVars
  <1>6. ASSUME NEW d \in Decider, ReadRequest(d)
        PROVE  AskedFirst'
    BY <1>6 DEF ReadRequest, Desk, decisionVars, executorVars
  <1>7. ASSUME NEW d \in Decider, WriteVerdict(d)
        PROVE  AskedFirst'
    BY <1>7 DEF WriteVerdict, Desk, Response, executorVars
  <1>8. ASSUME NEW d \in Decider, LogVerdict(d)
        PROVE  AskedFirst'
    BY <1>8 DEF LogVerdict, Desk, Response, executorVars
  <1>9. ASSUME NEW d \in Decider, RemoveRequest(d)
        PROVE  AskedFirst'
    BY <1>9 DEF RemoveRequest, Desk, decisionVars, executorVars
  <1>10. CASE UNCHANGED vars
    BY <1>10 DEF vars
  <1>11. ASSUME NEW r \in Resumer, NEW c \in Call, NEW others \in SUBSET (Call \ {c}),
               ResumedAsks(r, c, others)
        PROVE  AskedFirst'
    BY <1>11 DEF ResumedAsks, decisionVars
  <1> QED
    BY <1>1, <1>2, <1>3, <1>4, <1>5, <1>6, <1>7, <1>8, <1>9, <1>10, <1>11
       DEF Next, LookForGrant, LookForDenial, ResumedEnds

\* A request whose verdict is not logged stays pending.
LEMMA AuditStep == TypeOK /\ AboutItsId /\ WorkShows /\ VerdictsAreAudited /\ [Next]_vars => VerdictsAreAudited'
  <1> USE ApprovalAssumption DEF ApprovalAssumption, TypeOK, File, DecisionFile, TakenUp, AboutItsId, WorkShows, VerdictsAreAudited
  <1> SUFFICES ASSUME TypeOK, AboutItsId, WorkShows, VerdictsAreAudited, [Next]_vars PROVE VerdictsAreAudited'
    OBVIOUS
  <1>1. ASSUME NEW c \in Call, NEW others \in SUBSET (Call \ {c}), Ask(c, others)
        PROVE  VerdictsAreAudited'
    BY <1>1 DEF Ask, decisionVars
  <1>2. ASSUME NEW c \in Call, LogRequest(c)
        PROVE  VerdictsAreAudited'
    BY <1>2 DEF LogRequest, decisionVars
  <1>3. ASSUME NEW c \in Call, DieAsking(c)
        PROVE  VerdictsAreAudited'
    BY <1>3 DEF DieAsking, decisionVars
  <1>4. CASE UNCHANGED <<awaiting, decisionVars, requestLog, stage, desk>>
    BY <1>4 DEF decisionVars
  <1>5. ASSUME NEW d \in Decider, NEW i \in Id, FindRequest(d, i)
        PROVE  VerdictsAreAudited'
    BY <1>5 DEF FindRequest, Desk, decisionVars, executorVars
  <1>6. ASSUME NEW d \in Decider, ReadRequest(d)
        PROVE  VerdictsAreAudited'
    BY <1>6 DEF ReadRequest, Desk, decisionVars, executorVars
  <1>7. ASSUME NEW d \in Decider, WriteVerdict(d)
        PROVE  VerdictsAreAudited'
    BY <1>7 DEF WriteVerdict, Desk, Response, executorVars
  <1>8. ASSUME NEW d \in Decider, LogVerdict(d)
        PROVE  VerdictsAreAudited'
    BY <1>8 DEF LogVerdict, Desk, Response, executorVars
  <1>9. ASSUME NEW d \in Decider, RemoveRequest(d)
        PROVE  VerdictsAreAudited'
    BY <1>9 DEF RemoveRequest, Desk, decisionVars, executorVars
  <1>10. CASE UNCHANGED vars
    BY <1>10 DEF vars
  <1>11. ASSUME NEW r \in Resumer, NEW c \in Call, NEW others \in SUBSET (Call \ {c}),
               ResumedAsks(r, c, others)
        PROVE  VerdictsAreAudited'
    BY <1>11 DEF ResumedAsks, decisionVars
  <1> QED
    BY <1>1, <1>2, <1>3, <1>4, <1>5, <1>6, <1>7, <1>8, <1>9, <1>10, <1>11
       DEF Next, LookForGrant, LookForDenial, ResumedEnds

\* Nobody asks about, and so nobody finds, a request that is closed.
LEMMA ClosedStep == TypeOK /\ AboutItsId /\ AskedFirst /\ AnsweredIsClosed /\ [Next]_vars => AnsweredIsClosed'
  <1> USE ApprovalAssumption DEF ApprovalAssumption, TypeOK, File, TakenUp, Alone, AboutItsId, AskedFirst, AnsweredIsClosed
  <1> SUFFICES ASSUME TypeOK, AboutItsId, AskedFirst, AnsweredIsClosed, [Next]_vars PROVE AnsweredIsClosed'
    OBVIOUS
  <1>1. ASSUME NEW c \in Call, NEW others \in SUBSET (Call \ {c}), Ask(c, others)
        PROVE  AnsweredIsClosed'
    BY <1>1 DEF Ask, decisionVars
  <1>2. ASSUME NEW c \in Call, LogRequest(c)
        PROVE  AnsweredIsClosed'
    BY <1>2 DEF LogRequest, decisionVars
  <1>3. ASSUME NEW c \in Call, DieAsking(c)
        PROVE  AnsweredIsClosed'
    BY <1>3 DEF DieAsking, decisionVars
  <1>4. CASE UNCHANGED <<awaiting, decisionVars, requestLog, stage, desk>>
    BY <1>4 DEF decisionVars
  <1>5. ASSUME NEW d \in Decider, NEW i \in Id, FindRequest(d, i)
        PROVE  AnsweredIsClosed'
    BY <1>5 DEF FindRequest, Desk, decisionVars, executorVars
  <1>6. ASSUME NEW d \in Decider, ReadRequest(d)
        PROVE  AnsweredIsClosed'
    BY <1>6 DEF ReadRequest, Desk, decisionVars, executorVars
  <1>7. ASSUME NEW d \in Decider, WriteVerdict(d)
        PROVE  AnsweredIsClosed'
    BY <1>7 DEF WriteVerdict, Desk, Response, executorVars
  <1>8. ASSUME NEW d \in Decider, LogVerdict(d)
        PROVE  AnsweredIsClosed'
    BY <1>8 DEF LogVerdict, Desk, Response, executorVars
  <1>9. ASSUME NEW d \in Decider, RemoveRequest(d)
        PROVE  AnsweredIsClosed'
    BY <1>9 DEF RemoveRequest, Desk, decisionVars, executorVars
  <1>10. CASE UNCHANGED vars
    BY <1>10 DEF vars
  <1>11. ASSUME NEW r \in Resumer, NEW c \in Call, NEW others \in SUBSET (Call \ {c}),
               ResumedAsks(r, c, others)
        PROVE  AnsweredIsClosed'
    BY <1>11 DEF ResumedAsks, decisionVars
  <1> QED
    BY <1>1, <1>2, <1>3, <1>4, <1>5, <1>6, <1>7, <1>8, <1>9, <1>10, <1>11
       DEF Next, LookForGrant, LookForDenial, ResumedEnds

\* A request is removed only behind its verdict.
LEMMA VanishStep == TypeOK /\ AboutItsId /\ WorkShows /\ NoRequestVanishes /\ [Next]_vars => NoRequestVanishes'
  <1> USE ApprovalAssumption DEF ApprovalAssumption, TypeOK, File, DecisionFile, TakenUp, Alone, Asked, AboutItsId, WorkShows, NoRequestVanishes
  <1> SUFFICES ASSUME TypeOK, AboutItsId, WorkShows, NoRequestVanishes, [Next]_vars PROVE NoRequestVanishes'
    OBVIOUS
  <1>1. ASSUME NEW c \in Call, NEW others \in SUBSET (Call \ {c}), Ask(c, others)
        PROVE  NoRequestVanishes'
    BY <1>1 DEF Ask, decisionVars
  <1>2. ASSUME NEW c \in Call, LogRequest(c)
        PROVE  NoRequestVanishes'
    BY <1>2 DEF LogRequest, decisionVars
  <1>3. ASSUME NEW c \in Call, DieAsking(c)
        PROVE  NoRequestVanishes'
    BY <1>3 DEF DieAsking, decisionVars
  <1>4. CASE UNCHANGED <<awaiting, decisionVars, requestLog, stage, desk>>
    BY <1>4 DEF decisionVars
  <1>5. ASSUME NEW d \in Decider, NEW i \in Id, FindRequest(d, i)
        PROVE  NoRequestVanishes'
    BY <1>5 DEF FindRequest, Desk, decisionVars, executorVars
  <1>6. ASSUME NEW d \in Decider, ReadRequest(d)
        PROVE  NoRequestVanishes'
    BY <1>6 DEF ReadRequest, Desk, decisionVars, executorVars
  <1>7. ASSUME NEW d \in Decider, WriteVerdict(d)
        PROVE  NoRequestVanishes'
    BY <1>7 DEF WriteVerdict, Desk, Response, executorVars
  <1>8. ASSUME NEW d \in Decider, LogVerdict(d)
        PROVE  NoRequestVanishes'
    BY <1>8 DEF LogVerdict, Desk, Response, executorVars
  <1>9. ASSUME NEW d \in Decider, RemoveRequest(d)
        PROVE  NoRequestVanishes'
    BY <1>9 DEF RemoveRequest, Desk, decisionVars, executorVars
  <1>10. CASE UNCHANGED vars
    BY <1>10 DEF vars
  <1>11. ASSUME NEW r \in Resumer, NEW c \in Call, NEW others \in SUBSET (Call \ {c}),
               ResumedAsks(r, c, others)
        PROVE  NoRequestVanishes'
    BY <1>11 DEF ResumedAsks, decisionVars
  <1> QED
    BY <1>1, <1>2, <1>3, <1>4, <1>5, <1>6, <1>7, <1>8, <1>9, <1>10, <1>11
       DEF Next, LookForGrant, LookForDenial, ResumedEnds

\* A decider that moves one of its last three steps on keeps what it has written
\* on its desk, and nobody else's desk changes.
LEMMA DeskKeepsWritten ==
  ASSUME TypeOK, NEW d \in Decider, NEW at \in {"written", "logged", "done"},
         desk' = [desk EXCEPT ![d] = Desk(at, @.id, @.on)],
         NEW r \in [by : Decider, on : Call], NEW i \in Id, Written(r, i)
  PROVE  OnDesk(desk', r, i)
  <1>1. CASE r.by = d
    BY <1>1 DEF TypeOK, Desk, Written, OnDesk
  <1>2. CASE r.by # d
    BY <1>2 DEF TypeOK, Written, OnDesk
  <1> QED
    BY <1>1, <1>2

\* A decider that has not written yet has nothing on its desk that counts.
LEMMA EarlyDeskKeepsWritten ==
  ASSUME TypeOK, NEW d \in Decider, desk[d].at \in {"ready", "found", "read"},
         \A e \in Decider \ {d} : desk'[e] = desk[e],
         NEW r \in [by : Decider, on : Call], NEW i \in Id, Written(r, i)
  PROVE  OnDesk(desk', r, i)
  <1>1. r.by \in Decider \ {d}
    BY DEF Written, OnDesk
  <1> QED
    BY <1>1 DEF Written, OnDesk

\* Files that keep their responses, or get one that stands on a desk, stay traced.
LEMMA FilesStayTraced ==
  ASSUME TypeOK, ResumersKnow, Traced, UNCHANGED run,
         \A r \in [by : Decider, on : Call], i \in Id : Written(r, i) => OnDesk(desk', r, i),
         \A i \in Id :
           /\ granted'[i] = granted[i] \/ OnDesk(desk', granted'[i], i)
           /\ denied'[i] = denied[i] \/ OnDesk(desk', denied'[i], i)
           /\ decisionLog'[i] = decisionLog[i] \/ OnDesk(desk', decisionLog'[i], i)
  PROVE  Traced'
  <1> DEFINE R == [by : Decider, on : Call]
  <1>1. ASSUME NEW i \in Id
        PROVE  /\ granted'[i] # None => OnDesk(desk', granted'[i], i)
               /\ denied'[i] # None => OnDesk(desk', denied'[i], i)
               /\ decisionLog'[i] # None => OnDesk(desk', decisionLog'[i], i)
    <2>1. /\ granted[i] \in R \union {None}
          /\ denied[i] \in R \union {None}
          /\ decisionLog[i] \in R \union {None}
      BY DEF TypeOK, DecisionFile
    <2>2. /\ granted[i] # None => OnDesk(desk', granted[i], i)
          /\ denied[i] # None => OnDesk(desk', denied[i], i)
          /\ decisionLog[i] # None => OnDesk(desk', decisionLog[i], i)
      BY <2>1 DEF Traced
    <2> QED
      BY <2>2
  <1>2. ASSUME NEW r \in Resumer, run[r].heard # None
        PROVE  OnDesk(desk', run[r].heard, run[r].id)
    <2>1. run[r].heard \in R
      BY <1>2 DEF TypeOK, RunType
    <2>2. run[r].id \in Id
      BY <1>2 DEF ResumersKnow
    <2> QED
      BY <1>2, <2>1, <2>2 DEF Traced
  <1> QED
    BY <1>1, <1>2 DEF Traced, Written

\* A resumer leaves the others alone, and the decisions.
LEMMA OthersStay ==
  ASSUME TypeOK, ResumersKnow, NEW r \in Resumer, Resuming(r)
  PROVE  /\ UNCHANGED <<decisionVars, desk>>
         /\ \A x \in Resumer \ {r} : run'[x] = run[x]
  <1>1. PICK e \in RunType : run' = [run EXCEPT ![r] = e]
    BY RunsTyped
  <1> QED
    BY <1>1 DEF TypeOK, Resuming, LookForDenial, ResumedEnds, LookForGrant, ResumedAsks

\* What e, a resumer, looks like.
Shows(e, at, id, heard, before, blind) ==
  /\ e.at = at /\ e.id = id /\ e.heard = heard /\ e.before = before /\ e.blind = blind

\* What becomes of the resumer itself: it hears what is in a file of its id, or
\* begins to look, or gives up, or goes on with what it has heard.
LEMMA OneHears ==
  ASSUME TypeOK, NEW r \in Resumer, Resuming(r)
  PROVE  \/ \E i \in Id : /\ run[r].at = "ready" /\ granted[i] # None
                          /\ Shows(run'[r], "resumed", i, granted[i], Informed(i), FALSE)
         \/ \E i \in Id : /\ run[r].at = "ready"
                          /\ Shows(run'[r], "looking", i, None, Informed(i), granted[i] # None)
         \/ /\ run[r].at = "looking" /\ denied[run[r].id] # None
            /\ Shows(run'[r], "resumed", run[r].id, denied[run[r].id], run[r].before, run[r].blind)
         \/ /\ run[r].at = "looking" /\ Shows(run'[r], "ready", None, None, {}, FALSE)
         \/ /\ run[r].at = "resumed"
            /\ Shows(run'[r], "over", run[r].id, run[r].heard, run[r].before, run[r].blind)
  <1>1. CASE \E i \in Id : LookForGrant(r, i)
    BY <1>1 DEF TypeOK, LookForGrant, Run, Shows
  <1>2. CASE LookForDenial(r)
    BY <1>2 DEF TypeOK, LookForDenial, Ready, Run, Shows
  <1>3. CASE run[r].at = "resumed" /\ run' = [run EXCEPT ![r] = Run("over", @.id, @.heard, @.before, @.blind)]
    BY <1>3 DEF TypeOK, Run, Shows
  <1> QED
    BY <1>1, <1>2, <1>3 DEF Resuming, ResumedEnds, ResumedAsks

\* No response loses its author.
LEMMA TracedStep == TypeOK /\ AboutItsId /\ ResumersKnow /\ Traced /\ [Next]_vars => Traced'
  <1> SUFFICES ASSUME TypeOK, AboutItsId, ResumersKnow, Traced, [Next]_vars PROVE Traced'
    OBVIOUS
  <1> DEFINE R == [by : Decider, on : Call]
  <1>1. CASE UNCHANGED <<decisionVars, run, desk>>
    BY <1>1 DEF decisionVars, Traced, Written, OnDesk
  <1>2. ASSUME UNCHANGED <<decisionVars, desk>>, NEW r \in Resumer,
               \A x \in Resumer \ {r} : run'[x] = run[x],
               run'[r].heard # None => Written(run'[r].heard, run'[r].id)
        PROVE  Traced'
    BY <1>2 DEF decisionVars, Traced, Written, OnDesk
  <1>3. ASSUME NEW r \in Resumer, Resuming(r)
        PROVE  Traced'
    <2>1. UNCHANGED <<decisionVars, desk>> /\ \A x \in Resumer \ {r} : run'[x] = run[x]
      BY <1>3, OthersStay
    <2>2. run'[r].heard # None => Written(run'[r].heard, run'[r].id)
      BY <1>3, OneHears DEF Traced, ResumersKnow, Shows
    <2> QED
      BY <1>2, <2>1, <2>2
  <1>4. ASSUME NEW d \in Decider, ReadRequest(d) \/ \E i \in Id : FindRequest(d, i)
        PROVE  Traced'
    <2>1. /\ desk[d].at \in {"ready", "found", "read"}
          /\ \A e \in Decider \ {d} : desk'[e] = desk[e]
          /\ UNCHANGED <<decisionVars, executorVars>>
      BY <1>4 DEF FindRequest, ReadRequest, TypeOK
    <2>2. \A r \in R, i \in Id : Written(r, i) => OnDesk(desk', r, i)
      BY <2>1, EarlyDeskKeepsWritten
    <2> QED
      BY <2>1, <2>2, FilesStayTraced DEF decisionVars, executorVars
  <1>5. ASSUME NEW d \in Decider, WriteVerdict(d)
        PROVE  Traced'
    <2> DEFINE i == desk[d].id
               r == Response(d, desk[d].on)
    <2>1. /\ desk[d].at = "read"
          /\ granted' = granted \/ granted' = [granted EXCEPT ![i] = r]
          /\ denied' = denied \/ denied' = [denied EXCEPT ![i] = r]
          /\ desk' = [desk EXCEPT ![d] = Desk("written", @.id, @.on)]
          /\ UNCHANGED <<decisionLog, run>>
      BY <1>5 DEF WriteVerdict, executorVars
    <2>2. \A q \in R, j \in Id : Written(q, j) => OnDesk(desk', q, j)
      BY <2>1, DeskKeepsWritten
    <2>3. OnDesk(desk', r, i)
      BY <2>1 DEF OnDesk, Response, Desk, TypeOK
    <2>4. \A j \in Id : /\ granted'[j] = granted[j] \/ (j = i /\ granted'[j] = r)
                        /\ denied'[j] = denied[j] \/ (j = i /\ denied'[j] = r)
      BY <2>1 DEF TypeOK, DecisionFile
    <2> HIDE DEF i, r
    <2> QED
      BY <2>1, <2>2, <2>3, <2>4, FilesStayTraced
  <1>6. ASSUME NEW d \in Decider, LogVerdict(d)
        PROVE  Traced'
    <2> DEFINE i == desk[d].id
               r == Response(d, desk[d].on)
    <2>1. /\ decisionLog' = [decisionLog EXCEPT ![i] = r]
          /\ desk' = [desk EXCEPT ![d] = Desk("logged", @.id, @.on)]
          /\ UNCHANGED <<granted, denied, run>>
      BY <1>6 DEF LogVerdict, executorVars
    <2>2. \A q \in R, j \in Id : Written(q, j) => OnDesk(desk', q, j)
      BY <2>1, DeskKeepsWritten
    <2>3. OnDesk(desk', r, i)
      BY <2>1 DEF OnDesk, Response, Desk, TypeOK
    <2>4. \A j \in Id : decisionLog'[j] = decisionLog[j] \/ (j = i /\ decisionLog'[j] = r)
      BY <2>1 DEF TypeOK, DecisionFile
    <2> HIDE DEF i, r
    <2> QED
      BY <2>1, <2>2, <2>3, <2>4, FilesStayTraced
  <1>7. ASSUME NEW d \in Decider, RemoveRequest(d)
        PROVE  Traced'
    <2>1. /\ desk' = [desk EXCEPT ![d] = Desk("done", @.id, @.on)]
          /\ UNCHANGED <<decisionVars, executorVars>>
      BY <1>7 DEF RemoveRequest
    <2>2. \A q \in R, j \in Id : Written(q, j) => OnDesk(desk', q, j)
      BY <2>1, DeskKeepsWritten
    <2> QED
      BY <2>1, <2>2, FilesStayTraced DEF decisionVars, executorVars
  <1> QED
    BY <1>1, <1>3, <1>4, <1>5, <1>6, <1>7, ResumerOrNot
       DEF Next, Ask, LogRequest, DieAsking, LookForGrant, LookForDenial, ResumedAsks, ResumedEnds,
           vars, decisionVars

\* What a resumer has heard it keeps.
LEMMA HeardStays ==
  ASSUME TypeOK, ResumersKnow, NEW r \in Resumer, Resuming(r),
         NEW q \in Resumer, run[q].heard # None
  PROVE  run'[q].id = run[q].id /\ run'[q].heard = run[q].heard
  <1>1. CASE q # r
    BY <1>1, OthersStay
  <1>2. CASE q = r
    BY <1>2, OneHears DEF ResumersKnow, Shows
  <1> QED
    BY <1>1, <1>2

\* Resumers go on knowing.
LEMMA ResumersStep == TypeOK /\ ResumersKnow /\ [Next]_vars => ResumersKnow'
  <1> SUFFICES ASSUME TypeOK, ResumersKnow, [Next]_vars PROVE ResumersKnow'
    OBVIOUS
  <1>1. CASE UNCHANGED run
    BY <1>1 DEF ResumersKnow
  <1>2. ASSUME NEW r \in Resumer, Resuming(r) PROVE ResumersKnow'
    <2>1. \A x \in Resumer \ {r} : run'[x] = run[x]
      BY <1>2, OthersStay
    <2>2. /\ run'[r].at # "ready" => run'[r].id \in Id
          /\ run'[r].heard # None => run'[r].at \in {"resumed", "over"}
      BY <1>2, OneHears DEF ResumersKnow, Shows
    <2>3. ASSUME NEW x \in Resumer, NEW q \in run'[x].before
          PROVE  run'[q].id = run'[x].id /\ run'[q].heard # None
      <3>1. q \in Resumer /\ run[q].heard # None /\ run[q].id = run'[x].id
        <4>1. CASE x # r
          BY <2>1, <2>3, <4>1 DEF ResumersKnow, TypeOK, RunType
        <4>2. CASE x = r
          <5>1. \/ \E i \in Id : run'[r].before = Informed(i) /\ run'[r].id = i
                \/ run'[r].before = {}
                \/ run'[r].before = run[r].before /\ run'[r].id = run[r].id
            BY <1>2, OneHears DEF Shows
          <5> QED
            BY <2>3, <4>2, <5>1 DEF ResumersKnow, TypeOK, RunType, Informed
        <4> QED
          BY <4>1, <4>2
      <3> QED
        BY <1>2, <3>1, HeardStays
    <2> QED
      BY <2>1, <2>2, <2>3 DEF ResumersKnow
  <1> QED
    BY <1>1, <1>2, ResumerOrNot

\* The verdicts stay in the files called after them, whoever decides.
LEMMA VerdictsStay ==
  ASSUME TypeOK, AboutItsId, GrantsKept, [Next]_vars
  PROVE  \A i \in Id : /\ granted'[i] # None => VerdictOf[granted'[i].by] = "granted"
                       /\ denied'[i] # None => VerdictOf[denied'[i].by] = "denied"
                       /\ granted[i] # None => granted'[i] # None
  <1>1. CASE UNCHANGED <<granted, denied>>
    BY <1>1 DEF GrantsKept
  <1>2. ASSUME NEW d \in Decider, WriteVerdict(d)
        PROVE  \A i \in Id : /\ granted'[i] # None => VerdictOf[granted'[i].by] = "granted"
                             /\ denied'[i] # None => VerdictOf[denied'[i].by] = "denied"
                             /\ granted[i] # None => granted'[i] # None
    <2>1. /\ Response(d, desk[d].on).by = d
          /\ Response(d, desk[d].on) # None
      BY <1>2, ApprovalAssumption DEF ApprovalAssumption, AboutItsId, TakenUp, WriteVerdict, Response
    <2>2. VerdictOf[d] \in {"granted", "denied"}
      BY ApprovalAssumption DEF ApprovalAssumption, Verdict
    <2> QED
      BY <1>2, <2>1, <2>2 DEF WriteVerdict, GrantsKept, TypeOK, DecisionFile
  <1> QED
    BY <1>1, <1>2 DEF Next, vars, Ask, LogRequest, DieAsking, FindRequest, ReadRequest, LogVerdict,
         RemoveRequest, LookForGrant, LookForDenial, ResumedAsks, ResumedEnds, decisionVars

\* A grant once heard is found again by whoever can read it.
LEMMA KeptStep ==
  TypeOK /\ AboutItsId /\ ResumersKnow /\ GrantsKept /\ [Next]_vars => GrantsKept'
  <1> SUFFICES ASSUME TypeOK, AboutItsId, ResumersKnow, GrantsKept, [Next]_vars PROVE GrantsKept'
    OBVIOUS
  <1>1. \A i \in Id : /\ granted'[i] # None => VerdictOf[granted'[i].by] = "granted"
                      /\ denied'[i] # None => VerdictOf[denied'[i].by] = "denied"
                      /\ granted[i] # None => granted'[i] # None
    BY VerdictsStay
  <1>2. CASE UNCHANGED run
    <2>1. \A q : HeardGrant(q)' <=> HeardGrant(q)
      BY <1>2 DEF HeardGrant
    <2>2. \A r \in Resumer : run[r].heard # None => run[r].id \in Id
      BY DEF ResumersKnow
    <2>3. \A r \in Resumer : HeardGrant(r) => granted'[run[r].id] # None
      BY <1>1, <2>2 DEF GrantsKept, HeardGrant
    <2> QED
      BY <1>1, <1>2, <2>1, <2>3 DEF GrantsKept
  <1>3. ASSUME NEW r \in Resumer, Resuming(r) PROVE GrantsKept'
    <2>1. /\ UNCHANGED <<granted, denied>>
          /\ \A x \in Resumer \ {r} : run'[x] = run[x]
      BY <1>3, OthersStay DEF decisionVars
    <2>2. \A q \in Resumer : run[q].heard # None => (HeardGrant(q)' <=> HeardGrant(q))
      BY <1>3, HeardStays DEF HeardGrant
    <2>3. HeardGrant(r)' => granted[run'[r].id] # None
      <3>1. \/ \E i \in Id : granted[i] # None /\ run'[r].id = i
            \/ run'[r].heard = None
            \/ /\ run[r].at = "looking" /\ denied[run[r].id] # None
               /\ run'[r].heard = denied[run[r].id]
            \/ run'[r].heard = run[r].heard /\ run'[r].id = run[r].id
        BY <1>3, OneHears DEF Shows
      <3>2. run[r].at = "looking" => run[r].id \in Id
        BY DEF ResumersKnow
      <3> QED
        BY <3>1, <3>2 DEF GrantsKept, HeardGrant
    <2>4. ASSUME NEW x \in Resumer, run'[x].at = "looking", NEW q \in run'[x].before, HeardGrant(q)'
          PROVE  run'[x].blind
      <3>1. CASE x # r
        <4>1. run'[x] = run[x] /\ q \in run[x].before /\ q \in Resumer
          BY <2>1, <2>4, <3>1 DEF TypeOK, RunType
        <4>2. HeardGrant(q)
          BY <2>2, <2>4, <4>1 DEF ResumersKnow
        <4> QED
          BY <2>4, <4>1, <4>2 DEF GrantsKept
      <3>2. CASE x = r
        <4>1. PICK i \in Id : Shows(run'[r], "looking", i, None, Informed(i), granted[i] # None)
          BY <1>3, <2>4, <3>2, OneHears DEF Shows
        <4>2. q \in Resumer /\ run[q].heard # None /\ run[q].id = i
          BY <2>4, <3>2, <4>1 DEF Shows, Informed
        <4>3. granted[i] # None
          BY <2>2, <2>4, <4>2 DEF GrantsKept
        <4> QED
          BY <3>2, <4>1, <4>3 DEF Shows
      <3> QED
        BY <3>1, <3>2
    <2>5. ASSUME NEW x \in Resumer, HeardGrant(x)'
          PROVE  granted'[run'[x].id] # None
      <3>1. CASE x = r
        BY <2>1, <2>3, <2>5, <3>1
      <3>2. CASE x # r
        BY <2>1, <2>5, <3>2 DEF GrantsKept, HeardGrant
      <3> QED
        BY <3>1, <3>2
    <2> QED
      BY <1>1, <2>4, <2>5 DEF GrantsKept
  <1> QED
    BY <1>2, <1>3, ResumerOrNot

\* So nothing but a grant is heard after a grant, by whoever could read it.
LEMMA SticksStep ==
  TypeOK /\ ResumersKnow /\ GrantsKept /\ GrantsStick /\ [Next]_vars => GrantsStick'
  <1> SUFFICES ASSUME TypeOK, ResumersKnow, GrantsKept, GrantsStick, [Next]_vars PROVE GrantsStick'
    OBVIOUS
  <1>1. CASE UNCHANGED run
    BY <1>1 DEF GrantsStick, HeardGrant
  <1>2. ASSUME NEW r \in Resumer, Resuming(r) PROVE GrantsStick'
    <2> SUFFICES ASSUME NEW x \in Resumer, NEW q \in run'[x].before,
                        HeardGrant(q)', run'[x].heard # None
                 PROVE  HeardGrant(x)' \/ run'[x].blind
      BY DEF GrantsStick
    <2>1. \A y \in Resumer \ {r} : run'[y] = run[y]
      BY <1>2, OthersStay
    <2>2. ASSUME q \in run[x].before
          PROVE  HeardGrant(q)
      <3>1. q \in Resumer /\ run[q].heard # None
        BY <2>2 DEF ResumersKnow, TypeOK, RunType
      <3> QED
        BY <1>2, <3>1, HeardStays DEF HeardGrant
    <2>3. CASE x # r
      BY <2>1, <2>2, <2>3 DEF GrantsStick, HeardGrant
    <2>4. CASE x = r
      <3>1. CASE \E i \in Id : /\ granted[i] # None
                               /\ Shows(run'[r], "resumed", i, granted[i], Informed(i), FALSE)
        BY <2>4, <3>1 DEF GrantsKept, HeardGrant, Shows
      <3>2. CASE /\ run[r].at = "looking"
                 /\ Shows(run'[r], "resumed", run[r].id, denied[run[r].id], run[r].before, run[r].blind)
        BY <2>2, <2>4, <3>2 DEF GrantsKept, Shows
      <3>3. CASE Shows(run'[r], "over", run[r].id, run[r].heard, run[r].before, run[r].blind)
        BY <2>2, <2>4, <3>3 DEF GrantsStick, HeardGrant, Shows
      <3>4. CASE run'[r].heard = None
        BY <2>4, <3>4
      <3> QED
        BY <1>2, <3>1, <3>2, <3>3, <3>4, OneHears DEF Shows
    <2> QED
      BY <2>3, <2>4
  <1> QED
    BY <1>1, <1>2, ResumerOrNot

\* The inductive invariant.
LEMMA Invariant == Spec => []IInv
  <1>1. Init => IInv
    <2> SUFFICES ASSUME Init PROVE IInv
      OBVIOUS
    <2>2. TypeOK
      BY DEF Init, Desk, Ready, Run, RunType, TypeOK, File, DecisionFile, TakenUp
    <2>3. AboutItsId /\ WorkShows /\ AskedFirst
      BY DEF Init, Desk, TakenUp, AboutItsId, WorkShows, AskedFirst
    <2>4. VerdictsAreAudited /\ AnsweredIsClosed /\ NoRequestVanishes
      BY ApprovalAssumption
      DEF ApprovalAssumption, Init, Desk, VerdictsAreAudited, AnsweredIsClosed,
          NoRequestVanishes, Asked, Alone
    <2>5. \A r \in Resumer : run[r] = Ready
      BY DEF Init
    <2>6. Traced /\ ResumersKnow /\ GrantsKept /\ GrantsStick
      BY <2>5 DEF Init, Ready, Run, Traced, ResumersKnow, GrantsKept, GrantsStick, HeardGrant
    <2> QED
      BY <2>2, <2>3, <2>4, <2>6 DEF IInv
  <1>2. IInv /\ [Next]_vars => IInv'
    BY TypeStep, AboutStep, WorkStep, AskedStep, AuditStep, ClosedStep, VanishStep,
       TracedStep, ResumersStep, KeptStep, SticksStep DEF IInv
  <1> QED
    BY <1>1, <1>2, PTL DEF Spec

-----------------------------------------------------------------------------
\* The types of the files and of the locals, whoever dies or interferes.
THEOREM TypeCorrect == Spec => []TypeOK
  <1>1. IInv => TypeOK
    BY DEF IInv
  <1> QED
    BY Invariant, <1>1, PTL

\* A request that is no longer pending but has a verdict has an entry in the
\* audit log, with any number of deciders dying in record_decision.
THEOREM AuditIsComplete == Spec => []VerdictsAreAudited
  <1>1. IInv => VerdictsAreAudited
    BY DEF IInv
  <1> QED
    BY Invariant, <1>1, PTL

\* When a decider is through, the request is closed for every other one.
THEOREM ClosedForGood == Spec => []AnsweredIsClosed
  <1>1. IInv => AnsweredIsClosed
    BY DEF IInv
  <1> QED
    BY Invariant, <1>1, PTL

\* Every request with an id of its own is pending or has a verdict on it that a
\* resumption finds.
THEOREM NothingVanishes == Spec => []NoRequestVanishes
  <1>1. IInv => NoRequestVanishes
    BY DEF IInv
  <1> QED
    BY Invariant, <1>1, PTL

\* A resumption that begins when another one of the same request has heard a grant
\* hears a grant itself, or could not read the granted file: what was heard stays
\* where it is looked for first.
THEOREM GrantsAreKept == Spec => []GrantsStick
  <1>1. IInv => GrantsStick
    BY DEF IInv
  <1> QED
    BY Invariant, <1>1, PTL

\* Contradictory answers under one id take two deciders: files, log and what was heard
\* go back to deciders that took up the id, and if there is one, to it.  What it
\* answers is a request of that id, be the call one of several that share it.
THEOREM UncontestedAnswer == Spec => []UncontestedIsUnanimous
  <1>1. IInv => UncontestedIsUnanimous
    <2> SUFFICES ASSUME IInv,
                        NEW d \in Decider, desk[d].at \in TakenUp,
                        \A e \in Decider \ {d} : desk[e].id # desk[d].id
                 PROVE  /\ \A f \in {granted, denied, decisionLog} :
                             f[desk[d].id] \in {None, ResponseOf(d)}
                        /\ \A r \in Resumer : run[r].id = desk[d].id =>
                             run[r].heard \in {None, ResponseOf(d)}
      BY DEF UncontestedIsUnanimous
    <2> USE DEF IInv, TypeOK, DecisionFile
    <2>1. desk[d].id \in Id
      BY DEF AboutItsId, TakenUp
    <2>2. ASSUME NEW r \in [by : Decider, on : Call], Written(r, desk[d].id)
          PROVE  r = ResponseOf(d)
      BY <2>2 DEF Written, OnDesk, ResponseOf, Response
    <2>3. ASSUME NEW f \in {granted, denied, decisionLog} PROVE f[desk[d].id] \in {None, ResponseOf(d)}
      BY <2>1, <2>2, <2>3 DEF Traced
    <2>4. ASSUME NEW q \in Resumer, run[q].id = desk[d].id, run[q].heard # None
          PROVE  run[q].heard = ResponseOf(d)
      BY <2>2, <2>4 DEF Traced, RunType
    <2> QED
      BY <2>3, <2>4
  <1> QED
    BY Invariant, <1>1, PTL

=============================================================================
