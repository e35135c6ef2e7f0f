--------------------------- MODULE ExecutorProofs ---------------------------
(***************************************************************************)
(* Proofs about the work inside a session, for any number of tickets,      *)
(* batches of any length, and plans and rule lists of any length: what a   *)
(* ticket tells, where the results of a batch are, which ids subgoals get, *)
(* and which rule acts.                                                    *)
(***************************************************************************)
EXTENDS Tickets, ToolBatch, Plans, Rules, SequenceTheorems, TLAPS

\* Tickets: the invariant says what each stage of an operation has behind it, which files are written and with what.

\* What the owner of a ticket has written when it stands at each stage.
StageOf(t) ==
  /\ at[t] \in {"new", "made"} => state[t] = "absent"
  /\ at[t] = "created" => state[t] = "pending"
  /\ at[t] \in {"working", "produced", "checked", "proven", "succeeding", "failing", "closing"} =>
       state[t] = "running"
  /\ at[t] = "skipping" => state[t] \in {"pending", "running"} /\ summary[t] = "skipped"
  /\ at[t] \in {"checked", "proven", "succeeding"} => verified[t]
  /\ at[t] \in {"proven", "succeeding"} => manifest[t]
  /\ at[t] = "succeeding" => summary[t] = "success"
  /\ at[t] = "closing" => summary[t] = "error"
  /\ at[t] = "returning" => state[t] \in {"success", "skipped"}

\* What the readers of a ticket and the caller of its owner have been told.
Told(t) ==
  /\ state[t] \in Ending => summary[t] = state[t] /\ at[t] \in {"returning", "gone"}
  /\ state[t] = "success" => manifest[t] /\ verified[t]
  /\ told[t] # "nothing" => at[t] = "gone"
  /\ told[t] = "value" => state[t] \in {"success", "skipped"}
  /\ told[t] = "exception" => state[t] \notin {"success", "skipped"}
  /\ told[t] = "exception" /\ ~faulted[t] => state[t] = "error"

TicketsInv == TicketsTypeOK /\ \A t \in Ticket : StageOf(t) /\ Told(t)

-----------------------------------------------------------------------------
\* The invariant holds at first, and every step of every owner keeps it.
LEMMA TicketsInvInit == TicketsInit => TicketsInv
  BY DEF TicketsInit, TicketsInv, TicketsTypeOK, StageOf, Told, TicketState, Ending, Stage

\* A step of one owner leaves the tickets of the others alone.
Others(t) == \A u \in Ticket \ {t} :
  /\ state'[u] = state[u] /\ manifest'[u] = manifest[u] /\ verified'[u] = verified[u]
  /\ summary'[u] = summary[u] /\ output'[u] = output[u] /\ at'[u] = at[u]
  /\ told'[u] = told[u] /\ faulted'[u] = faulted[u]

\* So the invariant need only be shown of the ticket that moves.
LEMMA OneTicket ==
  ASSUME TicketsInv, NEW t \in Ticket, Others(t), TicketsTypeOK', (StageOf(t) /\ Told(t))'
  PROVE  TicketsInv'
<1>1. ASSUME NEW u \in Ticket \ {t} PROVE (StageOf(u) /\ Told(u))'
  BY <1>1 DEF TicketsInv, Others, StageOf, Told
<1> QED
  BY <1>1 DEF TicketsInv

\* Every stage leaves behind what the next one counts on.
LEMMA TicketsInvStep == TicketsInv /\ [TicketsNext]_ticketVars => TicketsInv'
<1> USE DEF TicketState, Ending, Stage, Moves, Tells, ticketFiles
<1> SUFFICES ASSUME TicketsInv, [TicketsNext]_ticketVars PROVE TicketsInv'
  OBVIOUS
<1>1. ASSUME NEW t \in Ticket, MakeDirectory(t) PROVE TicketsInv'
  <2>1. TicketsTypeOK' /\ Others(t)
    BY <1>1 DEF TicketsInv, TicketsTypeOK, Others, MakeDirectory
  <2>2. StageOf(t)' /\ Told(t)'
    BY <1>1 DEF TicketsInv, TicketsTypeOK, StageOf, Told, MakeDirectory
  <2> QED
    BY <2>1, <2>2, OneTicket
<1>2. ASSUME NEW t \in Ticket, CreatePending(t) PROVE TicketsInv'
  <2>1. TicketsTypeOK' /\ Others(t)
    BY <1>2 DEF TicketsInv, TicketsTypeOK, Others, CreatePending, WriteState
  <2>2. StageOf(t)' /\ Told(t)'
    BY <1>2 DEF TicketsInv, TicketsTypeOK, StageOf, Told, CreatePending, WriteState
  <2> QED
    BY <2>1, <2>2, OneTicket
<1>3. ASSUME NEW t \in Ticket, StartWork(t) PROVE TicketsInv'
  <2>1. TicketsTypeOK' /\ Others(t)
    BY <1>3 DEF TicketsInv, TicketsTypeOK, Others, StartWork, WriteState
  <2>2. StageOf(t)' /\ Told(t)'
    BY <1>3 DEF TicketsInv, TicketsTypeOK, StageOf, Told, StartWork, WriteState
  <2> QED
    BY <2>1, <2>2, OneTicket
<1>4. ASSUME NEW t \in Ticket, Produce(t) PROVE TicketsInv'
  <2>1. TicketsTypeOK' /\ Others(t)
    BY <1>4 DEF TicketsInv, TicketsTypeOK, Others, Produce
  <2>2. StageOf(t)' /\ Told(t)'
    BY <1>4 DEF TicketsInv, TicketsTypeOK, StageOf, Told, Produce
  <2> QED
    BY <2>1, <2>2, OneTicket
<1>5. ASSUME NEW t \in Ticket, WorkRaises(t) PROVE TicketsInv'
  <2>1. TicketsTypeOK' /\ Others(t)
    BY <1>5 DEF TicketsInv, TicketsTypeOK, Others, WorkRaises
  <2>2. StageOf(t)' /\ Told(t)'
    BY <1>5 DEF TicketsInv, TicketsTypeOK, StageOf, Told, WorkRaises
  <2> QED
    BY <2>1, <2>2, OneTicket
<1>6. ASSUME NEW t \in Ticket, Tamper(t) PROVE TicketsInv'
  <2>1. TicketsTypeOK' /\ Others(t)
    BY <1>6 DEF TicketsInv, TicketsTypeOK, Others, Tamper
  <2>2. StageOf(t)' /\ Told(t)'
    BY <1>6 DEF TicketsInv, TicketsTypeOK, StageOf, Told, Tamper
  <2> QED
    BY <2>1, <2>2, OneTicket
<1>7. ASSUME NEW t \in Ticket, Verify(t) PROVE TicketsInv'
  <2>1. /\ at[t] = "produced"
        /\ verified' = [verified EXCEPT ![t] = output[t] = "as recorded"]
        /\ UNCHANGED <<state, manifest, summary, output, told, faulted>>
    BY <1>7 DEF Verify
  <2>2. CASE output[t] = "as recorded" /\ at' = [at EXCEPT ![t] = "checked"]
    <3>1. TicketsTypeOK' /\ Others(t)
      BY <2>1, <2>2 DEF TicketsInv, TicketsTypeOK, Others
    <3>2. StageOf(t)' /\ Told(t)'
      BY <2>1, <2>2 DEF TicketsInv, TicketsTypeOK, StageOf, Told
    <3> QED
      BY <3>1, <3>2, OneTicket
  <2>3. CASE output[t] # "as recorded" /\ at' = [at EXCEPT ![t] = "failing"]
    <3>1. TicketsTypeOK' /\ Others(t)
      BY <2>1, <2>3 DEF TicketsInv, TicketsTypeOK, Others
    <3>2. StageOf(t)' /\ Told(t)'
      BY <2>1, <2>3 DEF TicketsInv, TicketsTypeOK, StageOf, Told
    <3> QED
      BY <3>1, <3>2, OneTicket
  <2> QED
    BY <1>7, <2>2, <2>3 DEF Verify
<1>8. ASSUME NEW t \in Ticket, WriteManifest(t) PROVE TicketsInv'
  <2>1. TicketsTypeOK' /\ Others(t)
    BY <1>8 DEF TicketsInv, TicketsTypeOK, Others, WriteManifest
  <2>2. StageOf(t)' /\ Told(t)'
    BY <1>8 DEF TicketsInv, TicketsTypeOK, StageOf, Told, WriteManifest
  <2> QED
    BY <2>1, <2>2, OneTicket
<1>9. ASSUME NEW t \in Ticket, WriteSummary(t) PROVE TicketsInv'
  <2>1. TicketsTypeOK' /\ Others(t)
    BY <1>9 DEF TicketsInv, TicketsTypeOK, Others, WriteSummary, Summarise
  <2>2. StageOf(t)' /\ Told(t)'
    BY <1>9 DEF TicketsInv, TicketsTypeOK, StageOf, Told, WriteSummary, Summarise
  <2> QED
    BY <2>1, <2>2, OneTicket
<1>10. ASSUME NEW t \in Ticket, WriteSuccess(t) PROVE TicketsInv'
  <2>1. TicketsTypeOK' /\ Others(t)
    BY <1>10 DEF TicketsInv, TicketsTypeOK, Others, WriteSuccess, WriteState
  <2>2. StageOf(t)' /\ Told(t)'
    BY <1>10 DEF TicketsInv, TicketsTypeOK, StageOf, Told, WriteSuccess, WriteState
  <2> QED
    BY <2>1, <2>2, OneTicket
<1>11. ASSUME NEW t \in Ticket, FailSummary(t) PROVE TicketsInv'
  <2>1. TicketsTypeOK' /\ Others(t)
    BY <1>11 DEF TicketsInv, TicketsTypeOK, Others, FailSummary, Summarise
  <2>2. StageOf(t)' /\ Told(t)'
    BY <1>11 DEF TicketsInv, TicketsTypeOK, StageOf, Told, FailSummary, Summarise
  <2> QED
    BY <2>1, <2>2, OneTicket
<1>12. ASSUME NEW t \in Ticket, WriteError(t) PROVE TicketsInv'
  <2>1. TicketsTypeOK' /\ Others(t)
    BY <1>12 DEF TicketsInv, TicketsTypeOK, Others, WriteError
  <2>2. StageOf(t)' /\ Told(t)'
    BY <1>12 DEF TicketsInv, TicketsTypeOK, StageOf, Told, WriteError
  <2> QED
    BY <2>1, <2>2, OneTicket
<1>13. ASSUME NEW t \in Ticket, SkipSummary(t) PROVE TicketsInv'
  <2>1. PICK from \in {"created", "working"} : Summarise(t, from, "skipping", "skipped")
    BY <1>13 DEF SkipSummary
  <2>2. TicketsTypeOK' /\ Others(t)
    BY <2>1 DEF TicketsInv, TicketsTypeOK, Others, Summarise
  <2>3. StageOf(t)' /\ Told(t)'
    BY <2>1 DEF TicketsInv, TicketsTypeOK, StageOf, Told, Summarise
  <2> QED
    BY <2>2, <2>3, OneTicket
<1>14. ASSUME NEW t \in Ticket, WriteSkipped(t) PROVE TicketsInv'
  <2>1. TicketsTypeOK' /\ Others(t)
    BY <1>14 DEF TicketsInv, TicketsTypeOK, Others, WriteSkipped, WriteState
  <2>2. StageOf(t)' /\ Told(t)'
    BY <1>14 DEF TicketsInv, TicketsTypeOK, StageOf, Told, WriteSkipped, WriteState
  <2> QED
    BY <2>1, <2>2, OneTicket
<1>15. ASSUME NEW t \in Ticket, Return(t) PROVE TicketsInv'
  <2>1. TicketsTypeOK' /\ Others(t)
    BY <1>15 DEF TicketsInv, TicketsTypeOK, Others, Return
  <2>2. StageOf(t)' /\ Told(t)'
    BY <1>15 DEF TicketsInv, TicketsTypeOK, StageOf, Told, Return
  <2> QED
    BY <2>1, <2>2, OneTicket
<1>16. ASSUME NEW t \in Ticket, WriteFails(t) PROVE TicketsInv'
  <2>1. UNCHANGED ticketFiles /\ faulted' = [faulted EXCEPT ![t] = TRUE]
    BY <1>16 DEF WriteFails
  <2>2. ASSUME NEW from \in {"working", "checked", "proven", "succeeding"},
               Moves(t, from, "failing"), UNCHANGED told
        PROVE  TicketsInv'
    <3>1. TicketsTypeOK' /\ Others(t)
      BY <2>1, <2>2 DEF TicketsInv, TicketsTypeOK, Others
    <3>2. StageOf(t)' /\ Told(t)'
      BY <2>1, <2>2 DEF TicketsInv, TicketsTypeOK, StageOf, Told
    <3> QED
      BY <3>1, <3>2, OneTicket
  <2>3. ASSUME NEW from \in {"made", "created", "failing", "closing", "skipping"},
               Moves(t, from, "gone"), Tells(t, "exception")
        PROVE  TicketsInv'
    <3>1. TicketsTypeOK' /\ Others(t)
      BY <2>1, <2>3 DEF TicketsInv, TicketsTypeOK, Others
    <3>2. StageOf(t)' /\ Told(t)'
      BY <2>1, <2>3 DEF TicketsInv, TicketsTypeOK, StageOf, Told
    <3> QED
      BY <3>1, <3>2, OneTicket
  <2> QED
    BY <1>16, <2>2, <2>3 DEF WriteFails
<1>17. ASSUME NEW t \in Ticket, Die(t) PROVE TicketsInv'
  <2>1. TicketsTypeOK' /\ Others(t)
    BY <1>17 DEF TicketsInv, TicketsTypeOK, Others, Die
  <2>2. /\ at'[t] = "gone"
        /\ UNCHANGED <<state, manifest, verified, summary, told, faulted>>
    BY <1>17 DEF TicketsInv, TicketsTypeOK, Die
  <2>3. StageOf(t)'
    BY <2>2 DEF StageOf
  <2>4. Told(t)'
    BY <2>2 DEF TicketsInv, Told
  <2> QED
    BY <2>1, <2>3, <2>4, OneTicket
<1>18. CASE UNCHANGED ticketVars
  BY <1>18 DEF ticketVars, TicketsInv, TicketsTypeOK, StageOf, Told
<1> QED
  BY <1>1, <1>2, <1>3, <1>4, <1>5, <1>6, <1>7, <1>8, <1>9, <1>10, <1>11, <1>12, <1>13, <1>14, <1>15, <1>16, <1>17, <1>18 DEF TicketsNext

\* So the invariant holds of every behaviour.
LEMMA TicketsInvariant == TicketsSpec => []TicketsInv
  BY TicketsInvInit, TicketsInvStep, PTL DEF TicketsSpec

\* Whoever owns a ticket, its files and its owner's stage are of their types.
THEOREM TicketsTypeCorrect == TicketsSpec => []TicketsTypeOK
<1>1. TicketsInv => TicketsTypeOK
  BY DEF TicketsInv
<1> QED
  BY <1>1, TicketsInvariant, PTL

\* For any number of tickets: the state file of an ended ticket never tells of an
\* ending that its summary, and for a success its manifest, do not bear out.
THEOREM EndingsProven == TicketsSpec => []EndsAreProven
<1>1. TicketsInv => EndsAreProven
  BY DEF TicketsInv, Told, EndsAreProven
<1> QED
  BY <1>1, TicketsInvariant, PTL

\* For any number of tickets: the caller of an operation and the readers of its
\* ticket are told the same, wherever writes fail and processes die.
THEOREM CallersAgree == TicketsSpec => []CallerAndTicketAgree
<1>1. TicketsInv => CallerAndTicketAgree
  BY DEF TicketsInv, Told, CallerAndTicketAgree
<1> QED
  BY <1>1, TicketsInvariant, PTL

-----------------------------------------------------------------------------
\* Batches: everything before the run in progress is answered, and nothing after it has begun.

Bounds == length \in Nat /\ length <= MaxCalls /\ cursor \in 1 .. length + 1

Kinds ==
  /\ policy \in {"never", "always", "flags"}
  /\ safe \in [Calls -> BOOLEAN] /\ valid \in [Calls -> BOOLEAN]
  /\ status \in [Calls -> Finished \cup {"waiting", "ready", "running"}]
  /\ dispatch \in {"between runs", "awaiting", "raised", "returned", "cancelled"}

BatchTypes == Bounds /\ Kinds /\ outputs \in [Calls -> 0 .. length]

\* Where the calls stand, seen from the run in progress.
Progress ==
  /\ \A i \in Calls : i < cursor => status[i] = "answered" /\ outputs[i] = i
  /\ dispatch = "between runs" => \A i \in Calls : i >= cursor => status[i] = "waiting"
  /\ \A i \in Calls : i >= cursor /\ i \notin RunOf(cursor) => status[i] = "waiting"
  /\ dispatch = "returned" => cursor = length + 1

ToolBatchInv == BatchTypes /\ Progress

-----------------------------------------------------------------------------
\* Before the first run nothing has begun.
LEMMA ToolBatchInvInit == ToolBatchInit => ToolBatchInv
<1> SUFFICES ASSUME ToolBatchInit PROVE ToolBatchInv
  OBVIOUS
<1>1. length \in Nat /\ length <= MaxCalls
  <2>1. length \in 0 .. MaxCalls
    BY Zenon DEF ToolBatchInit
  <2> QED
    BY <2>1, ToolBatchAssumption
<1>2. cursor = 1 /\ dispatch = "between runs"
  BY Zenon DEF ToolBatchInit
<1>3. outputs = [i \in Calls |-> 0] /\ status = [i \in Calls |-> "waiting"]
  BY Zenon DEF ToolBatchInit
<1>4. Bounds
  <2>1. 1 \in 1 .. length + 1
    BY <1>1
  <2> QED
    BY <1>1, <1>2, <2>1, Zenon DEF Bounds
<1>5. Kinds
  BY DEF ToolBatchInit, Kinds
<1>6. outputs \in [Calls -> 0 .. length]
  <2>1. 0 \in 0 .. length
    BY <1>1
  <2> QED
    BY <2>1, <1>3, Zenon
<1>7. Progress
  <2>1. \A i \in Calls : ~(i < 1)
    BY <1>1 DEF Calls
  <2> QED
    BY <1>2, <1>3, <2>1 DEF Progress
<1> QED
  BY <1>4, <1>5, <1>6, <1>7 DEF ToolBatchInv, BatchTypes

\* The calls before the end of a run are those before the run and those in it.
LEMMA RunsAreIntervals ==
  ASSUME Bounds, NEW n, EndsBefore(n), NEW i \in Calls
  PROVE  /\ n \in 1 .. length + 1 /\ cursor < n
         /\ i < n => i < cursor \/ i \in RunOf(cursor)
         /\ i >= n => i >= cursor /\ i \notin RunOf(cursor)
<1>1. n \in 1 .. length + 1 /\ cursor \in Nat /\ length \in Nat /\ i \in 1 .. length
  BY DEF EndsBefore, Bounds, Calls
<1>2. n - 1 \in cursor .. length /\ \A j \in cursor + 1 .. n - 1 : ~BeginsRun(j)
  BY DEF EndsBefore, RunOf
<1>3. n \notin cursor .. length \/ \E j \in cursor + 1 .. n : BeginsRun(j)
  BY DEF EndsBefore, RunOf
<1>4. i < n /\ i >= cursor => i \in RunOf(cursor)
  BY <1>1, <1>2 DEF RunOf
<1>5. i >= n => i \notin RunOf(cursor)
  BY <1>1, <1>2, <1>3 DEF RunOf
<1> QED
  BY <1>1, <1>2, <1>4, <1>5

\* A step that leaves the batch and the cursor alone leaves the runs alone.
LEMMA RunsStay ==
  ASSUME UNCHANGED batch, UNCHANGED cursor
  PROVE  Calls' = Calls /\ RunOf(cursor)' = RunOf(cursor)
  BY DEF batch, Calls, RunOf, BeginsRun

\* Each call that begins, ends or is skipped leaves the runs before it answered.
LEMMA ToolBatchInvStep == ToolBatchInv /\ [ToolBatchNext]_batchVars => ToolBatchInv'
<1> SUFFICES ASSUME Bounds, Kinds, outputs \in [Calls -> 0 .. length], Progress, [ToolBatchNext]_batchVars
             PROVE  Bounds' /\ Kinds' /\ outputs' \in [Calls' -> 0 .. length'] /\ Progress'
  BY DEF ToolBatchInv, BatchTypes
<1> DEFINE Kept == Bounds' /\ Kinds' /\ outputs' \in [Calls' -> 0 .. length']
<1>1. CASE BeginRun
  <2>1. UNCHANGED batch /\ cursor' = cursor /\ outputs' = outputs
    BY <1>1 DEF BeginRun
  <2>2. Calls' = Calls /\ RunOf(cursor)' = RunOf(cursor)
    BY <2>1, RunsStay
  <2>3. Kept
    <3>1. Bounds'
      BY <1>1, <2>1, <2>2 DEF Bounds, batch
    <3>2. Kinds'
      <4>1. status' \in [Calls -> Finished \cup {"waiting", "ready", "running"}]
        BY <1>1 DEF BeginRun, Kinds
      <4>2. dispatch' = "awaiting"
        BY <1>1 DEF BeginRun
      <4> QED
        BY <2>1, <2>2, <4>1, <4>2 DEF Kinds, batch
    <3>3. outputs' \in [Calls' -> 0 .. length']
      BY <1>1, <2>1, <2>2 DEF batch
    <3> QED
      BY <3>1, <3>2, <3>3
  <2>4. \A i \in Calls : i \notin RunOf(cursor) => status'[i] = status[i]
    BY <1>1 DEF BeginRun
  <2>5. \A i \in Calls : i < cursor => i \notin RunOf(cursor)
    BY DEF RunOf, Bounds, Calls
  <2>6. dispatch' = "awaiting"
    BY <1>1 DEF BeginRun
  <2>7. Progress'
    BY <2>1, <2>2, <2>4, <2>5, <2>6 DEF Progress
  <2> QED
    BY <2>3, <2>7
<1>2. ASSUME NEW c \in Calls, StartCall(c) \/ Answers(c) PROVE Kept /\ Progress'
  <2>1. UNCHANGED batch /\ cursor' = cursor /\ outputs' = outputs
    BY <1>2 DEF StartCall, Answers
  <2>2. Calls' = Calls /\ RunOf(cursor)' = RunOf(cursor)
    BY <2>1, RunsStay
  <2>3. status[c] \in {"ready", "running"} /\ \A i \in Calls : i # c => status'[i] = status[i]
    BY <1>2 DEF StartCall, Answers, Kinds
  <2>4. status' \in [Calls -> Finished \cup {"waiting", "ready", "running"}]
    BY <1>2 DEF StartCall, Answers, Kinds, Finished
  <2>5. dispatch' = dispatch \/ (dispatch' = "raised" /\ dispatch = "awaiting")
    <3>1. CASE StartCall(c)
      BY <3>1, Zenon DEF StartCall
    <3>2. CASE Answers(c)
      BY <3>2, Zenon DEF Answers
    <3> QED
      BY <1>2, <3>1, <3>2
  <2>6. Kept
    <3>1. Bounds'
      BY <2>1, <2>2, <2>4, <2>5 DEF Bounds, batch
    <3>2. Kinds'
      BY <2>1, <2>2, <2>4, <2>5 DEF Kinds, batch
    <3>3. outputs' \in [Calls' -> 0 .. length']
      BY <2>1, <2>2, <2>4, <2>5 DEF batch
    <3> QED
      BY <3>1, <3>2, <3>3
  <2>7. Progress'
    <3>1. \A i \in Calls : status[i] \in {"answered", "waiting"} => status'[i] = status[i]
      BY <2>3
    <3>2. length' = length
      BY <2>1 DEF batch
    <3> QED
      BY <2>1, <2>2, <2>5, <3>1, <3>2 DEF Progress
  <2> QED
    BY <2>6, <2>7
<1>3. CASE EndRun
  <2>1. UNCHANGED batch /\ status' = status /\ dispatch' = "between runs" /\ EndsBefore(cursor')
    BY <1>3 DEF EndRun
  <2>2. Calls' = Calls /\ length' = length
    BY <2>1 DEF batch, Calls
  <2>3. \A i \in RunOf(cursor) : status[i] = "answered"
    BY <1>3 DEF EndRun
  <2>4. \A i \in Calls : outputs'[i] = IF i \in RunOf(cursor) THEN i ELSE outputs[i]
    BY <1>3 DEF EndRun
  <2>5. cursor' \in 1 .. length + 1
    BY <2>1 DEF EndsBefore
  <2>6. outputs' \in [Calls -> 0 .. length]
    <3>1. outputs' = [i \in Calls |-> IF i \in RunOf(cursor) THEN i ELSE outputs[i]]
      BY <1>3 DEF EndRun
    <3>2. \A i \in Calls : i \in 0 .. length
      BY DEF Calls, Bounds
    <3> QED
      BY <3>1, <3>2
  <2>7. Kept
    <3>1. Bounds'
      BY <2>1, <2>2, <2>5, <2>6 DEF Bounds, batch
    <3>2. Kinds'
      BY <2>1, <2>2, <2>5, <2>6 DEF Kinds, batch
    <3>3. outputs' \in [Calls' -> 0 .. length']
      BY <2>1, <2>2, <2>5, <2>6 DEF batch
    <3> QED
      BY <3>1, <3>2, <3>3
  <2>8. ASSUME NEW i \in Calls PROVE /\ i < cursor' => status'[i] = "answered" /\ outputs'[i] = i
                                     /\ i >= cursor' => status'[i] = "waiting"
    <3>1. /\ i < cursor' => i < cursor \/ i \in RunOf(cursor)
          /\ i >= cursor' => i >= cursor /\ i \notin RunOf(cursor)
      BY <2>1, RunsAreIntervals
    <3> QED
      BY <2>1, <2>3, <2>4, <3>1 DEF Progress
  <2>9. Progress'
    BY <2>1, <2>2, <2>8 DEF Progress
  <2> QED
    BY <2>7, <2>9
<1>4. CASE ReturnResults
  <2>1. UNCHANGED batch /\ UNCHANGED <<status, cursor, outputs>> /\ dispatch' = "returned"
    BY <1>4 DEF ReturnResults
  <2>2. cursor = length + 1
    <3>1. cursor > length
      BY <1>4, Zenon DEF ReturnResults
    <3> QED
      BY <3>1 DEF Bounds
  <2>3. Calls' = Calls /\ RunOf(cursor)' = RunOf(cursor)
    BY <2>1, RunsStay
  <2>4. Kept
    <3>1. Bounds'
      BY <2>1, <2>3 DEF Bounds, batch
    <3>2. Kinds'
      BY <2>1, <2>3 DEF Kinds, batch
    <3>3. outputs' \in [Calls' -> 0 .. length']
      BY <2>1, <2>3 DEF batch
    <3> QED
      BY <3>1, <3>2, <3>3
  <2>5. Progress'
    BY <2>1, <2>2, <2>3 DEF Progress, batch
  <2> QED
    BY <2>4, <2>5
<1>5. CASE CancelBatch
  <2>1. UNCHANGED batch /\ UNCHANGED <<cursor, outputs>> /\ dispatch' = "cancelled"
    BY <1>5 DEF CancelBatch
  <2>2. Calls' = Calls /\ RunOf(cursor)' = RunOf(cursor)
    BY <2>1, RunsStay
  <2>3. \A i \in Calls : status[i] \notin {"ready", "running"} => status'[i] = status[i]
    BY <1>5 DEF CancelBatch
  <2>4. status' \in [Calls -> Finished \cup {"waiting", "ready", "running"}]
    BY <1>5 DEF CancelBatch, Kinds, Finished
  <2>5. Kept
    <3>1. Bounds'
      BY <2>1, <2>2, <2>4 DEF Bounds, batch
    <3>2. Kinds'
      BY <2>1, <2>2, <2>4 DEF Kinds, batch
    <3>3. outputs' \in [Calls' -> 0 .. length']
      BY <2>1, <2>2, <2>4 DEF batch
    <3> QED
      BY <3>1, <3>2, <3>3
  <2>6. Progress'
    BY <2>1, <2>2, <2>3 DEF Progress
  <2> QED
    BY <2>5, <2>6
<1>6. CASE UNCHANGED batchVars
  <2>1. UNCHANGED batch /\ UNCHANGED <<status, cursor, outputs, dispatch>>
    BY <1>6 DEF batchVars, batch
  <2>2. Calls' = Calls /\ RunOf(cursor)' = RunOf(cursor)
    BY <2>1, RunsStay
  <2>3. Kept
    <3>1. Bounds'
      BY <2>1, <2>2 DEF Bounds, batch
    <3>2. Kinds'
      BY <2>1, <2>2 DEF Kinds, batch
    <3>3. outputs' \in [Calls' -> 0 .. length']
      BY <2>1, <2>2 DEF batch
    <3> QED
      BY <3>1, <3>2, <3>3
  <2>4. Progress'
    BY <2>1, <2>2 DEF Progress, batch
  <2> QED
    BY <2>3, <2>4
<1> QED
  BY <1>1, <1>2, <1>3, <1>4, <1>5, <1>6 DEF ToolBatchNext

\* So the invariant holds of every behaviour.
LEMMA ToolBatchInvariant == ToolBatchSpec => []ToolBatchInv
  BY ToolBatchInvInit, ToolBatchInvStep, PTL DEF ToolBatchSpec

-----------------------------------------------------------------------------
\* The batch, its calls and its results are of their types.
THEOREM ToolBatchTypeCorrect == ToolBatchSpec => []ToolBatchTypeOK
<1>1. ToolBatchInv => ToolBatchTypeOK
  <2> SUFFICES ASSUME Bounds, Kinds, outputs \in [Calls -> 0 .. length] PROVE ToolBatchTypeOK
    BY DEF ToolBatchInv, BatchTypes
  <2>1. length \in 0 .. MaxCalls
    BY ToolBatchAssumption DEF Bounds
  <2> QED
    BY <2>1, Zenon DEF Kinds, Bounds, ToolBatchTypeOK
<1> QED
  BY <1>1, ToolBatchInvariant, PTL

\* For batches of any length: unsafe calls are barriers in whatever way the batch
\* ends, and results that are returned are complete and in the order of the calls.
THEOREM BatchInOrder == ToolBatchSpec => []BatchKeepsOrder
<1>1. ASSUME Bounds, Kinds, Progress PROVE UnsafeCallsAreBarriers
  <2> SUFFICES ASSUME policy # "always", NEW i \in Calls, NEW j \in Calls, i < j,
                      status[j] # "waiting", ~(safe[i] /\ safe[j])
               PROVE  status[i] = "answered"
    BY DEF UnsafeCallsAreBarriers
  <2>1. /\ length \in Nat /\ cursor \in Nat /\ i \in 1 .. length /\ j \in 1 .. length
        /\ policy \in {"never", "flags"}
    <3>1. length \in Nat /\ cursor \in Nat /\ i \in 1 .. length /\ j \in 1 .. length
      BY <1>1 DEF Bounds, Calls
    <3>2. policy \in {"never", "flags"}
      BY <1>1 DEF Kinds
    <3> QED
      BY <3>1, <3>2
  <2>2. CASE i < cursor
    BY <1>1, <2>2 DEF Progress
  <2>3. CASE i >= cursor
    <3>1. j \in RunOf(cursor)
      <4>1. j \in Calls /\ j >= cursor
        BY <2>1, <2>3
      <4>2. j \notin RunOf(cursor) => status[j] = "waiting"
        BY <1>1, <4>1, Zenon DEF Progress
      <4> QED
        BY <4>2
    <3>2. i + 1 \in cursor + 1 .. j /\ j \in cursor + 1 .. j
      BY <2>1, <2>3
    <3>3. ~BeginsRun(i + 1) /\ ~BeginsRun(j)
      BY <3>1, <3>2 DEF RunOf
    <3>4. i + 1 - 1 = i
      BY <2>1
    <3>5. safe[i] /\ safe[j]
      BY <2>1, <3>3, <3>4 DEF BeginsRun
    <3> QED
      BY <3>5
  <2> QED
    BY <2>1, <2>2, <2>3
<1>2. ASSUME Bounds, Kinds, Progress PROVE EveryCallAnswered
  <2> SUFFICES ASSUME dispatch = "returned", NEW i \in Calls
               PROVE  outputs[i] = i /\ status[i] = "answered"
    BY DEF EveryCallAnswered
  <2>1. i < cursor
    BY <1>2 DEF Bounds, Progress, Calls
  <2> QED
    BY <1>2, <2>1 DEF Progress
<1>3. ToolBatchInv => BatchKeepsOrder
  BY <1>1, <1>2 DEF BatchKeepsOrder, ToolBatchInv, BatchTypes
<1> QED
  BY <1>3, ToolBatchInvariant, PTL

-----------------------------------------------------------------------------
\* Plans: what has been given to the items seen so far.

Id == Seq(Nat \cup Token)

\* What item i of a list asks for, and the ids before place j of a plan.
Wanted(list, i) == IF list[i].id = <<>> THEN <<i>> ELSE list[i].id
Before(ids, j) == {ids[i] : i \in 1 .. j - 1}

\* Place j of a plan has the id its item asked for, unless an earlier one has it; and
\* what is put behind an id makes it another.
Apart(list, ids, j) ==
  /\ Wanted(list, j) \notin Before(ids, j) => ids[j] = Wanted(list, j)
  /\ ids[j] \in Before(ids, j) => ids[j] # Wanted(list, j)

\* seen_ids holds the ids given so far.
PlansInv ==
  /\ planReply \in Replies
  /\ plan \in Seq(Id) /\ Len(plan) <= Len(planReply.items)
  /\ seen = {plan[i] : i \in 1 .. Len(plan)}
  /\ parse = "returned" => Len(plan) = Len(planReply.items)
  /\ \A j \in 1 .. Len(plan) : Apart(planReply.items, plan, j)

\* What an item asks for is an id.
LEMMA WantedIsId ==
  ASSUME NEW list \in Seq([form : ItemForm, id : Seq(Nat)]), NEW i \in 1 .. Len(list)
  PROVE  Wanted(list, i) \in Id
<1>1. i \in Nat /\ list[i].id \in Seq(Nat)
  <2>1. list[i] \in [form : ItemForm, id : Seq(Nat)]
    BY ElementOfSeq
  <2> QED
    BY <2>1
<1>2. <<i>> \in Seq(Nat)
  BY <1>1
<1>3. Seq(Nat) \subseteq Id
  BY SeqMonotonic DEF Id
<1> QED
  BY <1>1, <1>2, <1>3 DEF Wanted

\* A second id with a token behind it is another one, and the subgoals before keep
\* theirs.
LEMMA AddSubgoalStep ==
  ASSUME PlansInv, NEW i \in DOMAIN items, NEW t \in Token, AddSubgoal(i, t)
  PROVE  PlansInv'
<1> DEFINE list == planReply.items
           a    == Wanted(list, i)
           id   == IF a \in seen THEN Append(a, t) ELSE a
           n    == Len(plan)
<1>1. /\ parse = "reading" /\ i = n + 1 /\ i <= Len(list)
      /\ plan' = Append(plan, id) /\ seen' = seen \cup {id}
      /\ UNCHANGED <<planReply, parse>>
  BY DEF AddSubgoal, Reads, Takes, items, Asked, Wanted
<1>2. list \in Seq([form : ItemForm, id : Seq(Nat)]) /\ i \in 1 .. Len(list)
  <2>1. list \in Seq([form : ItemForm, id : Seq(Nat)])
    BY PlansAssumption DEF PlansInv
  <2>2. i \in DOMAIN list
    BY DEF items
  <2> QED
    BY <2>1, <2>2, LenProperties
<1> HIDE DEF list
<1>3. a \in Id
  BY <1>2, WantedIsId
<1> HIDE DEF a
<1>4. Append(a, t) \in Id /\ Append(a, t) # a
  <2>1. Append(a, t) \in Id /\ Len(Append(a, t)) = Len(a) + 1 /\ Len(a) \in Nat
    BY <1>3 DEF Id
  <2> QED
    BY <2>1
<1>5. id \in Id /\ (a \notin seen => id = a) /\ (a \in seen => id # a)
  BY <1>3, <1>4
<1> HIDE DEF id
<1>6. /\ plan \in Seq(Id) /\ n \in Nat
      /\ seen = {plan[j] : j \in 1 .. n}
      /\ \A j \in 1 .. n : Apart(list, plan, j)
  BY DEF PlansInv, list
<1>7. /\ plan' \in Seq(Id) /\ Len(plan') = n + 1
      /\ plan'[n + 1] = id
      /\ \A j \in 1 .. n : plan'[j] = plan[j]
  BY <1>1, <1>5, <1>6
<1> HIDE DEF n
<1>8. \A j \in 1 .. n + 1 : Before(plan', j) = Before(plan, j)
  BY <1>6, <1>7 DEF Before
<1>9. \A j \in 1 .. n : Apart(list, plan', j)
  BY <1>6, <1>7, <1>8 DEF Apart
<1>10. Apart(list, plan', n + 1)
  <2>1. Before(plan, n + 1) = seen
    <3>1. (n + 1) - 1 = n
      BY <1>6
    <3> QED
      BY <1>6, <3>1 DEF Before
  <2>2. Before(plan', n + 1) = seen /\ Wanted(list, n + 1) = a
    BY <1>1, <1>6, <1>8, <2>1 DEF a, n
  <2> QED
    BY <1>5, <1>7, <2>2 DEF Apart
<1>11. seen' = {plan'[j] : j \in 1 .. n + 1}
  <2>1. {plan'[j] : j \in 1 .. n + 1} = {plan[j] : j \in 1 .. n} \cup {id}
    BY <1>6, <1>7
  <2> QED
    BY <1>1, <1>6, <2>1
<1>12. \A j \in 1 .. n + 1 : Apart(list, plan', j)
  BY <1>6, <1>9, <1>10
<1> QED
  BY <1>1, <1>6, <1>7, <1>11, <1>12 DEF PlansInv, list, n

\* The subgoals of a plan can be told apart, whatever ids the model wrote.
THEOREM PlansTellApart == PlansSpec => []PlanTellsApart
<1>1. PlansInit => PlansInv
  <2>1. ASSUME PlansInit
        PROVE  PlansInv
    <3>1. planReply \in Replies /\ planReply.items \in Seq([form : ItemForm, id : Seq(Nat)])
      BY <2>1, PlansAssumption DEF PlansInit
    <3>2. plan = <<>> /\ seen = {} /\ parse = "reading"
      BY <2>1 DEF PlansInit
    <3> QED
      BY <3>1, <3>2 DEF PlansInv
  <2> QED
    BY <2>1
<1>2. PlansInv /\ [PlansNext]_planVars => PlansInv'
  <2> SUFFICES ASSUME PlansInv, [PlansNext]_planVars
               PROVE  PlansInv'
    OBVIOUS
  <2>1. CASE /\ UNCHANGED <<planReply, seen, plan>>
             /\ parse' = "returned" => Len(plan) = Len(planReply.items)
    BY <2>1 DEF PlansInv
  <2>2. ASSUME NEW i \in DOMAIN items, NEW t \in Token, AddSubgoal(i, t)
        PROVE  PlansInv'
    BY <2>2, AddSubgoalStep
  <2>3. CASE ParseRaises \/ ReturnPlan
    BY <2>1, <2>3 DEF ParseRaises, ReturnPlan, items
  <2>4. CASE UNCHANGED planVars
    BY <2>1, <2>4 DEF planVars, PlansInv
  <2> QED
    BY <2>2, <2>3, <2>4 DEF PlansNext
<1>3. PlansInv => PlanTellsApart
  <2> SUFFICES ASSUME PlansInv
               PROVE  PlanTellsApart
    OBVIOUS
  <2>1. DOMAIN plan = 1 .. Len(plan)
    BY DEF PlansInv
  <2> QED
    BY <2>1 DEF PlansInv, PlanTellsApart, Apart, Before, Wanted, Asked, items
<1> QED
  BY <1>1, <1>2, <1>3, PTL DEF PlansSpec

-----------------------------------------------------------------------------
\* Rules: how far the rules were asked.

\* What the evaluation of a check gives is what it agrees to, and what it breaks on.
LEMMA EvaluateIs ==
  ASSUME NEW check \in Check
  PROVE  /\ Evaluate(check) = "ok" <=> Agrees(check)
         /\ Evaluate(check) = "raises" <=> Breaks(check)
         /\ ~(Agrees(check) /\ Breaks(check))
<1>1. CASE check \in Callable
  BY <1>1 DEF Callable, Evaluate, EvaluateCallable, Ok, Agrees, Breaks
<1>2. CASE check \in Classifier
  BY <1>2 DEF Classifier, Evaluate, EvaluateClassifier, Ok, Agrees, Breaks
<1>3. CASE check \in Judge
  BY <1>3 DEF Judge, Evaluate, EvaluateJudge, ParseJudgeJson, Ok, Agrees, Breaks
<1>4. CASE check \in Own
  BY <1>4 DEF Own, Evaluate, Ok, Agrees, Breaks
<1>5. CASE check \in Uncallable
  BY <1>5 DEF Uncallable, Evaluate, Agrees, Breaks
<1> QED
  BY <1>1, <1>2, <1>3, <1>4, <1>5 DEF Check

\* An evaluation that comes to an end gives one of two answers.
LEMMA EvaluateRange ==
  ASSUME NEW check \in Check
  PROVE  Evaluate(check) \in {"ok", "not ok", "raises"}
BY DEF Check, Callable, Classifier, Judge, Own, Uncallable, Evaluate, EvaluateCallable,
       EvaluateClassifier, EvaluateJudge, Ok

\* Answered, and not in favour.
Declines(check) == ~Agrees(check) /\ ~Breaks(check)

\* A rule without escalate_if has nobody who asks to escalate.
LEMMA AbsentDeclines == Declines(Absent)
BY DEF Declines, Absent, Agrees, Breaks

\* How far the rules were asked: those before the present one declined, and the
\* present one is asked to escalate only once its condition agreed, and acts only
\* once nobody asked to escalate.
RulesInv ==
  /\ rules \in Seq(Rule)
  /\ rule \in 1 .. Len(rules) + 1
  /\ \A r \in 1 .. rule - 1 : Declines(rules[r].condition)
  /\ asking \in {"condition", "escalate_if", "action"}
  /\ asking # "condition" => rule <= Len(rules) /\ Agrees(rules[rule].condition)
  /\ asking = "escalate_if" => rules[rule].escalate # Absent
  /\ asking = "action" => Declines(rules[rule].escalate)
  /\ acted # 0 => acted = rule /\ asking = "action" /\ decision # "none"
  /\ acted # 0 /\ decision = "complete" => rules[acted].action # "raises"

\* Only the first rule whose condition agreed acts, and only if nobody before or
\* beside it broke or asked to escalate.
THEOREM OnlyConsentActs == RulesSpec => []FirstConsentActs
<1>1. RulesInit => RulesInv
  <2>1. ASSUME RulesInit
        PROVE  RulesInv
    <3>1. rules \in Seq(Rule)
      BY <2>1, RulesAssumption DEF RulesInit
    <3> QED
      BY <2>1, <3>1 DEF RulesInit, RulesInv
  <2> QED
    BY <2>1
<1>2. RulesInv /\ [RulesNext]_ruleVars => RulesInv'
  <2> SUFFICES ASSUME RulesInv, [RulesNext]_ruleVars
               PROVE  RulesInv'
    OBVIOUS
  <2>1. ASSUME rule <= Len(rules)
        PROVE  /\ rules[rule].condition \in Check
               /\ rules[rule].escalate \in Check \cup {Absent}
    <3>1. rules[rule] \in Rule
      BY <2>1, ElementOfSeq DEF RulesInv
    <3> QED
      BY <3>1 DEF Rule
  <2>2. CASE JudgeCondition
    <3> DEFINE c == rules[rule].condition
    <3>1. /\ decision = "none" /\ asking = "condition" /\ rule <= Len(rules)
          /\ UNCHANGED <<rules, acted>> /\ acted = 0
      BY <2>2 DEF JudgeCondition, Decides, RulesInv
    <3>2. CASE Evaluate(c) = "not ok"
      <4>1. Declines(c)
        BY <2>1, <3>1, <3>2, EvaluateIs DEF Declines
      <4>2. rule' = rule + 1 /\ UNCHANGED <<asking, decision>>
        BY <2>2, <3>2 DEF JudgeCondition
      <4> QED
        BY <3>1, <4>1, <4>2 DEF RulesInv
    <3>3. CASE Evaluate(c) = "raises"
      <4>1. decision' = "escalate" /\ UNCHANGED <<rule, asking>>
        BY <2>2, <3>3 DEF JudgeCondition, Decides
      <4> QED
        BY <3>1, <4>1 DEF RulesInv
    <3>4. CASE Evaluate(c) \notin {"not ok", "raises"}
      <4>1. /\ asking' = IF rules[rule].escalate = Absent THEN "action" ELSE "escalate_if"
            /\ UNCHANGED <<rule, decision>>
        BY <2>2, <3>4 DEF JudgeCondition
      <4>2. Evaluate(c) = "ok"
        BY <2>1, <3>1, <3>4, EvaluateRange
      <4>3. Agrees(c)
        BY <2>1, <3>1, <4>2, EvaluateIs
      <4> QED
        BY <3>1, <4>1, <4>3, AbsentDeclines DEF RulesInv
    <3> QED
      BY <3>2, <3>3, <3>4
  <2>3. CASE JudgeEscalation
    <3> DEFINE e == rules[rule].escalate
    <3>1. /\ decision = "none" /\ asking = "escalate_if" /\ rule <= Len(rules)
          /\ acted = 0 /\ UNCHANGED <<rules, rule, acted>> /\ e \in Check
      BY <2>1, <2>3 DEF JudgeEscalation, Decides, RulesInv
    <3>2. CASE Evaluate(e) = "not ok"
      <4>1. Declines(e)
        BY <3>1, <3>2, EvaluateIs DEF Declines
      <4>2. asking' = "action" /\ UNCHANGED decision
        BY <2>3, <3>2 DEF JudgeEscalation
      <4> QED
        BY <3>1, <4>1, <4>2 DEF RulesInv
    <3>3. CASE Evaluate(e) # "not ok"
      <4>1. UNCHANGED asking
        BY <2>3, <3>3 DEF JudgeEscalation, Decides
      <4> QED
        BY <3>1, <4>1 DEF RulesInv
    <3> QED
      BY <3>2, <3>3
  <2>4. CASE Act
    BY <2>4 DEF Act, Decides, RulesInv
  <2>5. CASE NoRuleMatches
    BY <2>5 DEF NoRuleMatches, Decides, RulesInv
  <2>6. CASE UNCHANGED ruleVars
    BY <2>6 DEF ruleVars, RulesInv
  <2> QED
    BY <2>2, <2>3, <2>4, <2>5, <2>6 DEF RulesNext
<1>3. RulesInv => FirstConsentActs
  BY DEF RulesInv, FirstConsentActs, Declines
<1> QED
  BY <1>1, <1>2, <1>3, PTL DEF RulesSpec
=============================================================================
