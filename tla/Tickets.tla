------------------------------ MODULE Tickets -------------------------------
(***************************************************************************)
(* A ticket is a directory with a state file, a manifest and a summary,    *)
(* written one after the other by the operation that owns it (planner or   *)
(* executor, `_run_*_via_ticket`).  Every write happens, or fails and      *)
(* raises; the process may die, or the operation be cancelled, in between. *)
(* Anybody may read the directory at any time.                             *)
(***************************************************************************)
CONSTANT Ticket   \* ids

VARIABLES
  state,      \* state.json: absent, or the state it names
  manifest,   \* manifest.json is there
  verified,   \* history: the output matched when the manifest was written
  summary,    \* summary.md: absent, or the ending it tells of
  output,     \* raw_output.json against the checksum of it
  at,         \* where the owning operation stands
  told,       \* what the caller of the operation got
  faulted     \* history: a write of the ticket failed

ticketVars == <<state, manifest, verified, summary, output, at, told, faulted>>
ticketFiles == <<state, manifest, verified, summary, output>>

Ending == {"success", "skipped", "error"}
TicketState == {"pending", "running"} \cup Ending

AllowedTicketTransitions ==
  ({"pending"} \X {"running", "skipped", "error"}) \cup ({"running"} \X Ending)

\* Where an operation stands between two of its writes.  The handle's state is
\* the last one it has written, because only a write that happened moves it.
Stage == {"new", "made", "created", "working", "produced", "checked", "proven",
          "succeeding", "failing", "closing", "skipping", "returning", "gone"}

Handle(t) == state[t]

-----------------------------------------------------------------------------
TicketsInit ==
  /\ state = [t \in Ticket |-> "absent"]
  /\ manifest = [t \in Ticket |-> FALSE]
  /\ verified = [t \in Ticket |-> FALSE]
  /\ summary = [t \in Ticket |-> "absent"]
  /\ output = [t \in Ticket |-> "missing"]
  /\ at = [t \in Ticket |-> "new"]
  /\ told = [t \in Ticket |-> "nothing"]
  /\ faulted = [t \in Ticket |-> FALSE]

Moves(t, from, to) == at[t] = from /\ at' = [at EXCEPT ![t] = to]

Tells(t, what) == told' = [told EXCEPT ![t] = what]

\* Ticket.__init__: a directory, then the first state file.
MakeDirectory(t) ==
  /\ Moves(t, "new", "made")
  /\ UNCHANGED ticketFiles /\ UNCHANGED <<told, faulted>>

WriteState(t, from, to, new) ==
  /\ Moves(t, from, to)
  /\ state' = [state EXCEPT ![t] = new]
  /\ UNCHANGED <<manifest, verified, summary, output, told, faulted>>

CreatePending(t) == WriteState(t, "made", "created", "pending")

\* Ticket.start and every other transition compare with the handle's state.
Enforced(t, new) == <<Handle(t), new>> \in AllowedTicketTransitions

StartWork(t) == Enforced(t, "running") /\ WriteState(t, "created", "working", "running")

\* The operation's work is done and its raw output written, or it raises.
Produce(t) ==
  /\ Moves(t, "working", "produced")
  /\ output' = [output EXCEPT ![t] = "as recorded"]
  /\ UNCHANGED <<state, manifest, verified, summary, told, faulted>>

WorkRaises(t) ==
  /\ Moves(t, "working", "failing")
  /\ UNCHANGED ticketFiles /\ UNCHANGED <<told, faulted>>

\* Another process changes the output file.
Tamper(t) ==
  /\ output[t] = "as recorded"
  /\ output' = [output EXCEPT ![t] = "changed"]
  /\ UNCHANGED <<state, manifest, verified, summary, at, told, faulted>>

\* Ticket.succeed up to its first write: a failed check raises.
Verify(t) ==
  /\ Enforced(t, "success")
  /\ IF output[t] = "as recorded" THEN Moves(t, "produced", "checked")
                                  ELSE Moves(t, "produced", "failing")
  /\ verified' = [verified EXCEPT ![t] = output[t] = "as recorded"]
  /\ UNCHANGED <<state, manifest, summary, output, told, faulted>>

WriteManifest(t) ==
  /\ Moves(t, "checked", "proven")
  /\ manifest' = [manifest EXCEPT ![t] = TRUE]
  /\ UNCHANGED <<state, verified, summary, output, told, faulted>>

Summarise(t, from, to, ending) ==
  /\ Moves(t, from, to)
  /\ summary' = [summary EXCEPT ![t] = ending]
  /\ UNCHANGED <<state, manifest, verified, output, told, faulted>>

WriteSummary(t) == Summarise(t, "proven", "succeeding", "success")

WriteSuccess(t) == WriteState(t, "succeeding", "returning", "success")

\* fail before its summary was written over; only a mutant uses it.
FailUnlessSummarised(t) ==
  /\ Enforced(t, "error")
  /\ Moves(t, "failing", "closing")
  /\ summary' = IF summary[t] = "absent" THEN [summary EXCEPT ![t] = "error"] ELSE summary
  /\ UNCHANGED <<state, manifest, verified, output, told, faulted>>

\* The except clause around the work calls Ticket.fail.
FailSummary(t) == Enforced(t, "error") /\ Summarise(t, "failing", "closing", "error")

WriteError(t) ==
  /\ Moves(t, "closing", "gone")
  /\ state' = [state EXCEPT ![t] = "error"]
  /\ Tells(t, "exception")
  /\ UNCHANGED <<manifest, verified, summary, output, faulted>>

\* Ticket.skip, for an owner that finds nothing to do.
SkipSummary(t) ==
  /\ Enforced(t, "skipped")
  /\ \/ Summarise(t, "created", "skipping", "skipped")
     \/ Summarise(t, "working", "skipping", "skipped")

WriteSkipped(t) == WriteState(t, "skipping", "returning", "skipped")

Return(t) ==
  /\ Moves(t, "returning", "gone")
  /\ Tells(t, "value")
  /\ UNCHANGED ticketFiles /\ UNCHANGED faulted

\* A failing write in succeed that nobody reports; only a mutant uses it.
WriteFailsSilently(t) ==
  /\ faulted' = [faulted EXCEPT ![t] = TRUE]
  /\ \/ \E from \in {"checked", "proven", "succeeding"} : Moves(t, from, "returning")
     \/ \E from \in {"made", "created", "failing", "closing", "skipping"} : Moves(t, from, "gone")
  /\ UNCHANGED ticketFiles /\ UNCHANGED told

\* A write raises.  Inside the try the ticket is failed; creation, start, fail and
\* skip are outside it and hand the exception on.
WriteFails(t) ==
  /\ faulted' = [faulted EXCEPT ![t] = TRUE]
  /\ \/ /\ \E from \in {"working", "checked", "proven", "succeeding"} : Moves(t, from, "failing")
        /\ UNCHANGED told
     \/ /\ \E from \in {"made", "created", "failing", "closing", "skipping"} : Moves(t, from, "gone")
        /\ Tells(t, "exception")
  /\ UNCHANGED ticketFiles

\* The process is killed, or the operation cancelled while it waits for the model.
Die(t) ==
  /\ at[t] \notin {"new", "gone"}
  /\ at' = [at EXCEPT ![t] = "gone"]
  /\ UNCHANGED ticketFiles /\ UNCHANGED <<told, faulted>>

TicketsNext == \E t \in Ticket :
  \/ MakeDirectory(t) \/ CreatePending(t) \/ StartWork(t) \/ Produce(t) \/ WorkRaises(t)
  \/ Tamper(t) \/ Verify(t) \/ WriteManifest(t) \/ WriteSummary(t) \/ WriteSuccess(t)
  \/ FailSummary(t) \/ WriteError(t) \/ SkipSummary(t) \/ WriteSkipped(t)
  \/ Return(t) \/ WriteFails(t) \/ Die(t)

TicketsSpec == TicketsInit /\ [][TicketsNext]_ticketVars

-----------------------------------------------------------------------------
TicketsTypeOK ==
  /\ state \in [Ticket -> TicketState \cup {"absent"}]
  /\ manifest \in [Ticket -> BOOLEAN] /\ verified \in [Ticket -> BOOLEAN]
  /\ summary \in [Ticket -> Ending \cup {"absent"}]
  /\ output \in [Ticket -> {"missing", "as recorded", "changed"}]
  /\ at \in [Ticket -> Stage]
  /\ told \in [Ticket -> {"nothing", "value", "exception"}]
  /\ faulted \in [Ticket -> BOOLEAN]

\* Whoever reads an ended ticket finds the summary of that very ending, also when
\* an earlier attempt to succeed had left its own; and a ticket that succeeded
\* has a manifest whose outputs were checked, wherever writes fail or processes
\* die.
EndsAreProven == \A t \in Ticket :
  /\ state[t] \in Ending => summary[t] = state[t]
  /\ state[t] = "success" => manifest[t] /\ verified[t]

\* The caller of the operation and the readers of its ticket are told the same: a
\* value means the ticket succeeded or was skipped, an exception that it did not
\* succeed, and that it ended in error unless a write failed.
CallerAndTicketAgree == \A t \in Ticket :
  /\ told[t] = "value" => state[t] \in {"success", "skipped"}
  /\ told[t] = "exception" => state[t] \notin {"success", "skipped"}
  /\ told[t] = "exception" /\ ~faulted[t] => state[t] = "error"
=============================================================================
