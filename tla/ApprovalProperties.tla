------------------------- MODULE ApprovalProperties -------------------------
(***************************************************************************)
(* What is claimed of the approval protocol, and what its docstring claims. *)
(***************************************************************************)
EXTENDS Approvals

TakenUp == {"read", "written", "logged", "done"}

File == [Id -> Call \union {None}]
DecisionFile == [Id -> [by : Decider, on : Call] \union {None}]

RunType ==
  [at : {"ready", "looking", "resumed", "over"}, id : Id \union {None},
   heard : [by : Decider, on : Call] \union {None},
   before : SUBSET Resumer, blind : BOOLEAN]

\* Type invariant.
TypeOK ==
  /\ awaiting \in File
  /\ requestLog \in File
  /\ granted \in DecisionFile
  /\ denied \in DecisionFile
  /\ decisionLog \in DecisionFile
  /\ stage \in [Call -> {"running", "asking", "asked", "dropped"}]
  /\ run \in [Resumer -> RunType]
  /\ desk \in [Decider -> [at : {"ready", "found", "failed"} \union TakenUp,
                           id : Id \union {None}, on : Call \union {None}]]

\* Calls whose id no other call has.
Alone == {c \in Call : \A x \in Call : IdOf[x] = IdOf[c] => x = c}

Asked(c) == stage[c] \in {"asking", "asked"}

\* The response the decider writes.
ResponseOf(d) == Response(d, desk[d].on)

\* Whoever dies and whoever interferes, a request that is no longer pending but
\* has a verdict has an entry in the audit log (the order of the writes and the
\* unlink in record_decision).
VerdictsAreAudited ==
  \A i \in Id :
    awaiting[i] = None /\ (granted[i] # None \/ denied[i] # None) => decisionLog[i] # None

\* A request is never lost: as long as it is not pending under its id there is a
\* verdict on this very call that a resumption finds (write_approval_request,
\* record_decision).
NoRequestVanishes ==
  \A c \in Alone :
    Asked(c) => \/ awaiting[IdOf[c]] = c
                \/ granted[IdOf[c]] # None /\ granted[IdOf[c]].on = c
                \/ denied[IdOf[c]] # None /\ denied[IdOf[c]].on = c

\* Once a decider is through with a request nobody takes it up again, so that
\* contradictory verdicts need two deciders at work at the same time (the exists
\* of record_decision and its unlink).
AnsweredIsClosed ==
  \A d \in Decider :
    desk[d].at = "done" /\ desk[d].on \in Alone => awaiting[desk[d].id] = None

\* A resumption has heard a grant.
HeardGrant(r) == run[r].heard # None /\ VerdictOf[run[r].heard.by] = "granted"

\* Once a resumption of a request has heard a grant, none that begins later hears
\* a denial, though a denial may be written under the same id after the grant (the
\* order of find_decision).  Two exceptions are left to the code: a resumption
\* that was under way already, and one that could not read the granted file, which
\* is then passed over without a word.
GrantsStick ==
  \A r \in Resumer : \A q \in run[r].before :
    HeardGrant(q) /\ run[r].heard # None => HeardGrant(r) \/ run[r].blind

\* When one decider only took up an id, its verdict is the one the files and the
\* log ever hold under it, and the only one the resumptions of the id hear
\* (record_decision, find_decision).  The request it is about is one of that id;
\* if calls share the id it need not be the one of the call that is resumed.
UncontestedIsUnanimous ==
  \A d \in Decider :
    /\ desk[d].at \in TakenUp
    /\ \A e \in Decider \ {d} : desk[e].id # desk[d].id
    => /\ \A f \in {granted, denied, decisionLog} :
            f[desk[d].id] \in {None, ResponseOf(d)}
       /\ \A r \in Resumer :
            run[r].id = desk[d].id => run[r].heard \in {None, ResponseOf(d)}

\* approval.py:23, "every request and response lives in `logs/approvals/`": the
\* log holds the response of a decider that ran to its end.
EveryResponseIsLogged ==
  \A d \in Decider : desk[d].at = "done" => decisionLog[desk[d].id] = ResponseOf(d)

=============================================================================
