---------------------------- MODULE MCExecution -----------------------------
(***************************************************************************)
(* The components that carry out work in small instances.  They share no   *)
(* state, so that one run checks them side by side: a behaviour is one of  *)
(* one component, chosen at the start, and the others rest.                *)
(***************************************************************************)
EXTENDS Scheduler, Tickets, Workers, ToolBatch, Rules, Confinement, Plans, Mailbox

VARIABLE component

Component == {"scheduler", "tickets", "workers", "batch", "rules", "confinement", "plans", "mailbox"}

\* t1 runs once, t2 at an interval, t3 is malformed and t4 follows an expression.
TimerKind == [t \in Timer |-> CASE t = "t1" -> "once" [] t = "t4" -> "cron" [] OTHER -> "interval"]
TimerPeriod == [t \in Timer |-> CASE t = "t2" -> 2 [] t = "t4" -> 3 [] OTHER -> 0]

\* No rule, one rule with any check in one place, and two rules whose first has any
\* condition or which check with callables only.
Yes == [by |-> "callable", answer |-> "true"]
RuleOf(conditions, escalations) ==
  [condition : conditions, escalate : escalations, action : {"returns", "raises"}]
CallableRule == RuleOf(Callable, Callable \cup {Absent})
SomeRules ==
  {<<>>} \cup {<<r>> : r \in RuleOf(Check, {Absent}) \cup RuleOf({Yes}, Check)}
  \cup {<<r, q>> : r \in RuleOf(Check, {Absent}), q \in RuleOf({Yes}, {Absent})}
  \cup {<<r, q>> : r \in CallableRule, q \in CallableRule}

\* Up to three items that ask for no id, for an id of the code's or of the model's,
\* or for what an id with a token behind it looks like.
SomeItem == [form : {"subgoal"}, id : {<<>>, <<1>>, <<3>>, <<1, 7>>, <<3, 7>>}]
            \cup [form : ItemForm \ {"subgoal"}, id : {<<>>}]
SomeReplies ==
  [form : ReplyForm \ {"array"}, items : {<<>>}]
  \cup [form : {"array"}, items : UNION {[1 .. n -> SomeItem] : n \in 0 .. 3}]

OtherHost == [platform |-> "other", abi |-> 0, machineKnown |-> TRUE, sandboxExec |-> FALSE]

vars == <<component, schedulerVars, ticketVars, workerVars, batchVars, ruleVars, confinementVars, planVars, mailboxVars>>

\* A component that rests has one initial state.
Rests(c) == component # c
Init ==
  /\ component \in Component
  /\ SchedulerInit /\ TicketsInit
  /\ (Rests("workers") => backend = "bare" /\ record = "planning") /\ WorkersInit
  /\ (Rests("batch") => policy = "never" /\ length = 0) /\ ToolBatchInit
  /\ (Rests("rules") => rules = <<>>) /\ RulesInit
  /\ (Rests("confinement") => host = OtherHost) /\ ConfinementInit
  /\ (Rests("plans") => planReply = [form |-> "empty", items |-> <<>>]) /\ PlansInit
  /\ (Rests("mailbox") => polling = Consumer /\ wall = MaxMillis) /\ MailboxInit

Next ==
  \/ /\ component = "scheduler" /\ SchedulerNext
     /\ UNCHANGED <<component, ticketVars, workerVars, batchVars, ruleVars, confinementVars, planVars, mailboxVars>>
  \/ /\ component = "tickets" /\ TicketsNext
     /\ UNCHANGED <<component, schedulerVars, workerVars, batchVars, ruleVars, confinementVars, planVars, mailboxVars>>
  \/ /\ component = "workers" /\ WorkersNext
     /\ UNCHANGED <<component, schedulerVars, ticketVars, batchVars, ruleVars, confinementVars, planVars, mailboxVars>>
  \/ /\ component = "batch" /\ ToolBatchNext
     /\ UNCHANGED <<component, schedulerVars, ticketVars, workerVars, ruleVars, confinementVars, planVars, mailboxVars>>
  \/ /\ component = "rules" /\ RulesNext
     /\ UNCHANGED <<component, schedulerVars, ticketVars, workerVars, batchVars, confinementVars, planVars, mailboxVars>>
  \/ /\ component = "confinement" /\ ConfinementNext
     /\ UNCHANGED <<component, schedulerVars, ticketVars, workerVars, batchVars, ruleVars, planVars, mailboxVars>>
  \/ /\ component = "plans" /\ PlansNext
     /\ UNCHANGED <<component, schedulerVars, ticketVars, workerVars, batchVars, ruleVars, confinementVars, mailboxVars>>
  \/ /\ component = "mailbox" /\ MailboxNext
     /\ UNCHANGED <<component, schedulerVars, ticketVars, workerVars, batchVars, ruleVars, confinementVars, planVars>>

\* A component that rests has no fairness to meet: of the scheduler no loop runs, and of
\* the mailbox no file is there and the clock stands at its bound.
Spec == Init /\ [][Next]_vars /\ SchedulerFairness /\ MailboxFairness
=============================================================================
