-------------------------------- MODULE Plans -------------------------------
(***************************************************************************)
(* _parse_subgoals: the reply of the model becomes the list of subgoals    *)
(* the loop half carries out.  Their ids tell them apart in results and    *)
(* approval requests, and the ids are the model's: they may be missing,    *)
(* given twice, or look like an id that was made up for another item.      *)
(*                                                                         *)
(* An id is a sequence of numbers: <<n>> is "sg_n", and <<n, t>> is the    *)
(* same with the token t behind it.                                        *)
(***************************************************************************)
EXTENDS Naturals, Sequences

CONSTANTS
  Replies,   \* [form, items]: what the model may answer
  Token      \* what secrets.token_hex may draw

VARIABLES
  planReply,   \* the reply
  seen,        \* seen_ids
  plan,        \* the ids of the subgoals parsed so far
  parse        \* how the parsing has ended

planVars == <<planReply, seen, plan, parse>>

\* A reply is empty, has no brackets, has no JSON between them, or is an array; an
\* item is no object, one with an id or a field nothing can be made of, or a subgoal,
\* with <<>> for an id that is missing.
ReplyForm == {"empty", "no array", "no JSON", "array"}
ItemForm == {"subgoal", "no object", "bad field"}

ASSUME PlansAssumption ==
  \A reply \in Replies :
    reply.form \in ReplyForm /\ reply.items \in Seq([form : ItemForm, id : Seq(Nat)])

items == planReply.items
Asked(i) == IF items[i].id = <<>> THEN <<i>> ELSE items[i].id

PlansInit ==
  /\ planReply \in Replies
  /\ seen = {} /\ plan = <<>> /\ parse = "reading"

\* ValidationError, or what _run_planner_via_ticket wraps: no plan at all.
ParseRaises ==
  /\ parse = "reading"
  /\ \/ planReply.form # "array"
     \/ Len(plan) < Len(items) /\ items[Len(plan) + 1].form # "subgoal"
  /\ parse' = "raised"
  /\ UNCHANGED <<planReply, seen, plan>>

Takes(id) == plan' = Append(plan, id) /\ UNCHANGED <<planReply, parse>>

Reads(i) ==
  /\ parse = "reading" /\ planReply.form = "array"
  /\ i = Len(plan) + 1 /\ i <= Len(items) /\ items[i].form = "subgoal"

\* Mutant of AddSubgoal: the id the item asked for is remembered, not the one it got.
AddSubgoalUnrecorded(i, token) ==
  LET id == IF Asked(i) \in seen THEN Append(Asked(i), token) ELSE Asked(i)
  IN Reads(i) /\ Takes(id) /\ seen' = seen \cup {Asked(i)}

\* A second item with an id gets a token behind it, whatever the result is.
AddSubgoal(i, token) ==
  LET id == IF Asked(i) \in seen THEN Append(Asked(i), token) ELSE Asked(i)
  IN Reads(i) /\ Takes(id) /\ seen' = seen \cup {id}

ReturnPlan ==
  /\ parse = "reading" /\ planReply.form = "array" /\ Len(plan) = Len(items)
  /\ parse' = "returned"
  /\ UNCHANGED <<planReply, seen, plan>>

PlansNext ==
  \/ ParseRaises \/ ReturnPlan
  \/ \E i \in DOMAIN items, t \in Token : AddSubgoal(i, t)

PlansSpec == PlansInit /\ [][PlansNext]_planVars

-----------------------------------------------------------------------------
\* A plan has all the items of the reply in their order, under the ids they asked
\* for unless an earlier one has it; two subgoals have the same id only when the token
\* drawn for the later one completes an id in use, never because of what the model
\* wrote (planner/__init__.py:290).
PlanTellsApart == parse = "returned" =>
  /\ Len(plan) = Len(items)
  /\ \A j \in DOMAIN plan :
       LET earlier == {plan[i] : i \in 1 .. j - 1}
       IN /\ Asked(j) \notin earlier => plan[j] = Asked(j)
          /\ plan[j] \in earlier => plan[j] # Asked(j)
=============================================================================
