------------------------------- MODULE Rules --------------------------------
(***************************************************************************)
(* StructuredHalf.run: the rules in order, each with a condition, an       *)
(* optional escalate_if and an action.  A check is a callable, one of the  *)
(* built-in verifiers or a verifier of the user's own; what matters of one *)
(* is what its callable, classifier or model does when it is evaluated.    *)
(***************************************************************************)
EXTENDS Naturals, Sequences

CONSTANT RuleLists   \* sequences of [condition, escalate, action]

VARIABLES rules, rule, asking, decision, acted

ruleVars == <<rules, rule, asking, decision, acted>>

Threshold == 1

\* A callable, which LambdaVerifier wraps.
Callable == [by : {"callable"}, answer : {"true", "false", "raises"}]

\* A classifier gives the probability of the positive class, or labels with scores;
\* without a positive_label any label will do.
Classifier ==
  [by : {"classifier"}, input : {"built", "raises"},
   output : {"probabilities", "list", "single", "unrecognised", "raises"},
   score : 0 .. Threshold + 1, label : {"positive", "another"}, anyLabel : BOOLEAN]

\* A judge is asked for an object with a decision.  "text" is a decision that is a
\* text; a field the template names and the data lacks makes it show all of the data.
Judge ==
  [by : {"judge"}, prompt : {"built", "raises"}, answers : BOOLEAN,
   reply : {"empty", "object", "fenced", "in prose", "list", "no JSON"},
   decision : {"true", "false", "absent", "text"}]

\* "malformed" is neither a verifier nor callable.
Own == [by : {"own verifier"}, answer : {"true", "false", "raises"}]
Uncallable == [by : {"malformed"}]

Check == Callable \cup Classifier \cup Judge \cup Own \cup Uncallable

Ok(yes) == IF yes THEN "ok" ELSE "not ok"

EvaluateCallable(check) == Ok(check.answer = "true")

EvaluateClassifier(check) ==
  Ok(/\ check.input = "built"
     /\ check.output \notin {"unrecognised", "raises"}
     /\ check.output = "probabilities" \/ check.anyLabel \/ check.label = "positive"
     /\ check.score >= Threshold)

\* The object the reply is, or that a fence or prose in it surrounds.
ParseJudgeJson(reply) ==
  CASE reply \in {"object", "fenced", "in prose"} -> "object"
    [] reply \in {"empty", "no JSON"}             -> "None"
    [] reply = "list"                             -> "no object"

\* What is outside of the try raises: a template that cannot be filled, an answer
\* that has no fields.  bool() of a text is true whatever it says.
EvaluateJudge(check) ==
  IF check.prompt = "raises" THEN "raises"
  ELSE IF ~check.answers \/ ParseJudgeJson(check.reply) = "None" THEN "not ok"
  ELSE IF ParseJudgeJson(check.reply) = "no object" THEN "raises"
  ELSE Ok(check.decision \in {"true", "text"})

Evaluate(check) ==
  CASE check.by = "callable"     -> EvaluateCallable(check)
    [] check.by = "classifier"   -> EvaluateClassifier(check)
    [] check.by = "judge"        -> EvaluateJudge(check)
    [] check.by = "own verifier" -> IF check.answer = "raises" THEN "raises" ELSE Ok(check.answer = "true")
    [] check.by = "malformed"    -> "raises"

Absent == [by |-> "absent"]
Rule == [condition : Check, escalate : Check \cup {Absent}, action : {"returns", "raises"}]

ASSUME RulesAssumption == \A list \in RuleLists : list \in Seq(Rule)

RulesInit ==
  /\ rules \in RuleLists
  /\ rule = 1 /\ asking = "condition" /\ decision = "none" /\ acted = 0

Decides(what) == decision' = what /\ UNCHANGED <<rules, rule, asking>>

\* The evaluation of a condition ends.
JudgeCondition ==
  /\ decision = "none" /\ asking = "condition" /\ rule <= Len(rules)
  /\ CASE Evaluate(rules[rule].condition) = "not ok" ->
            rule' = rule + 1 /\ UNCHANGED <<rules, asking, decision>>
       [] Evaluate(rules[rule].condition) = "raises" -> Decides("escalate")
       [] OTHER -> /\ asking' = IF rules[rule].escalate = Absent THEN "action" ELSE "escalate_if"
                   /\ UNCHANGED <<rules, rule, decision>>
  /\ UNCHANGED acted

\* Mutant of JudgeEscalation: an escalate_if that counts only when it answers yes.
JudgeEscalationLeniently ==
  /\ decision = "none" /\ asking = "escalate_if"
  /\ IF Evaluate(rules[rule].escalate) # "ok"
       THEN asking' = "action" /\ UNCHANGED <<rules, rule, decision>>
       ELSE Decides("escalate")
  /\ UNCHANGED acted

JudgeEscalation ==
  /\ decision = "none" /\ asking = "escalate_if"
  /\ IF Evaluate(rules[rule].escalate) = "not ok"
       THEN asking' = "action" /\ UNCHANGED <<rules, rule, decision>>
       ELSE Decides("escalate")
  /\ UNCHANGED acted

Act ==
  /\ decision = "none" /\ asking = "action"
  /\ acted' = rule
  /\ Decides(IF rules[rule].action = "raises" THEN "escalate" ELSE "complete")

NoRuleMatches ==
  /\ decision = "none" /\ rule > Len(rules)
  /\ Decides("escalate") /\ UNCHANGED acted

RulesNext == JudgeCondition \/ JudgeEscalation \/ Act \/ NoRuleMatches

RulesSpec == RulesInit /\ [][RulesNext]_ruleVars

-----------------------------------------------------------------------------
\* Nothing can be learned from a check: a user's code that raises outside of a
\* built-in verifier, or a judge that is asked wrongly or answers with no object.
Breaks(check) ==
  \/ check.by = "malformed"
  \/ check.by = "own verifier" /\ check.answer = "raises"
  \/ check.by = "judge" /\ (check.prompt = "raises" \/ (check.answers /\ check.reply = "list"))

\* It was asked, it answered in a form that is understood, and it did not say no.
Agrees(check) ==
  \/ check.by \in {"callable", "own verifier"} /\ check.answer = "true"
  \/ /\ check.by = "classifier" /\ check.input = "built" /\ check.score >= Threshold
     /\ \/ check.output = "probabilities"
        \/ check.output \in {"list", "single"} /\ (check.label = "positive" \/ check.anyLabel)
  \/ /\ check.by = "judge" /\ check.prompt = "built" /\ check.answers
     /\ check.reply \in {"object", "fenced", "in prose"} /\ check.decision \in {"true", "text"}

\* At most one action runs, that of the first rule whose condition agreed, and only
\* if everything asked before it had an answer and nobody asked to escalate; what an
\* action that raised has done is never reported as complete.
FirstConsentActs == acted # 0 =>
  /\ \A r \in 1 .. acted - 1 : ~Agrees(rules[r].condition) /\ ~Breaks(rules[r].condition)
  /\ Agrees(rules[acted].condition)
  /\ ~Agrees(rules[acted].escalate) /\ ~Breaks(rules[acted].escalate)
  /\ decision = "complete" => rules[acted].action # "raises"
=============================================================================
