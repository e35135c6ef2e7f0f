-------------------------- MODULE MCSessionStores ---------------------------
(***************************************************************************)
(* What survives the processes of a session, in small instances: handoffs, *)
(* memory, and sessions made from earlier ones.  They share no file, so    *)
(* that one run checks them side by side, a component per behaviour.       *)
(***************************************************************************)
EXTENDS Handoffs, Memory, Lineage, TLC

VARIABLE component

\* Halves that hand over to each other.
TwoHalves == {"loop", "structured"}

\* Two directories of facts are enough for an id filed twice.
TwoTypes == <<"semantic", "episodic">>

\* Nothing tells one session from another.
Alike == Permutations(Session)

vars == <<component, handoffVars, memoryVars, lineageVars>>

Init ==
  /\ component \in {"handoffs", "memory", "lineage"}
  /\ HandoffsInit /\ MemoryInit /\ LineageInit

Next ==
  \/ component = "handoffs" /\ HandoffsNext /\ UNCHANGED <<component, memoryVars, lineageVars>>
  \/ component = "memory" /\ MemoryNext /\ UNCHANGED <<component, handoffVars, lineageVars>>
  \/ component = "lineage" /\ LineageNext /\ UNCHANGED <<component, handoffVars, memoryVars>>

Spec == Init /\ [][Next]_vars
=============================================================================
