----------------------------- MODULE MCApprovals -----------------------------
(***************************************************************************)
(* Instances of Approvals for TLC.                                         *)
(***************************************************************************)
EXTENDS ApprovalProperties, TLC

CONSTANTS c1, c2, c3, i1, i2, dg, dd, r1, r2, none

\* c1 and c2 end in the same eight characters; one decider grants, one denies.
SharedId == (c1 :> i1) @@ (c2 :> i1) @@ (c3 :> i2)
Verdicts == (dg :> "granted") @@ (dd :> "denied")

\* The resumers are interchangeable.
Resumers == Permutations({r1, r2})

=============================================================================
