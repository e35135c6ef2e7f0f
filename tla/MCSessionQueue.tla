--------------------------- MODULE MCSessionQueue ---------------------------
(***************************************************************************)
(* Instances of SessionQueue for TLC.                                      *)
(***************************************************************************)
EXTENDS SessionQueueProperties, TLC

CONSTANTS s1, s2, s3, t1, t2, t3, t4, t5

\* Two sessions, one slot: three tasks of one session compete with each other
\* and with the other session.
PairSessionOf == t1 :> s1 @@ t2 :> s1 @@ t3 :> s1 @@ t4 :> s2
PairKindOf == t1 :> "executor" @@ t2 :> "handoff" @@ t3 :> "planner" @@ t4 :> "scheduled"

\* Three sessions, two slots: the cap is reached with a session to spare.  One
\* of the three tasks of s1 is scheduled and may have no id.
TrioSessionOf == t1 :> s1 @@ t2 :> s1 @@ t3 :> s2 @@ t4 :> s3 @@ t5 :> s1
TrioKindOf ==
  t1 :> "executor" @@ t2 :> "handoff" @@ t3 :> "planner" @@ t4 :> "scheduled"
    @@ t5 :> "scheduled"

=============================================================================
