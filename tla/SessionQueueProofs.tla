------------------------- MODULE SessionQueueProofs -------------------------
(***************************************************************************)
(* Proofs about session/queue.py, for every set of sessions and tasks and  *)
(* every cap.  Serialized and WithinCapacity are not inductive: what keeps *)
(* them is that a live worker owns its session's slot and that the counter *)
(* counts the slots.                                                       *)
(***************************************************************************)
EXTENDS SessionQueueProperties, FiniteSetTheorems, TLAPS

\* The sessions a table of active flags marks.
Holders(f) == {s \in Session : f[s]}

\* A session's pending list holds only its own tasks.
PendingIsOwn ==
  \A s \in Session : \A i \in DOMAIN pending[s] : SessionOf[pending[s][i]] = s

\* A live worker runs in an active session and is the one _active_workers names.
WorkersOwnSlots ==
  \A t \in running : active[SessionOf[t]] /\ worker[SessionOf[t]] = t

\* _active_workers names, for a session, only a task of that session.
WorkersAreOwn ==
  \A s \in Session : worker[s] \in Task => SessionOf[worker[s]] = s

\* The counter counts the active sessions and stays within the cap.
SlotsCounted ==
  /\ activeCount = Cardinality(Holders(active))
  /\ activeCount <= MaxConcurrent

\* Until a grace period runs out, an active session has a live worker.
SlotsLive ==
  phase # "stopped" => \A s \in Session : active[s] => worker[s] \in running


-----------------------------------------------------------------------------
\* Lists.

\* list.append and list.sort of _enqueue: the result is a list of tasks, one longer,
\* and every element is the new task or an old one.
LEMMA InsertedType ==
  ASSUME NEW q \in Seq(Task), NEW t \in Task
  PROVE  /\ Inserted(q, t) \in Seq(Task)
         /\ Len(Inserted(q, t)) = Len(q) + 1
         /\ \A i \in DOMAIN Inserted(q, t) :
              Inserted(q, t)[i] = t \/ \E j \in DOMAIN q : Inserted(q, t)[i] = q[j]
<1> DEFINE r == Inserted(q, t)
<1>1. \A i \in 1 .. Len(q) + 1 : r[i] = t \/ \E j \in DOMAIN q : r[i] = q[j]
  BY DEF Inserted
<1>2. \A i \in 1 .. Len(q) + 1 : r[i] \in Task
  BY <1>1
<1>3. r = [i \in 1 .. Len(q) + 1 |-> r[i]]
  BY DEF Inserted
<1>4. Len(q) + 1 \in Nat
  OBVIOUS
<1>5. r \in Seq(Task) /\ Len(r) = Len(q) + 1 /\ DOMAIN r = 1 .. Len(q) + 1
  BY <1>2, <1>3, <1>4
<1>6. QED
  BY <1>1, <1>5

\* del self._waiting[idx]: the result is a list of the other elements, one
\* shorter.
LEMMA WithoutType ==
  ASSUME NEW q \in Seq(Task), NEW i \in DOMAIN q
  PROVE  /\ Without(q, i) \in Seq(Task)
         /\ Len(Without(q, i)) = Len(q) - 1
         /\ \A k \in DOMAIN Without(q, i) :
              \E j \in DOMAIN q : j # i /\ Without(q, i)[k] = q[j]
<1> DEFINE r == Without(q, i)
<1>1. Len(q) \in Nat /\ Len(q) >= 1 /\ DOMAIN q = 1 .. Len(q)
  OBVIOUS
<1>2. \A k \in 1 .. Len(q) - 1 : \E j \in DOMAIN q : j # i /\ r[k] = q[j]
  <2> TAKE k \in 1 .. Len(q) - 1
  <2>1. CASE k < i
    BY <1>1, <2>1 DEF Without
  <2>2. CASE ~(k < i)
    <3>1. k + 1 \in DOMAIN q /\ k + 1 # i
      BY <1>1, <2>2
    <3>2. r[k] = q[k + 1]
      BY <2>2 DEF Without
    <3>3. QED
      BY <3>1, <3>2
  <2>3. QED
    BY <2>1, <2>2
<1>3. \A k \in 1 .. Len(q) - 1 : r[k] \in Task
  BY <1>2
<1>4. r = [k \in 1 .. Len(q) - 1 |-> r[k]]
  BY DEF Without
<1>5. r \in Seq(Task) /\ Len(r) = Len(q) - 1 /\ DOMAIN r = 1 .. Len(q) - 1
  BY <1>1, <1>3, <1>4
<1>6. QED
  BY <1>2, <1>5

-----------------------------------------------------------------------------
\* Counting slots.

\* Setting the active flag of an inactive session adds one to the active sessions.
LEMMA TakingASlot ==
  ASSUME NEW f \in [Session -> BOOLEAN], NEW s \in Session, ~f[s],
         NEW g, g = [f EXCEPT ![s] = TRUE]
  PROVE  /\ Cardinality(Holders(f)) \in Nat
         /\ Cardinality(Holders(g))
              = Cardinality(Holders(f)) + 1
<1> DEFINE F == Holders(f)
<1>1. IsFiniteSet(F) /\ Cardinality(F) \in Nat
  BY FS_Subset, FS_CardinalityType, QueueAssumption DEF Holders
<1>2. Holders(g) = F \union {s}
  BY DEF Holders
<1>3. s \notin F
  BY DEF Holders
<1>4. QED
  BY <1>1, <1>2, <1>3, FS_AddElement

\* Clearing the active flag of an active session takes one away.
LEMMA LeavingASlot ==
  ASSUME NEW f \in [Session -> BOOLEAN], NEW s \in Session, f[s],
         NEW g, g = [f EXCEPT ![s] = FALSE]
  PROVE  /\ Cardinality(Holders(g)) \in Nat
         /\ Cardinality(Holders(f))
              = Cardinality(Holders(g)) + 1
<1>1. /\ g \in [Session -> BOOLEAN]
      /\ ~g[s]
      /\ f = [g EXCEPT ![s] = TRUE]
  OBVIOUS
<1>2. QED
  BY <1>1, TakingASlot

-----------------------------------------------------------------------------
\* The steps that move slots.

\* The part of the type invariant the slots depend on.
SlotTypeOK ==
  /\ active \in [Session -> BOOLEAN]
  /\ pending \in [Session -> Seq(Task)]
  /\ waiting \in Seq(Task)
  /\ activeCount \in Nat
  /\ worker \in [Session -> Task \union {NoTask}]
  /\ running \subseteq Task

\* The inductive invariant behind guarantees 1 and 2 of queue.py.
Core ==
  PendingIsOwn /\ WorkersOwnSlots /\ WorkersAreOwn /\ SlotsCounted /\ SlotsLive

\* Queueing behind an active session moves no slot.
LEMMA SerializeStep ==
  ASSUME SlotTypeOK, Core, NEW t \in Task, Serialize(t), phase' = phase
  PROVE  SlotTypeOK' /\ Core'
<1> DEFINE s == SessionOf[t]
           q == Inserted(pending[s], t)
<1>1. s \in Session /\ pending[s] \in Seq(Task)
  BY QueueAssumption DEF SlotTypeOK
<1>2. /\ pending' = [pending EXCEPT ![s] = q]
      /\ UNCHANGED <<active, activeCount, waiting, worker, running>>
  BY DEF Serialize, slotVars
<1>3. /\ q \in Seq(Task)
      /\ \A i \in DOMAIN q : q[i] = t \/ \E j \in DOMAIN pending[s] : q[i] = pending[s][j]
  BY <1>1, InsertedType
<1>4. SlotTypeOK'
  BY <1>1, <1>2, <1>3 DEF SlotTypeOK
<1>5. PendingIsOwn'
  <2> SUFFICES ASSUME NEW x \in Session, NEW i \in DOMAIN pending'[x]
               PROVE  SessionOf[pending'[x][i]] = x
    BY DEF PendingIsOwn
  <2>1. CASE x = s
    <3>1. pending'[x] = q
      BY <1>1, <1>2, <2>1 DEF SlotTypeOK
    <3>2. SessionOf[q[i]] = s
      BY <1>1, <1>3, <3>1, <2>1 DEF Core, PendingIsOwn
    <3>3. QED
      BY <3>1, <3>2, <2>1
  <2>2. CASE x # s
    BY <1>2, <2>2 DEF SlotTypeOK, Core, PendingIsOwn
  <2>3. QED
    BY <2>1, <2>2
<1>6. (WorkersOwnSlots /\ WorkersAreOwn /\ SlotsCounted /\ SlotsLive)'
  BY <1>2 DEF Core, WorkersOwnSlots, WorkersAreOwn, SlotsCounted, SlotsLive
<1>7. QED
  BY <1>4, <1>5, <1>6 DEF Core

\* Holding a task at the cap moves no slot.
LEMMA HoldStep ==
  ASSUME SlotTypeOK, Core, NEW t \in Task, Hold(t), phase' = phase
  PROVE  SlotTypeOK' /\ Core'
<1>1. waiting' \in Seq(Task)
  BY InsertedType DEF Hold, SlotTypeOK
<1>2. QED
  BY <1>1 DEF Hold, SlotTypeOK, Core, PendingIsOwn, WorkersOwnSlots,
              WorkersAreOwn, SlotsCounted,
              SlotsLive

\* _enqueue with a free slot: the counter and the flags grow together.
LEMMA LaunchStep ==
  ASSUME SlotTypeOK, Core, NEW t \in Task, Launch(t), phase' = phase
  PROVE  SlotTypeOK' /\ Core'
<1> DEFINE s == SessionOf[t]
<1>1. s \in Session
  BY QueueAssumption
<1>2. /\ ~active[s]
      /\ activeCount < MaxConcurrent
      /\ active' = [active EXCEPT ![s] = TRUE]
      /\ activeCount' = activeCount + 1
      /\ worker' = [worker EXCEPT ![s] = t]
      /\ running' = running \union {t}
      /\ UNCHANGED <<pending, waiting>>
  BY DEF Launch
<1>3. SlotTypeOK'
  BY <1>1, <1>2 DEF SlotTypeOK
<1>4. PendingIsOwn'
  BY <1>2 DEF Core, PendingIsOwn
<1>5. WorkersOwnSlots'
  <2> SUFFICES ASSUME NEW u \in running'
               PROVE  active'[SessionOf[u]] /\ worker'[SessionOf[u]] = u
    BY DEF WorkersOwnSlots
  <2>1. CASE u = t
    BY <1>1, <1>2, <2>1 DEF SlotTypeOK
  <2>2. CASE u # t
    <3>1. u \in running /\ SessionOf[u] \in Session
      BY <1>2, <2>2, QueueAssumption DEF SlotTypeOK
    <3>2. SessionOf[u] # s
      BY <1>2, <3>1 DEF Core, WorkersOwnSlots
    <3>3. QED
      BY <1>2, <3>1, <3>2 DEF Core, WorkersOwnSlots, SlotTypeOK
  <2>3. QED
    BY <2>1, <2>2
<1>6. SlotsCounted'
  <2>1. Cardinality(Holders(active'))
          = Cardinality(Holders(active)) + 1
    BY <1>1, <1>2, TakingASlot DEF SlotTypeOK
  <2>2. QED
    BY <1>2, <2>1, QueueAssumption DEF Core, SlotsCounted, SlotTypeOK
<1>7. SlotsLive'
  BY <1>1, <1>2 DEF Core, SlotsLive, SlotTypeOK
<1>8. WorkersAreOwn'
  BY <1>1, <1>2 DEF Core, WorkersAreOwn, SlotTypeOK
<1>9. QED
  BY <1>3, <1>4, <1>5, <1>6, <1>7, <1>8 DEF Core

\* _enqueue keeps the slots in order, whichever way it goes.
LEMMA AdmitStep ==
  ASSUME SlotTypeOK, Core, NEW t \in Task, Admit(t), phase' = phase
  PROVE  SlotTypeOK' /\ Core'
BY SerializeStep, HoldStep, LaunchStep DEF Admit

\* What FreeSlot does to the slots: t's session gives its slot back, and perhaps
\* one waiting task whose session is inactive takes it.
LEMMA FreeSlotStep ==
  ASSUME SlotTypeOK, Core, NEW t \in running, FreeSlot(t), UNCHANGED pending,
         phase' = phase
  PROVE  SlotTypeOK' /\ Core'
<1> DEFINE s     == SessionOf[t]
           freed == [active EXCEPT ![s] = FALSE]
           left  == IF activeCount > 0 THEN activeCount - 1 ELSE 0
           idle  == [worker EXCEPT ![s] = NoTask]
           gone  == running \ {t}
<1>1. t \in Task /\ s \in Session /\ active[s] /\ worker[s] = t
  BY QueueAssumption DEF SlotTypeOK, Core, WorkersOwnSlots
<1>2. /\ freed \in [Session -> BOOLEAN]
      /\ idle \in [Session -> Task \union {NoTask}]
      /\ gone \subseteq Task
  BY <1>1 DEF SlotTypeOK
<1>3. /\ left \in Nat
      /\ left = activeCount - 1
      /\ left = Cardinality(Holders(freed))
      /\ left < MaxConcurrent
  <2>1. /\ Cardinality(Holders(freed)) \in Nat
        /\ Cardinality(Holders(active))
             = Cardinality(Holders(freed)) + 1
    BY <1>1, LeavingASlot DEF SlotTypeOK
  <2>2. QED
    BY <2>1, QueueAssumption DEF SlotTypeOK, Core, SlotsCounted
<1>4. \A u \in gone : u \in Task /\ freed[SessionOf[u]] /\ idle[SessionOf[u]] = u
  <2> TAKE u \in gone
  <2>1. u \in Task /\ SessionOf[u] \in Session /\ active[SessionOf[u]]
          /\ worker[SessionOf[u]] = u
    BY QueueAssumption DEF SlotTypeOK, Core, WorkersOwnSlots
  <2>2. SessionOf[u] # s
    BY <1>1, <2>1
  <2>3. QED
    BY <2>1, <2>2, <1>1 DEF SlotTypeOK
<1>5. phase # "stopped" => \A x \in Session : freed[x] => idle[x] \in gone
  <2> SUFFICES ASSUME phase # "stopped", NEW x \in Session, freed[x]
               PROVE  idle[x] \in gone
    OBVIOUS
  <2>1. x # s /\ active[x]
    BY <1>1 DEF SlotTypeOK
  <2>2. worker[x] \in running /\ worker[x] \in Task /\ idle[x] = worker[x]
    BY <1>1, <2>1 DEF SlotTypeOK, Core, SlotsLive
  <2>3. worker[x] # t
    BY <2>1, <2>2 DEF Core, WorkersAreOwn
  <2>4. QED
    BY <2>2, <2>3
<1>6. PendingIsOwn'
  BY DEF Core, PendingIsOwn
<1>7. CASE /\ active' = freed
           /\ activeCount' = left
           /\ worker' = idle
           /\ running' = gone
           /\ UNCHANGED waiting
  <2>1. SlotTypeOK'
    BY <1>2, <1>3, <1>7 DEF SlotTypeOK
  <2>2. WorkersOwnSlots'
    BY <1>4, <1>7 DEF WorkersOwnSlots
  <2>3. SlotsCounted'
    BY <1>3, <1>7, QueueAssumption DEF SlotsCounted
  <2>4. SlotsLive'
    BY <1>5, <1>7 DEF SlotsLive
  <2>5. WorkersAreOwn'
    BY <1>1, <1>7, QueueAssumption DEF Core, WorkersAreOwn, SlotTypeOK
  <2>6. QED
    BY <1>6, <2>1, <2>2, <2>3, <2>4, <2>5 DEF Core
<1>8. ASSUME NEW i \in DOMAIN waiting,
             ~freed[SessionOf[waiting[i]]],
             active' = [freed EXCEPT ![SessionOf[waiting[i]]] = TRUE],
             activeCount' = left + 1,
             worker' = [idle EXCEPT ![SessionOf[waiting[i]]] = waiting[i]],
             running' = gone \union {waiting[i]},
             waiting' = Without(waiting, i)
      PROVE  SlotTypeOK' /\ Core'
  <2> DEFINE next == waiting[i]
             n    == SessionOf[next]
  <2>1. next \in Task /\ n \in Session
    BY QueueAssumption DEF SlotTypeOK
  <2>2. waiting' \in Seq(Task)
    BY <1>8, WithoutType DEF SlotTypeOK
  <2>3. SlotTypeOK'
    <3>1. active' \in [Session -> BOOLEAN]
      BY <1>2, <1>8, <2>1
    <3>2. activeCount' \in Nat
      <4> HIDE DEF left
      <4>1. QED
        BY <1>3, <1>8
    <3>3. worker' \in [Session -> Task \union {NoTask}] /\ running' \subseteq Task
      BY <1>2, <1>8, <2>1
    <3>4. QED
      BY <2>2, <3>1, <3>2, <3>3, <1>6 DEF SlotTypeOK
  <2>4. WorkersOwnSlots'
    <3> SUFFICES ASSUME NEW u \in running'
                 PROVE  active'[SessionOf[u]] /\ worker'[SessionOf[u]] = u
      BY DEF WorkersOwnSlots
    <3>1. CASE u = next
      BY <1>2, <1>8, <2>1, <3>1
    <3>2. CASE u \in gone
      <4>1. freed[SessionOf[u]] /\ idle[SessionOf[u]] = u /\ SessionOf[u] \in Session
        BY <1>4, <3>2, QueueAssumption
      <4>2. SessionOf[u] # n
        BY <4>1, <1>8
      <4>3. QED
        BY <4>1, <4>2, <1>2, <1>8
    <3>3. QED
      BY <3>1, <3>2, <1>8
  <2>5. SlotsCounted'
    <3>1. Cardinality(Holders(active'))
            = Cardinality(Holders(freed)) + 1
      BY <1>2, <1>8, <2>1, TakingASlot
    <3>2. QED
      BY <1>3, <1>8, <3>1, QueueAssumption DEF SlotsCounted
  <2>6. SlotsLive'
    <3> SUFFICES ASSUME phase # "stopped", NEW x \in Session, active'[x]
                 PROVE  worker'[x] \in running'
      BY DEF SlotsLive
    <3>1. CASE x = n
      BY <1>2, <1>8, <2>1, <3>1
    <3>2. CASE x # n
      <4>1. freed[x] /\ worker'[x] = idle[x]
        BY <1>2, <1>8, <2>1, <3>2
      <4>2. QED
        BY <1>5, <1>8, <4>1
    <3>3. QED
      BY <3>1, <3>2
  <2>7. WorkersAreOwn'
    <3>1. WorkersAreOwn
      BY DEF Core
    <3>2. \A x \in Session : x # n => worker'[x] = worker[x] \/ worker'[x] = NoTask
      BY <1>1, <1>8, <2>1 DEF SlotTypeOK
    <3>3. worker'[n] = next
      BY <1>2, <1>8, <2>1
    <3>4. QED
      BY <3>1, <3>2, <3>3, QueueAssumption DEF WorkersAreOwn
  <2>8. QED
    BY <1>6, <2>3, <2>4, <2>5, <2>6, <2>7 DEF Core
<1>9. QED
  BY <1>7, <1>8 DEF FreeSlot

\* _after_task hands the slot to the next pending task of the session, or frees it.
LEMMA AfterTaskStep ==
  ASSUME SlotTypeOK, Core, NEW t \in running, AfterTask(t), phase' = phase
  PROVE  SlotTypeOK' /\ Core'
<1> DEFINE s == SessionOf[t]
           next == Head(pending[s])
<1>1. t \in Task /\ s \in Session /\ active[s] /\ worker[s] = t
  BY QueueAssumption DEF SlotTypeOK, Core, WorkersOwnSlots
<1>2. CASE pending[s] = <<>>
  BY <1>2, FreeSlotStep DEF AfterTask
<1>3. CASE pending[s] # <<>>
  <2>1. /\ pending' = [pending EXCEPT ![s] = Tail(@)]
        /\ worker' = [worker EXCEPT ![s] = next]
        /\ running' = (running \ {t}) \union {next}
        /\ UNCHANGED <<active, activeCount, waiting>>
    BY <1>3 DEF AfterTask
  <2>2. /\ pending[s] \in Seq(Task)
        /\ Len(pending[s]) >= 1
        /\ next = pending[s][1]
        /\ next \in Task
        /\ Tail(pending[s]) \in Seq(Task)
        /\ \A i \in DOMAIN Tail(pending[s]) :
             /\ i + 1 \in DOMAIN pending[s]
             /\ Tail(pending[s])[i] = pending[s][i + 1]
    BY <1>1, <1>3 DEF SlotTypeOK
  <2>3. SessionOf[next] = s
    BY <1>1, <2>2 DEF Core, PendingIsOwn
  <2>4. SlotTypeOK'
    BY <1>1, <2>1, <2>2 DEF SlotTypeOK
  <2>5. PendingIsOwn'
    BY <1>1, <2>1, <2>2 DEF SlotTypeOK, Core, PendingIsOwn
  <2>6. WorkersOwnSlots'
    <3> SUFFICES ASSUME NEW u \in running'
                 PROVE  active'[SessionOf[u]] /\ worker'[SessionOf[u]] = u
      BY DEF WorkersOwnSlots
    <3>1. CASE u = next
      BY <1>1, <2>1, <2>3, <3>1 DEF SlotTypeOK
    <3>2. CASE u \in running \ {t}
      <4>1. active[SessionOf[u]] /\ worker[SessionOf[u]] = u /\ SessionOf[u] \in Session
        BY <3>2, QueueAssumption DEF Core, WorkersOwnSlots, SlotTypeOK
      <4>2. SessionOf[u] # s
        BY <1>1, <3>2, <4>1
      <4>3. QED
        BY <2>1, <4>1, <4>2 DEF SlotTypeOK
    <3>3. QED
      BY <2>1, <3>1, <3>2
  <2>7. SlotsCounted' /\ SlotsLive'
    <3>1. SlotsCounted'
      BY <2>1 DEF Core, SlotsCounted
    <3>2. SUFFICES ASSUME phase # "stopped", NEW x \in Session, active'[x]
                   PROVE  worker'[x] \in running'
      BY <3>1 DEF SlotsLive
    <3>3. CASE x = s
      BY <1>1, <2>1, <3>3 DEF SlotTypeOK
    <3>4. CASE x # s
      <4>1. worker[x] \in running /\ worker[x] \in Task /\ worker'[x] = worker[x]
        BY <2>1, <3>2, <3>4 DEF SlotTypeOK, Core, SlotsLive
      <4>2. worker[x] # t
        BY <3>4, <4>1 DEF Core, WorkersAreOwn
      <4>3. QED
        BY <2>1, <4>1, <4>2
    <3>5. QED
      BY <3>3, <3>4
  <2>8. WorkersAreOwn'
    BY <1>1, <2>1, <2>3 DEF Core, WorkersAreOwn, SlotTypeOK
  <2>9. QED
    BY <2>4, <2>5, <2>6, <2>7, <2>8 DEF Core
<1>4. QED
  BY <1>2, <1>3

-----------------------------------------------------------------------------
\* The whole specification.

IInv == TypeOK /\ Core

\* The type invariant implies its part.
LEMMA SlotTyping == TypeOK => SlotTypeOK
BY DEF TypeOK, SlotTypeOK

\* A new queue satisfies the invariant.
LEMMA InitIInv == Init => IInv
<1> SUFFICES ASSUME Init
             PROVE  IInv
  OBVIOUS
<1>1. TypeOK
  BY QueueAssumption DEF Init, TypeOK, Outcome
<1>2. PendingIsOwn /\ WorkersOwnSlots /\ WorkersAreOwn /\ SlotsLive
  BY QueueAssumption DEF Init, PendingIsOwn, WorkersOwnSlots, WorkersAreOwn, SlotsLive
<1>3. SlotsCounted
  <2>1. Holders(active) = {}
    BY DEF Init, Holders
  <2>2. Cardinality({}) = 0
    BY FS_EmptySet
  <2>3. activeCount = 0 /\ 0 <= MaxConcurrent
    BY QueueAssumption DEF Init
  <2>4. QED
    BY <2>1, <2>2, <2>3 DEF SlotsCounted
<1>4. QED
  BY <1>1, <1>2, <1>3 DEF IInv, Core

\* Steps that move no slot keep what is said about slots.
LEMMA SlotsUntouched ==
  ASSUME IInv, UNCHANGED <<slotVars, pending>>,
         phase' # "stopped" => phase # "stopped"
  PROVE  Core'
BY DEF IInv, Core, PendingIsOwn, WorkersOwnSlots, WorkersAreOwn, SlotsCounted,
       SlotsLive, slotVars

\* The sentinels Admit writes go to sessions.
LEMMA AdmitClosing ==
  ASSUME TypeOK, NEW t \in Task, Admit(t)
  PROVE  closing' \subseteq Session
<1>1. SessionOf[t] \in Session
  BY QueueAssumption
<1>2. CASE Serialize(t)
  BY <1>1, <1>2 DEF Serialize, SendClose, TypeOK
<1>3. CASE Hold(t) \/ Launch(t)
  BY <1>3 DEF Hold, Launch, TypeOK
<1>4. QED
  BY <1>2, <1>3 DEF Admit

\* Every step of the queue keeps the invariant.
LEMMA NextIInv == IInv /\ [Next]_vars => IInv'
<1> SUFFICES ASSUME IInv, [Next]_vars
             PROVE  IInv'
  OBVIOUS
<1> TypeOK /\ Core /\ SlotTypeOK
  BY SlotTyping DEF IInv
<1>1. ASSUME NEW t \in Task, Enqueue(t)
      PROVE  IInv'
  <2>1. SlotTypeOK' /\ Core'
    BY <1>1, AdmitStep DEF Enqueue, lifeVars
  <2>2. closing' \subseteq Session
    BY <1>1, AdmitClosing DEF Enqueue
  <2>3. QED
    BY <1>1, <2>1, <2>2 DEF Enqueue, lifeVars, IInv, TypeOK, SlotTypeOK, Outcome
<1>2. ASSUME NEW t \in Task, Refuse(t)
      PROVE  IInv'
  <2>1. Core'
    BY <1>2, SlotsUntouched DEF Refuse, lifeVars
  <2>2. QED
    BY <1>2, <2>1 DEF Refuse, lifeVars, slotVars, IInv, TypeOK, Outcome
<1>3. ASSUME NEW t \in Task, Succeed(t)
      PROVE  IInv'
  <2>1. SlotTypeOK' /\ Core'
    BY <1>3, AfterTaskStep DEF Succeed, lifeVars
  <2>2. idleWaiting' \in [Session -> BOOLEAN]
    BY <1>3 DEF Succeed, AfterTask, FreeSlot, TypeOK
  <2>3. retryCount' \in [Session -> 0 .. MaxRetries]
    <3>1. 0 \in 0 .. MaxRetries
      BY QueueAssumption
    <3>2. QED
      BY <1>3, <3>1 DEF Succeed, TypeOK
  <2>4. QED
    BY <1>3, <2>1, <2>2, <2>3 DEF Succeed, lifeVars, IInv, TypeOK, SlotTypeOK, Outcome
<1>4. ASSUME NEW t \in Task, FailAndBackOff(t)
      PROVE  IInv'
  <2>1. SlotTypeOK' /\ Core'
    BY <1>4, FreeSlotStep DEF FailAndBackOff, lifeVars
  <2>2. idleWaiting' \in [Session -> BOOLEAN]
    BY <1>4 DEF FailAndBackOff, FreeSlot, TypeOK
  <2>3. retryCount' \in [Session -> 0 .. MaxRetries]
    BY <1>4, QueueAssumption DEF FailAndBackOff, TypeOK
  <2>4. QED
    BY <1>4, <2>1, <2>2, <2>3 DEF FailAndBackOff, lifeVars, IInv, TypeOK, SlotTypeOK
<1>5. ASSUME NEW t \in Task, GiveUp(t)
      PROVE  IInv'
  <2>1. SlotTypeOK' /\ Core'
    BY <1>5, AfterTaskStep DEF GiveUp, lifeVars
  <2>2. idleWaiting' \in [Session -> BOOLEAN]
    BY <1>5 DEF GiveUp, AfterTask, FreeSlot, TypeOK
  <2>3. retryCount' \in [Session -> 0 .. MaxRetries]
    <3>1. 0 \in 0 .. MaxRetries
      BY QueueAssumption
    <3>2. QED
      BY <1>5, <3>1 DEF GiveUp, TypeOK
  <2>4. QED
    BY <1>5, <2>1, <2>2, <2>3 DEF GiveUp, lifeVars, IInv, TypeOK, SlotTypeOK, Outcome
<1>6. ASSUME NEW t \in Task, Retry(t)
      PROVE  IInv'
  <2>1. CASE Admit(t) /\ UNCHANGED outcome
    <3>1. SlotTypeOK' /\ Core'
      BY <1>6, <2>1, AdmitStep DEF Retry, lifeVars
    <3>2. closing' \subseteq Session
      BY <2>1, AdmitClosing
    <3>3. QED
      BY <1>6, <2>1, <3>1, <3>2 DEF Retry, lifeVars, IInv, TypeOK, SlotTypeOK
  <2>2. CASE /\ outcome' = [outcome EXCEPT ![t] = "lapsed"]
             /\ UNCHANGED <<slotVars, pending, closing>>
    <3>1. Core'
      BY <1>6, <2>2, SlotsUntouched DEF Retry, lifeVars
    <3>2. QED
      BY <1>6, <2>2, <3>1 DEF Retry, lifeVars, slotVars, IInv, TypeOK, Outcome
  <2>3. QED
    BY <1>6, <2>1, <2>2 DEF Retry
<1>7. ASSUME NEW s \in Session,
             RegisterContainer(s) \/ UnregisterContainer(s) \/ NotifyIdle(s) \/ ClearClose(s)
      PROVE  IInv'
  <2>1. UNCHANGED <<slotVars, pending, lifeVars>>
    BY <1>7 DEF RegisterContainer, UnregisterContainer, NotifyIdle, ClearClose
  <2>2. Core'
    BY <2>1, SlotsUntouched DEF lifeVars
  <2>3. /\ container' \in [Session -> BOOLEAN]
        /\ idleWaiting' \in [Session -> BOOLEAN]
        /\ closing' \subseteq Session
        /\ UNCHANGED <<retryCount, backoff, outcome>>
    <3>1. /\ container' \in {container, [container EXCEPT ![s] = TRUE],
                             [container EXCEPT ![s] = FALSE]}
          /\ idleWaiting' \in {idleWaiting, [idleWaiting EXCEPT ![s] = TRUE]}
          /\ closing' \in {closing, closing \union {s}, closing \ {s}}
          /\ UNCHANGED <<retryCount, backoff, outcome>>
      BY <1>7 DEF RegisterContainer, UnregisterContainer, NotifyIdle, ClearClose, SendClose
    <3> QED
      BY <3>1 DEF IInv, TypeOK
  <2>4. QED
    BY <2>1, <2>2, <2>3 DEF lifeVars, slotVars, IInv, TypeOK
<1>8. CASE BeginShutdown
  <2>1. Core'
    BY <1>8, SlotsUntouched DEF BeginShutdown
  <2>2. awaited' \subseteq Task
    BY <1>8 DEF BeginShutdown, TypeOK
  <2>3. QED
    BY <1>8, <2>1, <2>2 DEF BeginShutdown, slotVars, IInv, TypeOK
<1>9. CASE GraceSuffices
  <2>1. Core'
    BY <1>9, SlotsUntouched DEF GraceSuffices
  <2>2. QED
    BY <1>9, <2>1 DEF GraceSuffices, slotVars, IInv, TypeOK
<1>10. CASE GraceElapses
  <2>1. Core'
    BY <1>10 DEF GraceElapses, Core, PendingIsOwn, WorkersOwnSlots, WorkersAreOwn,
                 SlotsCounted, SlotsLive
  <2>2. outcome' \in [Task -> Outcome]
    BY <1>10 DEF GraceElapses, TypeOK, Outcome
  <2>3. QED
    BY <1>10, <2>1, <2>2 DEF GraceElapses, IInv, TypeOK
<1>11. CASE UNCHANGED vars
  BY <1>11 DEF vars, IInv, TypeOK, Core, PendingIsOwn, WorkersOwnSlots, WorkersAreOwn,
               SlotsCounted, SlotsLive
<1>12. QED
  BY <1>1, <1>2, <1>3, <1>4, <1>5, <1>6, <1>7, <1>8, <1>9, <1>10, <1>11
     DEF Next, WorkerEnds

\* The invariant holds in every reachable state.
LEMMA Invariance == Spec => []IInv
BY InitIInv, NextIInv, PTL DEF Spec

\* The state of the queue keeps its type; in particular a session's retry count
\* never exceeds MAX_RETRIES.
THEOREM TypeCorrect == Spec => []TypeOK
<1>1. IInv => TypeOK
  BY DEF IInv
<1>2. QED
  BY <1>1, Invariance, PTL

\* Guarantee 1 of queue.py: no session ever has two live workers.
THEOREM SessionsAreSerialized == Spec => []Serialized
<1>1. IInv => Serialized
  BY DEF IInv, Core, WorkersOwnSlots, Serialized
<1>2. QED
  BY <1>1, Invariance, PTL

\* Guarantee 2 of queue.py: never more than max_concurrent live workers.  Each
\* live worker is charged to its session's slot, and slots are counted.
THEOREM CapIsRespected == Spec => []WithinCapacity
<1>1. ASSUME IInv
      PROVE  WithinCapacity
  <2> DEFINE S == Holders(active)
             f == [t \in running |-> SessionOf[t]]
  <2>1. IsFiniteSet(S) /\ Cardinality(S) <= MaxConcurrent
    BY <1>1, FS_Subset, QueueAssumption DEF IInv, Core, SlotsCounted, Holders
  <2>2. f \in Injection(running, S)
    <3>1. \A t \in running : SessionOf[t] \in S
      BY <1>1, QueueAssumption DEF IInv, TypeOK, Core, WorkersOwnSlots, Holders
    <3>2. \A t, u \in running : SessionOf[t] = SessionOf[u] => t = u
      BY <1>1 DEF IInv, Core, WorkersOwnSlots
    <3>3. QED
      BY <3>1, <3>2 DEF Injection, IsInjective
  <2>3. Cardinality(running) <= Cardinality(S)
    BY <2>1, <2>2, FS_Injection
  <2>4. Cardinality(running) \in Nat /\ Cardinality(S) \in Nat
    BY <1>1, <2>1, FS_Subset, FS_CardinalityType, QueueAssumption DEF IInv, TypeOK
  <2>5. QED
    BY <2>1, <2>3, <2>4, QueueAssumption DEF WithinCapacity
<1>2. QED
  BY <1>1, Invariance, PTL

\* No path out of a task leaks a slot while the queue serves or drains.
THEOREM SlotsAreAccountedFor == Spec => []SlotsAccountedFor
<1>1. ASSUME IInv
      PROVE  SlotsAccountedFor
  <2>1. activeCount = Cardinality({s \in Session : active[s]})
    BY <1>1 DEF IInv, Core, SlotsCounted, Holders
  <2>2. ASSUME NEW s \in Session, worker[s] \in running
        PROVE  active[s]
    <3>1. worker[s] \in Task /\ SessionOf[worker[s]] = s
      BY <1>1, <2>2 DEF IInv, TypeOK, Core, WorkersAreOwn
    <3>2. QED
      BY <1>1, <2>2, <3>1 DEF IInv, Core, WorkersOwnSlots
  <2>3. QED
    BY <1>1, <2>1, <2>2 DEF IInv, Core, SlotsLive, SlotsAccountedFor
<1>2. QED
  BY <1>1, Invariance, PTL

-----------------------------------------------------------------------------
\* No free slot is left to a waiting task that could use it.

\* The slot a task frees does not stay free while a waiting task could use it.
LEMMA FreeSlotConserves ==
  ASSUME IInv, WorkConserving, NEW t \in running, FreeSlot(t)
  PROVE  WorkConserving'
<1> DEFINE s     == SessionOf[t]
           freed == [active EXCEPT ![s] = FALSE]
           left  == IF activeCount > 0 THEN activeCount - 1 ELSE 0
<1>1. s \in Session /\ active[s] /\ active \in [Session -> BOOLEAN]
  BY QueueAssumption DEF IInv, TypeOK, Core, WorkersOwnSlots
<1>2. \A i \in DOMAIN waiting : waiting[i] \in Task /\ SessionOf[waiting[i]] \in Session
  BY QueueAssumption DEF IInv, TypeOK
<1>3. activeCount \in Nat /\ activeCount > 0 /\ left = activeCount - 1
  <2>1. /\ Cardinality(Holders(freed)) \in Nat
        /\ Cardinality(Holders(active)) = Cardinality(Holders(freed)) + 1
    BY <1>1, LeavingASlot
  <2>2. QED
    BY <2>1 DEF IInv, TypeOK, Core, SlotsCounted
<1>4. SUFFICES ASSUME activeCount' < MaxConcurrent, NEW k \in DOMAIN waiting'
               PROVE  active'[SessionOf[waiting'[k]]]
  BY DEF WorkConserving, Tasks
<1>5. CASE /\ \/ \A i \in DOMAIN waiting : freed[SessionOf[waiting[i]]]
              \/ left >= MaxConcurrent
           /\ active' = freed
           /\ activeCount' = left
           /\ UNCHANGED waiting
  BY <1>3, <1>4, <1>5, QueueAssumption
<1>6. ASSUME NEW i \in DOMAIN waiting,
             ~freed[SessionOf[waiting[i]]],
             active' = [freed EXCEPT ![SessionOf[waiting[i]]] = TRUE],
             activeCount' = left + 1,
             waiting' = Without(waiting, i)
      PROVE  active'[SessionOf[waiting'[k]]]
  <2>1. activeCount' = activeCount
    BY <1>3, <1>6
  <2>2. \A j \in DOMAIN waiting : active[SessionOf[waiting[j]]]
    BY <2>1, <1>4 DEF WorkConserving, Tasks
  <2>3. SessionOf[waiting[i]] = s
    BY <1>1, <1>2, <1>6, <2>2
  <2>4. active' = active
    BY <1>1, <1>6, <2>3
  <2>5. PICK j \in DOMAIN waiting : waiting'[k] = waiting[j]
    BY <1>4, <1>6, WithoutType DEF IInv, TypeOK
  <2>6. QED
    BY <2>2, <2>4, <2>5
<1>7. QED
  BY <1>5, <1>6 DEF FreeSlot

\* _enqueue holds a task back only at the cap.
LEMMA AdmitConserves ==
  ASSUME IInv, WorkConserving, NEW t \in Task, Admit(t)
  PROVE  WorkConserving'
<1>1. CASE Serialize(t)
  BY <1>1 DEF Serialize, slotVars, WorkConserving, Tasks
<1>2. CASE Hold(t)
  BY <1>2, QueueAssumption DEF Hold, WorkConserving, IInv, TypeOK
<1>3. CASE Launch(t)
  <2>1. /\ active' = [active EXCEPT ![SessionOf[t]] = TRUE]
        /\ activeCount < MaxConcurrent
        /\ UNCHANGED waiting
    BY <1>3 DEF Launch
  <2>2. \A u \in Tasks(waiting) : active[SessionOf[u]] /\ u \in Task
    <3>1. waiting \in Seq(Task)
      BY DEF IInv, TypeOK
    <3>2. \A u \in Tasks(waiting) : u \in Task
      BY <3>1 DEF Tasks
    <3>3. QED
      BY <2>1, <3>2 DEF WorkConserving
  <2>3. \A u \in Tasks(waiting) : active'[SessionOf[u]]
    BY <2>1, <2>2, QueueAssumption DEF IInv, TypeOK
  <2>4. Tasks(waiting)' = Tasks(waiting)
    BY <2>1 DEF Tasks
  <2>5. QED
    BY <2>3, <2>4 DEF WorkConserving
<1>4. QED
  BY <1>1, <1>2, <1>3 DEF Admit

\* _after_task frees its slot only through FreeSlot.
LEMMA AfterTaskConserves ==
  ASSUME IInv, WorkConserving, NEW t \in running, AfterTask(t)
  PROVE  WorkConserving'
<1>1. CASE pending[SessionOf[t]] # <<>>
  BY <1>1 DEF AfterTask, WorkConserving, Tasks
<1>2. CASE pending[SessionOf[t]] = <<>>
  BY <1>2, FreeSlotConserves DEF AfterTask
<1>3. QED
  BY <1>1, <1>2

\* The first task _maybe_start_from_waiting may not start is one whose session is
\* active: the loop of that method needs no second pass.
THEOREM SlotsAreUsed == Spec => []WorkConserving
<1>1. Init => WorkConserving
  BY DEF Init, WorkConserving, Tasks
<1>2. IInv /\ WorkConserving /\ [Next]_vars => WorkConserving'
  <2> SUFFICES ASSUME IInv, WorkConserving, [Next]_vars
               PROVE  WorkConserving'
    OBVIOUS
  <2>1. ASSUME NEW t \in Task, Enqueue(t) \/ Refuse(t) \/ WorkerEnds(t) \/ Retry(t)
        PROVE  WorkConserving'
    <3>1. CASE Admit(t)
      BY <3>1, AdmitConserves
    <3>2. CASE UNCHANGED slotVars
      BY <3>2 DEF slotVars, WorkConserving, Tasks
    <3>3. CASE t \in running /\ (AfterTask(t) \/ FreeSlot(t))
      BY <3>3, AfterTaskConserves, FreeSlotConserves
    <3>4. QED
      BY <2>1, <3>1, <3>2, <3>3
         DEF Enqueue, Refuse, WorkerEnds, Succeed, FailAndBackOff, GiveUp, Retry
  <2>2. CASE UNCHANGED <<active, activeCount, waiting>>
    BY <2>2 DEF WorkConserving, Tasks
  <2>3. QED
    BY <2>1, <2>2 DEF Next, vars, slotVars, RegisterContainer, UnregisterContainer,
                      NotifyIdle, ClearClose, BeginShutdown, GraceSuffices, GraceElapses
<1>3. QED
  BY <1>1, <1>2, Invariance, PTL DEF Spec

-----------------------------------------------------------------------------
\* Idle preemption.

\* Only a session that holds a slot is flagged idle: every way out of a task
\* clears the flag, so a new worker never inherits it.
IdleHoldsSlot == \A s \in Session : idleWaiting[s] => active[s]

\* What IdleWorkerToldToLeave needs to be inductive.
Told == IdleHoldsSlot /\ IdleWorkerToldToLeave

\* The list _enqueue has just sorted a task into always passes the test that
\* guards the sentinel, because its last element passes it.
LEMMA PreemptionTestPasses ==
  ASSUME NEW q \in Seq(Task), NEW t \in Task
  PROVE  PreemptionTest(Inserted(q, t))
<1> DEFINE r == Inserted(q, t)
<1>1. r \in Seq(Task) /\ Len(r) \in DOMAIN r
  BY InsertedType
<1>2. Priority(r[Len(r)]) \in Int
  BY DEF Priority
<1>3. Priority(r[Len(r)]) < Priority(r[Len(r)]) + 1
  BY <1>2
<1>4. QED
  BY <1>1, <1>3 DEF PreemptionTest

\* A task queued behind an idle worker sends the sentinel.
LEMMA SerializeTells ==
  ASSUME IInv, Told, NEW t \in Task, Serialize(t), UNCHANGED <<idleWaiting, container>>
  PROVE  Told'
<1> DEFINE s == SessionOf[t]
           q == Inserted(pending[s], t)
<1>1. s \in Session /\ pending[s] \in Seq(Task)
  BY QueueAssumption DEF IInv, TypeOK
<1>2. /\ pending' = [pending EXCEPT ![s] = q]
      /\ closing' = IF idleWaiting[s] /\ container[s] THEN closing \union {s} ELSE closing
      /\ UNCHANGED <<active, worker, running>>
  BY <1>1, PreemptionTestPasses DEF Serialize, SendClose, slotVars
<1>3. IdleHoldsSlot'
  BY <1>2 DEF Told, IdleHoldsSlot
<1>4. ASSUME NEW x \in Session, worker'[x] \in running', idleWaiting'[x], container'[x],
             pending'[x] # <<>>
      PROVE  x \in closing'
  <2>1. CASE x = s
    BY <1>2, <1>4, <2>1
  <2>2. CASE x # s
    BY <1>2, <1>4, <2>2 DEF Told, IdleWorkerToldToLeave, IInv, TypeOK
  <2>3. QED
    BY <2>1, <2>2
<1>5. QED
  BY <1>3, <1>4 DEF Told, IdleWorkerToldToLeave

\* A new worker is not flagged idle.
LEMMA LaunchTells ==
  ASSUME IInv, Told, NEW t \in Task, Launch(t), UNCHANGED <<idleWaiting, container>>
  PROVE  Told'
<1> DEFINE s == SessionOf[t]
<1>1. s \in Session /\ t \in Task
  BY QueueAssumption
<1>2. /\ ~active[s]
      /\ active' = [active EXCEPT ![s] = TRUE]
      /\ worker' = [worker EXCEPT ![s] = t]
      /\ running' = running \union {t}
      /\ UNCHANGED <<pending, closing>>
  BY DEF Launch
<1>3. IdleHoldsSlot'
  BY <1>1, <1>2 DEF Told, IdleHoldsSlot, IInv, TypeOK
<1>4. ASSUME NEW x \in Session, worker'[x] \in running', idleWaiting'[x], container'[x],
             pending'[x] # <<>>
      PROVE  x \in closing'
  <2>1. x # s
    BY <1>2, <1>4 DEF Told, IdleHoldsSlot
  <2>2. worker[x] \in running
    <3>1. worker'[x] = worker[x]
      BY <1>2, <2>1 DEF IInv, TypeOK
    <3>2. worker[x] # t
      BY <1>1, <2>1 DEF IInv, Core, WorkersAreOwn
    <3>3. QED
      BY <1>2, <1>4, <3>1, <3>2
  <2>3. QED
    BY <1>2, <1>4, <2>2 DEF Told, IdleWorkerToldToLeave
<1>5. QED
  BY <1>3, <1>4 DEF Told, IdleWorkerToldToLeave

\* The end of a task clears the flag of its session and of no other.
LEMMA FreeSlotTells ==
  ASSUME IInv, Told, NEW t \in running, FreeSlot(t),
         UNCHANGED <<pending, container, closing>>
  PROVE  Told'
<1> DEFINE s == SessionOf[t]
<1>1. t \in Task /\ s \in Session /\ worker[s] = t
  BY QueueAssumption DEF IInv, TypeOK, Core, WorkersOwnSlots
<1>2. idleWaiting' = [idleWaiting EXCEPT ![s] = FALSE]
  BY DEF FreeSlot
<1>3. ASSUME NEW x \in Session, idleWaiting'[x]
      PROVE  x # s /\ idleWaiting[x] /\ active[x]
  BY <1>1, <1>2, <1>3 DEF Told, IdleHoldsSlot, IInv, TypeOK
<1>4. ASSUME NEW x \in Session, x # s, active[x]
      PROVE  active'[x] /\ (worker'[x] \in running' => worker[x] \in running)
  <2>1. \A y \in DOMAIN waiting : SessionOf[waiting[y]] \in Session
    BY QueueAssumption DEF IInv, TypeOK
  <2>2. CASE /\ active' = [active EXCEPT ![s] = FALSE]
             /\ worker' = [worker EXCEPT ![s] = NoTask]
             /\ running' = running \ {t}
    BY <1>1, <1>4, <2>2 DEF IInv, TypeOK
  <2>3. ASSUME NEW i \in DOMAIN waiting,
               ~[active EXCEPT ![s] = FALSE][SessionOf[waiting[i]]],
               active' = [[active EXCEPT ![s] = FALSE] EXCEPT ![SessionOf[waiting[i]]] = TRUE],
               worker' = [[worker EXCEPT ![s] = NoTask] EXCEPT ![SessionOf[waiting[i]]] = waiting[i]],
               running' = (running \ {t}) \union {waiting[i]}
        PROVE  active'[x] /\ (worker'[x] \in running' => worker[x] \in running)
    <3>1. SessionOf[waiting[i]] # x
      BY <1>1, <1>4, <2>3 DEF IInv, TypeOK
    <3>2. active'[x] = active[x] /\ worker'[x] = worker[x]
      BY <1>1, <1>4, <2>1, <2>3, <3>1 DEF IInv, TypeOK
    <3>3. worker[x] = waiting[i] => FALSE
      BY <3>1 DEF IInv, TypeOK, Core, WorkersAreOwn
    <3>4. running' = (running \ {t}) \union {waiting[i]}
      BY <2>3
    <3>5. worker'[x] \in running' => worker[x] \in running
      BY <3>2, <3>3, <3>4
    <3>6. QED
      BY <1>4, <3>2, <3>5
  <2>4. QED
    BY <2>2, <2>3 DEF FreeSlot
<1>5. QED
  BY <1>3, <1>4 DEF Told, IdleHoldsSlot, IdleWorkerToldToLeave

\* The next worker of a session does not inherit the idle flag.
LEMMA AfterTaskTells ==
  ASSUME IInv, Told, NEW t \in running, AfterTask(t), UNCHANGED <<container, closing>>
  PROVE  Told'
<1> DEFINE s == SessionOf[t]
<1>1. t \in Task /\ s \in Session /\ worker[s] = t
  BY QueueAssumption DEF IInv, TypeOK, Core, WorkersOwnSlots
<1>2. CASE pending[s] = <<>>
  BY <1>2, FreeSlotTells DEF AfterTask
<1>3. CASE pending[s] # <<>>
  <2>1. /\ pending' = [pending EXCEPT ![s] = Tail(@)]
        /\ idleWaiting' = [idleWaiting EXCEPT ![s] = FALSE]
        /\ worker' = [worker EXCEPT ![s] = Head(pending[s])]
        /\ running' = (running \ {t}) \union {Head(pending[s])}
        /\ UNCHANGED <<active, activeCount, waiting>>
    BY <1>3 DEF AfterTask
  <2>2. SessionOf[Head(pending[s])] = s
    BY <1>1, <1>3 DEF IInv, TypeOK, Core, PendingIsOwn
  <2>3. ASSUME NEW x \in Session, idleWaiting'[x]
        PROVE  x # s /\ idleWaiting[x] /\ active'[x] /\ pending'[x] = pending[x]
    BY <1>1, <2>1, <2>3 DEF Told, IdleHoldsSlot, IInv, TypeOK
  <2>4. ASSUME NEW x \in Session, x # s, worker'[x] \in running'
        PROVE  worker[x] \in running
    <3>1. worker'[x] = worker[x]
      BY <1>1, <2>1, <2>4 DEF IInv, TypeOK
    <3>2. worker[x] # Head(pending[s])
      <4>1. Head(pending[s]) \in Task
        BY <1>1, <1>3 DEF IInv, TypeOK
      <4>2. QED
        BY <2>2, <2>4, <4>1 DEF IInv, Core, WorkersAreOwn
    <3>3. QED
      BY <2>1, <2>4, <3>1, <3>2
  <2>5. QED
    BY <2>3, <2>4 DEF Told, IdleHoldsSlot, IdleWorkerToldToLeave
<1>4. QED
  BY <1>2, <1>3

\* Decision 4: whichever comes first, the idle report or the queued task, the
\* sentinel is there.
THEOREM IdleWorkersAreTold == Spec => []IdleWorkerToldToLeave
<1>1. Init => Told
  BY DEF Init, Told, IdleHoldsSlot, IdleWorkerToldToLeave
<1>2. IInv /\ Told /\ [Next]_vars => Told'
  <2> SUFFICES ASSUME IInv, Told, [Next]_vars
               PROVE  Told'
    OBVIOUS
  <2>1. ASSUME NEW t \in Task, Admit(t), UNCHANGED <<idleWaiting, container>>
        PROVE  Told'
    <3>1. CASE Hold(t)
      BY <2>1, <3>1 DEF Hold, Told, IdleHoldsSlot, IdleWorkerToldToLeave
    <3>2. QED
      BY <2>1, <3>1, SerializeTells, LaunchTells DEF Admit
  <2>2. CASE UNCHANGED <<slotVars, idleWaiting, pending, container, closing>>
    BY <2>2 DEF slotVars, Told, IdleHoldsSlot, IdleWorkerToldToLeave
  <2>3. ASSUME NEW t \in Task, WorkerEnds(t)
        PROVE  Told'
    BY <2>3, AfterTaskTells, FreeSlotTells DEF WorkerEnds, Succeed, FailAndBackOff, GiveUp
  <2>4. ASSUME NEW t \in Task, Enqueue(t) \/ Refuse(t) \/ Retry(t)
        PROVE  Told'
    BY <2>1, <2>2, <2>4 DEF Enqueue, Refuse, Retry, slotVars
  <2>5. ASSUME NEW s \in Session, RegisterContainer(s) \/ UnregisterContainer(s)
        PROVE  Told'
    BY <2>5 DEF RegisterContainer, UnregisterContainer, slotVars, IInv, TypeOK, Told,
                IdleHoldsSlot, IdleWorkerToldToLeave
  <2>6. ASSUME NEW s \in Session, NotifyIdle(s)
        PROVE  Told'
    <3>1. active[s]
      <4>1. worker[s] \in Task /\ SessionOf[worker[s]] = s
        BY <2>6 DEF NotifyIdle, IInv, TypeOK, Core, WorkersAreOwn
      <4>2. QED
        BY <2>6, <4>1 DEF NotifyIdle, IInv, Core, WorkersOwnSlots
    <3>2. QED
      BY <2>6, <3>1 DEF NotifyIdle, SendClose, slotVars, IInv, TypeOK, Told, IdleHoldsSlot,
                        IdleWorkerToldToLeave
  <2>7. ASSUME NEW s \in Session, ClearClose(s)
        PROVE  Told'
    BY <2>7 DEF ClearClose, slotVars, Told, IdleHoldsSlot, IdleWorkerToldToLeave
  <2>8. CASE GraceElapses
    BY <2>8 DEF GraceElapses, Told, IdleHoldsSlot, IdleWorkerToldToLeave
  <2>9. QED
    BY <2>2, <2>3, <2>4, <2>5, <2>6, <2>7, <2>8
       DEF Next, vars, slotVars, BeginShutdown, GraceSuffices
<1>3. Told => IdleWorkerToldToLeave
  BY DEF Told
<1>4. QED
  BY <1>1, <1>2, <1>3, Invariance, PTL DEF Spec

=============================================================================
