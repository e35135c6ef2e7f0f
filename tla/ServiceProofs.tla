--------------------------- MODULE ServiceProofs ---------------------------
(***************************************************************************)
(* Proofs about what session/queue.py does with the tasks it accepts: each *)
(* is in one place, once; the slots go to the most urgent candidates; and  *)
(* the queue implements the service of TaskService.  The lists stay sorted *)
(* and never repeat a task, which is what the hand-overs depend on.        *)
(***************************************************************************)
EXTENDS SessionQueueProofs, SequenceTheorems, LeastElement

-----------------------------------------------------------------------------
\* Sorted lists without repetitions.

\* In the order of the priorities.
Sorted(q) == \A i, j \in DOMAIN q : i <= j => Priority(q[i]) <= Priority(q[j])

NoRepeats(q) == \A i, j \in DOMAIN q : q[i] = q[j] => i = j

Tidy(q) == Sorted(q) /\ NoRepeats(q)

\* The list q with t put at place m.
Placed(q, t, m) ==
  [i \in 1 .. Len(q) + 1 |-> IF i < m THEN q[i] ELSE IF i = m THEN t ELSE q[i - 1]]

\* The four priorities.
LEMMA PriorityType == \A t : Priority(t) \in 0 .. 3
BY DEF Priority

\* list.append and list.sort on a sorted list put the task at one place: behind
\* what is as urgent as it or more, before the rest.
LEMMA Landing ==
  ASSUME NEW q \in Seq(Task), Sorted(q), NEW t \in Task
  PROVE  \E m \in 1 .. Len(q) + 1 :
           /\ Inserted(q, t) = Placed(q, t, m)
           /\ \A i \in DOMAIN q : i < m => Priority(q[i]) <= Priority(t)
           /\ \A i \in DOMAIN q : m <= i => Priority(t) < Priority(q[i])
<1> DEFINE S == {i \in 1 .. Len(q) + 1 :
                   i = Len(q) + 1 \/ Priority(t) < Priority(q[i])}
<1>1. Len(q) \in Nat /\ DOMAIN q = 1 .. Len(q)
  OBVIOUS
<1>2. PICK m \in S : \A n \in S : m <= n
  <2>1. S \subseteq Nat /\ Len(q) + 1 \in S
    BY <1>1
  <2>2. QED
    BY <2>1, LeastNatural
<1>3. m \in 1 .. Len(q) + 1
  OBVIOUS
<1>4. \A i \in DOMAIN q : i < m => Priority(q[i]) <= Priority(t)
  BY <1>1, <1>2, PriorityType
<1>5. \A i \in DOMAIN q : m <= i => Priority(t) < Priority(q[i])
  BY <1>1, <1>2, PriorityType DEF Sorted
<1>6. ASSUME NEW i \in 1 .. Len(q) + 1
      PROVE  Inserted(q, t)[i] = Placed(q, t, m)[i]
  <2> HIDE DEF S
  <2>1. CASE i < m
    BY <1>1, <1>3, <1>4, <2>1 DEF Inserted, Placed
  <2>2. CASE i = m
    <3>1. ~(i <= Len(q) /\ Priority(q[i]) <= Priority(t))
      BY <1>1, <1>3, <1>5, <2>2, PriorityType
    <3>2. i = 1 \/ Priority(q[i - 1]) <= Priority(t)
      BY <1>1, <1>3, <1>4, <2>2
    <3>3. QED
      BY <2>2, <3>1, <3>2 DEF Inserted, Placed
  <2>3. CASE m < i
    <3>1. ~(i <= Len(q) /\ Priority(q[i]) <= Priority(t))
      BY <1>1, <1>3, <1>5, <2>3, PriorityType
    <3>2. i # 1 /\ ~(Priority(q[i - 1]) <= Priority(t))
      BY <1>1, <1>3, <1>5, <2>3, PriorityType
    <3>3. ~(i < m) /\ i # m
      BY <1>3, <2>3
    <3>4. QED
      BY <3>1, <3>2, <3>3 DEF Inserted, Placed
  <2>4. QED
    BY <1>1, <1>3, <2>1, <2>2, <2>3
<1>7. Inserted(q, t) = Placed(q, t, m)
  BY <1>6 DEF Inserted, Placed
<1>8. QED
  BY <1>3, <1>4, <1>5, <1>7

\* _enqueue's append and sort keep a list sorted, add the task and nothing else, and
\* repeat nothing when the task was not in the list.
LEMMA InsertedTidy ==
  ASSUME NEW q \in Seq(Task), Tidy(q), NEW t \in Task
  PROVE  /\ Tasks(Inserted(q, t)) = Tasks(q) \union {t}
         /\ t \notin Tasks(q) => Tidy(Inserted(q, t))
<1>1. PICK m \in 1 .. Len(q) + 1 :
        /\ Inserted(q, t) = Placed(q, t, m)
        /\ \A i \in DOMAIN q : i < m => Priority(q[i]) <= Priority(t)
        /\ \A i \in DOMAIN q : m <= i => Priority(t) < Priority(q[i])
  BY Landing DEF Tidy
<1> DEFINE r == Placed(q, t, m)
<1>2. /\ Len(q) \in Nat /\ DOMAIN q = 1 .. Len(q)
      /\ DOMAIN r = 1 .. Len(q) + 1
      /\ r[m] = t
      /\ \A i \in DOMAIN r : i < m => r[i] = q[i] /\ i \in DOMAIN q
      /\ \A i \in DOMAIN r : m < i => r[i] = q[i - 1] /\ i - 1 \in DOMAIN q /\ m <= i - 1
  BY DEF Placed
<1> HIDE DEF r
<1>3. Tasks(r) = Tasks(q) \union {t}
  <2>1. ASSUME NEW i \in DOMAIN r
        PROVE  r[i] \in Tasks(q) \union {t}
    <3>1. i < m \/ i = m \/ m < i
      BY <1>2
    <3>2. QED
      BY <1>2, <3>1 DEF Tasks
  <2>2. ASSUME NEW i \in DOMAIN q
        PROVE  \E j \in DOMAIN r : r[j] = q[i]
    <3>1. CASE i < m
      <4>1. i \in DOMAIN r
        BY <1>2
      <4>2. QED
        BY <1>2, <3>1, <4>1
    <3>2. CASE m <= i
      <4>1. i + 1 \in DOMAIN r /\ m < i + 1 /\ (i + 1) - 1 = i
        BY <1>2, <3>2
      <4>2. r[i + 1] = q[i]
        BY <1>2, <4>1
      <4>3. QED
        BY <4>1, <4>2
    <3>3. QED
      BY <1>2, <3>1, <3>2
  <2>3. m \in DOMAIN r
    BY <1>2
  <2>4. QED
    BY <1>2, <2>1, <2>2, <2>3 DEF Tasks
<1>4. Sorted(r)
  <2> SUFFICES ASSUME NEW i \in DOMAIN r, NEW j \in DOMAIN r, i < j
               PROVE  Priority(r[i]) <= Priority(r[j])
    BY <1>2, PriorityType DEF Sorted
  <2>1. CASE j < m
    BY <1>2, <2>1 DEF Tidy, Sorted
  <2>2. CASE j = m
    BY <1>1, <1>2, <2>2
  <2>3. CASE m < j /\ i < m
    BY <1>1, <1>2, <2>3, PriorityType
  <2>4. CASE m < j /\ i = m
    BY <1>1, <1>2, <2>4, PriorityType
  <2>5. CASE m < i
    BY <1>2, <2>5 DEF Tidy, Sorted
  <2>6. QED
    BY <1>2, <2>1, <2>2, <2>3, <2>4, <2>5
<1>5. ASSUME t \notin Tasks(q)
      PROVE  NoRepeats(r)
  <2> SUFFICES ASSUME NEW i \in DOMAIN r, NEW j \in DOMAIN r, i < j, r[i] = r[j]
               PROVE  FALSE
    BY <1>2 DEF NoRepeats
  <2>1. CASE j < m
    BY <1>2, <2>1 DEF Tidy, NoRepeats
  <2>2. CASE i = m \/ j = m
    BY <1>2, <1>5, <2>2 DEF Tasks
  <2>3. CASE m < j /\ i < m
    BY <1>2, <2>3 DEF Tidy, NoRepeats
  <2>4. CASE m < i
    BY <1>2, <2>4 DEF Tidy, NoRepeats
  <2>5. QED
    BY <1>2, <2>1, <2>2, <2>3, <2>4
<1>6. QED
  BY <1>1, <1>3, <1>4, <1>5 DEF Tidy, r

\* del q[i] keeps a list sorted and takes away q[i] and nothing else.
LEMMA WithoutTidy ==
  ASSUME NEW q \in Seq(Task), Tidy(q), NEW i \in DOMAIN q
  PROVE  /\ Tasks(Without(q, i)) = Tasks(q) \ {q[i]}
         /\ Tidy(Without(q, i))
<1> DEFINE r == Without(q, i)
<1>1. /\ Len(q) \in Nat /\ DOMAIN q = 1 .. Len(q)
      /\ DOMAIN r = 1 .. Len(q) - 1
      /\ \A k \in DOMAIN r : k < i => r[k] = q[k] /\ k \in DOMAIN q
      /\ \A k \in DOMAIN r : i <= k => r[k] = q[k + 1] /\ k + 1 \in DOMAIN q
  BY DEF Without
<1> HIDE DEF r
<1>2. ASSUME NEW k \in DOMAIN r
      PROVE  r[k] \in Tasks(q) /\ r[k] # q[i]
  <2>1. CASE k < i
    BY <1>1, <2>1 DEF Tasks, Tidy, NoRepeats
  <2>2. CASE i <= k
    BY <1>1, <2>2 DEF Tasks, Tidy, NoRepeats
  <2>3. QED
    BY <1>1, <2>1, <2>2
<1>3. ASSUME NEW j \in DOMAIN q, j # i
      PROVE  \E k \in DOMAIN r : r[k] = q[j]
  <2>1. CASE j < i
    <3>1. j \in DOMAIN r
      BY <1>1, <2>1
    <3>2. QED
      BY <1>1, <2>1, <3>1
  <2>2. CASE i < j
    <3>1. j - 1 \in DOMAIN r /\ i <= j - 1 /\ (j - 1) + 1 = j
      BY <1>1, <2>2
    <3>2. r[j - 1] = q[j]
      BY <1>1, <3>1
    <3>3. QED
      BY <3>1, <3>2
  <2>3. QED
    BY <1>1, <1>3, <2>1, <2>2
<1>4. Tasks(r) = Tasks(q) \ {q[i]}
  BY <1>2, <1>3 DEF Tasks
<1>5. Sorted(r)
  <2> SUFFICES ASSUME NEW k \in DOMAIN r, NEW l \in DOMAIN r, k <= l
               PROVE  Priority(r[k]) <= Priority(r[l])
    BY DEF Sorted
  <2>1. CASE l < i
    BY <1>1, <2>1 DEF Tidy, Sorted
  <2>2. CASE k < i /\ i <= l
    BY <1>1, <2>2 DEF Tidy, Sorted
  <2>3. CASE i <= k
    BY <1>1, <2>3 DEF Tidy, Sorted
  <2>4. QED
    BY <1>1, <2>1, <2>2, <2>3
<1>6. NoRepeats(r)
  <2> SUFFICES ASSUME NEW k \in DOMAIN r, NEW l \in DOMAIN r, k < l, r[k] = r[l]
               PROVE  FALSE
    BY <1>1 DEF NoRepeats
  <2>1. CASE l < i
    BY <1>1, <2>1 DEF Tidy, NoRepeats
  <2>2. CASE k < i /\ i <= l
    BY <1>1, <2>2 DEF Tidy, NoRepeats
  <2>3. CASE i <= k
    BY <1>1, <2>3 DEF Tidy, NoRepeats
  <2>4. QED
    BY <1>1, <2>1, <2>2, <2>3
<1>7. QED
  BY <1>4, <1>5, <1>6 DEF Tidy, r

\* list.pop(0) is del q[0].
LEMMA TailIsWithout ==
  ASSUME NEW q \in Seq(Task), q # <<>>
  PROVE  Tail(q) = Without(q, 1) /\ Head(q) = q[1] /\ 1 \in DOMAIN q
<1>1. Len(q) \in Nat /\ Len(q) >= 1 /\ DOMAIN q = 1 .. Len(q)
  OBVIOUS
<1>2. /\ Without(q, 1) \in Seq(Task)
      /\ Len(Without(q, 1)) = Len(q) - 1
      /\ \A k \in 1 .. Len(q) - 1 : Without(q, 1)[k] = q[k + 1]
  BY <1>1, WithoutType DEF Without
<1>3. /\ Tail(q) \in Seq(Task)
      /\ Len(Tail(q)) = Len(q) - 1
      /\ \A k \in 1 .. Len(q) - 1 : Tail(q)[k] = q[k + 1]
  BY <1>1
<1>4. Tail(q) = Without(q, 1)
  <2>1. /\ Len(Tail(q)) = Len(Without(q, 1))
        /\ \A k \in 1 .. Len(Tail(q)) : Tail(q)[k] = Without(q, 1)[k]
    BY <1>2, <1>3
  <2>2. QED
    BY <1>2, <1>3, <2>1, SeqEqual
<1>5. QED
  BY <1>1, <1>4

\* A task occurs in a tidy list at most once.
LEMMA Occurrences ==
  ASSUME NEW q \in Seq(Task), NoRepeats(q), NEW t
  PROVE  Cardinality({i \in DOMAIN q : q[i] = t}) = IF t \in Tasks(q) THEN 1 ELSE 0
<1>1. CASE t \in Tasks(q)
  <2>1. PICK i \in DOMAIN q : q[i] = t
    BY <1>1 DEF Tasks
  <2>2. {j \in DOMAIN q : q[j] = t} = {i}
    BY <2>1 DEF NoRepeats
  <2>3. QED
    BY <1>1, <2>2, FS_Singleton
<1>2. CASE t \notin Tasks(q)
  <2>1. {j \in DOMAIN q : q[j] = t} = {}
    BY <1>2 DEF Tasks
  <2>2. QED
    BY <1>2, <2>1, FS_EmptySet
<1>3. QED
  BY <1>1, <1>2

-----------------------------------------------------------------------------
\* Where the accepted tasks are.

\* The tasks held in a global list w or in a table of session lists p.
Held(w, p) == {t \in Task : t \in Tasks(w) \/ t \in Tasks(p[SessionOf[t]])}

\* Every list is tidy, and no task is both in the global list and in its session's.
ListsTidy(w, p) ==
  /\ Tidy(w)
  /\ \A s \in Session : Tidy(p[s])
  /\ \A t \in Tasks(w) : t \notin Tasks(p[SessionOf[t]])

\* The accepted tasks are those listed, running or sleeping, and no two of these
\* overlap.
Apart ==
  LET H == Held(waiting, pending)
  IN /\ H \intersect running = {}
     /\ H \intersect backoff = {}
     /\ running \intersect backoff = {}
     /\ H \union running \union backoff = {t \in Task : outcome[t] = "accepted"}

\* The inductive invariant behind EachTaskInOnePlace.
Places == ListsTidy(waiting, pending) /\ Apart

\* The session lists p after t was sorted into its session's.
Behind(p, t) == [p EXCEPT ![SessionOf[t]] = Inserted(@, t)]

\* Sorting a new task into its session's list.
LEMMA SerializeLists ==
  ASSUME NEW w \in Seq(Task), NEW p \in [Session -> Seq(Task)], ListsTidy(w, p),
         NEW t \in Task, t \notin Held(w, p)
  PROVE  /\ ListsTidy(w, Behind(p, t))
         /\ Held(w, Behind(p, t)) = Held(w, p) \union {t}
<1> DEFINE s == SessionOf[t]
           q == Inserted(p[s], t)
           r == [p EXCEPT ![s] = q]
<1>1. s \in Session /\ p[s] \in Seq(Task) /\ Tidy(p[s]) /\ t \notin Tasks(p[s])
        /\ t \notin Tasks(w)
  BY QueueAssumption DEF ListsTidy, Held
<1>2. Tasks(q) = Tasks(p[s]) \union {t} /\ Tidy(q)
  BY <1>1, InsertedTidy
<1>3. /\ r[s] = q
      /\ \A x \in Session : x # s => r[x] = p[x]
  BY <1>1
<1> HIDE DEF q, r
<1>4. \A x \in Session : Tidy(r[x])
  BY <1>2, <1>3 DEF ListsTidy
<1>5. \A u \in Task : u \in Tasks(r[SessionOf[u]]) <=> u = t \/ u \in Tasks(p[SessionOf[u]])
  <2> TAKE u \in Task
  <2>1. SessionOf[u] \in Session
    BY QueueAssumption
  <2>2. CASE SessionOf[u] = s
    BY <1>2, <1>3, <2>2
  <2>3. CASE SessionOf[u] # s
    BY <1>3, <2>1, <2>3
  <2>4. QED
    BY <2>2, <2>3
<1>6. \A u \in Tasks(w) : u \in Task
  BY DEF Tasks
<1>7. ListsTidy(w, r) /\ Held(w, r) = Held(w, p) \union {t}
  BY <1>1, <1>4, <1>5, <1>6 DEF ListsTidy, Held
<1>8. QED
  BY <1>7 DEF r, q, Behind

\* Sorting a new task into the global list.
LEMMA HoldLists ==
  ASSUME NEW w \in Seq(Task), NEW p \in [Session -> Seq(Task)], ListsTidy(w, p),
         NEW t \in Task, t \notin Held(w, p)
  PROVE  /\ ListsTidy(Inserted(w, t), p)
         /\ Held(Inserted(w, t), p) = Held(w, p) \union {t}
<1>1. Tidy(w) /\ t \notin Tasks(w) /\ t \notin Tasks(p[SessionOf[t]])
  BY DEF ListsTidy, Held
<1>2. Tasks(Inserted(w, t)) = Tasks(w) \union {t} /\ Tidy(Inserted(w, t))
  BY <1>1, InsertedTidy
<1>3. QED
  BY <1>1, <1>2 DEF ListsTidy, Held

\* Taking a task out of the global list.
LEMMA ReleaseLists ==
  ASSUME NEW w \in Seq(Task), NEW p \in [Session -> Seq(Task)], ListsTidy(w, p),
         NEW i \in DOMAIN w
  PROVE  /\ ListsTidy(Without(w, i), p)
         /\ w[i] \in Held(w, p)
         /\ Held(Without(w, i), p) = Held(w, p) \ {w[i]}
<1>1. Tidy(w) /\ w[i] \in Task /\ w[i] \in Tasks(w) /\ w[i] \notin Tasks(p[SessionOf[w[i]]])
  <2>1. w[i] \in Tasks(w)
    BY DEF Tasks
  <2>2. QED
    BY <2>1 DEF ListsTidy
<1>2. Tasks(Without(w, i)) = Tasks(w) \ {w[i]} /\ Tidy(Without(w, i))
  BY <1>1, WithoutTidy
<1>3. QED
  BY <1>1, <1>2 DEF ListsTidy, Held

\* Taking the first task out of a session's list.
LEMMA NextLists ==
  ASSUME NEW w \in Seq(Task), NEW p \in [Session -> Seq(Task)], ListsTidy(w, p),
         NEW s \in Session, p[s] # <<>>, SessionOf[Head(p[s])] = s
  PROVE  LET r == [p EXCEPT ![s] = Tail(@)]
         IN  /\ ListsTidy(w, r)
             /\ Head(p[s]) \in Held(w, p)
             /\ Held(w, r) = Held(w, p) \ {Head(p[s])}
<1> DEFINE h == Head(p[s])
           q == Tail(p[s])
           r == [p EXCEPT ![s] = q]
<1>1. /\ p[s] \in Seq(Task) /\ Tidy(p[s])
      /\ h \in Task /\ h \in Tasks(p[s])
  <2>1. p[s] \in Seq(Task) /\ Tidy(p[s])
    BY DEF ListsTidy
  <2>2. h = p[s][1] /\ 1 \in DOMAIN p[s]
    BY <2>1, TailIsWithout
  <2>3. QED
    BY <2>1, <2>2 DEF Tasks
<1>2. Tasks(q) = Tasks(p[s]) \ {h} /\ Tidy(q)
  BY <1>1, TailIsWithout, WithoutTidy
<1>3. /\ r[s] = q
      /\ \A x \in Session : x # s => r[x] = p[x]
  OBVIOUS
<1>4. h \notin Tasks(w)
  BY <1>1 DEF ListsTidy
<1> HIDE DEF q, h, r
<1>5. \A x \in Session : Tidy(r[x])
  BY <1>2, <1>3 DEF ListsTidy
<1>6. \A u \in Task : u \in Tasks(r[SessionOf[u]]) <=> u # h /\ u \in Tasks(p[SessionOf[u]])
  <2> TAKE u \in Task
  <2>1. SessionOf[u] \in Session
    BY QueueAssumption
  <2>2. CASE SessionOf[u] = s
    BY <1>2, <1>3, <2>2
  <2>3. CASE SessionOf[u] # s
    BY <1>3, <2>1, <2>3 DEF h
  <2>4. QED
    BY <2>2, <2>3
<1>7. \A u \in Tasks(w) : u \in Task
  BY DEF Tasks
<1>8. ListsTidy(w, r)
  BY <1>5, <1>6, <1>7 DEF ListsTidy
<1>9. h \in Held(w, p)
  BY <1>1 DEF Held, h
<1>10. Held(w, r) = Held(w, p) \ {h}
  BY <1>4, <1>6 DEF Held
<1>11. QED
  BY <1>8, <1>9, <1>10 DEF h, q, r

\* What _enqueue does with the tasks: the new one is listed or runs.
LEMMA AdmitMoves ==
  ASSUME IInv, ListsTidy(waiting, pending), NEW t \in Task,
         t \notin Held(waiting, pending), Admit(t)
  PROVE  /\ ListsTidy(waiting', pending')
         /\ \/ /\ Held(waiting', pending') = Held(waiting, pending) \union {t}
               /\ running' = running
            \/ /\ Held(waiting', pending') = Held(waiting, pending)
               /\ running' = running \union {t}
<1>1. waiting \in Seq(Task) /\ pending \in [Session -> Seq(Task)]
  BY DEF IInv, TypeOK
<1>2. CASE Serialize(t)
  <2>1. pending' = Behind(pending, t) /\ waiting' = waiting /\ running' = running
    BY <1>2 DEF Serialize, slotVars, Behind
  <2>2. QED
    BY <1>1, <2>1, SerializeLists
<1>3. CASE Hold(t)
  BY <1>1, <1>3, HoldLists DEF Hold
<1>4. CASE Launch(t)
  BY <1>4 DEF Launch
<1>5. QED
  BY <1>2, <1>3, <1>4 DEF Admit

\* What the end of a task does with the tasks: it leaves, and some listed tasks
\* change from a list to a worker.
Replaces(t) ==
  \E N \in SUBSET Held(waiting, pending) :
    /\ running' = (running \ {t}) \union N
    /\ Held(waiting', pending') = Held(waiting, pending) \ N

\* A freed slot goes to one waiting task or to none.
LEMMA FreeSlotMoves ==
  ASSUME IInv, ListsTidy(waiting, pending), NEW t \in running, FreeSlot(t),
         UNCHANGED pending
  PROVE  ListsTidy(waiting', pending') /\ Replaces(t)
<1>1. waiting \in Seq(Task) /\ pending \in [Session -> Seq(Task)]
  BY DEF IInv, TypeOK
<1>2. CASE running' = running \ {t} /\ UNCHANGED waiting
  <2>1. running' = (running \ {t}) \union {}
    BY <1>2
  <2>2. Held(waiting', pending') = Held(waiting, pending) \ {}
    BY <1>2
  <2>3. QED
    BY <1>2, <2>1, <2>2 DEF Replaces
<1>3. ASSUME NEW i \in DOMAIN waiting,
             running' = (running \ {t}) \union {waiting[i]},
             waiting' = Without(waiting, i)
      PROVE  ListsTidy(waiting', pending') /\ Replaces(t)
  <2>1. /\ ListsTidy(waiting', pending')
        /\ waiting[i] \in Held(waiting, pending)
        /\ Held(waiting', pending') = Held(waiting, pending) \ {waiting[i]}
    BY <1>1, <1>3, ReleaseLists
  <2>2. {waiting[i]} \in SUBSET Held(waiting, pending)
    BY <2>1
  <2>3. QED
    BY <1>3, <2>1, <2>2 DEF Replaces
<1>4. QED
  BY <1>2, <1>3 DEF FreeSlot

\* A finished task is replaced by the first pending task of its session, or its slot
\* is freed.
LEMMA AfterTaskMoves ==
  ASSUME IInv, ListsTidy(waiting, pending), NEW t \in running, AfterTask(t)
  PROVE  ListsTidy(waiting', pending') /\ Replaces(t)
<1> DEFINE s == SessionOf[t]
           h == Head(pending[s])
<1>1. /\ waiting \in Seq(Task) /\ pending \in [Session -> Seq(Task)]
      /\ t \in Task /\ s \in Session
  BY QueueAssumption DEF IInv, TypeOK
<1>2. CASE pending[s] = <<>>
  BY <1>2, FreeSlotMoves DEF AfterTask
<1>3. CASE pending[s] # <<>>
  <2>1. /\ pending' = [pending EXCEPT ![s] = Tail(@)]
        /\ running' = (running \ {t}) \union {h}
        /\ UNCHANGED waiting
    BY <1>3 DEF AfterTask
  <2>2. SessionOf[h] = s
    BY <1>1, <1>3, TailIsWithout DEF IInv, Core, PendingIsOwn
  <2>3. /\ ListsTidy(waiting, pending')
        /\ h \in Held(waiting, pending)
        /\ Held(waiting, pending') = Held(waiting, pending) \ {h}
    BY <1>1, <1>3, <2>1, <2>2, NextLists
  <2>4. {h} \in SUBSET Held(waiting, pending)
    BY <2>3
  <2>5. QED
    BY <2>1, <2>3, <2>4 DEF Replaces
<1>4. QED
  BY <1>2, <1>3

\* A new queue holds nothing.
LEMMA InitPlaces == Init => Places
<1> SUFFICES ASSUME Init
             PROVE  Places
  OBVIOUS
<1>1. /\ waiting = <<>> /\ pending = [s \in Session |-> <<>>]
      /\ running = {} /\ backoff = {} /\ outcome = [t \in Task |-> "new"]
  BY DEF Init
<1>2. Tasks(<<>>) = {} /\ Tidy(<<>>)
  BY DEF Tasks, Tidy, Sorted, NoRepeats
<1>3. ListsTidy(waiting, pending)
  BY <1>1, <1>2 DEF ListsTidy
<1>4. Held(waiting, pending) = {}
  BY <1>1, <1>2, QueueAssumption DEF Held
<1>5. Apart
  BY <1>1, <1>4 DEF Apart
<1>6. QED
  BY <1>3, <1>5 DEF Places

\* Every step of the queue leaves each task in one place.
LEMMA NextPlaces == IInv /\ Places /\ [Next]_vars => Places'
<1> SUFFICES ASSUME IInv, Places, [Next]_vars
             PROVE  Places'
  OBVIOUS
<1> DEFINE H == Held(waiting, pending)
           G == Held(waiting', pending')
           Accepted == {t \in Task : outcome[t] = "accepted"}
<1>1. /\ ListsTidy(waiting, pending)
      /\ H \intersect running = {}
      /\ H \intersect backoff = {}
      /\ running \intersect backoff = {}
      /\ H \union running \union backoff = Accepted
  BY DEF Places, Apart
<1>2. /\ outcome \in [Task -> Outcome] /\ running \subseteq Task /\ backoff \subseteq Task
      /\ awaited \subseteq Task /\ H \subseteq Task
  BY DEF IInv, TypeOK, Held
<1>3. ASSUME /\ ListsTidy(waiting', pending')
             /\ G \intersect running' = {}
             /\ G \intersect backoff' = {}
             /\ running' \intersect backoff' = {}
             /\ G \union running' \union backoff' = {t \in Task : outcome'[t] = "accepted"}
      PROVE  Places'
  BY <1>3 DEF Places, Apart
<1> HIDE DEF H, G
<1>4. ASSUME NEW t \in Task, Enqueue(t)
      PROVE  Places'
  <2>1. t \notin H /\ t \notin running /\ t \notin backoff
    BY <1>1, <1>4 DEF Enqueue
  <2>2. /\ ListsTidy(waiting', pending')
        /\ \/ G = H \union {t} /\ running' = running
           \/ G = H /\ running' = running \union {t}
    BY <1>1, <1>4, <2>1, AdmitMoves DEF Enqueue, H, G
  <2>3. backoff' = backoff
    BY <1>4 DEF Enqueue
  <2>4. {u \in Task : outcome'[u] = "accepted"} = Accepted \union {t}
    BY <1>2, <1>4 DEF Enqueue
  <2>5. QED
    BY <1>1, <1>3, <2>1, <2>2, <2>3, <2>4
<1>5. ASSUME NEW t \in Task, Refuse(t)
      PROVE  Places'
  <2>1. UNCHANGED <<waiting, pending, running, backoff>>
    BY <1>5 DEF Refuse, slotVars
  <2>2. {u \in Task : outcome'[u] = "accepted"} = Accepted
    BY <1>2, <1>5 DEF Refuse
  <2>3. QED
    BY <1>1, <1>3, <2>1, <2>2 DEF H, G
<1>6. ASSUME NEW t \in Task, Succeed(t) \/ GiveUp(t)
      PROVE  Places'
  <2>1. t \in running /\ AfterTask(t) /\ backoff' = backoff
    BY <1>6 DEF Succeed, GiveUp
  <2>2. ListsTidy(waiting', pending') /\ Replaces(t)
    BY <1>1, <2>1, AfterTaskMoves
  <2>3. PICK N \in SUBSET H : running' = (running \ {t}) \union N /\ G = H \ N
    BY <2>2 DEF Replaces, H, G
  <2>4. {u \in Task : outcome'[u] = "accepted"} = Accepted \ {t}
    BY <1>2, <1>6 DEF Succeed, GiveUp
  <2>5. QED
    BY <1>1, <1>3, <2>1, <2>2, <2>3, <2>4
<1>7. ASSUME NEW t \in Task, FailAndBackOff(t)
      PROVE  Places'
  <2>1. /\ t \in running /\ FreeSlot(t) /\ backoff' = backoff \union {t}
        /\ UNCHANGED <<pending, outcome>>
    BY <1>7 DEF FailAndBackOff
  <2>2. ListsTidy(waiting', pending') /\ Replaces(t)
    BY <1>1, <2>1, FreeSlotMoves
  <2>3. PICK N \in SUBSET H : running' = (running \ {t}) \union N /\ G = H \ N
    BY <2>2 DEF Replaces, H, G
  <2>4. {u \in Task : outcome'[u] = "accepted"} = Accepted
    BY <2>1
  <2>5. QED
    BY <1>1, <1>3, <2>1, <2>2, <2>3, <2>4
<1>8. ASSUME NEW t \in Task, Retry(t)
      PROVE  Places'
  <2>1. /\ t \in backoff /\ backoff' = backoff \ {t}
        /\ t \notin H /\ t \notin running
    BY <1>1, <1>8 DEF Retry
  <2>2. CASE Admit(t) /\ UNCHANGED outcome
    <3>1. /\ ListsTidy(waiting', pending')
          /\ \/ G = H \union {t} /\ running' = running
             \/ G = H /\ running' = running \union {t}
      BY <1>1, <2>1, <2>2, AdmitMoves DEF H, G
    <3>2. QED
      BY <1>1, <1>3, <2>1, <2>2, <3>1
  <2>3. CASE /\ outcome' = [outcome EXCEPT ![t] = "lapsed"]
             /\ UNCHANGED <<slotVars, pending>>
    <3>1. UNCHANGED <<waiting, pending, running>>
      BY <2>3 DEF slotVars
    <3>2. {u \in Task : outcome'[u] = "accepted"} = Accepted \ {t}
      BY <1>2, <2>3
    <3>3. QED
      BY <1>1, <1>3, <2>1, <3>1, <3>2 DEF H, G
  <2>4. QED
    BY <1>8, <2>2, <2>3 DEF Retry
<1>9. CASE UNCHANGED <<waiting, pending, running, backoff, outcome>>
  BY <1>1, <1>3, <1>9 DEF H, G
<1>10. CASE GraceElapses
  <2>1. /\ running' = running \ awaited
        /\ UNCHANGED <<waiting, pending, backoff>>
    BY <1>10 DEF GraceElapses
  <2>2. {u \in Task : outcome'[u] = "accepted"} = Accepted \ (awaited \intersect running)
    BY <1>2, <1>10 DEF GraceElapses
  <2>3. QED
    BY <1>1, <1>3, <2>1, <2>2 DEF H, G
<1>11. QED
  BY <1>4, <1>5, <1>6, <1>7, <1>8, <1>9, <1>10
     DEF Next, WorkerEnds, vars, slotVars, RegisterContainer, UnregisterContainer,
         NotifyIdle, ClearClose, BeginShutdown, GraceSuffices

\* The places are disjoint and complete in every reachable state.
LEMMA PlacesInvariance == Spec => []Places
BY InitPlaces, NextPlaces, Invariance, PTL DEF Spec

\* No hand-over between the lists, the workers and the retries loses an accepted
\* task or keeps it twice.
THEOREM TasksAreInOnePlace == Spec => []EachTaskInOnePlace
<1>1. ASSUME IInv, Places, NEW t \in Task
      PROVE  LET listed == Cardinality({i \in DOMAIN waiting : waiting[i] = t})
                             + Cardinality({i \in DOMAIN pending[SessionOf[t]] :
                                              pending[SessionOf[t]][i] = t})
                 live   == (IF t \in running THEN 1 ELSE 0)
                             + (IF t \in backoff THEN 1 ELSE 0)
             IN listed + live = (IF outcome[t] = "accepted" THEN 1 ELSE 0)
  <2> DEFINE w == Cardinality({i \in DOMAIN waiting : waiting[i] = t})
             p == Cardinality({i \in DOMAIN pending[SessionOf[t]] :
                                 pending[SessionOf[t]][i] = t})
  <2>1. /\ waiting \in Seq(Task) /\ NoRepeats(waiting)
        /\ pending[SessionOf[t]] \in Seq(Task) /\ NoRepeats(pending[SessionOf[t]])
    BY <1>1, QueueAssumption DEF IInv, TypeOK, Places, ListsTidy, Tidy
  <2>2. /\ w = IF t \in Tasks(waiting) THEN 1 ELSE 0
        /\ p = IF t \in Tasks(pending[SessionOf[t]]) THEN 1 ELSE 0
    BY <2>1, Occurrences
  <2>3. ~(t \in Tasks(waiting) /\ t \in Tasks(pending[SessionOf[t]]))
    BY <1>1 DEF Places, ListsTidy
  <2>4. t \in Held(waiting, pending)
          <=> t \in Tasks(waiting) \/ t \in Tasks(pending[SessionOf[t]])
    BY DEF Held
  <2>5. /\ ~(t \in Held(waiting, pending) /\ t \in running)
        /\ ~(t \in Held(waiting, pending) /\ t \in backoff)
        /\ ~(t \in running /\ t \in backoff)
        /\ outcome[t] = "accepted"
             <=> t \in Held(waiting, pending) \/ t \in running \/ t \in backoff
    BY <1>1 DEF Places, Apart
  <2> HIDE DEF w, p
  <2>6. (w + p) + ((IF t \in running THEN 1 ELSE 0) + (IF t \in backoff THEN 1 ELSE 0))
          = (IF outcome[t] = "accepted" THEN 1 ELSE 0)
    BY <2>2, <2>3, <2>4, <2>5
  <2>7. QED
    BY <2>6 DEF w, p
<1>2. IInv /\ Places => EachTaskInOnePlace
  BY <1>1 DEF EachTaskInOnePlace
<1>3. QED
  BY <1>2, Invariance, PlacesInvariance, PTL

-----------------------------------------------------------------------------
\* Who gets a slot.

\* The first startable task of the global list: those before it belong to
\* sessions that stay active.
TakenFromWaiting(t) ==
  \E i \in DOMAIN waiting :
    /\ t = waiting[i]
    /\ waiting' = Without(waiting, i)
    /\ \A j \in DOMAIN waiting : j < i => active'[SessionOf[waiting[j]]]

\* The first task of its session's list.
TakenFromPending(t) ==
  LET s == SessionOf[t]
  IN s \in Session /\ pending[s] # <<>> /\ t = Head(pending[s])

\* FreeSlot starts nothing but the first startable task of the global list.
LEMMA FreeSlotStarts ==
  ASSUME IInv, NEW t \in running, FreeSlot(t), NEW u \in running' \ running
  PROVE  TakenFromWaiting(u)
<1> DEFINE freed    == [active EXCEPT ![SessionOf[t]] = FALSE]
           runnable == {i \in DOMAIN waiting : ~freed[SessionOf[waiting[i]]]}
<1>1. /\ waiting \in Seq(Task) /\ DOMAIN waiting \subseteq Nat
      /\ active \in [Session -> BOOLEAN]
      /\ \A i \in DOMAIN waiting : SessionOf[waiting[i]] \in Session
  BY QueueAssumption DEF IInv, TypeOK
<1>2. PICK i \in runnable :
        /\ \A j \in runnable : i <= j
        /\ active' = [freed EXCEPT ![SessionOf[waiting[i]]] = TRUE]
        /\ running' = (running \ {t}) \union {waiting[i]}
        /\ waiting' = Without(waiting, i)
  BY DEF FreeSlot
<1>3. u = waiting[i]
  BY <1>2
<1>4. ASSUME NEW j \in DOMAIN waiting, j < i
      PROVE  active'[SessionOf[waiting[j]]]
  <2>1. j \notin runnable
    BY <1>1, <1>2, <1>4
  <2>2. freed[SessionOf[waiting[j]]]
    BY <1>4, <2>1
  <2>3. freed \in [Session -> BOOLEAN]
    BY <1>1
  <2> HIDE DEF freed
  <2>4. QED
    BY <1>1, <1>2, <1>4, <2>2, <2>3
<1>5. QED
  BY <1>2, <1>3, <1>4 DEF TakenFromWaiting

\* A worker starts in three ways: its task was just admitted, or it was first in
\* its session's list, or the first startable one of the global list.
LEMMA Starts ==
  ASSUME IInv, [Next]_vars, NEW u \in running' \ running
  PROVE  \/ Launch(u) /\ ~shuttingDown /\ (outcome[u] = "new" \/ u \in backoff)
         \/ TakenFromPending(u)
         \/ TakenFromWaiting(u)
<1>1. ASSUME NEW t \in Task, Admit(t)
      PROVE  Launch(u) /\ t = u
  BY <1>1 DEF Admit, Serialize, Hold, Launch, slotVars
<1>2. ASSUME NEW t \in running, AfterTask(t)
      PROVE  TakenFromPending(u) \/ TakenFromWaiting(u)
  <2>1. CASE pending[SessionOf[t]] = <<>>
    BY <1>2, <2>1, FreeSlotStarts DEF AfterTask
  <2>2. CASE pending[SessionOf[t]] # <<>>
    <3>1. u = Head(pending[SessionOf[t]])
      BY <1>2, <2>2 DEF AfterTask
    <3>2. SessionOf[t] \in Session /\ pending[SessionOf[t]] \in Seq(Task)
      BY QueueAssumption DEF IInv, TypeOK
    <3>3. SessionOf[u] = SessionOf[t]
      BY <2>2, <3>1, <3>2, TailIsWithout DEF IInv, Core, PendingIsOwn
    <3>4. QED
      BY <2>2, <3>1, <3>2, <3>3 DEF TakenFromPending
  <2>3. QED
    BY <2>1, <2>2
<1>3. ASSUME NEW t \in Task, Enqueue(t) \/ Refuse(t) \/ WorkerEnds(t) \/ Retry(t)
      PROVE  \/ Launch(u) /\ ~shuttingDown /\ (outcome[u] = "new" \/ u \in backoff)
             \/ TakenFromPending(u)
             \/ TakenFromWaiting(u)
  BY <1>1, <1>2, <1>3, FreeSlotStarts
     DEF Enqueue, Refuse, WorkerEnds, Succeed, FailAndBackOff, GiveUp, Retry, slotVars
<1>4. running' \subseteq running \/ \E t \in Task : Enqueue(t) \/ Refuse(t) \/ WorkerEnds(t) \/ Retry(t)
  BY DEF Next, vars, slotVars, RegisterContainer, UnregisterContainer,
         NotifyIdle, ClearClose, BeginShutdown, GraceSuffices, GraceElapses
<1>5. QED
  BY <1>3, <1>4

\* Priority decides who gets a slot: the head of a session's list is the most
\* urgent of it, and what is more urgent in the global list than the task taken
\* from it cannot start.
THEOREM SlotsGoToTheMostUrgent == Spec => MostUrgentFirst
<1> DEFINE Fair(t) ==
      /\ t \in Tasks(pending[SessionOf[t]]) =>
           \A u \in Tasks(pending[SessionOf[t]]) : Priority(t) <= Priority(u)
      /\ t \in Tasks(waiting) =>
           \A u \in Tasks(waiting') :
             Priority(u) < Priority(t) => active'[SessionOf[u]]
<1>1. ASSUME IInv, Places, [Next]_vars, NEW t \in running' \ running
      PROVE  Fair(t)
  <2>1. /\ waiting \in Seq(Task) /\ DOMAIN waiting \subseteq Nat
        /\ pending \in [Session -> Seq(Task)]
        /\ ListsTidy(waiting, pending)
    BY <1>1 DEF IInv, TypeOK, Places
  <2>2. CASE Launch(t) /\ (outcome[t] = "new" \/ t \in backoff)
    <3>1. t \in Task => t \notin Held(waiting, pending)
      BY <1>1, <2>2 DEF Places, Apart
    <3>2. t \in Tasks(waiting) => t \in Task
      BY <2>1 DEF Tasks
    <3>3. t \in Task
      BY <1>1, NextIInv DEF IInv, TypeOK
    <3>4. QED
      BY <3>1, <3>3 DEF Held
  <2>3. CASE TakenFromPending(t)
    <3> DEFINE q == pending[SessionOf[t]]
    <3>1. /\ q \in Seq(Task) /\ q # <<>> /\ Tidy(q) /\ t = q[1] /\ 1 \in DOMAIN q
      BY <2>1, <2>3, TailIsWithout DEF TakenFromPending, ListsTidy
    <3> HIDE DEF q
    <3>2. \A u \in Tasks(q) : Priority(t) <= Priority(u)
      BY <3>1 DEF Tasks, Tidy, Sorted
    <3>3. t \in Tasks(q)
      BY <3>1 DEF Tasks
    <3>4. t \notin Tasks(waiting)
      BY <2>1, <3>3 DEF ListsTidy, q
    <3>5. QED
      BY <3>2, <3>4 DEF q
  <2>4. CASE TakenFromWaiting(t)
    <3>1. PICK i \in DOMAIN waiting :
            /\ t = waiting[i]
            /\ waiting' = Without(waiting, i)
            /\ \A j \in DOMAIN waiting : j < i => active'[SessionOf[waiting[j]]]
      BY <2>4 DEF TakenFromWaiting
    <3>2. t \in Tasks(waiting)
      BY <3>1 DEF Tasks
    <3>3. t \notin Tasks(pending[SessionOf[t]])
      BY <2>1, <3>2 DEF ListsTidy
    <3>4. ASSUME NEW u \in Tasks(waiting'), Priority(u) < Priority(t)
          PROVE  active'[SessionOf[u]]
      <4>1. PICK k \in DOMAIN Without(waiting, i) : u = Without(waiting, i)[k]
        BY <3>1, <3>4 DEF Tasks
      <4>2. PICK j \in DOMAIN waiting : u = waiting[j]
        BY <2>1, <4>1, WithoutType
      <4>3. j < i
        BY <2>1, <3>1, <3>4, <4>2, PriorityType DEF ListsTidy, Tidy, Sorted
      <4>4. QED
        BY <3>1, <4>2, <4>3
    <3>5. QED
      BY <3>3, <3>4
  <2>5. QED
    BY <1>1, <2>2, <2>3, <2>4, Starts
<1>2. IInv /\ Places /\ [Next]_vars => [\A t \in running' \ running : Fair(t)]_vars
  BY <1>1
<1> HIDE DEF Fair
<1>3. Spec => [][\A t \in running' \ running : Fair(t)]_vars
  BY <1>2, Invariance, PlacesInvariance, PTL DEF Spec
<1>4. QED
  BY <1>3 DEF MostUrgentFirst, Fair

\* After shutdown has begun a slot only passes to a task that was already listed.
THEOREM ShutdownDrains == Spec => ShutdownOnlyDrains
<1>1. ASSUME IInv, [Next]_vars, shuttingDown, NEW t \in running' \ running
      PROVE  t \in Tasks(waiting) \union Tasks(pending[SessionOf[t]])
  <2>1. TakenFromPending(t) \/ TakenFromWaiting(t)
    BY <1>1, Starts
  <2>2. CASE TakenFromPending(t)
    <3>1. pending[SessionOf[t]] \in Seq(Task)
      BY <1>1, <2>2 DEF TakenFromPending, IInv, TypeOK
    <3>2. QED
      BY <2>2, <3>1, TailIsWithout DEF TakenFromPending, Tasks
  <2>3. CASE TakenFromWaiting(t)
    BY <2>3 DEF TakenFromWaiting, Tasks
  <2>4. QED
    BY <2>1, <2>2, <2>3
<1>2. IInv /\ [Next]_vars =>
        [shuttingDown => \A t \in running' \ running :
           t \in Tasks(waiting) \union Tasks(pending[SessionOf[t]])]_vars
  BY <1>1
<1>3. QED
  BY <1>2, Invariance, PTL DEF Spec, ShutdownOnlyDrains

-----------------------------------------------------------------------------
\* The queue implements the service.

\* The stage of a task tells whether it runs.
LEMMA RunningStage ==
  ASSUME NEW t \in Task
  PROVE  StageOf(t) = "running" <=> t \in running
BY DEF StageOf

\* A new queue has only new tasks.
LEMMA InitStages == Init => Service!Init
<1> SUFFICES ASSUME Init
             PROVE  \A t \in Task : StageOf(t) = "new"
  BY DEF Service!Init
<1>1. Places
  BY InitPlaces
<1>2. TAKE t \in Task
<1>3. t \notin Held(waiting, pending) /\ t \notin running /\ t \notin backoff
        /\ outcome[t] = "new"
  BY <1>1 DEF Init, Places, Apart
<1>4. QED
  BY <1>3 DEF StageOf, Listed, Held

\* What places a task: whether it runs, sleeps or is listed, and its outcome.
LEMMA StageOfPlace ==
  ASSUME NEW t \in Task
  PROVE  StageOf(t) =
           IF t \in running THEN "running"
           ELSE IF t \in backoff THEN "backoff"
           ELSE IF t \in Held(waiting, pending) THEN "queued"
           ELSE IF outcome[t] = "new" THEN "new"
           ELSE IF outcome[t] \in {"done", "gaveUp"} THEN "finished"
           ELSE "dropped"
BY DEF StageOf, Listed, Held

\* A step moves a task along the service's edges or not at all.
LEMMA StageMoves ==
  ASSUME IInv, Places, Places', [Next]_vars, NEW u \in Task
  PROVE  \/ StageOf(u)' = StageOf(u)
         \/ <<StageOf(u), StageOf(u)'>> \in Service!Edges
<1> DEFINE H == Held(waiting, pending)
           G == Held(waiting', pending')
           now  == IF u \in running THEN "running"
                   ELSE IF u \in backoff THEN "backoff"
                   ELSE IF u \in H THEN "queued"
                   ELSE IF outcome[u] = "new" THEN "new"
                   ELSE IF outcome[u] \in {"done", "gaveUp"} THEN "finished"
                   ELSE "dropped"
           next == IF u \in running' THEN "running"
                   ELSE IF u \in backoff' THEN "backoff"
                   ELSE IF u \in G THEN "queued"
                   ELSE IF outcome'[u] = "new" THEN "new"
                   ELSE IF outcome'[u] \in {"done", "gaveUp"} THEN "finished"
                   ELSE "dropped"
           Goal == next = now \/ <<now, next>> \in Service!Edges
<1>1. StageOf(u) = now /\ StageOf(u)' = next
  BY StageOfPlace DEF StageOf, Listed, Held
<1>2. /\ ListsTidy(waiting, pending)
      /\ H \intersect running = {}
      /\ H \intersect backoff = {}
      /\ running \intersect backoff = {}
      /\ outcome[u] = "accepted" <=> u \in H \/ u \in running \/ u \in backoff
  BY DEF Places, Apart
<1>3. /\ outcome \in [Task -> Outcome] /\ running \subseteq Task /\ backoff \subseteq Task
  BY DEF IInv, TypeOK
<1> HIDE DEF H, G
<1>4. ASSUME UNCHANGED <<waiting, pending, running, backoff, outcome>>
      PROVE  Goal
  BY <1>4 DEF H, G
<1>5. ASSUME NEW t \in Task, Enqueue(t)
      PROVE  Goal
  <2>1. t \notin H /\ t \notin running /\ t \notin backoff
    BY <1>5 DEF Enqueue, Places, Apart, H
  <2>2. \/ G = H \union {t} /\ running' = running
        \/ G = H /\ running' = running \union {t}
    BY <1>2, <1>5, <2>1, AdmitMoves DEF Enqueue, H, G
  <2>3. outcome[t] = "new" /\ outcome' = [outcome EXCEPT ![t] = "accepted"] /\ backoff' = backoff
    BY <1>5 DEF Enqueue
  <2>4. QED
    BY <1>2, <1>3, <2>1, <2>2, <2>3 DEF Service!Edges
<1>6. ASSUME NEW t \in Task, Refuse(t)
      PROVE  Goal
  <2>1. /\ outcome[t] = "new" /\ outcome' = [outcome EXCEPT ![t] = "refused"]
        /\ G = H /\ UNCHANGED <<running, backoff>>
    BY <1>6 DEF Refuse, slotVars, H, G
  <2>2. QED
    BY <1>2, <1>3, <2>1 DEF Service!Edges
<1>7. ASSUME NEW t \in Task, Succeed(t) \/ GiveUp(t)
      PROVE  Goal
  <2>1. /\ t \in running /\ AfterTask(t) /\ backoff' = backoff
        /\ \/ outcome' = [outcome EXCEPT ![t] = "done"]
           \/ outcome' = [outcome EXCEPT ![t] = "gaveUp"]
    BY <1>7 DEF Succeed, GiveUp
  <2>2. PICK N \in SUBSET H : running' = (running \ {t}) \union N /\ G = H \ N
    BY <1>2, <2>1, AfterTaskMoves DEF Replaces, H, G
  <2>3. CASE u = t
    BY <1>2, <1>3, <2>1, <2>2, <2>3 DEF Service!Edges
  <2>4. CASE u # t
    BY <1>2, <1>3, <2>1, <2>2, <2>4 DEF Service!Edges
  <2>5. QED
    BY <2>3, <2>4
<1>8. ASSUME NEW t \in Task, FailAndBackOff(t)
      PROVE  Goal
  <2>1. /\ t \in running /\ FreeSlot(t) /\ backoff' = backoff \union {t}
        /\ UNCHANGED <<pending, outcome>>
    BY <1>8 DEF FailAndBackOff
  <2>2. PICK N \in SUBSET H : running' = (running \ {t}) \union N /\ G = H \ N
    BY <1>2, <2>1, FreeSlotMoves DEF Replaces, H, G
  <2>3. QED
    BY <1>2, <1>3, <2>1, <2>2 DEF Service!Edges
<1>9. ASSUME NEW t \in Task, Retry(t)
      PROVE  Goal
  <2>1. t \in backoff /\ backoff' = backoff \ {t} /\ t \notin H /\ t \notin running
    BY <1>2, <1>9 DEF Retry
  <2>2. CASE Admit(t) /\ UNCHANGED outcome
    <3>1. \/ G = H \union {t} /\ running' = running
          \/ G = H /\ running' = running \union {t}
      BY <1>2, <2>1, <2>2, AdmitMoves DEF H, G
    <3>2. QED
      BY <1>2, <1>3, <2>1, <2>2, <3>1 DEF Service!Edges
  <2>3. CASE /\ outcome' = [outcome EXCEPT ![t] = "lapsed"]
             /\ UNCHANGED <<slotVars, pending>>
    <3>1. G = H /\ running' = running
      BY <2>3 DEF slotVars, H, G
    <3>2. QED
      BY <1>2, <1>3, <2>1, <2>3, <3>1 DEF Service!Edges
  <2>4. QED
    BY <1>9, <2>2, <2>3 DEF Retry
<1>10. ASSUME GraceElapses
       PROVE  Goal
  <2>1. /\ running' = running \ awaited /\ G = H /\ backoff' = backoff
        /\ outcome'[u] = IF u \in awaited \intersect running THEN "cancelled" ELSE outcome[u]
    BY <1>10 DEF GraceElapses, H, G
  <2>2. QED
    BY <1>2, <1>3, <2>1 DEF Service!Edges
<1>11. Goal
  BY <1>4, <1>5, <1>6, <1>7, <1>8, <1>9, <1>10
     DEF Next, WorkerEnds, vars, slotVars, RegisterContainer, UnregisterContainer,
         NotifyIdle, ClearClose, BeginShutdown, GraceSuffices
<1>12. QED
  BY <1>1, <1>11

\* Every step of the queue is a step of the service or a stutter.
LEMMA NextStages ==
  ASSUME IInv, Places, IInv', Places', WithinCapacity', [Next]_vars
  PROVE  Service!Next
<1> DEFINE st == [t \in Task |-> StageOf(t)]
<1>1. \A t \in Task : StageOf(t)' \in Service!Stage
  BY DEF StageOf, Service!Stage
<1>2. \A t \in Task : \/ StageOf(t)' = StageOf(t)
                      \/ <<StageOf(t), StageOf(t)'>> \in Service!Edges
  BY StageMoves
<1>3. Service!Running(st') = running'
  <2>1. \A t \in Task : StageOf(t)' = "running" <=> t \in running'
    BY DEF StageOf
  <2>2. running' \subseteq Task
    BY DEF IInv, TypeOK
  <2>3. QED
    BY <2>1, <2>2 DEF Service!Running
<1>4. Service!OnePerSession(st')
  <2>1. Serialized'
    BY DEF IInv, Core, WorkersOwnSlots, Serialized
  <2>2. QED
    BY <1>3, <2>1 DEF Service!OnePerSession, Serialized
<1>5. Service!WithinCap(st')
  <2>1. Service!Cardinality(running') = Cardinality(running')
    BY DEF Service!Cardinality, Cardinality
  <2>2. QED
    BY <1>3, <2>1 DEF Service!WithinCap, WithinCapacity
<1>6. QED
  BY <1>1, <1>2, <1>4, <1>5 DEF Service!Next

\* The lists, flags and counters of the queue implement the stages it promises.
THEOREM QueueImplementsService == Spec => ServiceSpec
<1>1. Init => Service!Init
  BY InitStages
<1>2. IInv /\ Places /\ IInv' /\ Places' /\ WithinCapacity' /\ [Next]_vars => Service!Next
  BY NextStages
<1>3. QED
  BY <1>1, <1>2, Invariance, PlacesInvariance, CapIsRespected, PTL
     DEF Spec, ServiceSpec, Service!Spec

=============================================================================
