----------------------------- MODULE StoreProofs ----------------------------
(***************************************************************************)
(* Proofs about what a session leaves on disk, for any number of halves,   *)
(* processes, fact ids and sessions: the handoff files and their audit     *)
(* directory, the memory store, and the lineage of sessions. Each part has *)
(* the invariant its steps keep.                                           *)
(***************************************************************************)
EXTENDS Handoffs, Memory, Lineage, LeastElement, SequenceTheorems, TLAPS

\* The handoff files of a session: what was pending, archived, replaced and dispatched.

\* A handoff is at one of these places.
Pendings == {pending[h] : h \in Half} \ {0}
Filed == OnRecord \cup shadowed
PutAway == KeptAside \cup Smothered

HandoffsTypes ==
  /\ written \in Nat /\ pending \in [Half -> Nat] /\ payload \in Nat
  /\ second \in 0 .. MaxSecond /\ audit \in [Half \X (0 .. MaxSecond) -> Nat]
  /\ seen \subseteq Half
  /\ completions \in Nat /\ reported \in Nat

Accounted == 1 .. written = Pendings \cup replaced \cup PutAway \cup Filed

\* What lies over a handoff that was smothered is a later one of its half; and what is
\* in the file of a half came after all of that half in _malformed.
Above(e) == \/ malformed[e[1]] > e[2]
            \/ turnedBack /\ \E l \in setAside : l[1] = e[1] /\ l[2] > e[2]

Buried ==
  /\ malformed \in [Half -> Nat] /\ setAside \subseteq Half \X Nat /\ smothered \subseteq Half \X Nat
  /\ \A e \in setAside : e[2] # 0
  /\ \A e \in smothered : Above(e)
  /\ \A h \in Half : pending[h] # 0 =>
       malformed[h] < pending[h] /\ \A e \in setAside \cup smothered : e[1] = h => e[2] < pending[h]

\* What the watcher has listed is still there: only it takes files away.
Listing ==
  /\ poll \in {"reading", "archiving", "quarantining", "discarding"} =>
       \A h \in seen : pending[h] # 0
  /\ poll \in {"reading", "archiving", "quarantining", "discarding", "dispatching"} => seen # {}

\* What was read is still in the file, or was replaced by a later one.
Held ==
  /\ poll = "archiving" =>
       \/ payload = pending[OnlyHalf]
       \/ payload \in replaced /\ payload < pending[OnlyHalf]
  /\ poll = "dispatching" => payload \in Filed \cup replaced

\* v reached the handler, is about to, or died with the watcher.
Handled(v) == v \in dispatched \cup dropped \/ (poll = "dispatching" /\ v = payload)

Told ==
  /\ dispatched \subseteq Filed \cup replaced
  /\ \A v \in Filed : Handled(v) \/ \E w \in replaced : w < v /\ Handled(w)

\* Unless the clock was turned back, no entry is of a later second; so the one that is
\* made is the latest.
Dated == ~turnedBack => \A h \in Half, s \in 0 .. MaxSecond : audit[<<h, s>>] # 0 => s <= second

IsLatest(h, v, entries) ==
  v # 0 /\ \E s \in 0 .. MaxSecond :
    entries[<<h, s>>] = v /\ \A r \in 0 .. MaxSecond : entries[<<h, r>>] # 0 => r <= s

Latest ==
  poll = "dispatching" /\ ~turnedBack /\ payload \notin replaced => IsLatest(OnlyHalf, payload, audit)

\* One report is owed for a completion in place, and one for a poll that is to report.
Owed == (IF completion = "pending" THEN 1 ELSE 0) + (IF poll = "reporting" THEN 1 ELSE 0)
Reports == reported + Owed <= completions

HandoffsInv == HandoffsTypes /\ Accounted /\ Buried /\ Listing /\ Held /\ Told /\ Dated /\ Latest /\ Reports

\* The half of a listing is one of it.
LEMMA OnlyHalfIsSeen ==
  ASSUME seen # {}
  PROVE  OnlyHalf \in seen
  BY DEF OnlyHalf

\* At first nothing is written.
LEMMA HandoffsInvInit == HandoffsInit => HandoffsInv
<1> SUFFICES ASSUME HandoffsInit PROVE HandoffsInv
  OBVIOUS
<1> USE DEF HandoffsInit
<1>1. HandoffsTypes
  BY HandoffAssumption DEF HandoffsTypes
<1>2. OnRecord = {} /\ Pendings = {} /\ PutAway = {}
  BY DEF OnRecord, Pendings, PutAway, KeptAside, Smothered
<1>3. Accounted
  <2>1. 1 .. written = {}
    OBVIOUS
  <2> QED
    BY <1>2, <2>1 DEF Accounted, Filed
<1>4. Listing /\ Held /\ Latest
  BY DEF Listing, Held, Latest
<1>5. Told
  BY <1>2 DEF Told, Filed
<1>6. Dated
  BY DEF Dated
<1>7. Reports /\ Buried
  BY DEF Reports, Owed, Buried
<1> QED
  BY <1>1, <1>3, <1>4, <1>5, <1>6, <1>7 DEF HandoffsInv

\* A writer replaces what is in its file by a later handoff.
LEMMA WriteHandoffStep ==
  ASSUME HandoffsInv, NEW h \in Half, WriteHandoff(h)
  PROVE  HandoffsInv'
<1>1. /\ written' = written + 1 /\ pending' = [pending EXCEPT ![h] = written + 1]
      /\ replaced' = replaced \cup ({pending[h]} \ {0})
      /\ UNCHANGED <<second, poll, seen, payload, completion, completions, reported, turnedBack>>
      /\ UNCHANGED <<audit, malformed, setAside, smothered, shadowed, dispatched, dropped>>
  BY DEF WriteHandoff, ending, records, kept, done
<1>2. PICK n \in Nat : n = written
  BY DEF HandoffsInv, HandoffsTypes
<1>3. /\ pending'[h] = n + 1 /\ \A x \in Half : x # h => pending'[x] = pending[x]
      /\ pending' \in [Half -> Nat] /\ written' = n + 1
  BY <1>1, <1>2 DEF HandoffsInv, HandoffsTypes
<1>4. HandoffsTypes'
  BY <1>1, <1>3 DEF HandoffsInv, HandoffsTypes
<1>5. Filed' = Filed /\ OnlyHalf' = OnlyHalf /\ PutAway' = PutAway
  BY <1>1 DEF Filed, OnRecord, OnlyHalf, PutAway, KeptAside, Smothered
<1>6. \A x \in Half : pending[x] \in 0 .. n
  BY <1>2 DEF HandoffsInv, HandoffsTypes, Accounted, Pendings
<1>7. Accounted'
  <2>1. Pendings' \cup replaced' = Pendings \cup replaced \cup {n + 1}
    <3>1. \A v : v \in Pendings' => v \in Pendings \cup {n + 1}
      BY <1>3 DEF Pendings
    <3>2. \A v : v \in replaced' => v \in Pendings \cup replaced
      BY <1>1 DEF Pendings
    <3>3. \A v : v \in Pendings => v \in Pendings' \cup replaced'
      BY <1>1, <1>3 DEF Pendings
    <3>4. n + 1 \in Pendings'
      BY <1>3 DEF Pendings
    <3> QED
      BY <1>1, <3>1, <3>2, <3>3, <3>4
  <2>2. 1 .. written' = 1 .. n \cup {n + 1}
    BY <1>3
  <2>3. 1 .. n = Pendings \cup replaced \cup PutAway \cup Filed
    BY <1>2 DEF HandoffsInv, Accounted
  <2> HIDE DEF Pendings
  <2> QED
    BY <1>1, <1>5, <2>1, <2>2, <2>3 DEF Accounted
<1>8. Listing'
  BY <1>1, <1>3 DEF HandoffsInv, HandoffsTypes, Listing
<1>9. Held'
  <2>1. ASSUME poll = "archiving"
        PROVE  \/ payload = pending'[OnlyHalf]
               \/ payload \in replaced' /\ payload < pending'[OnlyHalf]
    <3>1. OnlyHalf \in Half /\ pending[OnlyHalf] # 0
      BY <2>1, OnlyHalfIsSeen DEF HandoffsInv, HandoffsTypes, Listing
    <3>2. \/ payload = pending[OnlyHalf]
          \/ payload \in replaced /\ payload < pending[OnlyHalf]
      BY <2>1 DEF HandoffsInv, Held
    <3>3. CASE OnlyHalf # h
      BY <1>1, <1>3, <3>1, <3>2, <3>3
    <3>4. CASE OnlyHalf = h
      <4>1. pending'[OnlyHalf] = n + 1 /\ pending[OnlyHalf] \in replaced' /\ pending[OnlyHalf] < n + 1
        BY <1>1, <1>3, <1>6, <3>1, <3>4
      <4>2. payload \in Nat /\ pending[OnlyHalf] \in Nat
        BY <3>1 DEF HandoffsInv, HandoffsTypes
      <4> QED
        BY <1>1, <3>2, <4>1, <4>2
    <3> QED
      BY <3>3, <3>4
  <2> QED
    BY <1>1, <1>5, <2>1 DEF HandoffsInv, Held
<1>10. Told'
  BY <1>1, <1>5 DEF HandoffsInv, Told, Handled
<1>11. Dated' /\ Latest' /\ Reports'
  BY <1>1, <1>5 DEF HandoffsInv, Dated, Latest, Reports, Owed
<1>12. Buried'
  <2>1. ASSUME NEW e \in setAside \cup smothered
        PROVE  e[2] < n + 1
    <3>1. e[2] \in Nat /\ (e[2] # 0 => e[2] \in PutAway)
      BY <2>1 DEF HandoffsInv, Buried, PutAway, KeptAside, Smothered
    <3>2. PutAway \subseteq 1 .. n
      BY <1>2 DEF HandoffsInv, Accounted
    <3> QED
      BY <3>1, <3>2
  <2>2. malformed[h] < n + 1
    <3>1. malformed[h] \in Nat /\ (malformed[h] # 0 => malformed[h] \in PutAway)
      BY DEF HandoffsInv, Buried, PutAway, KeptAside
    <3>2. PutAway \subseteq 1 .. n
      BY <1>2 DEF HandoffsInv, Accounted
    <3> QED
      BY <3>1, <3>2
  <2>3. ASSUME NEW x \in Half, pending'[x] # 0
        PROVE  /\ malformed[x] < pending'[x]
               /\ \A e \in setAside \cup smothered : e[1] = x => e[2] < pending'[x]
    BY <1>3, <2>1, <2>2, <2>3 DEF HandoffsInv, Buried
  <2>4. \A e \in smothered : Above(e)'
    BY <1>1 DEF HandoffsInv, Buried, Above
  <2> QED
    BY <1>1, <2>3, <2>4 DEF HandoffsInv, Buried
<1> QED
  BY <1>4, <1>7, <1>8, <1>9, <1>10, <1>11, <1>12 DEF HandoffsInv

\* Where no file moves, what is on record stays, and every handoff where it is.
LEMMA FilesRest ==
  ASSUME HandoffsInv, UNCHANGED <<pending, written, audit, malformed, setAside, smothered, shadowed, replaced>>,
         turnedBack => turnedBack'
  PROVE  /\ Filed' = Filed /\ Accounted' /\ Buried'
         /\ pending' \in [Half -> Nat] /\ written' \in Nat
         /\ audit' \in [Half \X (0 .. MaxSecond) -> Nat]
<1>1. Filed' = Filed /\ Pendings' = Pendings /\ PutAway' = PutAway
  BY DEF Filed, OnRecord, Pendings, PutAway, KeptAside, Smothered
<1>2. \A e \in smothered : Above(e)'
  BY DEF HandoffsInv, Buried, Above
<1>3. Buried'
  BY <1>2 DEF HandoffsInv, Buried
<1> QED
  BY <1>1, <1>3 DEF HandoffsInv, HandoffsTypes, Accounted

\* The clock moves: forward, or back, which is remembered.
LEMMA ClockStep ==
  ASSUME HandoffsInv, SecondPasses \/ ClockTurnsBack
  PROVE  HandoffsInv'
<1>1. /\ UNCHANGED <<pending, written, audit, malformed, setAside, smothered, shadowed, replaced>>
      /\ UNCHANGED <<poll, seen, payload, dispatched, dropped, completion, completions, reported>>
      /\ second' \in 0 .. MaxSecond
      /\ ~turnedBack' => ~turnedBack /\ second <= second'
  <2>1. second \in 0 .. MaxSecond
    BY DEF HandoffsInv, HandoffsTypes
  <2>2. CASE SecondPasses
    BY <2>1, <2>2, HandoffAssumption DEF SecondPasses, handoffFiles, records, kept, done, ending
  <2>3. CASE ClockTurnsBack
    BY <2>1, <2>3, HandoffAssumption DEF ClockTurnsBack, handoffFiles, records, kept, done, ending
  <2> QED
    BY <2>2, <2>3
<1>2. Filed' = Filed /\ Accounted' /\ Buried'
  BY <1>1, FilesRest
<1>3. HandoffsTypes' /\ Listing'
  BY <1>1 DEF HandoffsInv, HandoffsTypes, Listing
<1>4. OnlyHalf' = OnlyHalf
  BY <1>1 DEF OnlyHalf
<1>5. Held' /\ Told'
  BY <1>1, <1>2, <1>4 DEF HandoffsInv, Held, Told, Handled
<1>6. Dated'
  <2>1. ASSUME ~turnedBack', NEW h \in Half, NEW s \in 0 .. MaxSecond, audit[<<h, s>>] # 0
        PROVE  s <= second'
    <3>1. s <= second /\ second <= second'
      BY <1>1, <2>1 DEF HandoffsInv, Dated
    <3> QED
      BY <1>1, <3>1 DEF HandoffsInv, HandoffsTypes
  <2> QED
    BY <1>1, <2>1 DEF Dated
<1>7. Latest' /\ Reports'
  BY <1>1, <1>4 DEF HandoffsInv, Latest, Reports, Owed
<1> QED
  BY <1>2, <1>3, <1>5, <1>6, <1>7 DEF HandoffsInv

\* A poll begins with the files that are there.
LEMMA ListHandoffsStep ==
  ASSUME HandoffsInv, ListHandoffs
  PROVE  HandoffsInv'
<1>1. /\ poll = "asleep" /\ poll' \in {"reading", "quarantining"}
      /\ seen' = {h \in Half : pending[h] # 0} /\ seen' # {}
      /\ UNCHANGED <<pending, written, audit, malformed, setAside, smothered, shadowed, replaced>>
      /\ UNCHANGED <<second, payload, dispatched, dropped, completion, completions, reported, turnedBack>>
  BY DEF ListHandoffs, handoffFiles, records, kept, done, ending
<1>2. Filed' = Filed /\ Accounted' /\ Buried'
  BY <1>1, FilesRest
<1>3. HandoffsTypes' /\ Listing'
  BY <1>1 DEF HandoffsInv, HandoffsTypes, Listing
<1>4. Held' /\ Latest' /\ Dated'
  BY <1>1 DEF HandoffsInv, Held, Latest, Dated
<1>5. Told'
  BY <1>1, <1>2 DEF HandoffsInv, Told, Handled
<1>6. Reports'
  BY <1>1 DEF HandoffsInv, Reports, Owed
<1> QED
  BY <1>2, <1>3, <1>4, <1>5, <1>6 DEF HandoffsInv

\* What is read is in the file, until it is replaced.
LEMMA ReadFileStep ==
  ASSUME HandoffsInv, ReadFile
  PROVE  HandoffsInv'
<1>1. /\ poll = "reading" /\ payload' = pending[OnlyHalf]
      /\ poll' \in {"discarding", "archiving"}
      /\ UNCHANGED <<pending, written, audit, malformed, setAside, smothered, shadowed, replaced>>
      /\ UNCHANGED <<second, seen, dispatched, dropped, completion, completions, reported, turnedBack>>
  BY DEF ReadFile, handoffFiles, records, kept, done, ending
<1>2. Filed' = Filed /\ Accounted' /\ Buried'
  BY <1>1, FilesRest
<1>3. OnlyHalf \in Half /\ OnlyHalf' = OnlyHalf
  BY <1>1, OnlyHalfIsSeen DEF HandoffsInv, HandoffsTypes, Listing, OnlyHalf
<1>4. HandoffsTypes' /\ Listing'
  BY <1>1, <1>3 DEF HandoffsInv, HandoffsTypes, Listing
<1>5. Held' /\ Latest' /\ Dated'
  BY <1>1, <1>3 DEF HandoffsInv, Held, Latest, Dated
<1>6. Told'
  BY <1>1, <1>2 DEF HandoffsInv, Told, Handled
<1>7. Reports'
  BY <1>1 DEF HandoffsInv, Reports, Owed
<1> QED
  BY <1>2, <1>4, <1>5, <1>6, <1>7 DEF HandoffsInv

\* The handoffs of the entries of a set.
LEMMA OneMoreEntry ==
  ASSUME NEW S, NEW x
  PROVE  {e[2] : e \in S \cup {x}} = {e[2] : e \in S} \cup {x[2]}
  OBVIOUS

\* A file that is moved away, with whatever is in it now, comes to lie over earlier ones
\* of its half only.
LEMMA MoveAwayStep ==
  ASSUME HandoffsInv, NEW h \in Half, Quarantine(h) \/ Discard(h)
  PROVE  HandoffsInv'
<1>1. /\ poll \in {"quarantining", "discarding"} /\ h \in seen
      /\ pending' = [pending EXCEPT ![h] = 0]
      /\ seen' = seen \ {h} /\ poll' = IF seen' = {} THEN "asleep" ELSE poll
      /\ UNCHANGED <<written, audit, shadowed, replaced>>
      /\ UNCHANGED <<second, payload, dispatched, dropped, completion, completions, reported, turnedBack>>
  BY DEF Quarantine, Discard, MovesAway, DealtWith, done, ending
<1>2. /\ pending'[h] = 0 /\ pending[h] # 0 /\ \A x \in Half : x # h => pending'[x] = pending[x]
      /\ pending' \in [Half -> Nat]
  BY <1>1 DEF HandoffsInv, HandoffsTypes, Listing
<1>3. Filed' = Filed
  BY <1>1 DEF Filed, OnRecord
<1>4. PutAway' = PutAway \cup {pending[h]} /\ Buried'
  <2>1. /\ malformed \in [Half -> Nat] /\ setAside \subseteq Half \X Nat /\ smothered \subseteq Half \X Nat
        /\ pending[h] \in Nat /\ malformed[h] < pending[h]
        /\ \A e \in setAside \cup smothered : e[1] = h => e[2] < pending[h]
        /\ \A e \in smothered : Above(e)
    BY <1>2 DEF HandoffsInv, HandoffsTypes, Buried
  <2>2. CASE Quarantine(h)
    <3>1. malformed' = malformed
      BY <2>2 DEF Quarantine
    <3>2. \/ setAside' = setAside \cup {<<h, pending[h]>>} /\ smothered' = smothered
          \/ \E earlier \in setAside :
               /\ turnedBack /\ earlier[1] = h
               /\ setAside' = (setAside \ {earlier}) \cup {<<h, pending[h]>>}
               /\ smothered' = smothered \cup {earlier}
      BY <2>2 DEF Quarantine
    <3>3. CASE setAside' = setAside \cup {<<h, pending[h]>>} /\ smothered' = smothered
      <4>1. PutAway' = PutAway \cup {pending[h]}
        <5>1. {e[2] : e \in setAside'} = {e[2] : e \in setAside} \cup {pending[h]}
          BY <3>3, OneMoreEntry
        <5>2. KeptAside' = KeptAside \cup {pending[h]}
          BY <1>2, <3>1, <5>1 DEF KeptAside
        <5> QED
          BY <3>3, <5>2 DEF PutAway, Smothered
      <4>2. \A e \in smothered' : Above(e)'
        BY <1>1, <2>1, <3>1, <3>3 DEF Above
      <4>3. \A e \in setAside' \cup smothered' : e \in setAside \cup smothered \/ e[1] = h
        BY <3>3
      <4> QED
        BY <1>2, <2>1, <3>1, <3>3, <4>1, <4>2, <4>3 DEF HandoffsInv, Buried
    <3>4. ASSUME NEW earlier \in setAside, turnedBack, earlier[1] = h,
                 setAside' = (setAside \ {earlier}) \cup {<<h, pending[h]>>},
                 smothered' = smothered \cup {earlier}
          PROVE  PutAway' = PutAway \cup {pending[h]} /\ Buried'
      <4>1. PutAway' = PutAway \cup {pending[h]}
        <5>1. Smothered' = Smothered \cup {earlier[2]}
          BY <3>4, OneMoreEntry DEF Smothered
        <5>2. earlier[2] # 0
          BY <2>1, <3>4 DEF HandoffsInv, Buried
        <5>3. KeptAside' \cup ({earlier[2]} \ {0}) = KeptAside \cup {pending[h]}
          <6>1. {e[2] : e \in setAside' \cup {earlier}} = {e[2] : e \in setAside'} \cup {earlier[2]}
            BY OneMoreEntry
          <6>2. setAside' \cup {earlier} = setAside \cup {<<h, pending[h]>>}
            BY <3>4
          <6>3. {e[2] : e \in setAside \cup {<<h, pending[h]>>}} = {e[2] : e \in setAside} \cup {pending[h]}
            BY OneMoreEntry
          <6>4. {e[2] : e \in setAside'} \cup {earlier[2]} = {e[2] : e \in setAside} \cup {pending[h]}
            BY <6>1, <6>2, <6>3
          <6> DEFINE A == {e[2] : e \in setAside'}  B == {e[2] : e \in setAside}
                     M == {malformed[x] : x \in Half}
          <6>5. KeptAside = (M \cup B) \ {0} /\ KeptAside' = (M \cup A) \ {0}
            BY <3>1 DEF KeptAside
          <6>6. earlier[2] \in B /\ A \cup {earlier[2]} = B \cup {pending[h]}
            BY <3>4, <6>4
          <6> HIDE DEF A, B, M
          <6> QED
            BY <1>2, <6>5, <6>6
        <5> QED
          BY <5>1, <5>2, <5>3 DEF PutAway
      <4>2. <<h, pending[h]>> \in setAside'
        BY <3>4
      <4>3. ASSUME NEW e \in smothered', e[1] = h
            PROVE  Above(e)'
        BY <1>1, <2>1, <3>4, <4>2, <4>3 DEF Above
      <4>4. ASSUME NEW e \in smothered', e[1] # h
            PROVE  Above(e)'
        <5>1. e \in smothered /\ Above(e)
          BY <2>1, <3>4, <4>4
        <5>2. \A l \in setAside : l[1] = e[1] => l \in setAside'
          BY <3>4, <4>4
        <5> QED
          BY <1>1, <3>1, <5>1, <5>2 DEF Above
      <4>5. \A e \in setAside' \cup smothered' : e \in setAside \cup smothered \/ e[1] = h
        BY <3>4
      <4> QED
        BY <1>2, <2>1, <3>1, <3>4, <4>1, <4>3, <4>4, <4>5 DEF HandoffsInv, Buried
    <3> QED
      BY <3>2, <3>3, <3>4
  <2>3. CASE Discard(h)
    <3>1. /\ malformed' = [malformed EXCEPT ![h] = pending[h]] /\ setAside' = setAside
          /\ smothered' = IF malformed[h] = 0 THEN smothered ELSE smothered \cup {<<h, malformed[h]>>}
      BY <2>3 DEF Discard
    <3>2. malformed'[h] = pending[h] /\ \A x \in Half : x # h => malformed'[x] = malformed[x]
      BY <2>1, <3>1
    <3>3. Smothered' = IF malformed[h] = 0 THEN Smothered ELSE Smothered \cup {malformed[h]}
      <4>1. CASE malformed[h] = 0
        BY <3>1, <4>1 DEF Smothered
      <4>2. CASE malformed[h] # 0
        <5>1. smothered' = smothered \cup {<<h, malformed[h]>>}
          BY <3>1, <4>2
        <5> QED
          BY <4>2, <5>1, OneMoreEntry DEF Smothered
      <4> QED
        BY <4>1, <4>2
    <3>4. KeptAside' \cup ({malformed[h]} \ {0}) = KeptAside \cup {pending[h]}
      BY <1>2, <3>1, <3>2 DEF KeptAside
    <3>5. PutAway' = PutAway \cup {pending[h]}
      BY <3>3, <3>4 DEF PutAway
    <3>6. ASSUME NEW e \in smothered'
          PROVE  Above(e)'
      <4>1. CASE e[1] = h
        <5>1. e[2] < pending[h]
          BY <2>1, <3>1, <3>6, <4>1
        <5> QED
          BY <3>2, <4>1, <5>1 DEF Above
      <4>2. CASE e[1] # h
        <5>1. e \in smothered /\ Above(e) /\ e[1] \in Half
          BY <2>1, <3>1, <3>6, <4>2
        <5> QED
          BY <1>1, <3>1, <3>2, <4>2, <5>1 DEF Above
      <4> QED
        BY <4>1, <4>2
    <3>7. \A e \in setAside' \cup smothered' : e \in setAside \cup smothered \/ e[1] = h
      BY <3>1
    <3> QED
      BY <1>2, <2>1, <3>1, <3>2, <3>5, <3>6, <3>7 DEF HandoffsInv, Buried
  <2> QED
    BY <2>2, <2>3
<1>5. Accounted'
  <2>1. Pendings' \cup {pending[h]} = Pendings
    BY <1>2 DEF Pendings
  <2> HIDE DEF Pendings
  <2> QED
    BY <1>1, <1>3, <1>4, <2>1 DEF HandoffsInv, Accounted
<1>6. HandoffsTypes' /\ Listing'
  BY <1>1, <1>2 DEF HandoffsInv, HandoffsTypes, Listing
<1>7. Held' /\ Latest' /\ Dated'
  BY <1>1 DEF HandoffsInv, Held, Latest, Dated
<1>8. Told'
  BY <1>1, <1>3 DEF HandoffsInv, Told, Handled
<1>9. Reports'
  BY <1>1 DEF HandoffsInv, Reports, Owed
<1> QED
  BY <1>4, <1>5, <1>6, <1>7, <1>8, <1>9 DEF HandoffsInv

\* The file is moved: what was read is on record now, or was replaced, and then a later
\* handoff is on record in its place.
LEMMA ArchiveFileStep ==
  ASSUME HandoffsInv, ArchiveFile
  PROVE  HandoffsInv'
<1>1. PICK h \in Half : h = OnlyHalf
  BY OnlyHalfIsSeen DEF ArchiveFile, HandoffsInv, HandoffsTypes, Listing
<1>2. PICK s \in 0 .. MaxSecond : s = second
  BY DEF HandoffsInv, HandoffsTypes
<1>3. PICK v \in Nat : v = pending[h]
  BY DEF HandoffsInv, HandoffsTypes
<1>4. /\ poll = "archiving" /\ poll' = "dispatching"
      /\ shadowed' = shadowed \cup ({audit[<<h, s>>]} \ {0})
      /\ audit' = [audit EXCEPT ![<<h, s>>] = v]
      /\ pending' = [pending EXCEPT ![h] = 0]
      /\ UNCHANGED <<second, written, seen, payload, malformed, setAside, smothered, replaced, turnedBack>>
      /\ UNCHANGED <<dispatched, dropped, completion, completions, reported>>
  BY <1>1, <1>2, <1>3 DEF ArchiveFile, kept, done, ending
<1>5. /\ v # 0
      /\ \/ payload = v
         \/ payload \in replaced /\ payload < v
  BY <1>1, <1>3, <1>4, OnlyHalfIsSeen DEF HandoffsInv, Listing, Held
<1>6. /\ pending'[h] = 0 /\ \A x \in Half : x # h => pending'[x] = pending[x]
      /\ pending' \in [Half -> Nat]
  BY <1>4 DEF HandoffsInv, HandoffsTypes
<1>7. /\ audit' \in [Half \X (0 .. MaxSecond) -> Nat]
      /\ audit'[<<h, s>>] = v
      /\ \A e \in Half \X (0 .. MaxSecond) : e # <<h, s>> => audit'[e] = audit[e]
      /\ DOMAIN audit = Half \X (0 .. MaxSecond)
  BY <1>4 DEF HandoffsInv, HandoffsTypes
<1>8. Filed' = Filed \cup {v}
  <2>1. ASSUME NEW w \in Filed'
        PROVE  w \in Filed \cup {v}
    BY <1>4, <1>7 DEF Filed, OnRecord
  <2>2. ASSUME NEW w \in Filed
        PROVE  w \in Filed'
    <3>1. CASE w \in shadowed
      BY <1>4, <3>1 DEF Filed
    <3>2. CASE w \in OnRecord
      <4>1. PICK e \in Half \X (0 .. MaxSecond) : w = audit[e] /\ w # 0
        BY <1>7, <3>2 DEF OnRecord
      <4>2. CASE e = <<h, s>>
        BY <1>4, <4>1, <4>2 DEF Filed
      <4>3. CASE e # <<h, s>>
        <5>1. w = audit'[e] /\ e \in DOMAIN audit'
          BY <1>7, <4>1, <4>3
        <5> QED
          BY <4>1, <5>1 DEF Filed, OnRecord
      <4> QED
        BY <4>2, <4>3
    <3> QED
      BY <3>1, <3>2 DEF Filed
  <2>3. v \in Filed'
    BY <1>5, <1>7 DEF Filed, OnRecord
  <2> QED
    BY <2>1, <2>2, <2>3
<1>9. Accounted'
  <2>1. Pendings' \cup {v} = Pendings
    BY <1>3, <1>5, <1>6 DEF Pendings
  <2>2. PutAway' = PutAway
    BY <1>4 DEF PutAway, KeptAside, Smothered
  <2> HIDE DEF Pendings
  <2> QED
    BY <1>4, <1>8, <2>1, <2>2 DEF HandoffsInv, Accounted
<1>10. HandoffsTypes' /\ Listing'
  BY <1>4, <1>6, <1>7 DEF HandoffsInv, HandoffsTypes, Listing
<1>11. Held'
  BY <1>4, <1>5, <1>8 DEF Held
<1>12. Told'
  <2>1. \A w \in Filed : Handled(w) => Handled(w)'
    BY <1>4 DEF Handled
  <2>2. \A w \in replaced : Handled(w) => Handled(w)'
    BY <1>4 DEF Handled
  <2>3. Handled(v)' \/ \E w \in replaced : w < v /\ Handled(w)'
    BY <1>4, <1>5 DEF Handled
  <2> QED
    BY <1>4, <1>8, <2>1, <2>2, <2>3 DEF HandoffsInv, Told
<1>13. Dated'
  BY <1>2, <1>4, <1>7 DEF HandoffsInv, HandoffsTypes, Dated
<1>14. Latest'
  <2> SUFFICES ASSUME ~turnedBack, payload \notin replaced
               PROVE  IsLatest(h, payload, audit')
    <3>1. OnlyHalf' = h
      BY <1>1, <1>4 DEF OnlyHalf
    <3> QED
      BY <1>4, <3>1 DEF Latest
  <2>1. payload = v /\ v # 0
    BY <1>5
  <2>2. \A r \in 0 .. MaxSecond : audit'[<<h, r>>] # 0 => r <= s
    BY <1>2, <1>4, <1>13 DEF Dated
  <2> QED
    BY <1>7, <2>1, <2>2 DEF IsLatest
<1>15. Reports'
  BY <1>4 DEF HandoffsInv, Reports, Owed
<1>16. Buried'
  <2>1. \A e \in smothered : Above(e)'
    BY <1>4 DEF HandoffsInv, Buried, Above
  <2>2. \A x \in Half : pending'[x] # 0 => pending'[x] = pending[x]
    BY <1>6
  <2> QED
    BY <1>4, <2>1, <2>2 DEF HandoffsInv, Buried
<1> QED
  BY <1>9, <1>10, <1>11, <1>12, <1>13, <1>14, <1>15, <1>16 DEF HandoffsInv

\* The handler is called, or the watcher dies on the way to it; either is remembered.
LEMMA DispatchStep ==
  ASSUME HandoffsInv, Dispatch \/ CrashWatcher
  PROVE  HandoffsInv'
<1>1. /\ poll' = "asleep"
      /\ dispatched \subseteq dispatched' /\ dropped \subseteq dropped'
      /\ dispatched' \subseteq IF poll = "dispatching" THEN dispatched \cup {payload} ELSE dispatched
      /\ poll = "dispatching" => payload \in dispatched' \cup dropped'
      /\ seen' = {}
      /\ UNCHANGED <<pending, written, audit, malformed, setAside, smothered, shadowed, replaced>>
      /\ UNCHANGED <<second, payload, completion, completions, reported, turnedBack>>
  BY DEF Dispatch, CrashWatcher, handoffFiles, records, kept, ending
<1>2. Filed' = Filed /\ Accounted' /\ Buried'
  BY <1>1, FilesRest
<1>3. HandoffsTypes' /\ Listing'
  BY <1>1 DEF HandoffsInv, HandoffsTypes, Listing
<1>4. Held' /\ Latest' /\ Dated'
  BY <1>1 DEF HandoffsInv, Held, Latest, Dated
<1>5. Told'
  <2>1. dispatched' \subseteq Filed \cup replaced
    BY <1>1 DEF HandoffsInv, Held, Told
  <2>2. \A v : Handled(v) => Handled(v)'
    BY <1>1 DEF Handled
  <2> QED
    BY <1>1, <1>2, <2>1, <2>2 DEF HandoffsInv, Told
<1>6. Reports'
  BY <1>1 DEF HandoffsInv, HandoffsTypes, Reports, Owed
<1> QED
  BY <1>2, <1>3, <1>4, <1>5, <1>6 DEF HandoffsInv

\* A file operation that fails leaves every file where it is.
LEMMA FileFailsStep ==
  ASSUME HandoffsInv, HandoffFileFails
  PROVE  HandoffsInv'
<1>1. /\ poll # "dispatching" /\ poll # "reporting"
      /\ \/ poll = "reading" /\ poll' = "discarding" /\ seen' = seen
         \/ poll' = "asleep" /\ seen' \subseteq seen
         \/ poll \in {"quarantining", "discarding"} /\ poll' = poll /\ seen' # {} /\ seen' \subseteq seen
      /\ UNCHANGED <<pending, written, audit, malformed, setAside, smothered, shadowed, replaced>>
      /\ UNCHANGED <<second, payload, dispatched, dropped, completion, completions, reported, turnedBack>>
  BY DEF HandoffFileFails, DealtWith, handoffFiles, records, kept, done, ending, HandoffsInv, HandoffsTypes
<1>2. Filed' = Filed /\ Accounted' /\ Buried'
  BY <1>1, FilesRest
<1>3. HandoffsTypes' /\ Listing'
  BY <1>1 DEF HandoffsInv, HandoffsTypes, Listing
<1>4. Held' /\ Latest' /\ Dated'
  BY <1>1 DEF HandoffsInv, Held, Latest, Dated
<1>5. Told'
  BY <1>1, <1>2 DEF HandoffsInv, Told, Handled
<1>6. Reports'
  BY <1>1 DEF HandoffsInv, Reports, Owed
<1> QED
  BY <1>2, <1>3, <1>4, <1>5, <1>6 DEF HandoffsInv

\* Completions: what is reported was written, or left in place by a move that failed.
LEMMA CompletionStep ==
  ASSUME HandoffsInv, WriteComplete \/ FileComplete \/ ReportComplete
  PROVE  HandoffsInv'
<1>1. /\ UNCHANGED <<pending, written, audit, malformed, setAside, smothered, shadowed, replaced>>
      /\ UNCHANGED <<second, seen, payload, dispatched, dropped, turnedBack>>
      /\ \/ poll' = poll
         \/ poll = "asleep" /\ poll' = "reporting"
         \/ poll = "reporting" /\ poll' = "asleep"
  BY DEF WriteComplete, FileComplete, ReportComplete, handoffFiles, records, kept, done
<1>2. Filed' = Filed /\ Accounted' /\ Buried'
  BY <1>1, FilesRest
<1>3. completions' \in Nat /\ reported' \in Nat /\ Reports'
  <2>1. completions \in Nat /\ reported \in Nat /\ Reports
    BY DEF HandoffsInv, HandoffsTypes
  <2>2. CASE WriteComplete
    <3>1. /\ completion = "absent" /\ completion' \in {"unreadable", "pending"}
          /\ completions' = completions + 1 /\ reported' = reported /\ poll' = poll
      BY <2>2 DEF WriteComplete
    <3>2. PICK a \in Nat, b \in Nat, r \in Nat, c \in Nat :
            a = Owed /\ b = Owed' /\ r = reported /\ c = completions
      BY <2>1 DEF Owed
    <3>3. b \in a .. a + 1
      BY <3>1, <3>2 DEF Owed
    <3>4. r + a <= c
      BY <2>1, <3>2 DEF Reports
    <3>5. r + b <= c + 1
      BY <3>3, <3>4
    <3>6. completions' = c + 1 /\ reported' = r
      BY <3>1, <3>2
    <3>7. reported' + b <= completions'
      BY <3>5, <3>6
    <3>8. reported' + Owed' <= completions'
      BY <3>2, <3>7
    <3> QED
      BY <3>6, <3>8 DEF Reports
  <2>3. CASE FileComplete
    <3>1. /\ poll = "asleep" /\ completion = "pending" /\ poll' = "reporting" /\ reported' = reported
          /\ \/ completion' = "filed" /\ completions' = completions
             \/ completion' = completion /\ completions' = completions + 1
      BY <2>3 DEF FileComplete
    <3>2. Owed = 1 /\ Owed' = IF completion' = "pending" THEN 2 ELSE 1
      BY <3>1 DEF Owed
    <3> HIDE DEF Owed
    <3> QED
      BY <2>1, <3>1, <3>2 DEF Reports
  <2>4. CASE ReportComplete
    <3>1. /\ poll = "reporting" /\ poll' = "asleep" /\ reported' = reported + 1
          /\ completion' = completion /\ completions' = completions
      BY <2>4 DEF ReportComplete
    <3>2. PICK a \in Nat, b \in Nat, r \in Nat, c \in Nat :
            a = Owed /\ b = Owed' /\ r = reported /\ c = completions
      BY <2>1 DEF Owed
    <3>3. a = b + 1
      BY <3>1, <3>2 DEF Owed
    <3>4. r + a <= c
      BY <2>1, <3>2 DEF Reports
    <3>5. r + 1 + b <= c
      BY <3>3, <3>4
    <3>6. completions' = c /\ reported' = r + 1
      BY <3>1, <3>2
    <3>7. reported' + b <= completions'
      BY <3>5, <3>6
    <3>8. reported' + Owed' <= completions'
      BY <3>2, <3>7
    <3> QED
      BY <3>6, <3>8 DEF Reports
  <2> QED
    BY <2>2, <2>3, <2>4
<1>4. HandoffsTypes' /\ Listing'
  BY <1>1, <1>3 DEF HandoffsInv, HandoffsTypes, Listing
<1>5. OnlyHalf' = OnlyHalf
  BY <1>1 DEF OnlyHalf
<1>6. Held' /\ Latest' /\ Dated'
  BY <1>1, <1>2, <1>5 DEF HandoffsInv, Held, Latest, Dated
<1>7. Told'
  BY <1>1, <1>2 DEF HandoffsInv, Told, Handled
<1> QED
  BY <1>2, <1>3, <1>4, <1>6, <1>7 DEF HandoffsInv

\* The audit directory tells what was dispatched, whoever writes, fails or dies between
\* two steps of the watcher.
THEOREM AuditIsTrue == HandoffsSpec => []AuditTellsWhatWasDispatched
<1>1. HandoffsInv /\ [HandoffsNext]_handoffVars => HandoffsInv'
  <2> SUFFICES ASSUME HandoffsInv, [HandoffsNext]_handoffVars
               PROVE  HandoffsInv'
    OBVIOUS
  <2>1. CASE UNCHANGED handoffVars
    <3>1. /\ UNCHANGED <<pending, written, audit, malformed, setAside, smothered, shadowed, replaced>>
          /\ UNCHANGED <<second, poll, seen, payload, turnedBack>>
          /\ UNCHANGED <<dispatched, dropped, completion, completions, reported>>
      BY <2>1 DEF handoffVars, handoffFiles, records, kept, done, ending
    <3>2. Filed' = Filed /\ Accounted' /\ Buried' /\ OnlyHalf' = OnlyHalf
      BY <3>1, FilesRest DEF OnlyHalf
    <3>3. HandoffsTypes' /\ Listing' /\ Held' /\ Told'
      BY <3>1, <3>2 DEF HandoffsInv, HandoffsTypes, Listing, Held, Told, Handled
    <3>4. Dated' /\ Latest' /\ Reports'
      BY <3>1, <3>2 DEF HandoffsInv, Dated, Latest, Reports, Owed
    <3> QED
      BY <3>2, <3>3, <3>4 DEF HandoffsInv
  <2> QED
    BY <2>1, WriteHandoffStep, MoveAwayStep, ClockStep, ListHandoffsStep, ReadFileStep,
       ArchiveFileStep, DispatchStep, FileFailsStep, CompletionStep DEF HandoffsNext
<1>2. HandoffsInv => AuditTellsWhatWasDispatched
  <2> SUFFICES ASSUME HandoffsInv
               PROVE  AuditTellsWhatWasDispatched
    OBVIOUS
  <2>1. dispatched \subseteq OnRecord \cup replaced \cup shadowed
    BY DEF HandoffsInv, Told, Filed
  <2>2. \A v \in OnRecord \cup shadowed :
          v \in dispatched \cup dropped \/ (poll = "dispatching" /\ v = payload)
            \/ \E w \in replaced : w < v /\ w \in dispatched \cup dropped \cup {payload}
    BY DEF HandoffsInv, Told, Filed, Handled
  <2>3. ASSUME poll = "dispatching", ~turnedBack, payload \notin replaced
        PROVE  LatestArchived(OnlyHalf) = payload
    <3>1. PICK h : h = OnlyHalf
      OBVIOUS
    <3> DEFINE at == {s \in 0 .. MaxSecond : audit[<<h, s>>] # 0}
    <3>2. PICK s \in 0 .. MaxSecond :
            /\ payload # 0 /\ audit[<<h, s>>] = payload
            /\ \A r \in 0 .. MaxSecond : audit[<<h, r>>] # 0 => r <= s
      BY <2>3, <3>1 DEF HandoffsInv, Latest, IsLatest
    <3>3. s \in at /\ \A r \in at : r <= s
      BY <3>2
    <3>4. (CHOOSE x \in at : \A r \in at : r <= x) = s
      <4>1. \A x \in at : (\A r \in at : r <= x) => x = s
        BY <3>3
      <4> HIDE DEF at
      <4> QED
        BY <3>3, <4>1
    <3> QED
      BY <3>1, <3>2, <3>3, <3>4 DEF LatestArchived
  <2>4. 1 .. written = ({pending[h] : h \in Half} \ {0}) \cup replaced \cup KeptAside \cup Smothered \cup OnRecord \cup shadowed
    BY DEF HandoffsInv, Accounted, Pendings, PutAway, Filed
  <2>5. reported <= completions
    <3>1. Owed \in Nat
      BY DEF Owed
    <3> HIDE DEF Owed
    <3> QED
      BY <3>1 DEF HandoffsInv, HandoffsTypes, Reports
  <2>6. \A e \in smothered :
          malformed[e[1]] > e[2] \/ (turnedBack /\ \E l \in setAside : l[1] = e[1] /\ l[2] > e[2])
    BY DEF HandoffsInv, Buried, Above
  <2> QED
    BY <2>1, <2>2, <2>3, <2>4, <2>5, <2>6 DEF AuditTellsWhatWasDispatched
<1> QED
  BY <1>1, <1>2, HandoffsInvInit, PTL DEF HandoffsSpec

-----------------------------------------------------------------------------
\* The memory store: fact files, the index beside them, and the working text.

Stages == {"idle", "write_file", "unlink", "read_index", "write_index", "clear"}

Call(ids) ==
  [stage : Stages, type : FactType, id : ids, content : Int,
   entries : [FactId -> FactType \cup {"none"}], last : {"return", "clear"}]

MemoryTypes ==
  /\ fact \in [FactType \X FactId -> Int] /\ index \in [FactId -> FactType \cup {"none"}]
  /\ working \in Nat /\ texts \in Nat /\ overlapped \in BOOLEAN
  /\ desk \in [Process -> Call(FactId \cup {NoCall.id})]
  /\ \A p \in Process : ~Free(p) => desk[p].id \in FactId

HasFile(type, id) == fact[<<type, id>>] # NoFact

\* An id that never had files of two types has a file of at most one.
OneFile ==
  \A id \in FactId \ twice : \A one, other \in FactType :
    HasFile(one, id) /\ HasFile(other, id) => one = other

\* At most one call is in progress.
Serial == \A p, q \in Process : p # q => Free(p) \/ Free(q)

Halfway(p) == desk[p].stage \in {"read_index", "write_index"}

\* What a call in progress may rely on: between file and index its file is as it left
\* it, the index it holds is the one on disk, and the text it consolidates is still the
\* working text, and in its fact file once that was written.
Relies(p) ==
  LET d == desk[p] IN
    /\ d.stage = "write_file" => d.content # NoFact
    /\ d.stage = "unlink" => d.content = NoFact /\ HasFile(d.type, d.id) /\ d.last = "return"
    /\ Halfway(p) =>
         /\ d.content # NoFact => fact[<<d.type, d.id>>] = d.content
         /\ d.id \notin twice => \A type \in FactType :
              HasFile(type, d.id) => type = d.type /\ d.content # NoFact
    /\ d.stage = "write_index" => d.entries = index
    /\ d.last = "clear" /\ d.stage \in {"write_file", "read_index", "write_index"} =>
         d.content = working
    /\ d.stage = "clear" => fact[<<d.type, d.id>>] = working

\* The index tells of the file of an id.
Tracked(id) ==
  /\ index[id] # "none" => HasFile(index[id], id)
  /\ id \notin twice => \A type \in FactType : HasFile(type, id) => type = index[id]

Unsettled(id) == id \in torn \/ \E p \in Process : Halfway(p) /\ desk[p].id = id

Kept == \A text \in 1 .. texts :
  \/ text = working \/ text \in superseded \/ text \in deleted
  \/ \E f \in FactType \X FactId : fact[f] = text

\* As long as calls do not overlap, each finds the store as it left it.
SerialInv ==
  /\ Serial /\ Kept
  /\ \A p \in Process : Relies(p)
  /\ \A id \in FactId : Unsettled(id) \/ Tracked(id)

MemoryInv == MemoryTypes /\ OneFile /\ (~overlapped => SerialInv)

\* read_fact finds a file if there is one.
LEMMA FirstTypeFound ==
  ASSUME NEW id \in FactId, Types(id) # {}
  PROVE  FirstType(id) \in FactType /\ HasFile(FirstType(id), id)
<1> DEFINE S == {i \in DOMAIN TypeOrder : TypeOrder[i] \in Types(id)}
<1>1. S \subseteq Nat /\ S # {}
  <2>1. DOMAIN TypeOrder \subseteq Nat
    BY MemoryAssumption
  <2>2. PICK type \in FactType : type \in Types(id)
    BY DEF Types
  <2>3. PICK i \in DOMAIN TypeOrder : type = TypeOrder[i]
    BY DEF FactType
  <2> QED
    BY <2>1, <2>2, <2>3
<1>2. PICK m \in S : \A n \in S : m <= n
  BY <1>1, LeastNatural
<1>3. \A j \in 1 .. m - 1 : TypeOrder[j] \notin Types(id)
  <2>1. m \in 1 .. Len(TypeOrder)
    BY MemoryAssumption
  <2> QED
    BY <1>2, <2>1, MemoryAssumption
<1>4. FirstType(id) \in Types(id)
  BY <1>2, <1>3 DEF FirstType
<1> QED
  BY <1>4 DEF Types, HasFile

\* A semantic fact is one the store knows, and an id without a file has no type.
LEMMA TypesOfFacts == "semantic" \in FactType /\ "none" \notin FactType
  BY MemoryAssumption DEF FactType

\* A free process is at the desk of no call.
LEMMA NoCallIsCall == NoCall \in Call(FactId \cup {NoCall.id}) /\ NoCall.stage = "idle"
<1>1. EmptyIndex \in [FactId -> FactType \cup {"none"}]
  BY DEF EmptyIndex
<1> QED
  BY <1>1, TypesOfFacts DEF NoCall, Call, Stages, OtherText

\* A call that begins when no other is in progress relies on what it has just seen.
LEMMA BeginCallStep ==
  ASSUME MemoryInv, NEW p \in Process, 
         NEW stage \in {"write_file", "unlink"}, NEW type \in FactType, NEW id \in FactId,
         NEW content \in Int, NEW last \in {"return", "clear"},
         Free(p), overlapped' = (overlapped \/ Busy(p)),
         desk' = [desk EXCEPT ![p] = [stage |-> stage, type |-> type, id |-> id,
                                      content |-> content, entries |-> EmptyIndex, last |-> last]],
         stage = "write_file" <=> content # NoFact, last = "clear" => content = working,
         stage = "unlink" => HasFile(type, id) /\ last = "return",
         UNCHANGED <<fact, index, working, texts, torn, twice, superseded, deleted>>
  PROVE  MemoryInv'
<1>1. /\ desk'[p] = [stage |-> stage, type |-> type, id |-> id,
                     content |-> content, entries |-> EmptyIndex, last |-> last]
      /\ \A q \in Process : q # p => desk'[q] = desk[q]
  BY DEF MemoryInv, MemoryTypes
<1>2. /\ desk'[p].stage = stage /\ desk'[p].type = type /\ desk'[p].id = id
      /\ desk'[p].content = content /\ desk'[p].last = last
  BY <1>1
<1>3. MemoryTypes'
  <2>1. stage \in Stages
    BY DEF Stages
  <2>2. EmptyIndex \in [FactId -> FactType \cup {"none"}]
    BY DEF EmptyIndex
  <2>3. desk'[p] \in Call(FactId \cup {NoCall.id})
    BY <1>1, <2>1, <2>2 DEF Call
  <2>4. ASSUME NEW q \in Process, ~Free(q)'
        PROVE  desk'[q].id \in FactId
    <3>1. q # p => ~Free(q) /\ desk'[q] = desk[q]
      BY <1>1, <2>4 DEF Free
    <3> QED
      BY <1>2, <3>1 DEF MemoryInv, MemoryTypes
  <2>5. overlapped' \in BOOLEAN
    OBVIOUS
  <2> QED
    BY <2>3, <2>4, <2>5 DEF MemoryInv, MemoryTypes
<1>4. OneFile'
  BY DEF MemoryInv, OneFile, HasFile
<1>5. ASSUME ~overlapped'
      PROVE  SerialInv'
  <2>1. ~overlapped /\ SerialInv /\ \A q \in Process \ {p} : Free(q)
    BY <1>5 DEF MemoryInv, Busy
  <2>2. \A q \in Process \ {p} : Free(q)'
    BY <1>1, <2>1 DEF Free
  <2>3. Serial'
    BY <2>2 DEF Serial
  <2>4. Relies(p)' /\ ~Halfway(p)'
    <3>1. CASE stage = "write_file"
      BY <1>2, <3>1 DEF Relies, Halfway, NoFact
    <3>2. CASE stage = "unlink"
      BY <1>2, <3>2 DEF Relies, Halfway, NoFact, HasFile
    <3> QED
      BY <3>1, <3>2
  <2>5. \A q \in Process : Relies(q)' /\ ~Halfway(q)'
    BY <2>2, <2>4 DEF Free, Relies, Halfway
  <2>6. ASSUME NEW x \in FactId
        PROVE  (Unsettled(x) \/ Tracked(x))'
    <3>1. Unsettled(x) \/ Tracked(x)
      BY <2>1 DEF SerialInv
    <3>2. \A q \in Process : ~Halfway(q)
      BY <2>1 DEF Free, Halfway
    <3> QED
      BY <3>1, <3>2 DEF Unsettled, Tracked, HasFile
  <2>7. Kept'
    BY <2>1 DEF SerialInv, Kept
  <2> QED
    BY <2>3, <2>5, <2>6, <2>7 DEF SerialInv
<1> QED
  BY <1>3, <1>4, <1>5 DEF MemoryInv

\* While one call is in progress the others are not, whatever it does.
LEMMA OthersWait ==
  ASSUME MemoryInv, ~overlapped, NEW p \in Process, ~Free(p),
         \A q \in Process : q # p => desk'[q] = desk[q]
  PROVE  /\ Serial'
         /\ \A q \in Process \ {p} : Free(q) /\ ~Halfway(q) /\ Relies(q)' /\ ~Halfway(q)'
<1>1. \A q \in Process \ {p} : Free(q) /\ desk'[q] = desk[q]
  BY DEF MemoryInv, SerialInv, Serial
<1> QED
  BY <1>1 DEF Serial, Free, Halfway, Relies

\* A call in progress is about an id.
LEMMA CallIs ==
  ASSUME MemoryInv, NEW p \in Process, ~Free(p)
  PROVE  desk[p] \in Call(FactId)
  BY DEF MemoryInv, MemoryTypes, Call, Free

\* What a step does to its own call, the others keep.
LEMMA DeskTypes ==
  ASSUME MemoryInv, NEW p \in Process, NEW d \in Call(FactId), desk' = [desk EXCEPT ![p] = d]
  PROVE  /\ desk'[p] = d /\ \A q \in Process : q # p => desk'[q] = desk[q]
         /\ desk' \in [Process -> Call(FactId \cup {NoCall.id})]
         /\ \A q \in Process : ~Free(q)' => desk'[q].id \in FactId
<1>1. desk'[p] = d /\ \A q \in Process : q # p => desk'[q] = desk[q]
  BY DEF MemoryInv, MemoryTypes
<1>2. d \in Call(FactId \cup {NoCall.id}) /\ d.id \in FactId
  BY DEF Call
<1> QED
  BY <1>1, <1>2 DEF MemoryInv, MemoryTypes, Free

\* A call that returns, or dies, relies on nothing any more.
LEMMA ReturnStep ==
  ASSUME MemoryInv, NEW p \in Process, desk' = [desk EXCEPT ![p] = NoCall]
  PROVE  /\ \A q \in Process : q # p => desk'[q] = desk[q]
         /\ desk' \in [Process -> Call(FactId \cup {NoCall.id})]
         /\ \A q \in Process : ~Free(q)' => desk'[q].id \in FactId
         /\ Free(p)' /\ Relies(p)' /\ ~Halfway(p)'
<1>1. desk'[p] = NoCall /\ \A q \in Process : q # p => desk'[q] = desk[q]
  BY DEF MemoryInv, MemoryTypes
<1>2. desk'[p].stage = "idle"
  BY <1>1, NoCallIsCall
<1>3. Free(p)' /\ Relies(p)' /\ ~Halfway(p)'
  BY <1>2 DEF Free, Relies, Halfway
<1> QED
  BY <1>1, <1>3, NoCallIsCall DEF MemoryInv, MemoryTypes, Free

\* A file that appears or goes leaves the others as they are.
LEMMA OneFactChanges ==
  ASSUME MemoryInv, NEW type \in FactType, NEW id \in FactId, NEW content \in Int,
         fact' = [fact EXCEPT ![<<type, id>>] = content]
  PROVE  /\ fact' \in [FactType \X FactId -> Int] /\ fact'[<<type, id>>] = content
         /\ \A other \in FactType, x \in FactId :
              other # type \/ x # id => fact'[<<other, x>>] = fact[<<other, x>>]
         /\ \A f \in FactType \X FactId : f = <<type, id>> \/ fact'[f] = fact[f]
  BY DEF MemoryInv, MemoryTypes

\* The file is on disk and the index not yet; a file that was written over counts as
\* deleted, and an id filed beside another type is remembered.
LEMMA WriteFactFileStep ==
  ASSUME MemoryInv, NEW p \in Process, WriteFactFile(p)
  PROVE  MemoryInv'
<1>1. ~Free(p)
  BY DEF WriteFactFile, Free
<1>2. PICK d \in Call(FactId) : d = desk[p]
  BY <1>1, CallIs
<1>3. /\ d.stage = "write_file"
      /\ fact' = [fact EXCEPT ![<<d.type, d.id>>] = d.content]
      /\ deleted' = deleted \cup {fact[<<d.type, d.id>>]}
      /\ twice' = IF Types(d.id) \ {d.type} # {} THEN twice \cup {d.id} ELSE twice
      /\ desk' = [desk EXCEPT ![p].stage = "read_index"]
      /\ UNCHANGED <<index, working, texts, overlapped, torn, superseded, deaths>>
  BY <1>2 DEF WriteFactFile, Goes
<1>4. PICK e \in Call(FactId) : e = [d EXCEPT !.stage = "read_index"]
  BY DEF Call, Stages
<1>5. desk' = [desk EXCEPT ![p] = e]
  BY <1>2, <1>3, <1>4 DEF MemoryInv, MemoryTypes
<1>6. desk'[p] = e /\ \A q \in Process : q # p => desk'[q] = desk[q]
  BY <1>5, DeskTypes
<1>7. /\ desk'[p].stage = "read_index" /\ desk'[p].type = d.type /\ desk'[p].id = d.id
      /\ desk'[p].content = d.content /\ desk'[p].last = d.last
  BY <1>4, <1>6 DEF Call
<1>8. d.type \in FactType /\ d.id \in FactId /\ d.content \in Int
  BY DEF Call
<1>9. /\ fact' \in [FactType \X FactId -> Int] /\ fact'[<<d.type, d.id>>] = d.content
      /\ \A type \in FactType, id \in FactId :
           type # d.type \/ id # d.id => fact'[<<type, id>>] = fact[<<type, id>>]
      /\ \A f \in FactType \X FactId : f = <<d.type, d.id>> \/ fact'[f] = fact[f]
  BY <1>3, <1>8, OneFactChanges
<1>10. MemoryTypes'
  <2>1. /\ desk' \in [Process -> Call(FactId \cup {NoCall.id})]
        /\ \A q \in Process : ~Free(q)' => desk'[q].id \in FactId
    BY <1>5, DeskTypes
  <2> QED
    BY <1>3, <1>9, <2>1 DEF MemoryInv, MemoryTypes
<1>11. d.id \notin twice' =>
        d.id \notin twice /\ \A type \in FactType : type # d.type => ~HasFile(type, d.id)
  BY <1>3 DEF Types, HasFile
<1>12. \A id \in FactId : id # d.id => (id \in twice' <=> id \in twice)
  BY <1>3
<1>13. OneFile'
  BY <1>9, <1>11, <1>12 DEF MemoryInv, OneFile, HasFile
<1>14. ASSUME ~overlapped'
       PROVE  SerialInv'
  <2>1. ~overlapped /\ SerialInv
    BY <1>3, <1>14 DEF MemoryInv
  <2>2. /\ Serial'
        /\ \A q \in Process \ {p} : Free(q) /\ ~Halfway(q) /\ Relies(q)' /\ ~Halfway(q)'
    BY <1>1, <1>6, <2>1, OthersWait
  <2>3. d.content # NoFact /\ (d.last = "clear" => d.content = working)
    BY <1>2, <1>3, <2>1 DEF SerialInv, Relies
  <2>4. Relies(p)'
    <3>1. d.id \notin twice' => \A type \in FactType : HasFile(type, d.id)' => type = d.type
      BY <1>9, <1>11, <1>8 DEF HasFile
    <3> QED
      BY <1>3, <1>7, <1>9, <2>3, <3>1 DEF Relies, Halfway
  <2>5. ASSUME NEW id \in FactId
        PROVE  (Unsettled(id) \/ Tracked(id))'
    <3>1. CASE id = d.id
      BY <1>7, <3>1 DEF Unsettled, Halfway
    <3>2. CASE id # d.id
      <4>1. ~Halfway(p) /\ desk'[p].id # id
        BY <1>2, <1>3, <1>7, <3>2 DEF Halfway
      <4>2. Unsettled(id) => Unsettled(id)'
        BY <1>3, <2>2, <4>1 DEF Unsettled
      <4>3. index[id] # "none" => index[id] \in FactType
        BY DEF MemoryInv, MemoryTypes
      <4>4. Tracked(id) => Tracked(id)'
        BY <1>3, <1>9, <1>12, <3>2, <4>3 DEF Tracked, HasFile
      <4> QED
        BY <2>1, <4>2, <4>4 DEF SerialInv
    <3> QED
      BY <3>1, <3>2
  <2>6. Kept'
    <3>1. Kept
      BY <2>1 DEF SerialInv
    <3> QED
      BY <1>3, <1>9, <3>1 DEF Kept
  <2>7. \A q \in Process : Relies(q)'
    BY <2>2, <2>4
  <2> QED
    BY <2>2, <2>5, <2>6, <2>7 DEF SerialInv
<1> QED
  BY <1>10, <1>13, <1>14 DEF MemoryInv

\* The file is gone and the index not yet: an id that never had two files has none now.
LEMMA UnlinkStep ==
  ASSUME MemoryInv, NEW p \in Process, Unlink(p)
  PROVE  MemoryInv'
<1>1. ~Free(p)
  BY DEF Unlink, Free
<1>2. PICK d \in Call(FactId) : d = desk[p]
  BY <1>1, CallIs
<1>3. /\ d.stage = "unlink"
      /\ fact' = [fact EXCEPT ![<<d.type, d.id>>] = NoFact]
      /\ deleted' = deleted \cup {fact[<<d.type, d.id>>]}
      /\ desk' = [desk EXCEPT ![p].stage = "read_index"]
      /\ UNCHANGED <<index, working, texts, overlapped, torn, twice, superseded, deaths>>
  BY <1>2 DEF Unlink, Goes
<1>4. PICK e \in Call(FactId) : e = [d EXCEPT !.stage = "read_index"]
  BY DEF Call, Stages
<1>5. desk' = [desk EXCEPT ![p] = e]
  BY <1>2, <1>3, <1>4 DEF MemoryInv, MemoryTypes
<1>6. /\ desk'[p] = e /\ \A q \in Process : q # p => desk'[q] = desk[q]
      /\ desk' \in [Process -> Call(FactId \cup {NoCall.id})]
      /\ \A q \in Process : ~Free(q)' => desk'[q].id \in FactId
  BY <1>5, DeskTypes
<1>7. /\ desk'[p].stage = "read_index" /\ desk'[p].type = d.type /\ desk'[p].id = d.id
      /\ desk'[p].content = d.content /\ desk'[p].last = d.last
  BY <1>4, <1>6 DEF Call
<1>8. d.type \in FactType /\ d.id \in FactId /\ NoFact \in Int
  BY DEF Call, NoFact
<1>9. /\ fact' \in [FactType \X FactId -> Int] /\ fact'[<<d.type, d.id>>] = NoFact
      /\ \A type \in FactType, id \in FactId :
           type # d.type \/ id # d.id => fact'[<<type, id>>] = fact[<<type, id>>]
      /\ \A f \in FactType \X FactId : f = <<d.type, d.id>> \/ fact'[f] = fact[f]
  BY <1>3, <1>8, OneFactChanges
<1>10. MemoryTypes'
  BY <1>3, <1>6, <1>9 DEF MemoryInv, MemoryTypes
<1>11. OneFile'
  <2>1. \A type \in FactType, id \in FactId : HasFile(type, id)' => HasFile(type, id)
    BY <1>9 DEF HasFile
  <2> QED
    BY <1>3, <2>1 DEF MemoryInv, OneFile
<1>12. ASSUME ~overlapped'
       PROVE  SerialInv'
  <2>1. ~overlapped /\ SerialInv
    BY <1>3, <1>12 DEF MemoryInv
  <2>2. /\ Serial'
        /\ \A q \in Process \ {p} : Free(q) /\ ~Halfway(q) /\ Relies(q)' /\ ~Halfway(q)'
    BY <1>1, <1>6, <2>1, OthersWait
  <2>3. d.content = NoFact /\ HasFile(d.type, d.id)
    BY <1>2, <1>3, <2>1 DEF SerialInv, Relies
  <2>4. Relies(p)'
    <3>1. d.id \notin twice => \A type \in FactType : ~HasFile(type, d.id)'
      <4>1. d.id \notin twice => \A type \in FactType : HasFile(type, d.id) => type = d.type
        BY <1>8, <2>3 DEF MemoryInv, OneFile
      <4> QED
        BY <1>8, <1>9, <4>1 DEF HasFile
    <3>2. d.last # "clear"
      BY <1>2, <1>3, <2>1 DEF SerialInv, Relies
    <3> QED
      BY <1>3, <1>7, <1>9, <2>3, <3>1, <3>2 DEF Relies, Halfway
  <2>5. ASSUME NEW id \in FactId
        PROVE  (Unsettled(id) \/ Tracked(id))'
    <3>1. CASE id = d.id
      BY <1>7, <3>1 DEF Unsettled, Halfway
    <3>2. CASE id # d.id
      <4>1. ~Halfway(p)
        BY <1>2, <1>3 DEF Halfway
      <4>2. Unsettled(id) => Unsettled(id)'
        BY <1>3, <2>2, <4>1 DEF Unsettled
      <4>3. index[id] # "none" => index[id] \in FactType
        BY DEF MemoryInv, MemoryTypes
      <4>4. Tracked(id) => Tracked(id)'
        BY <1>3, <1>9, <3>2, <4>3 DEF Tracked, HasFile
      <4> QED
        BY <2>1, <4>2, <4>4 DEF SerialInv
    <3> QED
      BY <3>1, <3>2
  <2>6. Kept'
    <3>1. Kept
      BY <2>1 DEF SerialInv
    <3> QED
      BY <1>3, <1>9, <3>1 DEF Kept
  <2>7. \A q \in Process : Relies(q)'
    BY <2>2, <2>4
  <2> QED
    BY <2>2, <2>5, <2>6, <2>7 DEF SerialInv
<1> QED
  BY <1>10, <1>11, <1>12 DEF MemoryInv

\* What was read is the index, as long as nobody else writes it.
LEMMA ReadIndexStep ==
  ASSUME MemoryInv, NEW p \in Process, ReadIndex(p)
  PROVE  MemoryInv'
<1>1. ~Free(p)
  BY DEF ReadIndex, Free
<1>2. PICK d \in Call(FactId) : d = desk[p]
  BY <1>1, CallIs
<1>3. /\ d.stage = "read_index"
      /\ desk' = [desk EXCEPT ![p].stage = "write_index", ![p].entries = index]
      /\ UNCHANGED <<fact, index, working, texts, overlapped, torn, twice, superseded, deleted>>
  BY <1>2 DEF ReadIndex, histories
<1>4. PICK e \in Call(FactId) : e = [d EXCEPT !.stage = "write_index", !.entries = index]
  BY DEF Call, Stages, MemoryInv, MemoryTypes
<1>5. desk' = [desk EXCEPT ![p] = e]
  BY <1>2, <1>3, <1>4 DEF MemoryInv, MemoryTypes
<1>6. /\ desk'[p] = e /\ \A q \in Process : q # p => desk'[q] = desk[q]
      /\ desk' \in [Process -> Call(FactId \cup {NoCall.id})]
      /\ \A q \in Process : ~Free(q)' => desk'[q].id \in FactId
  BY <1>5, DeskTypes
<1>7. /\ desk'[p].stage = "write_index" /\ desk'[p].type = d.type /\ desk'[p].id = d.id
      /\ desk'[p].content = d.content /\ desk'[p].last = d.last /\ desk'[p].entries = index
  BY <1>4, <1>6 DEF Call
<1>8. MemoryTypes' /\ OneFile'
  BY <1>3, <1>6 DEF MemoryInv, MemoryTypes, OneFile, HasFile
<1>9. ASSUME ~overlapped'
      PROVE  SerialInv'
  <2>1. ~overlapped /\ SerialInv
    BY <1>3, <1>9 DEF MemoryInv
  <2>2. /\ Serial'
        /\ \A q \in Process \ {p} : Free(q) /\ ~Halfway(q) /\ Relies(q)' /\ ~Halfway(q)'
    BY <1>1, <1>6, <2>1, OthersWait
  <2>3. Relies(p)'
    <3>1. /\ d.content # NoFact => fact[<<d.type, d.id>>] = d.content
          /\ d.id \notin twice => \A type \in FactType :
               HasFile(type, d.id) => type = d.type /\ d.content # NoFact
          /\ d.last = "clear" => d.content = working
      BY <1>2, <1>3, <2>1 DEF SerialInv, Relies, Halfway
    <3>2. \A type \in FactType : HasFile(type, d.id)' <=> HasFile(type, d.id)
      BY <1>3 DEF HasFile
    <3>3. desk'[p].entries = index'
      BY <1>3, <1>7
    <3>4. /\ desk'[p].content # NoFact => fact'[<<desk'[p].type, desk'[p].id>>] = desk'[p].content
          /\ desk'[p].last = "clear" => desk'[p].content = working'
      BY <1>3, <1>7, <3>1
    <3>5. desk'[p].id \notin twice' => \A type \in FactType :
            HasFile(type, d.id)' => type = desk'[p].type /\ desk'[p].content # NoFact
      BY <1>3, <1>7, <3>1, <3>2
    <3>6. desk'[p].stage = "write_index" /\ desk'[p].id = d.id
      BY <1>7
    <3> QED
      BY <3>3, <3>4, <3>5, <3>6 DEF Relies, Halfway, HasFile
  <2>4. ASSUME NEW id \in FactId
        PROVE  (Unsettled(id) \/ Tracked(id))'
    <3>1. Unsettled(id) => Unsettled(id)'
      BY <1>2, <1>3, <1>7, <2>2 DEF Unsettled, Halfway
    <3>2. Tracked(id) => Tracked(id)'
      BY <1>3 DEF Tracked, HasFile
    <3> QED
      BY <2>1, <3>1, <3>2 DEF SerialInv
  <2>5. Kept'
    BY <1>3, <2>1 DEF SerialInv, Kept
  <2> QED
    BY <2>2, <2>3, <2>4, <2>5 DEF SerialInv
<1> QED
  BY <1>8, <1>9 DEF MemoryInv

\* The id of the call is settled, and the index knows of its file.
LEMMA WriteIndexStep ==
  ASSUME MemoryInv, NEW p \in Process, WriteIndex(p)
  PROVE  MemoryInv'
<1>1. ~Free(p)
  BY DEF WriteIndex, Free
<1>2. PICK d \in Call(FactId) : d = desk[p]
  BY <1>1, CallIs
<1>3. /\ d.stage = "write_index"
      /\ index' = [d.entries EXCEPT ![d.id] = IF d.content = NoFact THEN "none" ELSE d.type]
      /\ torn' = torn \ {d.id}
      /\ IF d.last = "clear" THEN Goes(p, "clear") ELSE Returns(p)
      /\ UNCHANGED <<fact, working, texts, overlapped, twice, superseded, deleted>>
  BY <1>2 DEF WriteIndex
<1>4. /\ d.type \in FactType /\ d.id \in FactId /\ d.content \in Int
      /\ d.entries \in [FactId -> FactType \cup {"none"}]
  BY DEF Call
<1>5. PICK e \in Call(FactId \cup {NoCall.id}) : e = IF d.last = "clear" THEN [d EXCEPT !.stage = "clear"] ELSE NoCall
  <2>1. [d EXCEPT !.stage = "clear"] \in Call(FactId \cup {NoCall.id})
    BY DEF Call, Stages
  <2>2. NoCall \in Call(FactId \cup {NoCall.id})
    BY NoCallIsCall
  <2> QED
    BY <2>1, <2>2
<1>6. desk' = [desk EXCEPT ![p] = e]
  BY <1>2, <1>3, <1>5 DEF MemoryInv, MemoryTypes, Goes, Returns
<1>7. /\ desk'[p] = e /\ \A q \in Process : q # p => desk'[q] = desk[q]
      /\ desk' \in [Process -> Call(FactId \cup {NoCall.id})]
  BY <1>6 DEF MemoryInv, MemoryTypes
<1>8. IF d.last = "clear"
        THEN /\ desk'[p].stage = "clear" /\ desk'[p].type = d.type /\ desk'[p].id = d.id
             /\ desk'[p].last = "clear"
        ELSE desk'[p].stage = "idle"
  BY <1>5, <1>7 DEF Call, NoCall
<1>9. \A q \in Process : ~Free(q)' => desk'[q].id \in FactId
  BY <1>4, <1>7, <1>8 DEF MemoryInv, MemoryTypes, Free
<1>10. index' \in [FactId -> FactType \cup {"none"}]
  <2>1. (IF d.content = NoFact THEN "none" ELSE d.type) \in FactType \cup {"none"}
    BY <1>4
  <2> QED
    BY <1>3, <1>4, <2>1
<1>11. MemoryTypes' /\ OneFile'
  <2>1. MemoryTypes'
    BY <1>3, <1>7, <1>9, <1>10 DEF MemoryInv, MemoryTypes
  <2>2. OneFile'
    BY <1>3 DEF MemoryInv, OneFile, HasFile
  <2> QED
    BY <2>1, <2>2
<1>12. ASSUME ~overlapped'
       PROVE  SerialInv'
  <2>1. ~overlapped /\ SerialInv /\ Relies(p)
    BY <1>3, <1>12 DEF MemoryInv, SerialInv
  <2>2. /\ Serial'
        /\ \A q \in Process \ {p} : Free(q) /\ ~Halfway(q) /\ Relies(q)' /\ ~Halfway(q)'
    BY <1>1, <1>7, <2>1, OthersWait
  <2>3. /\ d.content # NoFact => fact[<<d.type, d.id>>] = d.content
        /\ d.id \notin twice => \A type \in FactType :
             HasFile(type, d.id) => type = d.type /\ d.content # NoFact
        /\ d.entries = index
        /\ d.last = "clear" => d.content = working
    BY <1>2, <1>3, <2>1 DEF Relies, Halfway
  <2>4. Relies(p)' /\ ~Halfway(p)'
    <3>1. d.last = "clear" => fact[<<d.type, d.id>>] = working
      BY <2>3 DEF MemoryInv, MemoryTypes, NoFact
    <3> QED
      BY <1>3, <1>8, <3>1 DEF Relies, Halfway
  <2>5. ASSUME NEW id \in FactId
        PROVE  (Unsettled(id) \/ Tracked(id))'
    <3>1. CASE id = d.id
      <4>1. index'[id] = IF d.content = NoFact THEN "none" ELSE d.type
        BY <1>3, <1>4, <3>1
      <4> QED
        BY <1>3, <1>4, <2>3, <3>1, <4>1, TypesOfFacts DEF Tracked, HasFile
    <3>2. CASE id # d.id
      <4>1. index'[id] = index[id]
        BY <1>3, <1>4, <2>3, <3>2
      <4>2. Unsettled(id) => Unsettled(id)'
        BY <1>2, <1>3, <2>2, <3>2 DEF Unsettled
      <4>3. Tracked(id) => Tracked(id)'
        BY <1>3, <4>1 DEF Tracked, HasFile
      <4> QED
        BY <2>1, <4>2, <4>3 DEF SerialInv
    <3> QED
      BY <3>1, <3>2
  <2>6. Kept'
    BY <1>3, <2>1 DEF SerialInv, Kept
  <2>7. \A q \in Process : Relies(q)'
    BY <2>2, <2>4
  <2> QED
    BY <2>2, <2>5, <2>6, <2>7 DEF SerialInv
<1> QED
  BY <1>11, <1>12 DEF MemoryInv

\* The working text is emptied after it is in a fact file.
LEMMA ClearWorkingStep ==
  ASSUME MemoryInv, NEW p \in Process, ClearWorking(p)
  PROVE  MemoryInv'
<1>1. ~Free(p)
  BY DEF ClearWorking, Free
<1>2. PICK d \in Call(FactId) : d = desk[p]
  BY <1>1, CallIs
<1>3. /\ d.stage = "clear" /\ working' = 0
      /\ desk' = [desk EXCEPT ![p] = NoCall]
      /\ UNCHANGED <<fact, index, texts, overlapped, torn, twice, superseded, deleted>>
  BY <1>2 DEF ClearWorking, Returns, histories
<1>4. MemoryTypes' /\ OneFile' /\ \A q \in Process : q # p => desk'[q] = desk[q]
  BY <1>3, ReturnStep DEF MemoryInv, MemoryTypes, OneFile, HasFile
<1>5. ASSUME ~overlapped'
      PROVE  SerialInv'
  <2>1. ~overlapped /\ SerialInv
    BY <1>3, <1>5 DEF MemoryInv
  <2>2. /\ Serial'
        /\ \A q \in Process \ {p} : Free(q) /\ ~Halfway(q) /\ Relies(q)' /\ ~Halfway(q)'
    BY <1>1, <1>4, <2>1, OthersWait
  <2>3. Relies(p)' /\ ~Halfway(p)'
    BY <1>3, ReturnStep
  <2>4. fact[<<d.type, d.id>>] = working /\ <<d.type, d.id>> \in FactType \X FactId
    <3>1. d.type \in FactType /\ d.id \in FactId
      BY DEF Call
    <3>2. fact[<<d.type, d.id>>] = working
      BY <1>2, <1>3, <2>1 DEF SerialInv, Relies
    <3> QED
      BY <3>1, <3>2
  <2>5. Kept'
    <3>1. Kept
      BY <2>1 DEF SerialInv
    <3> QED
      BY <1>3, <2>4, <3>1 DEF Kept
  <2>6. ASSUME NEW id \in FactId
        PROVE  (Unsettled(id) \/ Tracked(id))'
    <3>1. ~Halfway(p)
      BY <1>2, <1>3 DEF Halfway
    <3>2. Unsettled(id) => Unsettled(id)'
      BY <1>3, <2>2, <3>1 DEF Unsettled
    <3>3. Tracked(id) => Tracked(id)'
      BY <1>3 DEF Tracked, HasFile
    <3> QED
      BY <2>1, <3>2, <3>3 DEF SerialInv
  <2>7. \A q \in Process : Relies(q)'
    BY <2>2, <2>3
  <2> QED
    BY <2>2, <2>5, <2>6, <2>7 DEF SerialInv
<1> QED
  BY <1>4, <1>5 DEF MemoryInv

\* Whoever dies between file and index leaves an id that counts as torn.
LEMMA DieInCallStep ==
  ASSUME MemoryInv, NEW p \in Process, DieInCall(p)
  PROVE  MemoryInv'
<1>1. /\ ~Free(p)
      /\ torn' = IF Halfway(p) THEN torn \cup {desk[p].id} ELSE torn
      /\ desk' = [desk EXCEPT ![p] = NoCall]
      /\ UNCHANGED <<fact, index, working, texts, overlapped, twice, superseded, deleted>>
  BY DEF DieInCall, Returns, Halfway
<1>2. MemoryTypes' /\ OneFile' /\ \A q \in Process : q # p => desk'[q] = desk[q]
  BY <1>1, ReturnStep DEF MemoryInv, MemoryTypes, OneFile, HasFile
<1>3. ASSUME ~overlapped'
      PROVE  SerialInv'
  <2>1. ~overlapped /\ SerialInv
    BY <1>1, <1>3 DEF MemoryInv
  <2>2. /\ Serial'
        /\ \A q \in Process \ {p} : Free(q) /\ ~Halfway(q) /\ Relies(q)' /\ ~Halfway(q)'
    BY <1>1, <1>2, <2>1, OthersWait
  <2>3. Relies(p)' /\ ~Halfway(p)'
    BY <1>1, ReturnStep
  <2>4. Kept'
    BY <1>1, <2>1 DEF SerialInv, Kept
  <2>5. ASSUME NEW id \in FactId
        PROVE  (Unsettled(id) \/ Tracked(id))'
    <3>1. Unsettled(id) => Unsettled(id)'
      BY <1>1, <2>2 DEF Unsettled
    <3>2. Tracked(id) => Tracked(id)'
      BY <1>1 DEF Tracked, HasFile
    <3> QED
      BY <2>1, <3>1, <3>2 DEF SerialInv
  <2>6. \A q \in Process : Relies(q)'
    BY <2>2, <2>3
  <2> QED
    BY <2>2, <2>4, <2>5, <2>6 DEF SerialInv
<1> QED
  BY <1>2, <1>3 DEF MemoryInv

\* A caller that sets or clears the working text replaces it.
LEMMA SetWorkingStep ==
  ASSUME MemoryInv, NEW p \in Process, SetWorking(p)
  PROVE  MemoryInv'
<1>1. PICK text \in {0, texts + 1} :
        /\ Free(p) /\ working' = text /\ texts' = IF text = 0 THEN texts ELSE text
        /\ superseded' = superseded \cup {working}
        /\ overlapped' = (overlapped \/ Busy(p))
        /\ UNCHANGED <<fact, index, desk, torn, twice, deleted>>
  BY DEF SetWorking
<1>2. working' \in Nat /\ texts' \in Nat /\ texts \in Nat
  BY <1>1 DEF MemoryInv, MemoryTypes
<1>3. overlapped' \in BOOLEAN
  BY <1>1
<1>4. MemoryTypes'
  BY <1>1, <1>2, <1>3 DEF MemoryInv, MemoryTypes, Free
<1>5. OneFile'
  BY <1>1 DEF MemoryInv, OneFile, HasFile
<1>6. ASSUME ~overlapped'
      PROVE  SerialInv'
  <2>1. ~overlapped /\ SerialInv /\ \A q \in Process : Free(q)
    BY <1>1, <1>6 DEF MemoryInv, Busy
  <2>2. \A q \in Process : Free(q)' /\ Relies(q)' /\ ~Halfway(q)'
    BY <1>1, <2>1 DEF Free, Relies, Halfway
  <2>3. Serial'
    BY <2>2 DEF Serial
  <2>4. Kept'
    <3>1. Kept
      BY <2>1 DEF SerialInv
    <3>2. ASSUME NEW x \in 1 .. texts'
          PROVE  x = working' \/ x \in 1 .. texts
      BY <1>1, <1>2
    <3> QED
      BY <1>1, <3>1, <3>2 DEF Kept
  <2>5. \A id \in FactId : (Unsettled(id) \/ Tracked(id))'
    BY <1>1, <2>1 DEF SerialInv, Unsettled, Tracked, HasFile, Halfway
  <2> QED
    BY <2>2, <2>3, <2>4, <2>5 DEF SerialInv
<1> QED
  BY <1>4, <1>5, <1>6 DEF MemoryInv

\* The store begins empty, and no call is in progress.
LEMMA MemoryInvInit == MemoryInit => MemoryInv
<1> SUFFICES ASSUME MemoryInit PROVE MemoryInv
  OBVIOUS
<1>1. /\ fact = [f \in FactType \X FactId |-> NoFact] /\ index = EmptyIndex
      /\ working = 0 /\ texts = 0 /\ overlapped = FALSE
      /\ desk = [p \in Process |-> NoCall]
  BY DEF MemoryInit
<1>2. \A p \in Process : desk[p] = NoCall /\ Free(p) /\ Relies(p)
  BY <1>1, NoCallIsCall DEF Free, Relies, Halfway
<1>3. desk \in [Process -> Call(FactId \cup {NoCall.id})]
  BY <1>1, NoCallIsCall
<1>4. fact \in [FactType \X FactId -> Int] /\ index \in [FactId -> FactType \cup {"none"}]
  BY <1>1 DEF NoFact, EmptyIndex
<1>5. MemoryTypes
  BY <1>1, <1>2, <1>3, <1>4 DEF MemoryTypes
<1>6. \A id \in FactId, type \in FactType : ~HasFile(type, id)
  BY <1>1 DEF HasFile
<1>7. OneFile
  BY <1>6 DEF OneFile
<1>8. Serial
  BY <1>2 DEF Serial
<1>9. \A id \in FactId : Tracked(id)
  BY <1>1, <1>6 DEF Tracked, EmptyIndex
<1>10. Kept
  <2>1. 1 .. texts = {}
    BY <1>1
  <2> QED
    BY <2>1 DEF Kept
<1> QED
  BY <1>2, <1>5, <1>7, <1>8, <1>9, <1>10 DEF MemoryInv, SerialInv

\* Every step of a call, a crash and every new text keep the invariant.
LEMMA MemoryInvStep == MemoryInv /\ [MemoryNext]_memoryVars => MemoryInv'
<1> SUFFICES ASSUME MemoryInv, [MemoryNext]_memoryVars
             PROVE  MemoryInv'
  OBVIOUS
<1>1. ASSUME NEW p \in Process, NEW id \in UserFact, NEW type \in FactType, BeginWrite(p, type, id)
      PROVE  MemoryInv'
  <2>1. id \in FactId /\ OtherText \in Int /\ OtherText # NoFact
    BY DEF FactId, OtherText, NoFact
  <2> QED
    BY <1>1, <2>1, BeginCallStep DEF BeginWrite, Begins
<1>2. ASSUME NEW p \in Process, NEW id \in FactId, BeginDelete(p, id)
      PROVE  MemoryInv'
  <2>1. /\ FirstType(id) \in FactType /\ HasFile(FirstType(id), id)
        /\ Begins(p, "unlink", FirstType(id), id, NoFact, "return")
        /\ UNCHANGED <<fact, index, working, texts, torn, twice, superseded, deleted>>
    BY <1>2, FirstTypeFound DEF BeginDelete
  <2>2. PICK type \in FactType : type = FirstType(id)
    BY <2>1
  <2>3. NoFact \in Int
    BY DEF NoFact
  <2> QED
    BY <2>1, <2>2, <2>3, BeginCallStep DEF Begins
<1>3. ASSUME NEW p \in Process, BeginConsolidate(p)
      PROVE  MemoryInv'
  <2>1. PICK id \in FreshFact :
          /\ Begins(p, "write_file", "semantic", id, working, "clear")
          /\ UNCHANGED <<fact, index, working, texts, torn, twice, superseded, deleted>>
    BY <1>3 DEF BeginConsolidate
  <2>2. PICK text \in Nat : text = working
    BY DEF MemoryInv, MemoryTypes
  <2>3. id \in FactId /\ "semantic" \in FactType /\ text \in Int /\ text # NoFact
    BY TypesOfFacts DEF FactId, NoFact
  <2> QED
    BY <2>1, <2>2, <2>3, BeginCallStep DEF Begins
<1>4. ASSUME NEW p \in Process,
             \/ SetWorking(p) \/ WriteFactFile(p) \/ Unlink(p) \/ ReadIndex(p)
             \/ WriteIndex(p) \/ ClearWorking(p) \/ DieInCall(p)
      PROVE  MemoryInv'
  BY <1>4, SetWorkingStep, WriteFactFileStep, UnlinkStep, ReadIndexStep, WriteIndexStep,
     ClearWorkingStep, DieInCallStep
<1>5. CASE UNCHANGED memoryVars
  <2>1. MemoryTypes' /\ OneFile'
    BY <1>5 DEF memoryVars, MemoryInv, MemoryTypes, OneFile, HasFile, Free
  <2>2. \A p \in Process : Relies(p) => Relies(p)'
    BY <1>5 DEF memoryVars, Relies, Halfway, HasFile
  <2>3. \A id \in FactId : (Unsettled(id) => Unsettled(id)') /\ (Tracked(id) => Tracked(id)')
    BY <1>5 DEF memoryVars, Unsettled, Tracked, Halfway, HasFile
  <2>4. (Serial => Serial') /\ (Kept => Kept')
    BY <1>5 DEF memoryVars, Serial, Kept, Free
  <2>5. SerialInv => SerialInv'
    BY <2>2, <2>3, <2>4 DEF SerialInv
  <2> QED
    BY <1>5, <2>1, <2>5 DEF memoryVars, MemoryInv
<1> QED
  BY <1>1, <1>2, <1>3, <1>4, <1>5 DEF MemoryNext

\* As long as calls do not overlap, the index tells of a fact file if there is one, and
\* only then, for every id whose last call came to its end; wherever processes die.
THEOREM IndexIsTrue == MemorySpec => []IndexTracksFiles
<1>1. MemoryInv => IndexTracksFiles
  <2> SUFFICES ASSUME MemoryInv, ~overlapped, NEW id \in FactId \ torn, ~InProgress(id)
               PROVE  /\ index[id] # "none" => index[id] \in Types(id)
                      /\ id \notin twice => Types(id) \subseteq {index[id]}
    BY DEF IndexTracksFiles
  <2>1. Tracked(id)
    BY DEF MemoryInv, SerialInv, Unsettled, Halfway, InProgress
  <2>2. index[id] \in FactType \cup {"none"}
    BY DEF MemoryInv, MemoryTypes
  <2> QED
    BY <2>1, <2>2 DEF Tracked, HasFile, Types
<1> QED
  BY <1>1, MemoryInvInit, MemoryInvStep, PTL DEF MemorySpec

\* As long as calls do not overlap, no working text is lost that nobody replaced, cleared
\* or deleted, wherever a consolidation dies.
THEOREM NoTextIsLost == MemorySpec => []WorkingTextSurvives
<1>1. MemoryInv => WorkingTextSurvives
  <2> SUFFICES ASSUME MemoryInv, ~overlapped, NEW text \in 1 .. texts
               PROVE  text \in {working} \cup superseded \cup deleted \cup {fact[f] : f \in DOMAIN fact}
    BY DEF WorkingTextSurvives
  <2>1. DOMAIN fact = FactType \X FactId
    BY DEF MemoryInv, MemoryTypes
  <2>2. \/ text = working \/ text \in superseded \/ text \in deleted
        \/ \E f \in FactType \X FactId : fact[f] = text
    BY DEF MemoryInv, SerialInv, Kept
  <2> QED
    BY <2>1, <2>2
<1> QED
  BY <1>1, MemoryInvInit, MemoryInvStep, PTL DEF MemorySpec

-----------------------------------------------------------------------------
\* Sessions and their parents: the task a planner is given, and the walk to the root.

\* A session that is made and on disk has its task in SESSION.md, and what the
\* planner was given tells when it read.
Briefed ==
  \A s \in Session :
    /\ making[s] = "done" /\ disk[s] = "record" => brief[s] \in {"task", "context and task"}
    /\ given[s] = "no task" => s \in early

MakingStage == {"nothing", "record", "task", "task text", "context", "context text", "done", "dead"}

BriefTypes ==
  /\ disk \in [Session -> {"nothing", "directory", "record"}]
  /\ brief \in [Session -> {"absent", "torn", "task", "context and task"}]
  /\ making \in [Session -> MakingStage]
  /\ given \in [Session -> {"nothing yet", "the task", "no task"}]
  /\ over \in [Session -> BOOLEAN]

BriefInv == BriefTypes /\ Briefed

\* Putting the parent's context in front of the task keeps the task: a planner goes
\* without only if it read before the session was made.
THEOREM PlannersGetTheirTask == LineageSpec => []TaskReachesPlanner
<1>1. LineageInit => BriefInv
  <2>1. LineageInit => BriefTypes
    <3> SUFFICES ASSUME LineageInit PROVE BriefTypes
      OBVIOUS
    <3>1. disk \in [Session -> {"nothing", "directory", "record"}]
      BY DEF LineageInit
    <3>2. brief \in [Session -> {"absent", "torn", "task", "context and task"}]
      BY DEF LineageInit
    <3>3. making \in [Session -> MakingStage]
      BY DEF LineageInit, MakingStage
    <3>4. given \in [Session -> {"nothing yet", "the task", "no task"}]
      BY DEF LineageInit
    <3>5. over \in [Session -> BOOLEAN]
      BY DEF LineageInit
    <3> QED
      BY <3>1, <3>2, <3>3, <3>4, <3>5 DEF BriefTypes
  <2>2. LineageInit => Briefed
    BY DEF LineageInit, Briefed
  <2> QED
    BY <2>1, <2>2 DEF BriefInv
<1>2. BriefInv /\ [LineageNext]_lineageVars => BriefInv'
  <2> SUFFICES ASSUME BriefInv, [LineageNext]_lineageVars
               PROVE  BriefInv'
    OBVIOUS
  <2> USE DEF BriefInv, BriefTypes, Briefed, MakingStage
  <2>1. ASSUME NEW s \in Session, NEW parent \in Session \cup {NoSession}, Begin(s, parent)
        PROVE  BriefInv'
    BY <2>1 DEF Begin
  <2>2. ASSUME NEW s \in Session, WriteRecord(s)
        PROVE  BriefInv'
    BY <2>2 DEF WriteRecord, Writes
  <2>3. ASSUME NEW s \in Session, OpenBrief(s)
        PROVE  BriefInv'
    BY <2>3 DEF OpenBrief, Writes
  <2>4. ASSUME NEW s \in Session, FillBrief(s)
        PROVE  BriefInv'
    BY <2>4 DEF FillBrief, Writes
  <2>5. ASSUME NEW s \in Session, MakerDies(s)
        PROVE  BriefInv'
    BY <2>5 DEF MakerDies
  <2>6. ASSUME NEW s \in Session, PlanSession(s)
        PROVE  BriefInv'
    BY <2>6 DEF PlanSession
  <2>7. ASSUME NEW s \in Session, EndSession(s)
        PROVE  BriefInv'
    BY <2>7 DEF EndSession
  <2>8. ASSUME NEW s \in Session, ArchiveSession(s)
        PROVE  BriefInv'
    BY <2>8 DEF ArchiveSession
  <2>9. CASE UNCHANGED <<disk, over, brief, making, given, early>>
    BY <2>9
  <2> QED
    BY <2>1, <2>2, <2>3, <2>4, <2>5, <2>6, <2>7, <2>8, <2>9
       DEF LineageNext, lineageVars, StartWalk, WalkStep, ReadFails
<1>3. BriefInv => TaskReachesPlanner
  BY DEF BriefInv, Briefed, TaskReachesPlanner
<1> QED
  BY <1>1, <1>2, <1>3, PTL DEF LineageSpec

-----------------------------------------------------------------------------
\* Ancestors.

\* The sessions that have, or had, a record.
Known == {s \in Session : disk[s] = "record"} \cup archived

LineageTypes ==
  /\ disk \in [Session -> {"nothing", "directory", "record"}]
  /\ link \in [Session -> Session \cup {NoSession}] /\ making \in [Session -> MakingStage]
  /\ births \in Nat /\ archived \subseteq Session /\ reused \in BOOLEAN
  /\ linked \subseteq Session \X (Session \cup {NoSession})
  /\ walker \in Session \cup {NoSession} /\ ahead \in Session \cup {NoSession}
  /\ chain \in Seq(Session)
  /\ ended \in {"not begun", "not yet", "origin", "cycle", "gone", "raised"}

\* Links lead from known sessions to known ones.
Links ==
  /\ \A l \in linked : l[1] \in Known /\ l[2] \in Known \cup {NoSession}
  /\ \A s \in Session : /\ making[s] = "record" => disk[s] = "directory"
                        /\ disk[s] = "record" => <<s, link[s]>> \in linked
                        /\ link[s] \in Known \cup {NoSession}

\* The walk has been at known sessions only, and what it comes to next is what the
\* last of them is linked to.
Last == IF chain = <<>> THEN walker ELSE chain[Len(chain)]

Walked ==
  /\ ended = "not begun" => walker = NoSession /\ chain = <<>>
  /\ ended # "not begun" => walker \in Known
  /\ walker = NoSession => ended = "not begun"
  /\ \A i \in DOMAIN chain : chain[i] \in Known
  /\ ended = "not yet" /\ ahead # NoSession => <<Last, ahead>> \in linked
  /\ ended = "gone" => archived # {} \/ ahead \in unread
  /\ ended = "raised" => ahead \in unread

Steps ==
  \A i \in DOMAIN chain :
    /\ chain[i] # walker
    /\ \A j \in 1 .. i - 1 : chain[j] # chain[i]
    /\ <<IF i = 1 THEN walker ELSE chain[i - 1], chain[i]>> \in linked

\* A rank of the sessions by age: a session is younger than what it was resumed
\* from, and what the walk comes to is older than all it has been at.
Ranks(f) ==
  /\ \A s \in Session : f[s] <= births
  /\ \A l \in linked : l[2] # NoSession => f[l[2]] < f[l[1]]
  /\ \A s \in Session : disk[s] = "directory" /\ link[s] # NoSession => f[link[s]] < f[s]
  /\ ended = "not yet" /\ ahead # NoSession =>
       f[ahead] < f[walker] /\ \A i \in DOMAIN chain : f[ahead] < f[chain[i]]

\* As long as no archived id was used again, sessions can be ranked; so no walk
\* comes back to where it has been.
Ranked ==
  /\ ~reused => \E f \in [Session -> Nat] : Ranks(f)
  /\ ended = "cycle" => reused

LineageInv == LineageTypes /\ Links /\ Walked /\ Steps /\ Ranked

\* A session that is made may get a rank above every other.
LEMMA Youngest ==
  ASSUME NEW f \in [Session -> Nat], NEW s \in Session, NEW n \in Nat
  PROVE  \E g \in [Session -> Nat] :
           g[s] = n + 1 /\ \A x \in Session : x # s => g[x] = f[x]
<1>1. [f EXCEPT ![s] = n + 1] \in [Session -> Nat]
  OBVIOUS
<1> QED
  BY <1>1

\* A session without a record has no rank yet that matters: as the youngest it fits
\* above the one it is resumed from.
LEMMA BeginRanks ==
  ASSUME LineageInv, NEW s \in Session, NEW parent \in Session \cup {NoSession},
         Begin(s, parent), ~reused'
  PROVE  \E g \in [Session -> Nat] : Ranks(g)'
<1>1. /\ births' = births + 1
      /\ disk[s] = "nothing" /\ (parent # NoSession => disk[parent] = "record")
      /\ disk' = [disk EXCEPT ![s] = "directory"]
      /\ link' = [link EXCEPT ![s] = parent]
      /\ UNCHANGED <<linked, walker, ahead, chain, ended>>
      /\ ~reused /\ s \notin archived
  BY DEF Begin, IdIsFree, walkVars
<1>2. s \notin Known
  BY <1>1 DEF Known
<1>3. PICK f \in [Session -> Nat] : Ranks(f)
  BY <1>1 DEF LineageInv, Ranked
<1>4. PICK n \in Nat : n = births
  BY DEF LineageInv, LineageTypes
<1>5. PICK g \in [Session -> Nat] : g[s] = n + 1 /\ \A x \in Session : x # s => g[x] = f[x]
  BY <1>3, <1>4, Youngest
<1>6. ASSUME NEW x \in Session
      PROVE  g[x] <= births'
  <2>1. f[x] \in Nat /\ f[x] <= n
    BY <1>3, <1>4 DEF Ranks
  <2>2. births' = n + 1
    BY <1>1, <1>4
  <2>3. x # s => g[x] = f[x]
    BY <1>5
  <2> QED
    BY <1>5, <2>1, <2>2, <2>3
<1>7. ASSUME NEW l \in linked, l[2] # NoSession
      PROVE  g[l[2]] < g[l[1]]
  <2>1. l[1] \in Session /\ l[2] \in Session
    BY <1>7 DEF LineageInv, LineageTypes
  <2>2. l[1] # s /\ l[2] # s
    BY <1>2, <1>7 DEF LineageInv, Links
  <2> QED
    BY <1>3, <1>5, <1>7, <2>1, <2>2 DEF Ranks
<1>8. ASSUME NEW x \in Session, disk'[x] = "directory", link'[x] # NoSession
      PROVE  g[link'[x]] < g[x]
  <2>1. CASE x = s
    <3>1. link'[x] = parent /\ parent \in Session /\ parent # s
      BY <1>1, <1>8, <2>1 DEF LineageInv, LineageTypes
    <3>2. f[parent] <= n
      BY <1>3, <1>4, <3>1 DEF Ranks
    <3>3. g[parent] = f[parent] /\ g[s] = n + 1 /\ f[parent] \in Nat
      BY <1>5, <3>1
    <3> QED
      BY <2>1, <3>1, <3>2, <3>3
  <2>2. CASE x # s
    <3>1. link'[x] = link[x] /\ disk[x] = "directory" /\ link[x] \in Session
      BY <1>1, <1>8, <2>2 DEF LineageInv, LineageTypes
    <3>2. link[x] # s
      BY <1>2, <1>8, <3>1 DEF LineageInv, Links
    <3>3. f[link[x]] < f[x]
      BY <1>3, <1>8, <3>1 DEF Ranks
    <3> QED
      BY <1>5, <2>2, <3>1, <3>2, <3>3
  <2> QED
    BY <2>1, <2>2
<1>9. ASSUME ended = "not yet", ahead # NoSession
      PROVE  g[ahead] < g[walker] /\ \A i \in DOMAIN chain : g[ahead] < g[chain[i]]
  <2>1. ahead \in Session /\ ahead \in Known
    BY <1>9 DEF LineageInv, LineageTypes, Links, Walked
  <2>2. walker \in Session /\ walker \in Known
    BY <1>9, LineageAssumption DEF LineageInv, LineageTypes, Walked, Known
  <2>3. \A i \in DOMAIN chain : chain[i] \in Session /\ chain[i] \in Known
    BY DEF LineageInv, LineageTypes, Walked, Known
  <2>4. ahead # s /\ walker # s /\ \A i \in DOMAIN chain : chain[i] # s
    BY <1>2, <2>1, <2>2, <2>3
  <2>5. f[ahead] < f[walker] /\ \A i \in DOMAIN chain : f[ahead] < f[chain[i]]
    BY <1>3, <1>9 DEF Ranks
  <2> QED
    BY <1>5, <2>1, <2>2, <2>3, <2>4, <2>5
<1> QED
  BY <1>1, <1>6, <1>7, <1>8, <1>9 DEF Ranks

\* Making a directory keeps what is known, and every walk.
LEMMA BeginSessionStep ==
  ASSUME LineageInv, NEW s \in Session, NEW parent \in Session \cup {NoSession},
         Begin(s, parent)
  PROVE  LineageInv'
<1>1. /\ births' = births + 1
      /\ disk[s] = "nothing" /\ (parent # NoSession => disk[parent] = "record")
      /\ disk' = [disk EXCEPT ![s] = "directory"]
      /\ link' = [link EXCEPT ![s] = parent]
      /\ making' = [making EXCEPT ![s] = "record"]
      /\ reused' = (reused \/ s \in archived)
      /\ UNCHANGED <<archived, linked, walker, ahead, chain, ended, unread>>
  BY DEF Begin, IdIsFree, walkVars
<1>2. LineageTypes'
  <2>1. births' \in Nat
    <3>1. births \in Nat
      BY DEF LineageInv, LineageTypes
    <3>2. births' = births + 1
      BY <1>1
    <3> QED
      BY <3>1, <3>2
  <2>2. making' \in [Session -> MakingStage]
    BY <1>1 DEF LineageInv, LineageTypes, MakingStage
  <2>3. /\ disk' \in [Session -> {"nothing", "directory", "record"}]
        /\ link' \in [Session -> Session \cup {NoSession}]
    BY <1>1 DEF LineageInv, LineageTypes
  <2>4. reused' \in BOOLEAN
    BY <1>1 DEF LineageInv, LineageTypes
  <2> QED
    BY <1>1, <2>1, <2>2, <2>3, <2>4 DEF LineageInv, LineageTypes
<1>3. Known' = Known
  <2>1. \A x \in Session : disk'[x] = "record" <=> disk[x] = "record"
    BY <1>1 DEF LineageInv, LineageTypes
  <2> QED
    BY <1>1, <2>1 DEF Known
<1>4. Links'
  <2>1. parent \in Known \cup {NoSession}
    BY <1>1 DEF Known
  <2>2. ASSUME NEW x \in Session
        PROVE  /\ making'[x] = "record" => disk'[x] = "directory"
               /\ disk'[x] = "record" => <<x, link'[x]>> \in linked
               /\ link'[x] \in Known \cup {NoSession}
    <3>1. CASE x = s
      BY <1>1, <2>1, <3>1 DEF LineageInv, LineageTypes
    <3>2. CASE x # s
      <4>1. making'[x] = "record" => making[x] = "record"
        BY <1>1, <3>2
      <4> QED
        BY <1>1, <3>2, <4>1 DEF LineageInv, LineageTypes, Links
    <3> QED
      BY <3>1, <3>2
  <2>3. \A l \in linked : l[1] \in Known /\ l[2] \in Known \cup {NoSession}
    BY DEF LineageInv, Links
  <2> QED
    BY <1>1, <1>3, <2>2, <2>3 DEF Links
<1>5. Walked' /\ Steps'
  BY <1>1, <1>3 DEF LineageInv, Walked, Steps, Last
<1>6. Ranked'
  BY <1>1, BeginRanks DEF LineageInv, Ranked
<1> QED
  BY <1>2, <1>4, <1>5, <1>6 DEF LineageInv

\* With its record a session becomes known, and its link one that was read from it.
LEMMA WriteRecordStep ==
  ASSUME LineageInv, NEW s \in Session, WriteRecord(s)
  PROVE  LineageInv'
<1>1. /\ making[s] = "record" /\ making' = [making EXCEPT ![s] = "task"]
      /\ disk' = [disk EXCEPT ![s] = "record"]
      /\ linked' = linked \cup {<<s, link[s]>>}
      /\ UNCHANGED <<births, link, archived, reused, walker, ahead, chain, ended, unread>>
  BY DEF WriteRecord, Writes, walkVars, origins
<1>2. disk[s] = "directory" /\ link[s] \in Known \cup {NoSession}
  BY <1>1 DEF LineageInv, Links
<1>3. LineageTypes'
  <2>1. linked' \subseteq Session \X (Session \cup {NoSession})
    <3>1. link[s] \in Session \cup {NoSession}
      BY DEF LineageInv, LineageTypes
    <3>2. <<s, link[s]>> \in Session \X (Session \cup {NoSession})
      BY <3>1
    <3>3. linked \subseteq Session \X (Session \cup {NoSession})
      BY DEF LineageInv, LineageTypes
    <3> QED
      BY <1>1, <3>2, <3>3
  <2> QED
    BY <1>1, <2>1 DEF LineageInv, LineageTypes, MakingStage
<1>4. s \in Known' /\ Known \subseteq Known'
  <2>1. \A x \in Session : disk[x] = "record" => disk'[x] = "record"
    BY <1>1 DEF LineageInv, LineageTypes
  <2>2. disk'[s] = "record"
    BY <1>1 DEF LineageInv, LineageTypes
  <2> QED
    BY <1>1, <2>1, <2>2 DEF Known
<1>5. Links'
  <2>1. \A l \in linked' : l[1] \in Known' /\ l[2] \in Known' \cup {NoSession}
    BY <1>1, <1>2, <1>4 DEF LineageInv, Links
  <2>2. ASSUME NEW x \in Session
        PROVE  /\ making'[x] = "record" => disk'[x] = "directory"
               /\ disk'[x] = "record" => <<x, link'[x]>> \in linked'
               /\ link'[x] \in Known' \cup {NoSession}
    <3>1. CASE x = s
      <4>1. making'[x] # "record"
        BY <1>1, <3>1 DEF LineageInv, LineageTypes
      <4>2. <<x, link'[x]>> \in linked' /\ link'[x] \in Known' \cup {NoSession}
        BY <1>1, <1>2, <1>4, <3>1
      <4> QED
        BY <4>1, <4>2
    <3>2. CASE x # s
      <4>1. making'[x] = "record" => making[x] = "record"
        BY <1>1, <3>2
      <4> QED
        BY <1>1, <1>4, <3>2, <4>1 DEF LineageInv, LineageTypes, Links
    <3> QED
      BY <3>1, <3>2
  <2> QED
    BY <2>1, <2>2 DEF Links
<1>6. Walked' /\ Steps'
  <2>1. linked \subseteq linked'
    BY <1>1
  <2> QED
    BY <1>1, <1>4, <2>1 DEF LineageInv, Walked, Steps, Last
<1>7. ASSUME NEW f \in [Session -> Nat], Ranks(f)
      PROVE  Ranks(f)'
  <2>1. ASSUME NEW l \in linked', l[2] # NoSession
        PROVE  f[l[2]] < f[l[1]]
    <3>1. CASE l \in linked
      BY <1>7, <2>1, <3>1 DEF Ranks
    <3>2. CASE l = <<s, link[s]>>
      <4>1. l[1] = s /\ l[2] = link[s]
        BY <3>2
      <4>2. link[s] # NoSession => f[link[s]] < f[s]
        BY <1>2, <1>7 DEF Ranks
      <4> QED
        BY <2>1, <4>1, <4>2
    <3> QED
      BY <1>1, <3>1, <3>2
  <2>2. \A x \in Session : disk'[x] = "directory" => disk[x] = "directory"
    BY <1>1 DEF LineageInv, LineageTypes
  <2> QED
    BY <1>1, <1>7, <2>1, <2>2 DEF Ranks
<1>8. Ranked'
  BY <1>1, <1>7 DEF LineageInv, Ranked
<1> QED
  BY <1>3, <1>5, <1>6, <1>8 DEF LineageInv

\* Archiving keeps a session known.
LEMMA ArchiveSessionStep ==
  ASSUME LineageInv, NEW s \in Session, ArchiveSession(s)
  PROVE  LineageInv'
<1>1. /\ disk[s] = "record" /\ disk' = [disk EXCEPT ![s] = "nothing"]
      /\ link' = [link EXCEPT ![s] = NoSession]
      /\ archived' = archived \cup {s}
      /\ UNCHANGED <<making, births, linked, reused, walker, ahead, chain, ended, unread>>
  BY DEF ArchiveSession, walkVars
<1>2. LineageTypes'
  BY <1>1 DEF LineageInv, LineageTypes
<1>3. Known' = Known
  <2>1. \A x \in Session : x # s => (disk'[x] = "record" <=> disk[x] = "record")
    BY <1>1 DEF LineageInv, LineageTypes
  <2> QED
    BY <1>1, <2>1 DEF Known
<1>4. Links'
  <2>1. ASSUME NEW x \in Session
        PROVE  /\ making'[x] = "record" => disk'[x] = "directory"
               /\ disk'[x] = "record" => <<x, link'[x]>> \in linked
               /\ link'[x] \in Known \cup {NoSession}
    <3>1. CASE x = s
      BY <1>1, <3>1 DEF LineageInv, LineageTypes, Links
    <3>2. CASE x # s
      BY <1>1, <3>2 DEF LineageInv, LineageTypes, Links
    <3> QED
      BY <3>1, <3>2
  <2>2. \A l \in linked : l[1] \in Known /\ l[2] \in Known \cup {NoSession}
    BY DEF LineageInv, Links
  <2> QED
    BY <1>1, <1>3, <2>1, <2>2 DEF Links
<1>5. Walked' /\ Steps'
  BY <1>1, <1>3 DEF LineageInv, Walked, Steps, Last
<1>6. ASSUME NEW f \in [Session -> Nat], Ranks(f)
      PROVE  Ranks(f)'
  <2>1. ASSUME NEW x \in Session, disk'[x] = "directory", link'[x] # NoSession
        PROVE  f[link'[x]] < f[x]
    <3>1. x # s
      BY <1>1, <2>1 DEF LineageInv, LineageTypes
    <3> QED
      BY <1>1, <1>6, <2>1, <3>1 DEF LineageInv, LineageTypes, Ranks
  <2> QED
    BY <1>1, <1>6, <2>1 DEF Ranks
<1>7. Ranked'
  BY <1>1, <1>6 DEF LineageInv, Ranked
<1> QED
  BY <1>2, <1>4, <1>5, <1>7 DEF LineageInv

\* A walk begins at a session that is known.
LEMMA StartWalkStep ==
  ASSUME LineageInv, NEW s \in Session, StartWalk(s)
  PROVE  LineageInv'
<1>1. /\ walker = NoSession /\ disk[s] = "record"
      /\ walker' = s /\ ahead' = link[s] /\ ended' = "not yet"
      /\ UNCHANGED <<disk, making, births, linked, link, archived, reused, chain, unread>>
  BY DEF StartWalk, origins
<1>2. /\ chain = <<>> /\ <<s, link[s]>> \in linked /\ s \in Known
  BY <1>1 DEF LineageInv, Links, Walked, Known
<1>3. LineageTypes'
  BY <1>1 DEF LineageInv, LineageTypes
<1>4. Known' = Known
  BY <1>1 DEF Known
<1>5. Links'
  BY <1>1, <1>4 DEF LineageInv, Links
<1>6. Walked' /\ Steps'
  <2>1. DOMAIN chain = {}
    BY <1>2
  <2>2. Last' = s
    BY <1>1, <1>2 DEF Last
  <2> QED
    BY <1>1, <1>2, <1>4, <2>1, <2>2, LineageAssumption DEF Walked, Steps
<1>7. ASSUME NEW f \in [Session -> Nat], Ranks(f)
      PROVE  Ranks(f)'
  <2>1. link[s] # NoSession => f[link[s]] < f[s]
    BY <1>2, <1>7 DEF Ranks
  <2>2. DOMAIN chain = {}
    BY <1>2
  <2> QED
    BY <1>1, <1>7, <2>1, <2>2 DEF Ranks
<1>8. Ranked'
  BY <1>1, <1>7 DEF LineageInv, Ranked
<1> QED
  BY <1>3, <1>5, <1>6, <1>8 DEF LineageInv

\* A step of a walk comes to an older session, so never to one it has been at.
LEMMA WalkStepStep ==
  ASSUME LineageInv, WalkStep
  PROVE  LineageInv'
<1>1. /\ ended = "not yet"
      /\ UNCHANGED <<disk, making, births, linked, link, archived, reused, walker, unread>>
  BY DEF WalkStep, origins
<1>2. Known' = Known
  BY <1>1 DEF Known
<1>3. Links'
  BY <1>1, <1>2 DEF LineageInv, Links
<1>4. CASE Meets = "an ancestor"
  <2>1. chain' = Append(chain, ahead) /\ ahead' = link[ahead] /\ ended' = ended
    BY <1>4 DEF WalkStep
  <2>2. /\ ahead # NoSession /\ ahead \in Session /\ disk[ahead] = "record"
        /\ ahead # walker /\ \A i \in DOMAIN chain : chain[i] # ahead
    BY <1>4 DEF LineageInv, LineageTypes, Meets, Found
  <2>3. chain \in Seq(Session) /\ <<ahead, link[ahead]>> \in linked /\ ahead \in Known
    BY <2>2 DEF LineageInv, LineageTypes, Links, Known
  <2>4. PICK n \in Nat : n = Len(chain)
    BY <2>3
  <2>5. /\ Len(chain') = n + 1 /\ DOMAIN chain' = 1 .. n + 1 /\ DOMAIN chain = 1 .. n
        /\ chain'[n + 1] = ahead /\ \A i \in 1 .. n : chain'[i] = chain[i]
        /\ chain' \in Seq(Session) /\ chain' # <<>>
    BY <2>1, <2>2, <2>3, <2>4
  <2>6. Last = IF n = 0 THEN walker ELSE chain[n]
    BY <2>3, <2>4 DEF Last
  <2>7. Last' = ahead
    BY <2>5 DEF Last
  <2>8. LineageTypes'
    <3>1. link[ahead] \in Session \cup {NoSession}
      BY <2>2 DEF LineageInv, LineageTypes
    <3> QED
      BY <1>1, <2>1, <2>5, <3>1 DEF LineageInv, LineageTypes
  <2>9. Walked'
    <3>1. ASSUME NEW i \in DOMAIN chain'
          PROVE  chain'[i] \in Known
      <4>1. i = n + 1 \/ i \in 1 .. n
        BY <2>4, <2>5
      <4>2. i \in 1 .. n => chain'[i] = chain[i] /\ chain[i] \in Known
        BY <2>5 DEF LineageInv, Walked
      <4> QED
        BY <2>3, <2>5, <4>1, <4>2
    <3> QED
      BY <1>1, <1>2, <2>1, <2>3, <2>7, <3>1 DEF LineageInv, Walked
  <2>10. Steps'
    <3>1. <<Last, ahead>> \in linked
      BY <1>1, <2>2 DEF LineageInv, Walked
    <3>2. ASSUME NEW i \in DOMAIN chain'
          PROVE  /\ chain'[i] # walker
                 /\ \A j \in 1 .. i - 1 : chain'[j] # chain'[i]
                 /\ <<IF i = 1 THEN walker ELSE chain'[i - 1], chain'[i]>> \in linked
      <4>1. CASE i = n + 1
        <5>1. \A j \in 1 .. i - 1 : chain'[j] # chain'[i]
          BY <2>2, <2>5, <4>1
        <5>2. (IF i = 1 THEN walker ELSE chain'[i - 1]) = Last
          BY <2>4, <2>5, <2>6, <4>1
        <5> QED
          BY <2>2, <2>5, <3>1, <4>1, <5>1, <5>2
      <4>2. CASE i \in 1 .. n
        <5>1. /\ chain[i] # walker
              /\ \A j \in 1 .. i - 1 : chain[j] # chain[i]
              /\ <<IF i = 1 THEN walker ELSE chain[i - 1], chain[i]>> \in linked
          BY <2>5, <4>2 DEF LineageInv, Steps
        <5>2. \A j \in 1 .. i - 1 : chain'[j] = chain[j]
          BY <2>4, <2>5, <4>2
        <5>3. i # 1 => chain'[i - 1] = chain[i - 1]
          BY <2>4, <2>5, <4>2
        <5> QED
          BY <2>5, <4>2, <5>1, <5>2, <5>3
      <4> QED
        BY <2>4, <2>5, <4>1, <4>2
    <3> QED
      BY <1>1, <3>2 DEF Steps
  <2>11. ASSUME NEW f \in [Session -> Nat], Ranks(f)
         PROVE  Ranks(f)'
    <3>1. ASSUME link[ahead] # NoSession
          PROVE  /\ f[link[ahead]] < f[walker]
                 /\ \A i \in DOMAIN chain' : f[link[ahead]] < f[chain'[i]]
      <4>1. f[link[ahead]] < f[ahead]
        BY <2>3, <2>11, <3>1 DEF Ranks
      <4>2. f[ahead] < f[walker] /\ \A i \in DOMAIN chain : f[ahead] < f[chain[i]]
        BY <1>1, <2>2, <2>11 DEF Ranks
      <4>3. /\ f[link[ahead]] \in Nat /\ f[ahead] \in Nat /\ f[walker] \in Nat
            /\ \A i \in DOMAIN chain : f[chain[i]] \in Nat
        BY <1>1, <2>2, <3>1, LineageAssumption DEF LineageInv, LineageTypes, Walked, Known
      <4>4. f[link[ahead]] < f[walker]
        BY <4>1, <4>2, <4>3
      <4>5. ASSUME NEW i \in DOMAIN chain'
            PROVE  f[link[ahead]] < f[chain'[i]]
        <5>1. i = n + 1 \/ i \in 1 .. n
          BY <2>4, <2>5
        <5>2. CASE i = n + 1
          BY <2>5, <4>1, <5>2
        <5>3. CASE i \in 1 .. n
          <6>1. chain'[i] = chain[i] /\ i \in DOMAIN chain
            BY <2>5, <5>3
          <6> QED
            BY <4>1, <4>2, <4>3, <6>1
        <5> QED
          BY <5>1, <5>2, <5>3
      <4> QED
        BY <4>4, <4>5
    <3> QED
      BY <1>1, <2>1, <2>11, <3>1 DEF Ranks
  <2>12. Ranked'
    BY <1>1, <2>1, <2>11 DEF LineageInv, Ranked
  <2> QED
    BY <1>3, <2>8, <2>9, <2>10, <2>12 DEF LineageInv
<1>5. CASE Meets # "an ancestor"
  <2>1. ended' = Meets /\ ahead' = ahead /\ chain' = chain
    BY <1>5 DEF WalkStep
  <2>2. \/ Meets = "origin"
        \/ /\ Meets = "cycle"
           /\ ahead # NoSession /\ ahead \in Found \cup {walker}
        \/ /\ Meets = "gone"
           /\ ahead # NoSession /\ disk[ahead] # "record"
    <3>1. CASE ahead = NoSession
      <4>1. ahead # walker
        BY <1>1, <3>1, LineageAssumption DEF LineageInv, LineageTypes, Walked, Known
      <4>2. ahead \notin Found
        <5>1. \A i \in DOMAIN chain : chain[i] \in Session
          BY DEF LineageInv, LineageTypes, Walked, Known
        <5>2. \A i \in DOMAIN chain : chain[i] # ahead
          BY <3>1, <5>1, LineageAssumption
        <5> QED
          BY <5>2 DEF Found
      <4> QED
        BY <3>1, <4>1, <4>2 DEF Meets
    <3>2. CASE ahead # NoSession /\ ahead \in Found \cup {walker}
      <4>1. Meets = IF disk[ahead] = "record" THEN "cycle" ELSE "gone"
        BY <3>2 DEF Meets
      <4> QED
        BY <3>2, <4>1
    <3>3. CASE ahead # NoSession /\ ahead \notin Found \cup {walker}
      <4>1. Meets = IF disk[ahead] = "record" THEN "an ancestor" ELSE "gone"
        BY <3>3 DEF Meets
      <4> QED
        BY <1>5, <3>3, <4>1
    <3> QED
      BY <3>1, <3>2, <3>3
  <2>3. Meets = "cycle" => ahead # NoSession /\ ahead \in Found \cup {walker}
    BY <2>2
  <2>4. Meets = "gone" => ahead # NoSession /\ disk[ahead] # "record"
    BY <2>2
  <2>5. LineageTypes'
    BY <1>1, <2>1, <2>2 DEF LineageInv, LineageTypes
  <2>6. Meets = "gone" => archived # {}
    BY <1>1, <2>4 DEF LineageInv, Links, Walked, Known
  <2>7. Walked' /\ Steps'
    BY <1>1, <1>2, <2>1, <2>2, <2>6 DEF LineageInv, Walked, Steps, Last
  <2>8. Meets = "cycle" => reused
    <3> SUFFICES ASSUME Meets = "cycle", ~reused
                 PROVE  FALSE
      OBVIOUS
    <3>1. PICK f \in [Session -> Nat] : Ranks(f)
      BY DEF LineageInv, Ranked
    <3>2. f[ahead] < f[walker] /\ \A i \in DOMAIN chain : f[ahead] < f[chain[i]]
      BY <1>1, <2>3, <3>1 DEF Ranks
    <3>3. ahead \in Session /\ f[ahead] \in Nat
      BY <2>3, <3>1 DEF LineageInv, LineageTypes
    <3>4. ahead = walker \/ \E i \in DOMAIN chain : chain[i] = ahead
      BY <2>3 DEF Found
    <3> QED
      BY <3>2, <3>3, <3>4
  <2>9. ASSUME NEW f \in [Session -> Nat], Ranks(f)
        PROVE  Ranks(f)'
    BY <1>1, <2>1, <2>2, <2>9 DEF Ranks
  <2>10. Ranked'
    BY <1>1, <2>1, <2>8, <2>9 DEF LineageInv, Ranked
  <2> QED
    BY <1>3, <2>5, <2>7, <2>10 DEF LineageInv
<1> QED
  BY <1>4, <1>5

\* A record that cannot be read ends the walk where it is.
LEMMA ReadFailsStep ==
  ASSUME LineageInv, ReadFails
  PROVE  LineageInv'
<1>1. /\ ended = "not yet" /\ ended' \in {"gone", "raised"} /\ ahead \in unread'
      /\ UNCHANGED <<disk, making, births, linked, link, archived, reused, walker, ahead, chain>>
  BY DEF ReadFails, origins
<1>2. Known' = Known
  BY <1>1 DEF Known
<1>3. LineageTypes' /\ Links'
  BY <1>1, <1>2 DEF LineageInv, LineageTypes, Links
<1>4. Walked' /\ Steps'
  BY <1>1, <1>2 DEF LineageInv, Walked, Steps, Last
<1>5. Ranked'
  BY <1>1 DEF LineageInv, Ranked, Ranks
<1> QED
  BY <1>3, <1>4, <1>5 DEF LineageInv

\* The steps that write SESSION.md, plan or end a session leave the links alone.
LEMMA BriefStep ==
  ASSUME LineageInv, making' \in [Session -> MakingStage],
         \A s \in Session : making'[s] = "record" => making[s] = "record",
         UNCHANGED <<disk, births, linked, link, archived, reused>>, UNCHANGED walkVars
  PROVE  LineageInv'
<1>1. Known' = Known
  BY DEF Known
<1>2. LineageTypes' /\ Links'
  BY <1>1 DEF LineageInv, LineageTypes, Links, walkVars
<1>3. Walked' /\ Steps'
  BY <1>1 DEF LineageInv, Walked, Steps, Last, walkVars
<1>4. Ranked'
  BY DEF LineageInv, Ranked, Ranks, walkVars
<1> QED
  BY <1>2, <1>3, <1>4 DEF LineageInv

\* A walk up the ancestors finds each once, along links the records have had; it meets
\* a cycle only where an archived id was used again, and stops short of the origin only
\* where a session was archived or at the record it could not read, however sessions are
\* made, archived and walked at the same time.
THEOREM AncestorsAreFoundOnce == LineageSpec => []AncestorsOnce
<1>1. LineageInit => LineageInv
  <2> SUFFICES ASSUME LineageInit PROVE LineageInv
    OBVIOUS
  <2>1. LineageTypes
    <3>1. /\ disk \in [Session -> {"nothing", "directory", "record"}]
          /\ link \in [Session -> Session \cup {NoSession}]
          /\ making \in [Session -> MakingStage]
      BY DEF LineageInit, MakingStage
    <3>2. /\ births \in Nat /\ archived \subseteq Session /\ reused \in BOOLEAN
          /\ linked \subseteq Session \X (Session \cup {NoSession})
      BY DEF LineageInit
    <3>3. /\ walker \in Session \cup {NoSession} /\ ahead \in Session \cup {NoSession}
          /\ ended \in {"not begun", "not yet", "origin", "cycle", "gone", "raised"}
      BY DEF LineageInit
    <3>4. chain \in Seq(Session)
      <4>1. chain = <<>>
        BY DEF LineageInit
      <4> QED
        BY <4>1
    <3> QED
      BY <3>1, <3>2, <3>3, <3>4 DEF LineageTypes
  <2>2. Links
    BY DEF LineageInit, Links
  <2>3. Walked /\ Steps
    <3>1. chain = <<>> /\ walker = NoSession /\ ended = "not begun"
      BY DEF LineageInit
    <3>2. \A i \in DOMAIN chain : FALSE
      <4>1. chain = <<>>
        BY <3>1
      <4> QED
        BY <4>1
    <3> QED
      BY <3>1, <3>2 DEF Walked, Steps
  <2>4. Ranked
    <3>1. \E f \in [Session -> Nat] : \A s \in Session : f[s] = 0
      <4>1. [s \in Session |-> 0] \in [Session -> Nat]
        OBVIOUS
      <4> QED
        BY <4>1
    <3>2. PICK f \in [Session -> Nat] : \A s \in Session : f[s] = 0
      BY <3>1
    <3>3. /\ births = 0 /\ linked = {} /\ ended = "not begun"
          /\ \A s \in Session : disk[s] = "nothing"
      BY DEF LineageInit
    <3>4. Ranks(f)
      <4>1. ASSUME NEW s \in Session
            PROVE  f[s] <= births
        <5>1. f[s] = 0 /\ births = 0
          BY <3>2, <3>3
        <5>2. 0 <= 0
          OBVIOUS
        <5> QED
          BY <5>1, <5>2
      <4> QED
        BY <3>3, <4>1 DEF Ranks
    <3> QED
      BY <3>3, <3>4 DEF Ranked
  <2> QED
    BY <2>1, <2>2, <2>3, <2>4 DEF LineageInv
<1>2. LineageInv /\ [LineageNext]_lineageVars => LineageInv'
  <2> SUFFICES ASSUME LineageInv, [LineageNext]_lineageVars
               PROVE  LineageInv'
    OBVIOUS
  <2>1. making \in [Session -> MakingStage]
    BY DEF LineageInv, LineageTypes
  <2>2. ASSUME NEW s \in Session, NEW parent \in Session \cup {NoSession}, Begin(s, parent)
        PROVE  LineageInv'
    BY <2>2, BeginSessionStep
  <2>3. ASSUME NEW s \in Session, WriteRecord(s)
        PROVE  LineageInv'
    BY <2>3, WriteRecordStep
  <2>4. ASSUME NEW s \in Session, OpenBrief(s)
        PROVE  LineageInv'
    BY <2>1, <2>4, BriefStep DEF OpenBrief, Writes, origins, MakingStage
  <2>5. ASSUME NEW s \in Session, FillBrief(s)
        PROVE  LineageInv'
    BY <2>1, <2>5, BriefStep DEF FillBrief, Writes, origins, MakingStage
  <2>6. ASSUME NEW s \in Session, MakerDies(s)
        PROVE  LineageInv'
    BY <2>1, <2>6, BriefStep DEF MakerDies, origins, MakingStage
  <2>7. ASSUME NEW s \in Session, PlanSession(s) \/ EndSession(s)
        PROVE  LineageInv'
    BY <2>1, <2>7, BriefStep DEF PlanSession, EndSession, origins
  <2>8. ASSUME NEW s \in Session, ArchiveSession(s)
        PROVE  LineageInv'
    BY <2>8, ArchiveSessionStep
  <2>9. ASSUME NEW s \in Session, StartWalk(s)
        PROVE  LineageInv'
    BY <2>9, StartWalkStep
  <2>10. CASE WalkStep
    BY <2>10, WalkStepStep
  <2>11. CASE ReadFails
    BY <2>11, ReadFailsStep
  <2>12. CASE UNCHANGED lineageVars
    BY <2>1, <2>12, BriefStep DEF lineageVars, walkVars
  <2> QED
    BY <2>2, <2>3, <2>4, <2>5, <2>6, <2>7, <2>8, <2>9, <2>10, <2>11, <2>12 DEF LineageNext
<1>3. LineageInv => AncestorsOnce
  BY DEF LineageInv, Walked, Steps, Ranked, AncestorsOnce
<1> QED
  BY <1>1, <1>2, <1>3, PTL DEF LineageSpec
=============================================================================
